----------------------------- MODULE ServerPower -----------------------------
(***************************************************************************)
(* One game server on one daemon: the goroutines that run its power        *)
(* actions, the environment state they publish, the Docker container they  *)
(* drive, the console reader, the handlers of state-change events and the  *)
(* goroutines that delete the server.                                      *)
(*                                                                         *)
(*   daemon/server/power.go        HandlePowerAction, HandleReset          *)
(*   daemon/server/listeners.go    event handlers, console output          *)
(*   daemon/server/server.go       OnStateChange, Delete                   *)
(*   daemon/environment/docker     Start, Stop, WaitForStop, Terminate ... *)
(*   daemon/system/locker.go       the power lock                          *)
(*                                                                         *)
(* A step is the work between two points where another goroutine can       *)
(* interfere: a Docker call, a SetState, a lock operation, a mount.  Every *)
(* Docker call made with the server's context fails once that context is   *)
(* cancelled, and may fail at any time (DockerError).                      *)
(***************************************************************************)
EXTENDS Integers, FiniteSets

CONSTANTS Procs,      \* goroutines that serve one API request each
          Slots,      \* goroutines available to handle state-change events
          Ops,        \* the requests this instance issues
          StopType,   \* procConfig.Stop.Type: "signal", "command" or "native"
          Saves,      \* the values of Server.save to start from
          Boots,      \* what LoadServers found: "offline", "running" or "paused"
          CanCrash,   \* whether the game process may exit unasked
          MaxGen      \* how many containers may be created

AllOps == {"start", "stop", "restart", "kill", "pause", "unpause",
           "reset", "limit", "command", "delete"}

ASSUME ConstantsAssumption ==
    /\ Ops \subseteq AllOps
    /\ StopType \in {"signal", "command", "native"}
    /\ Saves \subseteq BOOLEAN
    /\ Boots \subseteq {"offline", "running", "paused"}
    /\ CanCrash \in BOOLEAN
    /\ MaxGen \in Nat \ {0}
    /\ Procs \cap Slots = {}

States == {"offline", "starting", "running", "stopping", "paused"}

Online == {"starting", "running"}       \* what Server.IsRunning accepts

\* State.Running of a container, which Docker also reports for a paused one.
Alive == {"running", "paused"}

\* A container that exists and does not run.
Down == {"created", "exited"}

Containers == {"none"} \cup Down \cup Alive

Deleters == Procs \cup Slots

\* Where a request can be.
ProcPC ==
    {"idle", "lock", "return", "done",
     "check", "sync", "mount", "inspect", "reattach",
     "remove", "create", "attach", "run", "errStop", "errOff", "startFail",
     "stop", "send", "sendSig", "sendOff", "native", "wait",
     "term", "termKill", "termOff", "stopped",
     "pause", "pauseDo", "pauseCall", "pauseSet",
     "unpause", "unpauseDo", "unpauseCall", "unpauseSet",
     "reset", "resetLock", "resetStop", "resetSend", "resetSig", "resetOff",
     "resetNative", "resetFs",
     "command", "sendCmd"}

HandlerPC == {"free", "queued", "read", "store", "tail"}

\* Where a Delete can be.  "gone": Docker has removed the container.
DeletePC == {"none", "suspend", "cancel", "cleanup", "destroy", "rm",
             "gone", "failed", "unlist", "files"}

VARIABLES
    lock,       \* powerLock.ch: empty ("free"), full ("held") or closed ("nil")
    holds,      \* holds[p]: p acquired the lock and has yet to release it
    pc, op,     \* per request
    save,       \* Server.save
    st,         \* Environment.st
    ctr, gen,   \* the Docker container and how many were created before it
    asked,      \* the game process has been asked to stop
    stream,     \* Environment.stream # nil
    reader,     \* the goroutine of Attach, one per container
    console,    \* a console line being processed by onConsoleOutput
    handler,    \* the state-change events and their handlers
    tracked,    \* resources.State
    mounted,    \* the overlay volume
    suspended, ctxDone, listening, removed, del

dockerVars == <<ctr, gen, asked>>
attachVars == <<stream, reader>>
deleteVars == <<suspended, ctxDone, listening, removed, del>>
vars == <<lock, holds, pc, op, save, st, dockerVars, attachVars, console,
          handler, tracked, mounted, deleteVars>>

\* The event's state, and what OnStateChange has read.
Handler(l, data, prev, cur) == [pc |-> l, data |-> data, prev |-> prev, cur |-> cur]

FreeHandler == Handler("free", "offline", "offline", "offline")

Handlers == [pc : HandlerPC, data : States, prev : States, cur : States]

TypeOK ==
    /\ lock \in {"free", "held", "nil"}
    /\ holds \in [Procs -> BOOLEAN]
    /\ pc \in [Procs -> ProcPC]
    /\ op \in [Procs -> AllOps \cup {"none"}]
    /\ save \in BOOLEAN
    /\ st \in States
    /\ ctr \in Containers
    /\ gen \in 0 .. MaxGen
    /\ asked \in BOOLEAN
    /\ stream \in BOOLEAN
    /\ reader \in [0 .. MaxGen -> {"none", "scan", "eof"}]
    /\ console \in {"idle", "done", "stop"}
    /\ handler \in [Slots -> Handlers]
    /\ tracked \in States
    /\ mounted \in BOOLEAN
    /\ suspended \in BOOLEAN
    /\ ctxDone \in BOOLEAN
    /\ listening \in BOOLEAN
    /\ removed \in BOOLEAN
    /\ del \in [Deleters -> DeletePC]

(* A server that InitServer has just built, one that LoadServers found       *)
(* running and attached to, or one it found paused: that one is marked as    *)
(* offline, which unmounts its overlay.                                      *)
Init ==
    /\ lock = "free"
    /\ holds = [p \in Procs |-> FALSE]
    /\ pc = [p \in Procs |-> "idle"]
    /\ op = [p \in Procs |-> "none"]
    /\ save \in Saves
    /\ ctr \in {IF b = "offline" THEN "none" ELSE b : b \in Boots}
    /\ st = IF ctr = "running" THEN "running" ELSE "offline"
    /\ gen = 0
    /\ asked = FALSE
    /\ stream = (ctr = "running")
    /\ reader = [g \in 0 .. MaxGen |-> IF g = 0 /\ ctr = "running" THEN "scan" ELSE "none"]
    /\ console = "idle"
    /\ handler = [h \in Slots |-> FreeHandler]
    /\ tracked = st
    /\ mounted = (ctr = "running")
    /\ suspended = FALSE
    /\ ctxDone = FALSE
    /\ listening = TRUE
    /\ removed = FALSE
    /\ del = [d \in Deleters |-> "none"]

-----------------------------------------------------------------------------
(* The environment state and its events.                                     *)

\* Events().Publish: the listener starts one goroutine per event.  The number
\* of slots bounds how many are unfinished at a time.
Publish(s) ==
    IF listening
      THEN \E h \in Slots :
             /\ handler[h].pc = "free"
             /\ handler' = [handler EXCEPT ![h] = Handler("queued", s, "offline", "offline")]
      ELSE UNCHANGED handler

SetState(s) ==
    IF st = s THEN UNCHANGED <<st, handler>>
              ELSE st' = s /\ Publish(s)

\* p moves to label l.
Goto(p, l) == pc' = [pc EXCEPT ![p] = l]

\* The variables only the steps of other parts change.
Elsewhere == UNCHANGED <<op, save, console, tracked, suspended, ctxDone, listening, removed>>

NoState == UNCHANGED <<st, handler>>
NoLock == UNCHANGED <<lock, holds>>
NoDocker == UNCHANGED <<dockerVars, attachVars>>

\* A step of p from label l to label m that only sets the environment state.
Mark(p, l, s, m) ==
    /\ pc[p] = l
    /\ SetState(s)
    /\ Goto(p, m)
    /\ NoLock /\ NoDocker /\ UNCHANGED <<mounted, del>> /\ Elsewhere

\* A step of p from label l to label m that changes nothing else.
Skip(p, l, m) ==
    /\ pc[p] = l
    /\ Goto(p, m)
    /\ NoState /\ NoLock /\ NoDocker /\ UNCHANGED <<mounted, del>> /\ Elsewhere

\* A step of p from label l to label m that only changes the container.
Docker(p, l, c, m) ==
    /\ pc[p] = l
    /\ ~ctxDone
    /\ ctr' = c
    /\ Goto(p, m)
    /\ NoState /\ NoLock /\ UNCHANGED <<gen, asked, attachVars, mounted, del>> /\ Elsewhere

-----------------------------------------------------------------------------
(* Requests and the power lock.                                              *)

\* postServerPower, postServerReset, postServerCommands, deleteServer, and the
\* disk limiter's Trigger.  The router finds the server in the manager first.
Request(p) ==
    /\ pc[p] = "idle"
    /\ ~removed
    /\ \E o \in Ops :
         /\ op' = [op EXCEPT ![p] = o]
         /\ \/ o \in {"start", "restart"} /\ suspended /\ Goto(p, "done")
            \/ o \in {"start", "restart"} /\ ~suspended /\ Goto(p, "lock")
            \/ o \in {"stop", "kill", "pause", "unpause"} /\ Goto(p, "lock")
            \/ o \in {"reset", "command"} /\ Goto(p, o)
            \/ /\ o = "limit" /\ Goto(p, "stop")
               /\ st \in Online
               /\ \A q \in Procs : op[q] # "limit"
            \/ o = "delete" /\ Goto(p, "done")
         /\ del' = IF o = "delete" THEN [del EXCEPT ![p] = "suspend"] ELSE del
    /\ NoState /\ NoLock /\ NoDocker
    /\ UNCHANGED <<save, console, tracked, mounted, suspended, ctxDone, listening, removed>>

\* Only these wait for the lock, or give up without it.
Locked == {"start", "stop", "restart"}

\* The first step of the switch on the action.
Entry(o) ==
    IF o = "start" THEN "check"
    ELSE IF o = "kill" THEN "term"
    ELSE IF o \in {"pause", "unpause"} THEN o
    ELSE "stop"

\* Locker.Acquire and TryAcquire when the channel is empty.
Acquire(p) ==
    /\ lock = "free"
    /\ lock' = "held"
    /\ holds' = [holds EXCEPT ![p] = TRUE]

\* Locker.Release drains the channel, whoever filled it.
Release(p) ==
    /\ lock' = IF lock = "nil" THEN "nil" ELSE "free"
    /\ holds' = [holds EXCEPT ![p] = FALSE]

AcquireLock(p) ==
    /\ pc[p] = "lock"
    /\ Acquire(p)
    /\ Goto(p, Entry(op[p]))
    /\ NoState /\ NoDocker /\ UNCHANGED <<mounted, del>> /\ Elsewhere

\* Mutants of AcquireFails: a start goes ahead without the lock; a kill waits.
AcquireIgnored(p) ==
    lock # "free" /\ Skip(p, "lock", Entry(op[p]))
AcquireOrWait(p) ==
    lock # "free" /\ op[p] \in Locked /\ Skip(p, "lock", "done")

\* No lock: Acquire found the channel full or closed, or TryAcquire ran into
\* its deadline.  Termination, pause and unpause go ahead without it.
AcquireFails(p) ==
    /\ lock # "free" \/ (ctxDone /\ op[p] \in Locked)
    /\ Skip(p, "lock", IF op[p] \in Locked THEN "done" ELSE Entry(op[p]))

\* The deferred cleanup of HandlePowerAction, or an error return of HandleReset.
Return(p) ==
    /\ pc[p] = "return"
    /\ IF holds[p] THEN Release(p) ELSE NoLock
    /\ Goto(p, "done")
    /\ NoState /\ NoDocker /\ UNCHANGED <<mounted, del>> /\ Elsewhere

\* Mutant of SpawnDelete: the save flag is not consulted.
SpawnDeleteAlways(p) ==
    del' = [del EXCEPT ![p] = "suspend"]

\* go s.Delete(), by p and for an ephemeral server only.
SpawnDelete(p) ==
    del' = IF save THEN del ELSE [del EXCEPT ![p] = "suspend"]

-----------------------------------------------------------------------------
(* Starting: onBeforeStart, then Environment.Start.                          *)

\* The switch on the environment state that a start begins with.
CheckState(p) ==
    \/ st = "paused" /\ Skip(p, "check", "unpauseDo")
    \/ st = "offline" /\ Skip(p, "check", "sync")
    \/ st \notin {"paused", "offline"} /\ Skip(p, "check", "return")

\* Sync with protocube, the suspension check and the base installation (see
\* InstallLock).  All of them need the server's context.  An installation ends
\* by setting the state, whatever it is by then.
Preflight(p) ==
    \/ ~ctxDone /\ ~suspended /\ (Skip(p, "sync", "mount") \/ Mark(p, "sync", "offline", "mount"))
    \/ Skip(p, "sync", "startFail") \/ Mark(p, "sync", "offline", "startFail")

\* Overlay.Mount, then the bind mount permissions; neither looks at the context.
Mount(p) ==
    /\ pc[p] = "mount"
    /\ mounted' = TRUE
    /\ \E l \in {"inspect", "startFail"} : Goto(p, l)
    /\ NoState /\ NoLock /\ NoDocker /\ UNCHANGED del /\ Elsewhere

InspectStart(p) ==
    /\ ~ctxDone
    /\ \/ ctr = "paused" /\ Mark(p, "inspect", "paused", "startFail")
       \/ ctr = "running" /\ Mark(p, "inspect", "running", "reattach")
       \/ ctr \notin Alive /\ Mark(p, "inspect", "starting", "remove")

\* ContainerRemove without Force refuses a live container (DockerError).
RemoveContainer(p) ==
    /\ ctr \notin Alive
    /\ Docker(p, "remove", "none", "create")

\* Create runs under a context of its own.  It keeps a container that exists.
CreateContainer(p) ==
    /\ pc[p] = "create"
    /\ IF ctr # "none"
         THEN UNCHANGED dockerVars
         ELSE /\ gen < MaxGen
              /\ gen' = gen + 1
              /\ ctr' = "created"
              /\ asked' = FALSE
    /\ Goto(p, "attach")
    /\ NoState /\ NoLock /\ UNCHANGED <<attachVars, mounted, del>> /\ Elsewhere

\* Attach does nothing when a stream is still set.  Otherwise it opens one on
\* the present container and starts its reader.
Attach(p, l, m) ==
    /\ pc[p] = l
    /\ \/ stream /\ UNCHANGED attachVars
       \/ /\ ~stream /\ ~ctxDone /\ ctr # "none"
          /\ stream' = TRUE
          /\ reader' = [reader EXCEPT ![gen] = "scan"]
    /\ Goto(p, m)
    /\ NoState /\ NoLock /\ UNCHANGED <<dockerVars, mounted, del>> /\ Elsewhere

\* Mutant of ContainerStart: the call uses a background context.
ContainerStartDetached(p) ==
    /\ pc[p] = "run"
    /\ ctr \notin {"none", "paused"}
    /\ ctr' = "running"
    /\ Goto(p, "return")
    /\ NoState /\ NoLock /\ UNCHANGED <<gen, asked, attachVars, mounted, del>> /\ Elsewhere

ContainerStart(p) ==
    /\ ctr \notin {"none", "paused"}
    /\ Docker(p, "run", "running", "return")

\* The deferred handler of Environment.Start after an error.
StartError(p) ==
    \/ Mark(p, "errStop", "stopping", "errOff")
    \/ Mark(p, "errOff", "offline", "startFail")

\* HandlePowerAction after a failed onBeforeStart or Environment.Start.
StartFail(p) ==
    /\ pc[p] = "startFail"
    /\ SpawnDelete(p)
    /\ Goto(p, "return")
    /\ NoState /\ NoLock /\ NoDocker /\ UNCHANGED mounted /\ Elsewhere

Start(p) ==
    \/ CheckState(p) \/ Preflight(p) \/ Mount(p) \/ InspectStart(p)
    \/ RemoveContainer(p) \/ CreateContainer(p)
    \/ Attach(p, "reattach", "return") \/ Attach(p, "attach", "run")
    \/ ContainerStart(p) \/ StartError(p) \/ StartFail(p)

-----------------------------------------------------------------------------
(* Stopping: Environment.Stop, WaitForStop and Terminate.                    *)

\* Environment.Stop is called by WaitForStop, and by HandleReset right before
\* it calls WaitForStop: the same code under two sets of labels.
InWaitForStop == [mark |-> "stop", send |-> "send", sig |-> "sendSig",
                  off |-> "sendOff", native |-> "native", next |-> "wait"]
InHandleReset == [mark |-> "resetStop", send |-> "resetSend", sig |-> "resetSig",
                  off |-> "resetOff", native |-> "resetNative", next |-> "stop"]

\* An offline process stays offline, anything else is marked as stopping.
StopMark(p, L) ==
    IF st = "offline" THEN Skip(p, L.mark, L.send)
                      ELSE Mark(p, L.mark, "stopping", L.send)

\* A graceful signal or ContainerStop reaches the process; Docker resumes a
\* paused container to deliver it.
Ask(p, l, m) ==
    /\ pc[p] = l
    /\ ~ctxDone
    /\ ctr \in Alive
    /\ ctr' = "running"
    /\ asked' = TRUE
    /\ Goto(p, m)
    /\ NoState /\ NoLock /\ UNCHANGED <<gen, attachVars, mounted, del>> /\ Elsewhere

\* SignalContainer with the configured signal.
StopBySignal(p, L) ==
    /\ StopType = "signal"
    /\ \/ /\ ~ctxDone
          /\ \/ ctr \in Alive /\ Mark(p, L.send, "stopping", L.sig)
             \/ ctr = "none" /\ Skip(p, L.send, L.next)
             \/ ctr \in Down /\ st = "offline" /\ Skip(p, L.send, L.next)
             \/ ctr \in Down /\ st # "offline" /\ Mark(p, L.send, "stopping", L.off)
       \/ Ask(p, L.sig, L.next)
       \/ ctr = "none" /\ ~ctxDone /\ Skip(p, L.sig, L.next)
       \/ Mark(p, L.off, "offline", L.next)

\* SendCommand with the stop command, which marks the server as stopping.  A
\* paused process does not read its input.
SendCommand(p, l, m) ==
    /\ StopType = "command"
    /\ stream
    /\ pc[p] = l
    /\ SetState("stopping")
    /\ asked' = (asked \/ ctr = "running")
    /\ Goto(p, m)
    /\ NoLock /\ UNCHANGED <<ctr, gen, attachVars, mounted, del>> /\ Elsewhere

\* ContainerStop with a time limit of -1: it returns when the container has
\* stopped.  A container that is not there is marked offline.
StopNatively(p, L) ==
    /\ StopType = "native" \/ (StopType = "command" /\ ~stream) \/ pc[p] = L.native
    /\ \/ Ask(p, L.send, L.native)
       \/ ctr \in Down /\ ~ctxDone /\ Skip(p, L.send, L.next)
       \/ /\ ctr = "none"
          /\ ~ctxDone
          /\ pc[p] = L.send
          /\ stream' = FALSE
          /\ SetState("offline")
          /\ Goto(p, L.next)
          /\ NoLock /\ UNCHANGED <<dockerVars, reader, mounted, del>> /\ Elsewhere
       \/ ctr \notin Alive /\ ~ctxDone /\ Skip(p, L.native, L.next)

EnvironmentStop(p, L) ==
    \/ StopMark(p, L)
    \/ StopBySignal(p, L)
    \/ SendCommand(p, L.send, L.next)
    \/ StopNatively(p, L)

\* WaitForStop after Stop: the container is down, or the time is up.  Only
\* here does a deadline end a ContainerStop that hangs.
ContainerWait(p) == ctr \notin Alive /\ Skip(p, "wait", "stopped")

\* Mutant of StopTimeout: only the stop call has a deadline.
StopTimeoutOnce(p) == Skip(p, "native", "term")

StopTimeout(p) == Skip(p, "wait", "term") \/ Skip(p, "native", "term")

\* Terminate: SignalContainer with SIGKILL, then mark the server offline.
TerminateSignal(p) ==
    /\ ~ctxDone
    /\ \/ ctr \in Alive /\ Mark(p, "term", "stopping", "termKill")
       \/ ctr = "none" /\ Skip(p, "term", "termOff")
       \/ ctr \in Down /\ st = "offline" /\ Skip(p, "term", "termOff")
       \/ ctr \in Down /\ st # "offline" /\ Mark(p, "term", "stopping", "termOff")

ContainerKill(p) ==
    /\ ctr \in Alive \cup {"none"}
    /\ Docker(p, "termKill", IF ctr \in Alive THEN "exited" ELSE "none", "termOff")

\* Mutant of AfterStop: only a kill deletes an ephemeral server.
AfterStopKeep(p) ==
    \/ op[p] = "restart" /\ Goto(p, "sync") /\ UNCHANGED del
    \/ op[p] = "reset" /\ Goto(p, "resetFs") /\ UNCHANGED del
    \/ op[p] = "kill" /\ Goto(p, "return") /\ SpawnDelete(p)
    \/ op[p] \notin {"restart", "reset", "kill"} /\ Goto(p, "return") /\ UNCHANGED del

\* What follows a stop that succeeded.
AfterStop(p) ==
    \/ op[p] = "restart" /\ Goto(p, "sync") /\ UNCHANGED del
    \/ op[p] = "reset" /\ Goto(p, "resetFs") /\ UNCHANGED del
    \/ op[p] \in {"stop", "kill"} /\ Goto(p, "return") /\ SpawnDelete(p)
    \/ op[p] = "limit" /\ Goto(p, "return") /\ UNCHANGED del

Stopped(p) ==
    /\ pc[p] = "stopped"
    /\ AfterStop(p)
    /\ NoState /\ NoLock /\ NoDocker /\ UNCHANGED mounted /\ Elsewhere

Stop(p) ==
    \/ EnvironmentStop(p, InWaitForStop) \/ ContainerWait(p) \/ StopTimeout(p)
    \/ TerminateSignal(p) \/ ContainerKill(p)
    \/ Mark(p, "termOff", "offline", "stopped")
    \/ Stopped(p)

-----------------------------------------------------------------------------
(* Pausing.                                                                  *)

\* HandlePowerAction looks at Docker when the state does not settle it.
PauseCheck(p) ==
    \/ st = "paused" /\ Skip(p, "pause", "return")
    \/ st = "running" /\ Skip(p, "pause", "pauseDo")
    \/ /\ st \notin {"paused", "running"} /\ ~ctxDone
       /\ \/ ctr = "running" /\ Skip(p, "pause", "pauseDo")
          \/ ctr = "paused" /\ Mark(p, "pause", "paused", "return")
          \/ ctr \notin Alive /\ Skip(p, "pause", "return")

UnpauseCheck(p) ==
    \/ st = "paused" /\ Skip(p, "unpause", "unpauseDo")
    \/ /\ st # "paused" /\ ~ctxDone
       /\ \/ ctr = "paused" /\ Mark(p, "unpause", "paused", "unpauseDo")
          \/ ctr # "paused" /\ Skip(p, "unpause", "return")

\* Environment.Pause and Environment.Unpause inspect the container, call Docker
\* and set the state; a container that vanished in between is no error.
Pause(p) ==
    \/ /\ ~ctxDone
       /\ \/ ctr = "running" /\ Skip(p, "pauseDo", "pauseCall")
          \/ ctr = "paused" /\ Mark(p, "pauseDo", "paused", "return")
          \/ ctr \notin Alive /\ Skip(p, "pauseDo", "return")
    \/ ctr = "running" /\ Docker(p, "pauseCall", "paused", "pauseSet")
    \/ ctr = "none" /\ Docker(p, "pauseCall", "none", "pauseSet")
    \/ Mark(p, "pauseSet", "paused", "return")

Unpause(p) ==
    \/ /\ ~ctxDone
       /\ \/ ctr = "paused" /\ Skip(p, "unpauseDo", "unpauseCall")
          \/ ctr = "running" /\ Mark(p, "unpauseDo", "running", "return")
          \/ ctr \notin Alive /\ Skip(p, "unpauseDo", "return")
    \/ ctr = "paused" /\ Docker(p, "unpauseCall", "running", "unpauseSet")
    \/ ctr = "none" /\ Docker(p, "unpauseCall", "none", "unpauseSet")
    \/ Mark(p, "unpauseSet", "running", "return")

-----------------------------------------------------------------------------
(* Resetting the overlay, and the API's console commands.                    *)

\* IsRunning; the lock is taken only for a running container.
ResetCheck(p) ==
    /\ ~ctxDone
    /\ \/ ctr = "paused" /\ Mark(p, "reset", "paused", "resetFs")
       \/ ctr = "running" /\ Skip(p, "reset", "resetLock")
       \/ ctr \in Down /\ Skip(p, "reset", "resetFs")
       \/ ctr = "none" /\ Skip(p, "reset", "return")

ResetLock(p) ==
    /\ pc[p] = "resetLock"
    /\ IF lock = "free" THEN Acquire(p) /\ Goto(p, "resetStop")
                        ELSE NoLock /\ Goto(p, "return")
    /\ NoState /\ NoDocker /\ UNCHANGED <<mounted, del>> /\ Elsewhere

\* Overlay.Reset unmounts the volume.  A server that was running (it is the
\* one whose lock p holds) is started again, after the lock was released.
ResetOverlay(p) ==
    /\ pc[p] = "resetFs"
    /\ mounted' = FALSE
    /\ IF holds[p]
         THEN /\ Release(p)
              /\ op' = [op EXCEPT ![p] = "start"]
              /\ Goto(p, "lock")
         ELSE NoLock /\ UNCHANGED op /\ Goto(p, "return")
    /\ NoState /\ NoDocker
    /\ UNCHANGED <<del, save, console, tracked, suspended, ctxDone, listening, removed>>

Reset(p) ==
    \/ ResetCheck(p) \/ ResetLock(p) \/ ResetOverlay(p)
    \/ EnvironmentStop(p, InHandleReset)
    \/ Skip(p, "resetFs", "return")

\* postServerCommands with the stop command.  IsRunning uses the context of
\* the HTTP request.
Command(p) ==
    \/ ctr = "running" /\ Skip(p, "command", "sendCmd")
    \/ ctr = "paused" /\ Mark(p, "command", "paused", "done")
    \/ ctr \notin Alive /\ Skip(p, "command", "done")
    \/ SendCommand(p, "sendCmd", "done")
    \/ (~stream \/ StopType # "command") /\ Skip(p, "sendCmd", "done")

\* A Docker call or a write to the container's stream returns an error: at any
\* time, and always once the server's context is cancelled.
DockerError(p) ==
    \/ \E l \in {"inspect", "reattach"} : Skip(p, l, "startFail")
    \/ \E l \in {"remove", "create", "attach", "run"} : Skip(p, l, "errStop")
    \/ \E l \in {"send", "sendSig", "native", "term", "termKill", "pauseDo", "pauseCall",
                 "unpauseDo", "unpauseCall", "reset", "resetSend", "resetSig", "resetNative"} :
         Skip(p, l, "return")
    \/ st \notin {"paused", "running"} /\ Skip(p, "pause", "return")
    \/ st # "paused" /\ Skip(p, "unpause", "return")
    \/ Skip(p, "command", "done")

ProcStep(p) ==
    \/ AcquireLock(p) \/ AcquireFails(p) \/ Return(p)
    \/ Start(p) \/ Stop(p) \/ Reset(p) \/ Command(p)
    \/ PauseCheck(p) \/ Pause(p) \/ UnpauseCheck(p) \/ Unpause(p)
    \/ DockerError(p)

-----------------------------------------------------------------------------
(* The game process and its console.                                         *)

\* The variables of requests and deletions.
NoRequest == UNCHANGED <<lock, holds, pc, op, save>>

ProcessExit ==
    /\ ctr = "running"
    /\ CanCrash \/ asked
    /\ ctr' = "exited"
    /\ NoRequest /\ NoState
    /\ UNCHANGED <<gen, asked, attachVars, console, tracked, mounted, deleteVars>>

\* The reader of container g still has output to scan, or is at its end.
HasOutput(g) == reader[g] = "scan" /\ ~(g = gen /\ ctr \in {"created", "none"})
AtEnd(g) == reader[g] = "scan" /\ (g # gen \/ ctr \in {"exited", "none"})

\* The deferred calls of Attach's goroutine: SetState, then SetStream(nil).
ReaderEnd(g) ==
    /\ \/ /\ AtEnd(g)
          /\ SetState("offline")
          /\ reader' = [reader EXCEPT ![g] = "eof"]
          /\ UNCHANGED stream
       \/ /\ reader[g] = "eof"
          /\ stream' = FALSE
          /\ reader' = [reader EXCEPT ![g] = "none"]
          /\ NoState
    /\ NoRequest
    /\ UNCHANGED <<dockerVars, console, tracked, mounted, deleteVars>>

\* onConsoleOutput runs in a goroutine of its own.  It tests the state first.
ConsoleRead ==
    /\ console = "idle"
    /\ \E g \in 0 .. MaxGen : HasOutput(g)
    /\ \/ st = "starting" /\ console' = "done" /\ UNCHANGED asked
       \/ /\ StopType = "command" /\ st \in Online
          /\ console' = "stop"
          /\ asked' = TRUE
    /\ NoRequest /\ NoState
    /\ UNCHANGED <<ctr, gen, attachVars, tracked, mounted, deleteVars>>

\* Mutant of ConsoleSet: a state SetState does not know.
ConsoleSetUnknown ==
    /\ console # "idle"
    /\ SetState(IF console = "done" THEN "started" ELSE "offline")
    /\ console' = "idle"
    /\ NoRequest
    /\ UNCHANGED <<dockerVars, attachVars, tracked, mounted, deleteVars>>

\* It sets the state of the done line, or of the stop command, afterwards.
ConsoleSet ==
    /\ console # "idle"
    /\ SetState(IF console = "done" THEN "running" ELSE "offline")
    /\ console' = "idle"
    /\ NoRequest
    /\ UNCHANGED <<dockerVars, attachVars, tracked, mounted, deleteVars>>

-----------------------------------------------------------------------------
(* The handler of a state-change event, one goroutine each.                  *)

NoProcess == UNCHANGED <<dockerVars, attachVars, console>>

\* The listener unmounts on the event's state; OnStateChange goes by the
\* tracked and the present states.
HandleEvent(h) ==
    /\ handler[h].pc = "queued"
    /\ mounted' = (mounted /\ handler[h].data # "offline")
    /\ handler' = [handler EXCEPT ![h] = Handler("read", "offline", tracked, "offline")]
    /\ NoRequest /\ NoProcess /\ UNCHANGED <<st, tracked, deleteVars>>

ReadState(h) ==
    /\ handler[h].pc = "read"
    /\ handler' = [handler EXCEPT ![h] = Handler("store", "offline", handler[h].prev, st)]
    /\ NoRequest /\ NoProcess /\ UNCHANGED <<st, tracked, mounted, deleteVars>>

\* A server that was online and now is offline counts as crashed.
Crashed(h) == handler[h].prev \in Online /\ handler[h].cur = "offline"

StoreState(h) ==
    /\ handler[h].pc = "store"
    /\ tracked' = handler[h].cur
    /\ handler' = [handler EXCEPT ![h] =
                     IF Crashed(h) THEN Handler("tail", "offline", "offline", "offline")
                                   ELSE FreeHandler]
    /\ NoRequest /\ NoProcess /\ UNCHANGED <<st, mounted, deleteVars>>

\* handleServerCrash, which only reports, and the deletion of an ephemeral server that no power
\* action is working on.
HandleCrash(h) ==
    /\ handler[h].pc = "tail"
    /\ del[h] = "none"      \* a bound: each slot runs one Delete at a time
    /\ del' = IF ~save /\ lock # "held" THEN [del EXCEPT ![h] = "suspend"] ELSE del
    /\ handler' = [handler EXCEPT ![h] = FreeHandler]
    /\ NoRequest /\ NoProcess
    /\ UNCHANGED <<st, tracked, mounted, suspended, ctxDone, listening, removed>>

\* The listener goroutine leaves with the context; events that it has not
\* passed to a goroutine yet are lost.
ListenerExit ==
    /\ ctxDone /\ listening
    /\ listening' = FALSE
    /\ \E lost \in SUBSET {h \in Slots : handler[h].pc = "queued"} :
         handler' = [h \in Slots |-> IF h \in lost THEN FreeHandler ELSE handler[h]]
    /\ NoRequest /\ NoProcess
    /\ UNCHANGED <<st, tracked, mounted, suspended, ctxDone, removed, del>>

-----------------------------------------------------------------------------
(* Delete, by the goroutine d.                                               *)

DelGoto(d, l, m) == del[d] = l /\ del' = [del EXCEPT ![d] = m]

NoLifecycle == UNCHANGED <<pc, op, save, holds, attachVars, console, tracked>>

\* SetSuspended and the notifications, then CleanupForDestroy: CtxCancel, and
\* last Locker.Destroy on the power lock.
Cleanup(d) ==
    /\ \/ DelGoto(d, "suspend", "cancel")
       \/ DelGoto(d, "cancel", "cleanup")
       \/ DelGoto(d, "cleanup", "destroy")
    /\ suspended' = TRUE
    /\ ctxDone' = (ctxDone \/ del[d] = "cancel")
    /\ lock' = IF del[d] = "cleanup" THEN "nil" ELSE lock
    /\ NoState /\ NoLifecycle /\ UNCHANGED <<dockerVars, mounted, listening, removed>>

\* Environment.Destroy sets both states whatever Docker answers.
DestroyEnvironment(d) ==
    /\ \/ DelGoto(d, "destroy", "rm") /\ SetState("stopping") /\ UNCHANGED ctr
       \/ DelGoto(d, "rm", "gone") /\ ctr' = "none" /\ NoState
       \/ DelGoto(d, "rm", "failed") /\ UNCHANGED ctr /\ NoState
       \/ DelGoto(d, "gone", "unlist") /\ SetState("offline") /\ UNCHANGED ctr
       \/ DelGoto(d, "failed", "none") /\ SetState("offline") /\ UNCHANGED ctr
    /\ NoLifecycle
    /\ UNCHANGED <<lock, gen, asked, mounted, suspended, ctxDone, listening, removed>>

\* Remove takes the server out of the manager; a goroutine deletes its files.
RemoveServer(d) ==
    /\ DelGoto(d, "unlist", "files") \/ DelGoto(d, "files", "none")
    /\ removed' = TRUE
    /\ mounted' = (mounted /\ del[d] # "files")
    /\ NoState /\ NoLifecycle
    /\ UNCHANGED <<lock, dockerVars, suspended, ctxDone, listening>>

Delete(d) == Cleanup(d) \/ DestroyEnvironment(d) \/ RemoveServer(d)

-----------------------------------------------------------------------------
HandlerStep(h) == HandleEvent(h) \/ ReadState(h) \/ StoreState(h) \/ HandleCrash(h)

Next ==
    \/ \E p \in Procs : Request(p) \/ ProcStep(p)
    \/ \E h \in Slots : HandlerStep(h)
    \/ \E g \in 0 .. MaxGen : ReaderEnd(g)
    \/ \E d \in Deleters : Delete(d)
    \/ ProcessExit \/ ConsoleRead \/ ConsoleSet \/ ListenerExit

Spec == Init /\ [][Next]_vars

-----------------------------------------------------------------------------
(* Safety.                                                                   *)

\* p is inside a start, stop or restart, or a reset that stops the server.
Working(p) ==
    /\ op[p] \in Locked \cup {"reset"}
    /\ pc[p] \notin {"idle", "lock", "done", "reset", "resetLock"}
    /\ op[p] = "reset" => holds[p]

\* Starts, stops and restarts exclude each other (the doc of HandlePowerAction:
\* it "guards against someone calling Start() twice at the same time, or trying
\* to restart while another restart process is currently running"), also when
\* kills and pauses pass through the lock and a deletion destroys it.
PowerExclusion == \A p, q \in Procs : Working(p) /\ Working(q) => p = q

\* Once a deletion has taken the server out of the manager its container never
\* runs again, however far a start had got: nobody would stop it.
NoRunAfterDelete == removed => ctr \notin Alive

\* A server that is to be saved is deleted by the API's delete and by nothing
\* else: no failed start, stop, kill or crash reaches Server.Delete.
SavedServerKept ==
    save /\ (\A p \in Procs : op[p] # "delete")
        => ~suspended /\ \A d \in Deleters : del[d] = "none"

\* p waits for the container to stop.
Blocked(p) == pc[p] \in {"wait", "native", "resetNative"} /\ ctr \in Alive /\ ~ctxDone

\* A kill gets through: power.go says that with a server stuck in a power action
\* "you still should be able to pass through the terminate event".  Whatever the
\* other requests have done and wherever they hang, a kill can take its next step
\* once the event handlers have ended (Slots bounds how many run), until it waits
\* for the process that it has killed.
KillPassesThrough ==
    (\A h \in Slots : handler[h].pc = "free") =>
        \A p \in Procs :
            op[p] = "kill" /\ pc[p] \notin {"idle", "done"} /\ ~Blocked(p)
                => ENABLED ProcStep(p)

-----------------------------------------------------------------------------
(* Liveness.  Goroutines run, timers fire and Docker answers; the game       *)
(* process need not react to anything but SIGKILL.                           *)

Fairness ==
    /\ \A p \in Procs : WF_vars(~Blocked(p) /\ ProcStep(p)) /\ WF_vars(StopTimeout(p))
    /\ \A h \in Slots : WF_vars(HandlerStep(h))
    /\ \A g \in 0 .. MaxGen : WF_vars(ReaderEnd(g))
    /\ \A d \in Deleters : WF_vars(Delete(d))
    /\ WF_vars(ConsoleSet) /\ WF_vars(ListenerExit)

FairSpec == Spec /\ Fairness

\* Every request ends, and with it the hold on the power lock, even when the
\* game process ignores its stop signal: WaitForStop terminates it.
RequestsFinish == \A p \in Procs : (pc[p] # "idle") ~> (pc[p] = "done" /\ ~holds[p])

\* An ephemeral server that a stop has brought down is deleted: its entry goes,
\* unless Docker refuses to remove the container.
StoppedIsDeleted ==
    (~save /\ \E p \in Procs : pc[p] = "stopped" /\ op[p] = "stop")
        ~> (removed \/ \E d \in Deleters : del[d] = "failed")
=============================================================================
