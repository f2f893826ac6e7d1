------------------------- MODULE ServerPower_proofs -------------------------
(***************************************************************************)
(* The safety properties of ServerPower for every number of requests and   *)
(* of event handlers, every stop configuration and every bound on the      *)
(* containers.                                                             *)
(***************************************************************************)
EXTENDS ServerPower, TLAPS

\* Labels outside the part of a request that works on the server.
Outside == {"idle", "lock", "done"}

\* Labels a Delete reaches only after it has cancelled the context, and only
\* after Docker has removed the container.
Cancelled == {"cleanup", "destroy", "rm", "gone", "failed", "unlist", "files"}
Gone == {"gone", "unlist", "files"}

\* The power lock has one holder at most, and none when its channel is empty;
\* a start, stop or restart at work holds it.
LockInv ==
    /\ \A p, q \in Procs : holds[p] /\ holds[q] => p = q
    /\ lock = "free" => \A p \in Procs : ~holds[p]
    /\ \A p \in Procs : op[p] \in Locked /\ pc[p] \notin Outside => holds[p]

\* The context is cancelled before the container is removed, and from then on
\* nothing brings the container back to life.
DeleteInv ==
    /\ \A d \in Deleters : del[d] \in Cancelled => ctxDone
    /\ removed => ctxDone
    /\ removed \/ (\E d \in Deleters : del[d] \in Gone) => ctr \notin Alive

\* A request to delete is done as soon as it is made; without one a saved
\* server has no Delete.
SaveInv ==
    /\ \A p \in Procs : op[p] = "delete" => pc[p] = "done"
    /\ SavedServerKept

IInv == TypeOK /\ LockInv /\ DeleteInv /\ SaveInv

\* SetState keeps the types.
LEMMA SetStateType ==
    ASSUME TypeOK, NEW s \in States, SetState(s)
    PROVE  st' \in States /\ handler' \in [Slots -> Handlers]
<1>1. CASE st = s
  BY <1>1 DEF SetState, TypeOK
<1>2. CASE st # s /\ ~listening
  BY <1>2 DEF SetState, Publish, TypeOK
<1>3. CASE st # s /\ listening
  <2>1. PICK h \in Slots :
          handler' = [handler EXCEPT ![h] = Handler("queued", s, "offline", "offline")]
    BY <1>3 DEF SetState, Publish
  <2>2. Handler("queued", s, "offline", "offline") \in Handlers
    BY DEF Handler, Handlers, HandlerPC, States
  <2>3. st' \in States
    BY <1>3 DEF SetState
  <2>. QED  BY <2>1, <2>2, <2>3 DEF TypeOK
<1>. QED  BY <1>1, <1>2, <1>3

\* A working step that changes neither the lock nor a Delete keeps the
\* invariant, whatever it does to the environment, provided that it starts no
\* container once the context is cancelled.
LEMMA FrameInv ==
    ASSUME IInv, TypeOK', NEW p \in Procs, NEW l \in ProcPC \ Outside, NEW m \in ProcPC,
           pc[p] = l, pc' = [pc EXCEPT ![p] = m],
           UNCHANGED <<lock, holds, op, save, del, suspended, ctxDone, removed>>,
           ctxDone => ctr' = ctr \/ ctr' \notin Alive
    PROVE  IInv'
<1>1. LockInv'
  BY DEF IInv, TypeOK, LockInv, Outside
<1>2. DeleteInv'
  BY DEF IInv, TypeOK, DeleteInv, Gone, Cancelled
<1>3. SaveInv'
  BY DEF IInv, TypeOK, SaveInv, SavedServerKept, Outside
<1>. QED  BY <1>1, <1>2, <1>3 DEF IInv

\* A step that only moves a goroutine keeps IInv.
LEMMA SkipInv ==
    ASSUME IInv, NEW p \in Procs, NEW l \in ProcPC \ Outside, NEW m \in ProcPC, Skip(p, l, m)
    PROVE  IInv'
<1>. USE DEF Skip, Goto, NoState, NoLock, NoDocker, Elsewhere, dockerVars, attachVars
<1>1. TypeOK'
  BY DEF IInv, TypeOK
<1>. QED  BY <1>1, FrameInv

\* The marks of the power actions keep IInv.
LEMMA MarkInv ==
    ASSUME IInv, NEW p \in Procs, NEW l \in ProcPC \ Outside, NEW s \in States,
           NEW m \in ProcPC, Mark(p, l, s, m)
    PROVE  IInv'
<1>. USE DEF Mark, Goto, NoLock, NoDocker, Elsewhere, dockerVars, attachVars
<1>1. st' \in States /\ handler' \in [Slots -> Handlers]
  BY SetStateType DEF IInv
<1>2. TypeOK'
  BY <1>1 DEF IInv, TypeOK
<1>. QED  BY <1>2, FrameInv

\* The calls of Docker keep IInv.
LEMMA DockerInv ==
    ASSUME IInv, NEW p \in Procs, NEW l \in ProcPC \ Outside, NEW c \in Containers,
           NEW m \in ProcPC, Docker(p, l, c, m)
    PROVE  IInv'
<1>. USE DEF Docker, Goto, NoState, NoLock, Elsewhere, attachVars
<1>1. TypeOK'
  BY DEF IInv, TypeOK
<1>. QED  BY <1>1, FrameInv

\* A step that may also start a Delete for an ephemeral server.
LEMMA SpawnInv ==
    ASSUME IInv, NEW p \in Procs, NEW l \in ProcPC \ Outside, NEW m \in ProcPC,
           pc[p] = l, Goto(p, m), SpawnDelete(p) \/ UNCHANGED del,
           NoState, NoLock, NoDocker, UNCHANGED mounted, Elsewhere
    PROVE  IInv'
<1>. USE DEF SpawnDelete, Goto, NoState, NoLock, NoDocker, Elsewhere, dockerVars, attachVars
<1>1. del' \in [Deleters -> DeletePC]
  BY DEF IInv, TypeOK, Deleters, DeletePC
<1>2. TypeOK'
  BY <1>1 DEF IInv, TypeOK
<1>3. LockInv'
  BY DEF IInv, TypeOK, LockInv, Outside
<1>4. DeleteInv'
  BY DEF IInv, TypeOK, DeleteInv, Gone, Cancelled, Deleters
<1>5. SaveInv'
  BY DEF IInv, TypeOK, SaveInv, SavedServerKept, Outside
<1>. QED  BY <1>2, <1>3, <1>4, <1>5 DEF IInv

\* The questions to Docker keep IInv.
LEMMA AskInv ==
    ASSUME IInv, NEW p \in Procs, NEW l \in ProcPC \ Outside, NEW m \in ProcPC, Ask(p, l, m)
    PROVE  IInv'
<1>. USE DEF Ask, Goto, NoState, NoLock, Elsewhere, attachVars
<1>1. TypeOK'
  BY DEF IInv, TypeOK, Containers, Alive
<1>. QED  BY <1>1, FrameInv

\* SendCommand keeps IInv.
LEMMA SendCommandInv ==
    ASSUME IInv, NEW p \in Procs, NEW l \in ProcPC \ Outside, NEW m \in ProcPC,
           SendCommand(p, l, m)
    PROVE  IInv'
<1>. USE DEF SendCommand, Goto, NoLock, Elsewhere, attachVars
<1>1. st' \in States /\ handler' \in [Slots -> Handlers]
  BY SetStateType DEF IInv, States
<1>2. asked' \in BOOLEAN
  OBVIOUS
<1>3. TypeOK'
  BY <1>1, <1>2 DEF IInv, TypeOK
<1>. QED  BY <1>3, FrameInv

\* The actions of a start.
LEMMA StartInv == ASSUME IInv, NEW p \in Procs, Start(p) PROVE IInv'
<1>. USE DEF ProcPC, Outside, States, Containers, Alive, Down
<1>1. CASE CheckState(p)
  <2>1. \E m \in ProcPC : Skip(p, "check", m)
    BY <1>1 DEF CheckState
  <2>. QED  BY <2>1, SkipInv
<1>2. CASE Preflight(p)
  BY <1>2, SkipInv, MarkInv DEF Preflight
<1>3. CASE Mount(p)
  <2>. USE DEF Mount, Goto, NoState, NoLock, NoDocker, Elsewhere, dockerVars, attachVars
  <2>1. PICK m \in {"inspect", "startFail"} : Goto(p, m)
    BY <1>3
  <2>2. TypeOK'
    BY <1>3, <2>1 DEF IInv, TypeOK
  <2>. QED  BY <1>3, <2>1, <2>2, FrameInv
<1>4. CASE InspectStart(p)
  <2>1. \E s \in States, m \in ProcPC : Mark(p, "inspect", s, m)
    BY <1>4 DEF InspectStart
  <2>. QED  BY <2>1, MarkInv
<1>5. CASE RemoveContainer(p)
  BY <1>5, DockerInv DEF RemoveContainer
<1>6. CASE CreateContainer(p)
  <2>. USE DEF CreateContainer, Goto, NoState, NoLock, Elsewhere, dockerVars, attachVars
  <2>1. ctr' \in Containers
    BY <1>6 DEF IInv, TypeOK
  <2>2. asked' \in BOOLEAN
    BY <1>6 DEF IInv, TypeOK
  <2>3. gen' \in 0 .. MaxGen
    BY <1>6, ConstantsAssumption DEF IInv, TypeOK
  <2>4. TypeOK'
    BY <1>6, <2>1, <2>2, <2>3 DEF IInv, TypeOK
  <2>. QED  BY <1>6, <2>4, FrameInv
<1>7. CASE Attach(p, "reattach", "return") \/ Attach(p, "attach", "run")
  <2>. USE DEF Attach, Goto, NoState, NoLock, Elsewhere, dockerVars, attachVars
  <2>0. stream' \in BOOLEAN /\ reader' \in [0 .. MaxGen -> {"none", "scan", "eof"}]
    BY <1>7 DEF IInv, TypeOK
  <2>1. TypeOK'
    BY <1>7, <2>0 DEF IInv, TypeOK
  <2>. QED  BY <1>7, <2>1, FrameInv
<1>8. CASE ContainerStart(p)
  BY <1>8, DockerInv DEF ContainerStart
<1>9. CASE StartError(p)
  BY <1>9, MarkInv DEF StartError
<1>10. CASE StartFail(p)
  BY <1>10, SpawnInv DEF StartFail, NoLock
<1>. QED
  BY <1>1, <1>2, <1>3, <1>4, <1>5, <1>6, <1>7, <1>8, <1>9, <1>10 DEF Start

\* The actions of a stop, for either set of labels.
LEMMA EnvironmentStopInv ==
    ASSUME IInv, NEW p \in Procs, NEW L \in {InWaitForStop, InHandleReset},
           EnvironmentStop(p, L)
    PROVE  IInv'
<1>1. /\ L.mark \in ProcPC \ Outside /\ L.send \in ProcPC \ Outside
      /\ L.sig \in ProcPC \ Outside /\ L.off \in ProcPC \ Outside
      /\ L.native \in ProcPC \ Outside /\ L.next \in ProcPC
  BY DEF InWaitForStop, InHandleReset, ProcPC, Outside
<1>2. {"stopping", "offline"} \subseteq States
  BY DEF States
<1>3. CASE StopMark(p, L)
  BY <1>1, <1>2, <1>3, SkipInv, MarkInv DEF StopMark
<1>4. CASE StopBySignal(p, L)
  BY <1>1, <1>2, <1>4, SkipInv, MarkInv, AskInv DEF StopBySignal
<1>5. CASE SendCommand(p, L.send, L.next)
  BY <1>1, <1>5, SendCommandInv
<1>6. CASE StopNatively(p, L)
  <2>1. CASE Ask(p, L.send, L.native) \/ Skip(p, L.send, L.next) \/ Skip(p, L.native, L.next)
    BY <1>1, <2>1, SkipInv, AskInv
  <2>2. CASE /\ pc[p] = L.send /\ stream' = FALSE /\ SetState("offline") /\ Goto(p, L.next)
             /\ NoLock /\ UNCHANGED <<dockerVars, reader, mounted, del>> /\ Elsewhere
    <3>. USE DEF Goto, NoLock, Elsewhere, dockerVars
    <3>1. st' \in States /\ handler' \in [Slots -> Handlers]
      BY <1>2, <2>2, SetStateType DEF IInv
    <3>2. TypeOK'
      BY <1>1, <2>2, <3>1 DEF IInv, TypeOK
    <3>. QED  BY <1>1, <2>2, <3>2, FrameInv
  <2>. QED  BY <1>6, <2>1, <2>2 DEF StopNatively
<1>. QED  BY <1>3, <1>4, <1>5, <1>6 DEF EnvironmentStop

\* Stop keeps IInv.
LEMMA StopInv == ASSUME IInv, NEW p \in Procs, Stop(p) PROVE IInv'
<1>. USE DEF ProcPC, Outside, States, Containers, Alive, Down
<1>1. CASE EnvironmentStop(p, InWaitForStop)
  BY <1>1, EnvironmentStopInv
<1>2. CASE ContainerWait(p) \/ StopTimeout(p)
  BY <1>2, SkipInv DEF ContainerWait, StopTimeout
<1>3. CASE TerminateSignal(p)
  BY <1>3, SkipInv, MarkInv DEF TerminateSignal
<1>4. CASE ContainerKill(p)
  BY <1>4, DockerInv DEF ContainerKill
<1>5. CASE Mark(p, "termOff", "offline", "stopped")
  BY <1>5, MarkInv
<1>6. CASE Stopped(p)
  BY <1>6, SpawnInv DEF Stopped, AfterStop
<1>. QED  BY <1>1, <1>2, <1>3, <1>4, <1>5, <1>6 DEF Stop

\* Pause keeps IInv.
LEMMA PauseInv ==
    ASSUME IInv, NEW p \in Procs, PauseCheck(p) \/ Pause(p) \/ UnpauseCheck(p) \/ Unpause(p)
    PROVE  IInv'
<1>. USE SkipInv, MarkInv, DockerInv DEF ProcPC, Outside, States, Containers, Alive, Down
<1>1. CASE PauseCheck(p)
  BY <1>1 DEF PauseCheck
<1>2. CASE Pause(p)
  BY <1>2 DEF Pause
<1>3. CASE UnpauseCheck(p)
  BY <1>3 DEF UnpauseCheck
<1>4. CASE Unpause(p)
  BY <1>4 DEF Unpause
<1>. QED  BY <1>1, <1>2, <1>3, <1>4

\* Taking and giving back the power lock.
LEMMA LockingInv ==
    ASSUME IInv, NEW p \in Procs, AcquireLock(p) \/ AcquireFails(p) \/ Return(p) \/ ResetLock(p)
    PROVE  IInv'
<1>. USE DEF Goto, NoState, NoLock, NoDocker, Elsewhere, dockerVars, attachVars
<1>1. Entry(op[p]) \in ProcPC
  BY DEF Entry, ProcPC
<1>2. /\ lock' \in {"free", "held", "nil"}
      /\ holds' \in [Procs -> BOOLEAN]
      /\ pc' \in [Procs -> ProcPC]
  <2>1. CASE AcquireLock(p)
    BY <1>1, <2>1 DEF IInv, TypeOK, AcquireLock, Acquire
  <2>2. CASE AcquireFails(p)
    BY <1>1, <2>2 DEF IInv, TypeOK, AcquireFails, Skip, ProcPC
  <2>3. CASE Return(p)
    BY <2>3 DEF IInv, TypeOK, Return, Release, ProcPC
  <2>4. CASE ResetLock(p)
    BY <2>4 DEF IInv, TypeOK, ResetLock, Acquire, ProcPC
  <2>. QED  BY <2>1, <2>2, <2>3, <2>4
<1>3. UNCHANGED <<op, save, st, dockerVars, attachVars, console, handler, tracked, mounted,
                  suspended, ctxDone, listening, removed, del>>
  BY DEF AcquireLock, AcquireFails, Return, ResetLock, Skip
<1>4. TypeOK'
  BY <1>2, <1>3 DEF IInv, TypeOK
<1>5. LockInv'
  <2>1. CASE AcquireLock(p)
    BY <1>3, <2>1 DEF IInv, TypeOK, LockInv, AcquireLock, Acquire
  <2>2. CASE AcquireFails(p)
    BY <1>3, <2>2 DEF IInv, TypeOK, LockInv, AcquireFails, Skip, Outside
  <2>3. CASE Return(p)
    BY <1>3, <2>3 DEF IInv, TypeOK, LockInv, Return, Release, Outside
  <2>4. CASE ResetLock(p)
    BY <1>3, <2>4 DEF IInv, TypeOK, LockInv, ResetLock, Acquire, Outside
  <2>. QED  BY <2>1, <2>2, <2>3, <2>4
<1>6. DeleteInv'
  BY <1>3 DEF IInv, DeleteInv
<1>7. SaveInv'
  <2>1. pc[p] # "done"
    BY DEF AcquireLock, AcquireFails, Return, ResetLock, Skip
  <2>2. \A q \in Procs : q # p => pc'[q] = pc[q]
    BY DEF IInv, TypeOK, AcquireLock, AcquireFails, Return, ResetLock, Skip
  <2>. QED  BY <1>3, <2>1, <2>2 DEF IInv, SaveInv, SavedServerKept
<1>. QED  BY <1>4, <1>5, <1>6, <1>7 DEF IInv

\* Reset keeps IInv.
LEMMA ResetInv == ASSUME IInv, NEW p \in Procs, Reset(p) PROVE IInv'
<1>. USE DEF ProcPC, Outside, States, Alive
<1>1. CASE ResetCheck(p)
  BY <1>1, SkipInv, MarkInv DEF ResetCheck
<1>2. CASE ResetLock(p)
  BY <1>2, LockingInv
<1>3. CASE ResetOverlay(p)
  <2>. USE <1>3 DEF ResetOverlay, Release, Goto, NoState, NoLock, NoDocker, dockerVars, attachVars
  <2>1. lock' \in {"free", "held", "nil"} /\ holds' \in [Procs -> BOOLEAN]
    BY DEF IInv, TypeOK
  <2>2. pc' \in [Procs -> ProcPC] /\ op' \in [Procs -> AllOps \cup {"none"}]
    BY DEF IInv, TypeOK, AllOps
  <2>3. TypeOK'
    <3>1. UNCHANGED <<save, st, dockerVars, attachVars, console, handler, tracked, suspended,
                      ctxDone, listening, removed, del>>
      OBVIOUS
    <3>2. mounted' \in BOOLEAN
      OBVIOUS
    <3>. HIDE <1>3
    <3>. QED  BY <2>1, <2>2, <3>1, <3>2 DEF IInv, TypeOK
  <2>4. LockInv'
    BY DEF IInv, TypeOK, LockInv
  <2>5. DeleteInv'
    BY DEF IInv, DeleteInv
  <2>6. SaveInv'
    BY DEF IInv, TypeOK, SaveInv, SavedServerKept
  <2>. QED  BY <2>3, <2>4, <2>5, <2>6 DEF IInv
<1>4. CASE EnvironmentStop(p, InHandleReset)
  BY <1>4, EnvironmentStopInv
<1>5. CASE Skip(p, "resetFs", "return")
  BY <1>5, SkipInv
<1>. QED  BY <1>1, <1>2, <1>3, <1>4, <1>5 DEF Reset

\* Command keeps IInv.
LEMMA CommandInv == ASSUME IInv, NEW p \in Procs, Command(p) PROVE IInv'
BY SkipInv, MarkInv, SendCommandInv DEF Command, ProcPC, Outside, States

\* An error of Docker keeps IInv.
LEMMA DockerErrorInv == ASSUME IInv, NEW p \in Procs, DockerError(p) PROVE IInv'
BY SkipInv DEF DockerError, ProcPC, Outside

\* Every step of a goroutine keeps IInv.
LEMMA ProcStepInv == ASSUME IInv, NEW p \in Procs, ProcStep(p) PROVE IInv'
BY LockingInv, StartInv, StopInv, ResetInv, CommandInv, PauseInv, DockerErrorInv DEF ProcStep

\* A request that arrives holds no lock; one to delete is recorded as such.
LEMMA RequestInv == ASSUME IInv, NEW p \in Procs, Request(p) PROVE IInv'
<1>. USE DEF Goto, NoState, NoLock, NoDocker, dockerVars, attachVars
<1>1. PICK o \in Ops :
         /\ op' = [op EXCEPT ![p] = o]
         /\ del' = IF o = "delete" THEN [del EXCEPT ![p] = "suspend"] ELSE del
         /\ \/ o \in {"start", "restart", "stop"} /\ \E l \in {"lock", "done"} : Goto(p, l)
            \/ o \in {"kill", "pause", "unpause"} /\ Goto(p, "lock")
            \/ o = "reset" /\ Goto(p, "reset")
            \/ o = "command" /\ Goto(p, "command")
            \/ o = "limit" /\ Goto(p, "stop")
            \/ o = "delete" /\ Goto(p, "done")
  BY DEF Request
<1>2. /\ pc[p] = "idle"
      /\ UNCHANGED <<lock, holds, save, st, ctr, gen, asked, stream, reader, console, handler,
                     tracked, mounted, suspended, ctxDone, listening, removed>>
  BY DEF Request
<1>3. op' \in [Procs -> AllOps \cup {"none"}]
  BY <1>1, ConstantsAssumption DEF IInv, TypeOK
<1>4. pc' \in [Procs -> ProcPC]
  BY <1>1 DEF IInv, TypeOK, ProcPC
<1>5. del' \in [Deleters -> DeletePC]
  BY <1>1 DEF IInv, TypeOK, Deleters, DeletePC
<1>6. TypeOK'
  BY <1>2, <1>3, <1>4, <1>5 DEF IInv, TypeOK
<1>7. LockInv'
  BY <1>1, <1>2 DEF IInv, TypeOK, LockInv, Locked, Outside
<1>8. DeleteInv'
  BY <1>1, <1>2 DEF IInv, TypeOK, DeleteInv, Gone, Cancelled, Deleters
<1>9. SaveInv'
  BY <1>1, <1>2 DEF IInv, TypeOK, SaveInv, SavedServerKept
<1>. QED  BY <1>6, <1>7, <1>8, <1>9 DEF IInv

\* A step of the process, its console or an event handler that starts neither
\* a container nor a Delete.
LEMMA EnvironmentInv ==
    ASSUME IInv, TypeOK', NoRequest, UNCHANGED <<suspended, ctxDone, removed, del>>,
           ctr' = ctr \/ ctr' \notin Alive
    PROVE  IInv'
BY DEF IInv, LockInv, DeleteInv, SaveInv, SavedServerKept, NoRequest

\* The steps of the process in the container keep IInv.
LEMMA ProcessInv ==
    ASSUME IInv, ProcessExit \/ ConsoleRead \/ ConsoleSet \/ \E g \in 0 .. MaxGen : ReaderEnd(g)
    PROVE  IInv'
<1>. USE DEF NoRequest, NoState, dockerVars, attachVars, deleteVars
<1>1. CASE ProcessExit
  <2>. USE <1>1 DEF ProcessExit
  <2>1. TypeOK'
    BY DEF IInv, TypeOK, Containers, Down
  <2>. QED  BY <2>1, EnvironmentInv DEF Alive
<1>2. CASE ConsoleRead
  <2>. USE <1>2 DEF ConsoleRead
  <2>1. console' \in {"idle", "done", "stop"} /\ asked' \in BOOLEAN
    BY DEF IInv, TypeOK
  <2>2. TypeOK'
    BY <2>1 DEF IInv, TypeOK
  <2>. QED  BY <2>2, EnvironmentInv
<1>3. CASE ConsoleSet
  <2>. USE <1>3 DEF ConsoleSet
  <2>1. (IF console = "done" THEN "running" ELSE "offline") \in States
    BY DEF States
  <2>2. st' \in States /\ handler' \in [Slots -> Handlers]
    BY <2>1, SetStateType DEF IInv
  <2>3. TypeOK'
    BY <2>2 DEF IInv, TypeOK
  <2>. QED  BY <2>3, EnvironmentInv
<1>4. CASE \E g \in 0 .. MaxGen : ReaderEnd(g)
  <2>1. PICK g \in 0 .. MaxGen : ReaderEnd(g)
    BY <1>4
  <2>. USE <2>1 DEF ReaderEnd
  <2>2. st' \in States /\ handler' \in [Slots -> Handlers]
    BY SetStateType DEF IInv, TypeOK, States
  <2>3. stream' \in BOOLEAN /\ reader' \in [0 .. MaxGen -> {"none", "scan", "eof"}]
    BY DEF IInv, TypeOK
  <2>4. TypeOK'
    BY <2>2, <2>3 DEF IInv, TypeOK
  <2>. QED  BY <2>4, EnvironmentInv
<1>. QED  BY <1>1, <1>2, <1>3, <1>4

\* The steps of the handlers keep IInv.
LEMMA HandlerInv ==
    ASSUME IInv, (\E h \in Slots : HandlerStep(h)) \/ ListenerExit
    PROVE  IInv'
<1>. USE DEF NoRequest, NoProcess, dockerVars, attachVars, deleteVars
<1>1. CASE \E h \in Slots : HandlerStep(h)
  <2>1. PICK h \in Slots : HandlerStep(h)
    BY <1>1
  <2>2. handler[h] \in Handlers
    BY DEF IInv, TypeOK
  <2>3. \A l \in HandlerPC : \A a, b, c \in States : Handler(l, a, b, c) \in Handlers
    BY DEF Handler, Handlers
  <2>4. {"read", "store", "tail", "free"} \subseteq HandlerPC /\ "offline" \in States
    BY DEF HandlerPC, States
  <2>5. handler[h].prev \in States /\ handler[h].cur \in States
    BY <2>2 DEF Handlers
  <2>6. st \in States /\ tracked \in States
    BY DEF IInv, TypeOK
  <2>7. CASE HandleEvent(h) \/ ReadState(h) \/ StoreState(h)
    <3>. USE <2>7 DEF HandleEvent, ReadState, StoreState
    <3>1. PICK v \in Handlers : handler' = [handler EXCEPT ![h] = v]
      BY <2>3, <2>4, <2>5, <2>6 DEF FreeHandler
    <3>2. handler' \in [Slots -> Handlers]
      BY <3>1 DEF IInv, TypeOK
    <3>3. tracked' \in States /\ mounted' \in BOOLEAN
      BY <2>5, <2>6 DEF IInv, TypeOK
    <3>4. UNCHANGED <<lock, holds, pc, op, save, st, ctr, gen, asked, stream, reader, console,
                      suspended, ctxDone, listening, removed, del>>
      OBVIOUS
    <3>5. TypeOK'
      BY <3>2, <3>3, <3>4 DEF IInv, TypeOK
    <3>. QED  BY <3>4, <3>5, EnvironmentInv
  <2>8. CASE HandleCrash(h)
    <3>. USE <2>8 DEF HandleCrash
    <3>1. handler' \in [Slots -> Handlers]
      BY <2>3, <2>4 DEF IInv, TypeOK, FreeHandler
    <3>2. del' \in [Deleters -> DeletePC]
      BY DEF IInv, TypeOK, Deleters, DeletePC
    <3>3. TypeOK'
      BY <3>1, <3>2 DEF IInv, TypeOK
    <3>4. LockInv'
      BY DEF IInv, LockInv
    <3>5. DeleteInv'
      BY DEF IInv, TypeOK, DeleteInv, Gone, Cancelled, Deleters
    <3>6. SaveInv'
      BY DEF IInv, SaveInv, SavedServerKept
    <3>. QED  BY <3>3, <3>4, <3>5, <3>6 DEF IInv
  <2>. QED  BY <2>1, <2>7, <2>8 DEF HandlerStep
<1>2. CASE ListenerExit
  <2>. USE <1>2 DEF ListenerExit
  <2>1. FreeHandler \in Handlers
    BY DEF FreeHandler, Handler, Handlers, HandlerPC, States
  <2>2. handler' \in [Slots -> Handlers]
    BY <2>1 DEF IInv, TypeOK
  <2>3. TypeOK'
    BY <2>2 DEF IInv, TypeOK
  <2>. QED  BY <2>3, EnvironmentInv
<1>. QED  BY <1>1, <1>2

\* A Delete cancels the context before it removes the container, and removes
\* the container before it takes the server out of the manager.
LEMMA DeletingInv == ASSUME IInv, NEW d \in Deleters, Delete(d) PROVE IInv'
<1>. USE DEF DelGoto, NoLifecycle, NoState, dockerVars, attachVars
<1>1. CASE Cleanup(d)
  <2>. USE <1>1 DEF Cleanup
  <2>1. del' \in [Deleters -> DeletePC]
    BY DEF IInv, TypeOK, DeletePC
  <2>2. lock' \in {"free", "held", "nil"} /\ ctxDone' \in BOOLEAN
    BY DEF IInv, TypeOK
  <2>3. TypeOK'
    BY <2>1, <2>2 DEF IInv, TypeOK
  <2>4. LockInv'
    BY DEF IInv, LockInv
  <2>5. DeleteInv'
    BY DEF IInv, TypeOK, DeleteInv, Gone, Cancelled
  <2>6. SaveInv'
    BY DEF IInv, SaveInv, SavedServerKept
  <2>. QED  BY <2>3, <2>4, <2>5, <2>6 DEF IInv
<1>2. CASE DestroyEnvironment(d)
  <2>. USE <1>2 DEF DestroyEnvironment
  <2>1. del' \in [Deleters -> DeletePC]
    BY DEF IInv, TypeOK, DeletePC
  <2>2. st' \in States /\ handler' \in [Slots -> Handlers]
    BY SetStateType DEF IInv, TypeOK, States
  <2>3. ctr' \in Containers /\ (ctr' = ctr \/ ctr' = "none")
    BY DEF IInv, TypeOK, Containers
  <2>4. TypeOK'
    BY <2>1, <2>2, <2>3 DEF IInv, TypeOK
  <2>5. LockInv'
    BY DEF IInv, LockInv
  <2>6. DeleteInv'
    BY <2>3 DEF IInv, TypeOK, DeleteInv, Gone, Cancelled, Alive
  <2>7. SaveInv'
    BY DEF IInv, SaveInv, SavedServerKept
  <2>. QED  BY <2>4, <2>5, <2>6, <2>7 DEF IInv
<1>3. CASE RemoveServer(d)
  <2>. USE <1>3 DEF RemoveServer
  <2>1. del' \in [Deleters -> DeletePC] /\ mounted' \in BOOLEAN
    BY DEF IInv, TypeOK, DeletePC
  <2>2. TypeOK'
    BY <2>1 DEF IInv, TypeOK
  <2>3. LockInv'
    BY DEF IInv, LockInv
  <2>4. DeleteInv'
    BY DEF IInv, TypeOK, DeleteInv, Gone, Cancelled
  <2>5. SaveInv'
    BY DEF IInv, SaveInv, SavedServerKept
  <2>. QED  BY <2>2, <2>3, <2>4, <2>5 DEF IInv
<1>. QED  BY <1>1, <1>2, <1>3 DEF Delete

\* IInv holds initially.
LEMMA InitInv == Init => IInv
<1>. SUFFICES ASSUME Init PROVE IInv
  OBVIOUS
<1>. USE DEF Init
<1>1. FreeHandler \in Handlers
  BY DEF FreeHandler, Handler, Handlers, HandlerPC, States
<1>2. st \in States /\ save \in BOOLEAN
  BY ConstantsAssumption DEF States
<1>3. gen \in 0 .. MaxGen
  BY ConstantsAssumption
<1>4. ctr \in Containers /\ stream \in BOOLEAN /\ mounted \in BOOLEAN
  BY ConstantsAssumption DEF Containers, Alive
<1>5. reader \in [0 .. MaxGen -> {"none", "scan", "eof"}]
  OBVIOUS
<1>6. handler \in [Slots -> Handlers]
  BY <1>1
<1>7. TypeOK
  BY <1>2, <1>3, <1>4, <1>5, <1>6 DEF TypeOK, ProcPC, DeletePC
<1>8. LockInv /\ DeleteInv /\ SaveInv
  BY DEF LockInv, DeleteInv, SaveInv, SavedServerKept, Outside, Cancelled, Gone
<1>. QED  BY <1>7, <1>8 DEF IInv

\* Every step keeps IInv.
LEMMA NextInv == IInv /\ [Next]_vars => IInv'
<1>. SUFFICES ASSUME IInv, [Next]_vars PROVE IInv'
  OBVIOUS
<1>1. CASE UNCHANGED vars
  <2>1. UNCHANGED <<lock, holds, pc, op, save, st, ctr, gen, asked, stream, reader, console,
                    handler, tracked, mounted, suspended, ctxDone, listening, removed, del>>
    BY <1>1 DEF vars, dockerVars, attachVars, deleteVars
  <2>2. TypeOK'
    BY <2>1 DEF IInv, TypeOK
  <2>. QED  BY <2>1, <2>2, EnvironmentInv DEF NoRequest
<1>2. CASE Next
  BY <1>2, ProcStepInv, RequestInv, HandlerInv, ProcessInv, DeletingInv DEF Next
<1>. QED  BY <1>1, <1>2

\* IInv holds in every reachable state.
LEMMA Invariance == Spec => []IInv
BY InitInv, NextInv, PTL DEF Spec

\* Every variable keeps its type: no order of requests, events, deletions and
\* Docker errors brings the server into a state that SetState does not know.
THEOREM Typing == Spec => []TypeOK
<1>1. IInv => TypeOK
  BY DEF IInv
<1>. QED  BY <1>1, Invariance, PTL

\* HandlePowerAction and HandleReset keep starts, stops and restarts apart, for
\* any number of requests, although kills, pauses and the disk limiter bypass
\* the lock and Locker.Destroy takes it away from a holder.
THEOREM Exclusion == Spec => []PowerExclusion
<1>1. IInv => PowerExclusion
  BY DEF IInv, LockInv, PowerExclusion, Working, Locked, Outside
<1>. QED  BY <1>1, Invariance, PTL

\* Server.Delete cancels the context before it removes the container, so that
\* a start it races fails and the container does not run after the removal.
THEOREM Deleted == Spec => []NoRunAfterDelete
<1>1. IInv => NoRunAfterDelete
  BY DEF IInv, DeleteInv, NoRunAfterDelete
<1>. QED  BY <1>1, Invariance, PTL

\* Every place that runs `go s.Delete()` consults Server.save, so that a saved
\* server is suspended or deleted only after a request to delete it.
THEOREM Saved == Spec => []SavedServerKept
<1>1. IInv => SavedServerKept
  BY DEF IInv, SaveInv
<1>. QED  BY <1>1, Invariance, PTL
=============================================================================
