---------------------------- MODULE InstallPhases ----------------------------
(***************************************************************************)
(* One installation of a server's base from the inside: install.go and      *)
(* warmup.go run an installer container, a warmup container and a post-     *)
(* warmup container one after the other and record their progress in        *)
(* install_state.go, where the API reads it.  InstallLock.tla sees all of   *)
(* this as one success or failure.                                          *)
(*                                                                         *)
(* A call to Docker is a step and may fail.  Two processes want to install  *)
(* the same server (a start and reinstallation requests); the containers    *)
(* have fixed names, so that only the lock keeps them apart.  Logs,         *)
(* resource limits, mounts and users of the containers are left out.        *)
(***************************************************************************)
EXTENDS Integers, FiniteSets

CONSTANTS
  Procs,       \* goroutines that install this server, one installation each
  Nobody,
  Retries,     \* WarmupRetries of the script
  MaxFaults    \* failing Docker calls in a behaviour

ASSUME PhasesAssumption == /\ Nobody \notin Procs
                           /\ Retries \in Nat
                           /\ MaxFaults \in Nat

Stages == {"installer", "warmup", "post"}
Containers == Stages \cup {"permissions"}
Running == [installer |-> "installing", warmup |-> "warming", post |-> "post_warmup"]
Failed == [installer |-> "install_failed", warmup |-> "warmup_failed",
           post |-> "post_warmup_failed"]
Phases == {"idle", "completed"} \cup {Running[s] : s \in Stages} \cup {Failed[s] : s \in Stages}
Nil == -1

VARIABLES
  script,      \* what protocube's script asks for and how images are pulled
  image,       \* the image is present locally
  scheduled,   \* it is registered for scheduled pulls
  installLock, \* holder of Server.installLock
  pc, stage, attempt,
  ctx,         \* the installation's context: cancelled with the server or timed out
  phase, exitCode,                \* installState
  cont,        \* the state of each named container at Docker
  faults,
  stuck,       \* history: a container a failed or cancelled call left behind
  passed       \* history: the stages whose container did what it should

vars == <<script, image, scheduled, installLock, pc, stage, attempt, ctx, phase,
          exitCode, cont, faults, stuck, passed>>

Scripts == [skip : BOOLEAN, warmup : BOOLEAN, post : BOOLEAN,
            policy : {"fail", "continue", "retry"},
            pull : {"Always", "IfNotPresent", "Schedule", "Never"}]

Init ==
  /\ script \in Scripts
  /\ script.skip => ~script.warmup
  /\ ~script.warmup => ~script.post /\ script.policy = "fail"
  /\ script.warmup => script.pull = "Always"
  /\ image \in BOOLEAN
  /\ scheduled = FALSE
  /\ installLock = Nobody
  /\ pc = [p \in Procs |-> "new"]
  /\ stage = "installer" /\ attempt = 0
  /\ ctx = [p \in Procs |-> TRUE]
  /\ phase = "idle" /\ exitCode = Nil
  /\ cont = [c \in Containers |-> "none"]
  /\ faults = 0 /\ stuck = {} /\ passed = {}

-----------------------------------------------------------------------------
Go(p, l, m) == pc[p] = l /\ pc' = [pc EXCEPT ![p] = m]
NoFault == UNCHANGED faults
AFault == faults < MaxFaults /\ faults' = faults + 1

\* A call under the installation's context succeeds only while it is live; a
\* call fails when the context is over or Docker does.
Works(p) == ctx[p] /\ NoFault
Breaks(p) == IF ctx[p] THEN AFault ELSE NoFault

\* A container is in its new state, or gone.
Put(c, s) == cont' = [cont EXCEPT ![c] = s]

\* StartInstallPhase and FinishInstallPhase.
StartInstallPhase(s) == phase' = Running[s] /\ exitCode' = Nil
FinishInstallPhase(result) ==
  /\ phase' = result
  /\ exitCode' = IF result = "completed" /\ exitCode = Nil THEN 0 ELSE exitCode

Configured == <<script, image, scheduled>>
State == <<phase, exitCode>>
History == <<stuck, passed>>

\* A plausible bug: the lock is not asked for.
InstallUnlocked(p) ==
  /\ ~script.skip
  /\ Go(p, "new", "script")
  /\ installLock' = p
  /\ StartInstallPhase("installer")
  /\ stage' = "installer" /\ attempt' = 0 /\ passed' = {}
  /\ UNCHANGED <<Configured, ctx, cont, faults, stuck>>

\* install: a second installation of the server is refused, one without
\* scripts is complete at once.
Install(p) ==
  \/ /\ installLock # Nobody
     /\ Go(p, "new", "done")
     /\ UNCHANGED <<Configured, installLock, stage, attempt, ctx, State, cont, faults, History>>
  \/ /\ installLock = Nobody
     /\ installLock' = p
     /\ \/ /\ ~script.skip
           /\ Go(p, "new", "script")
           /\ StartInstallPhase("installer")
        \/ /\ script.skip
           /\ Go(p, "new", "success")
           /\ FinishInstallPhase("completed")
     /\ stage' = "installer" /\ attempt' = 0 /\ passed' = {}
     /\ UNCHANGED <<Configured, ctx, cont, faults, stuck>>

\* internalInstall and BeforeExecute: the script comes from protocube and is
\* written to the disk; then the image.
FetchScript(p) ==
  /\ \/ Go(p, "script", "image") /\ Works(p)
     \/ Go(p, "script", "failure") /\ Breaks(p)
  /\ UNCHANGED <<Configured, installLock, stage, attempt, ctx, State, cont, History>>

\* PullImageWithOfflineFallback: a pull that fails does when the image is not local.
Pull(p) ==
  \/ Go(p, "image", "remove") /\ Works(p) /\ image' = TRUE
  \/ /\ pc[p] = "image" /\ Breaks(p)
     /\ IF image /\ ctx[p] THEN Go(p, "image", "remove") ELSE Go(p, "image", "failure")
     /\ UNCHANGED image

\* pullInstallationImage.
PullInstallationImage(p) ==
  /\ \/ script.pull = "Always" /\ Pull(p)
     \/ script.pull \in {"IfNotPresent", "Schedule"} /\ ~image /\ Pull(p)
     \/ /\ script.pull # "Always" /\ image
        /\ Go(p, "image", "remove") /\ Works(p) /\ UNCHANGED image
     \/ /\ \/ script.pull = "Never" /\ ~image /\ NoFault
           \/ script.pull # "Always" /\ Breaks(p)
        /\ Go(p, "image", "failure") /\ UNCHANGED image
  /\ scheduled' = (scheduled \/ (script.pull = "Schedule" /\ pc[p] = "image"))
  /\ UNCHANGED <<script, installLock, stage, attempt, ctx, State, cont, History>>

\* runScheduledPulls: the cron's pull of a registered image.
ScheduledPull ==
  /\ scheduled /\ ~image
  /\ image' = TRUE
  /\ UNCHANGED <<script, scheduled, installLock, pc, stage, attempt, ctx, State, cont,
                 faults, History>>

-----------------------------------------------------------------------------
(* What each stage does with its container.                                 *)

\* The leftover of an earlier run is removed by name.
RemoveOld(p) ==
  /\ \/ Go(p, "remove", "prepare") /\ Works(p) /\ Put(stage, "none")
     \/ Go(p, "remove", "error") /\ Breaks(p) /\ UNCHANGED cont
  /\ UNCHANGED <<Configured, installLock, stage, attempt, ctx, State, History>>

\* prepareLifecyclePathWritable: a helper container owned by root runs chown.
Prepare(p) ==
  /\ \/ Go(p, "prepare", "chown") /\ Works(p) /\ Put("permissions", "running")
     \/ Go(p, "prepare", "error") /\ Breaks(p) /\ UNCHANGED cont
  /\ UNCHANGED <<Configured, installLock, stage, attempt, ctx, State, History>>

\* A plausible bug: the removal uses the context of the installation.
PreparedKeeps(p) ==
  /\ \/ Go(p, "chown", "create") /\ Works(p) /\ Put("permissions", "none")
     \/ Go(p, "chown", "error") /\ Breaks(p) /\ UNCHANGED cont
  /\ UNCHANGED <<Configured, installLock, stage, attempt, ctx, State, History>>

\* It exits, and its deferred removal does not depend on the context.
Prepared(p) ==
  /\ \/ Go(p, "chown", "create") /\ Works(p)
     \/ Go(p, "chown", "error") /\ Breaks(p)
  /\ Put("permissions", "none")
  /\ UNCHANGED <<Configured, installLock, stage, attempt, ctx, State, History>>

\* ContainerCreate under the stage's name, which nothing else may have.
Create(p) ==
  /\ \/ /\ Go(p, "create", "start")
        /\ cont[stage] = "none" /\ Works(p) /\ Put(stage, "created")
     \/ /\ Go(p, "create", "error")
        /\ IF cont[stage] = "none" THEN Breaks(p) ELSE NoFault
        /\ UNCHANGED cont
  /\ UNCHANGED <<Configured, installLock, stage, attempt, ctx, State, History>>

\* ContainerStart.  When it fails the warmup stages return without removing
\* the container they have created.
Start(p) ==
  /\ \/ Go(p, "start", "wait") /\ Works(p) /\ Put(stage, "running") /\ UNCHANGED stuck
     \/ /\ Go(p, "start", "error") /\ Breaks(p)
        /\ stuck' = stuck \cup {stage} /\ UNCHANGED cont
  /\ UNCHANGED <<Configured, installLock, stage, attempt, ctx, State, passed>>

\* Execute: the installer exits with a code, which is recorded, or the wait fails.
ExecuteWait(p) ==
  /\ stage = "installer"
  /\ \/ /\ Works(p) /\ Put(stage, "exited")
        /\ \E code \in {0, 1} :
             /\ exitCode' = code
             /\ IF code = 0 THEN Go(p, "wait", "after") ELSE Go(p, "wait", "error")
             /\ passed' = IF code = 0 THEN passed \cup {stage} ELSE passed
     \/ Go(p, "wait", "error") /\ Breaks(p) /\ UNCHANGED <<cont, exitCode, passed>>
  /\ UNCHANGED <<Configured, installLock, stage, attempt, ctx, phase, stuck>>

\* AfterExecute stores the log and removes the container, under the context.
AfterExecute(p) ==
  /\ Go(p, "after", "warmup")
  /\ \/ Works(p) /\ Put("installer", "none") /\ UNCHANGED stuck
     \/ Breaks(p) /\ stuck' = stuck \cup {"installer"} /\ UNCHANGED cont
  /\ UNCHANGED <<Configured, installLock, stage, attempt, ctx, State, passed>>

\* waitForWarmupSignal: the line that says the server is online, or the end
\* of the container, an error, or the deadline of the warmup before it.  The
\* container is stopped and removed either way, whatever the context.
WarmupWait(p) ==
  /\ stage = "warmup"
  /\ \/ /\ Go(p, "wait", "post") /\ ctx[p]
        /\ exitCode' = 0
        /\ passed' = passed \cup {stage}
     \/ Go(p, "wait", "error") /\ UNCHANGED <<exitCode, passed>>
  /\ Put("warmup", "none")
  /\ UNCHANGED <<Configured, installLock, stage, attempt, ctx, phase, faults, stuck>>

\* runPostWarmup: the exit code counts, and the deadline.
PostWait(p) ==
  /\ stage = "post"
  /\ \/ /\ ctx[p]
        /\ \E code \in {0, 1} :
             /\ exitCode' = code
             /\ IF code = 0 THEN Go(p, "wait", "success") ELSE Go(p, "wait", "error")
             /\ passed' = IF code = 0 THEN passed \cup {stage} ELSE passed
     \/ Go(p, "wait", "error") /\ UNCHANGED <<exitCode, passed>>
  /\ Put("post", "none")
  /\ UNCHANGED <<Configured, installLock, stage, attempt, ctx, phase, faults, stuck>>

-----------------------------------------------------------------------------
(* From one stage to the next.                                              *)

Begin(p, l, s) ==
  /\ Go(p, l, "remove")
  /\ stage' = s
  /\ StartInstallPhase(s)

\* RunWarmup.
RunWarmup(p) ==
  /\ \/ script.warmup /\ Begin(p, "warmup", "warmup") /\ attempt' = 1
     \/ /\ ~script.warmup /\ Go(p, "warmup", "success")
        /\ UNCHANGED <<stage, attempt, State>>
  /\ UNCHANGED <<Configured, installLock, ctx, cont, faults, History>>

\* warmupAttempts.
WarmupAttempts == IF script.policy = "retry" THEN 1 + Retries ELSE 1

\* The end of RunWarmup, after a warmup that succeeded or may be ignored.
RunPostWarmup(p) ==
  /\ \/ script.post /\ Begin(p, "post", "post")
     \/ ~script.post /\ Go(p, "post", "success") /\ UNCHANGED <<stage, State>>
  /\ UNCHANGED <<Configured, installLock, attempt, ctx, cont, faults, History>>

\* Run: after a failed Execute the installer is removed, under the context.
InstallerError(p) ==
  /\ stage = "installer"
  /\ Go(p, "error", "failure")
  /\ \/ Works(p) /\ Put("installer", "none") /\ stuck' = stuck \ {"installer"}
     \/ Breaks(p) /\ stuck' = stuck \cup {"installer"} /\ UNCHANGED cont
  /\ UNCHANGED <<Configured, installLock, stage, attempt, ctx, State, passed>>

\* A plausible bug: the error of the last attempt is dropped under every policy.
WarmupErrorDropped(p) ==
  /\ stage = "warmup"
  /\ Go(p, "error", "post")
  /\ FinishInstallPhase("warmup_failed")
  /\ UNCHANGED <<Configured, installLock, stage, attempt, ctx, cont, faults, History>>

\* A plausible bug: the attempts are not counted.
WarmupErrorEndless(p) ==
  /\ stage = "warmup"
  /\ \/ /\ script.policy = "retry"
        /\ Begin(p, "error", "warmup")
     \/ /\ script.policy # "retry"
        /\ Go(p, "error", IF script.policy = "continue" THEN "post" ELSE "failure")
        /\ FinishInstallPhase("warmup_failed")
        /\ UNCHANGED stage
  /\ UNCHANGED <<Configured, installLock, attempt, ctx, cont, faults, History>>

\* A failed attempt is repeated, ignored or the end, as the policy says.
WarmupError(p) ==
  /\ stage = "warmup"
  /\ \/ /\ attempt < WarmupAttempts
        /\ Begin(p, "error", "warmup")
        /\ attempt' = attempt + 1
     \/ /\ attempt = WarmupAttempts
        /\ Go(p, "error", IF script.policy = "continue" THEN "post" ELSE "failure")
        /\ FinishInstallPhase("warmup_failed")
        /\ UNCHANGED <<stage, attempt>>
  /\ UNCHANGED <<Configured, installLock, ctx, cont, faults, History>>

PostError(p) ==
  /\ stage = "post"
  /\ Go(p, "error", IF script.policy = "continue" THEN "success" ELSE "failure")
  /\ FinishInstallPhase("post_warmup_failed")
  /\ UNCHANGED <<Configured, installLock, stage, attempt, ctx, cont, faults, History>>

\* A plausible bug: a failure does not end the phase it happened in.
FinishHanging(p) ==
  /\ pc[p] \in {"success", "failure"}
  /\ pc' = [pc EXCEPT ![p] = "done"]
  /\ IF pc[p] = "success" THEN FinishInstallPhase("completed") ELSE UNCHANGED State
  /\ installLock' = Nobody
  /\ UNCHANGED <<Configured, stage, attempt, ctx, cont, faults, History>>

\* The end of install: the phase is finished, protocube told, the lock released.
Finish(p) ==
  /\ pc[p] \in {"success", "failure"}
  /\ pc' = [pc EXCEPT ![p] = "done"]
  /\ IF pc[p] = "success" THEN FinishInstallPhase("completed")
     ELSE IF phase \in {"warmup_failed", "post_warmup_failed"} THEN UNCHANGED State
     ELSE FinishInstallPhase("install_failed")
  /\ installLock' = Nobody
  /\ UNCHANGED <<Configured, stage, attempt, ctx, cont, faults, History>>

\* The deadline of the installation passes or the server is deleted.
Cancel(p) ==
  /\ pc[p] \notin {"new", "done"} /\ ctx[p]
  /\ ctx' = [ctx EXCEPT ![p] = FALSE]
  /\ UNCHANGED <<Configured, installLock, pc, stage, attempt, State, cont, faults, History>>

Step(p) ==
  \/ FetchScript(p) \/ PullInstallationImage(p)
  \/ RemoveOld(p) \/ Prepare(p) \/ Prepared(p) \/ Create(p) \/ Start(p)
  \/ ExecuteWait(p) \/ AfterExecute(p) \/ WarmupWait(p) \/ PostWait(p)
  \/ RunWarmup(p) \/ RunPostWarmup(p)
  \/ InstallerError(p) \/ WarmupError(p) \/ PostError(p) \/ Finish(p)

Next == (\E p \in Procs : Install(p) \/ Step(p) \/ Cancel(p)) \/ ScheduledPull

Spec == Init /\ [][Next]_vars

\* A goroutine goes on, and a container that never ends meets a deadline: that
\* of the installation is Cancel.  Nobody has to ask for an installation.
FairSpec == Spec /\ \A p \in Procs : WF_vars(Step(p)) /\ WF_vars(Cancel(p))

-----------------------------------------------------------------------------
\* Type invariant, and the lock: whoever is inside an installation holds
\* Server.installLock, so that two never share the container names.
TypeOK ==
  /\ script \in Scripts /\ image \in BOOLEAN /\ scheduled \in BOOLEAN
  /\ stage \in Stages /\ attempt \in 0 .. 1 + Retries
  /\ phase \in Phases /\ exitCode \in {Nil, 0, 1}
  /\ cont \in [Containers -> {"none", "created", "running", "exited"}]
  /\ \A p \in Procs : pc[p] \notin {"new", "done"} <=> installLock = p

\* When nothing is being installed, the phase that the API shows is not one
\* of the phases under way, whichever call failed or was cancelled and however
\* the failed attempts, policies and later installations followed each other.
Settled == installLock = Nobody => phase \notin {Running[s] : s \in Stages}

\* "completed" means it: every stage the script asks for passed, unless its
\* policy is to continue after a failure; and only then is the exit code 1.
CompletedPassed ==
  (phase = "completed" /\ ~script.skip /\ script.policy # "continue") =>
    /\ "installer" \in passed /\ exitCode = 0
    /\ script.warmup => "warmup" \in passed
    /\ script.post => "post" \in passed

\* Between installations no container is left, except one whose start or
\* removal failed (a cancelled context makes the installer's removal fail).
NoLeftovers ==
  installLock = Nobody => \A c \in Containers : cont[c] # "none" => c \in stuck

\* Every installation ends.
Ends == \A p \in Procs : pc[p] # "new" ~> pc[p] = "done"
=============================================================================
