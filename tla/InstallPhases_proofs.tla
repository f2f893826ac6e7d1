------------------------ MODULE InstallPhases_proofs ------------------------
(***************************************************************************)
(* Proofs about InstallPhases.tla, for every set of goroutines, every       *)
(* number of retries and every number of failing Docker calls: the type     *)
(* invariant with the lock, and what the API and Docker show between two    *)
(* installations.                                                           *)
(*                                                                         *)
(* None of the three properties is inductive.  What happens at the end of   *)
(* an installation depends on where the goroutine that holds the lock has   *)
(* been: IInv relates the place in the code to the phase, to the stages     *)
(* that have passed and to the containers that exist.                       *)
(***************************************************************************)
EXTENDS InstallPhases, TLAPS

Labels == {"new", "script", "image", "remove", "prepare", "chown", "create", "start",
           "wait", "after", "warmup", "post", "error", "success", "failure", "done"}
InStage == {"remove", "prepare", "chown", "create", "start", "wait", "error"}

\* The types of what TypeOK says nothing of, and the scripts protocube sends.
Typed ==
  /\ TypeOK
  /\ pc \in [Procs -> Labels] /\ ctx \in [Procs -> BOOLEAN]
  /\ installLock \in Procs \cup {Nobody}
  /\ stuck \subseteq Containers /\ passed \subseteq Stages
  /\ script.skip => ~script.warmup
  /\ ~script.warmup => ~script.post

\* Where the goroutine is says which phase the API shows.
PhaseInv ==
  \A p \in Procs :
    /\ pc[p] \in {"script", "image", "after", "warmup"} =>
         stage = "installer" /\ phase = "installing"
    /\ pc[p] \in InStage => phase = Running[stage]
    /\ pc[p] = "post" => stage = "warmup" /\ phase \in {"warming", "warmup_failed"}
    /\ pc[p] = "success" /\ phase = "completed" => script.skip
    /\ pc[p] = "failure" => phase # "completed"

\* Where the goroutine is says which stages have passed.
PassedInv ==
  /\ stage # "installer" => "installer" \in passed
  /\ script.policy # "continue" /\ stage = "post" => "warmup" \in passed
  /\ \A p \in Procs :
       /\ pc[p] \in {"after", "warmup"} => "installer" \in passed /\ exitCode = 0
       /\ pc[p] = "post" /\ script.policy # "continue" => "warmup" \in passed /\ exitCode = 0
       /\ pc[p] = "success" /\ script.policy # "continue" /\ ~script.skip =>
            /\ "installer" \in passed /\ exitCode = 0
            /\ script.warmup => "warmup" \in passed
            /\ script.post => "post" \in passed

\* A container exists because a call left it behind, or because the goroutine
\* is where it uses the container and will remove it.
Using(p, c) ==
  \/ c = stage /\ pc[p] \in {"start", "wait", "after"}
  \/ c = "installer" /\ stage = c /\ pc[p] = "error"
  \/ c = "permissions" /\ pc[p] = "chown"
LeftInv ==
  \A c \in Containers : cont[c] # "none" => c \in stuck \/ \E p \in Procs : Using(p, c)

IInv == Typed /\ PhaseInv /\ PassedInv /\ LeftInv /\ Settled /\ CompletedPassed

-----------------------------------------------------------------------------
\* Whoever is inside an installation holds the lock, and is alone there.
LEMMA Alone ==
  ASSUME Typed, NEW p \in Procs, pc[p] \notin {"new", "done"}
  PROVE  /\ installLock = p /\ installLock # Nobody
         /\ \A q \in Procs : q # p => pc[q] \in {"new", "done"}
BY PhasesAssumption DEF Typed, TypeOK

\* The script is fetched from protocube, or the installation has failed.
LEMMA FetchScriptInv ==
  ASSUME IInv, NEW p \in Procs, FetchScript(p)
  PROVE  IInv'
<1> USE DEF IInv, FetchScript, Go, Works, Breaks, NoFault, AFault, Configured, State, History
<1>0. /\ pc[p] \notin {"new", "done"} /\ installLock = p /\ installLock # Nobody
      /\ \A q \in Procs : q # p => pc[q] \in {"new", "done"}
  BY Alone
<1>1. Typed'
  BY <1>0, PhasesAssumption DEF Typed, TypeOK, Stages, Containers, Running, Failed, Phases, Nil,
     Labels, InStage
<1>2. PhaseInv'
  BY <1>0 DEF Typed, TypeOK, PhaseInv, Stages, Containers, Running, Failed, Phases, Nil, Labels,
     InStage
<1>3. PassedInv'
  BY <1>0 DEF Typed, TypeOK, PhaseInv, PassedInv, Stages, Containers, Running, Failed, Phases, Nil,
     Labels, InStage
<1>4. LeftInv'
  BY <1>0 DEF Typed, TypeOK, PhaseInv, LeftInv, Using, Stages, Containers, Running, Failed, Phases,
     Nil, Labels, InStage
<1>5. Settled' /\ CompletedPassed'
  BY <1>0, PhasesAssumption DEF Typed, TypeOK, PhaseInv, PassedInv, Settled, CompletedPassed,
     Stages, Containers, Running, Failed, Phases, Nil, Labels, InStage
<1> QED
  BY <1>1, <1>2, <1>3, <1>4, <1>5

\* The image is pulled, found, or missing.
LEMMA PullInstallationImageInv ==
  ASSUME IInv, NEW p \in Procs, PullInstallationImage(p)
  PROVE  IInv'
<1> USE DEF IInv, PullInstallationImage, Go, Pull, Works, Breaks, NoFault, AFault, Configured, State, History
<1>0. /\ pc[p] \notin {"new", "done"} /\ installLock = p /\ installLock # Nobody
      /\ \A q \in Procs : q # p => pc[q] \in {"new", "done"}
  BY Alone
<1>1. Typed'
  <2>1. /\ pc' \in [Procs -> Labels] /\ installLock' \in Procs \cup {Nobody}
        /\ \A q \in Procs : pc'[q] \notin {"new", "done"} <=> installLock' = q
    BY <1>0 DEF Typed, TypeOK, Labels
  <2>2. image' \in BOOLEAN /\ scheduled' \in BOOLEAN
    BY Zenon DEF Typed, TypeOK
  <2>3. UNCHANGED <<script, stage, attempt, ctx, phase, exitCode, cont, stuck, passed>>
    OBVIOUS
  <2> QED
    BY <2>1, <2>2, <2>3 DEF Typed, TypeOK
<1>2. PhaseInv'
  BY <1>0 DEF Typed, TypeOK, PhaseInv, Stages, Containers, Running, Failed, Phases, Nil, Labels,
     InStage
<1>3. PassedInv'
  BY <1>0 DEF Typed, TypeOK, PhaseInv, PassedInv, Stages, Containers, Running, Failed, Phases, Nil,
     Labels, InStage
<1>4. LeftInv'
  BY <1>0 DEF Typed, TypeOK, PhaseInv, LeftInv, Using, Stages, Containers, Running, Failed, Phases,
     Nil, Labels, InStage
<1>5. Settled' /\ CompletedPassed'
  BY <1>0, PhasesAssumption DEF Typed, TypeOK, PhaseInv, PassedInv, Settled, CompletedPassed,
     Stages, Containers, Running, Failed, Phases, Nil, Labels, InStage
<1> QED
  BY <1>1, <1>2, <1>3, <1>4, <1>5

\* The old container of the stage is removed.
LEMMA RemoveOldInv ==
  ASSUME IInv, NEW p \in Procs, RemoveOld(p)
  PROVE  IInv'
<1> USE DEF IInv, RemoveOld, Go, Put, Works, Breaks, NoFault, AFault, Configured, State, History
<1>0. /\ pc[p] \notin {"new", "done"} /\ installLock = p /\ installLock # Nobody
      /\ \A q \in Procs : q # p => pc[q] \in {"new", "done"}
  BY Alone
<1>1. Typed'
  BY <1>0, PhasesAssumption DEF Typed, TypeOK, Stages, Containers, Running, Failed, Phases, Nil,
     Labels, InStage
<1>2. PhaseInv'
  BY <1>0 DEF Typed, TypeOK, PhaseInv, Stages, Containers, Running, Failed, Phases, Nil, Labels,
     InStage
<1>3. PassedInv'
  BY <1>0 DEF Typed, TypeOK, PhaseInv, PassedInv, Stages, Containers, Running, Failed, Phases, Nil,
     Labels, InStage
<1>4. LeftInv'
  BY <1>0 DEF Typed, TypeOK, PhaseInv, LeftInv, Using, Stages, Containers, Running, Failed, Phases,
     Nil, Labels, InStage
<1>5. Settled' /\ CompletedPassed'
  BY <1>0, PhasesAssumption DEF Typed, TypeOK, PhaseInv, PassedInv, Settled, CompletedPassed,
     Stages, Containers, Running, Failed, Phases, Nil, Labels, InStage
<1> QED
  BY <1>1, <1>2, <1>3, <1>4, <1>5

\* The helper container is started.
LEMMA PrepareInv ==
  ASSUME IInv, NEW p \in Procs, Prepare(p)
  PROVE  IInv'
<1> USE DEF IInv, Prepare, Go, Put, Works, Breaks, NoFault, AFault, Configured, State, History
<1>0. /\ pc[p] \notin {"new", "done"} /\ installLock = p /\ installLock # Nobody
      /\ \A q \in Procs : q # p => pc[q] \in {"new", "done"}
  BY Alone
<1>1. Typed'
  BY <1>0, PhasesAssumption DEF Typed, TypeOK, Stages, Containers, Running, Failed, Phases, Nil,
     Labels, InStage
<1>2. PhaseInv'
  BY <1>0 DEF Typed, TypeOK, PhaseInv, Stages, Containers, Running, Failed, Phases, Nil, Labels,
     InStage
<1>3. PassedInv'
  BY <1>0 DEF Typed, TypeOK, PhaseInv, PassedInv, Stages, Containers, Running, Failed, Phases, Nil,
     Labels, InStage
<1>4. LeftInv'
  BY <1>0 DEF Typed, TypeOK, PhaseInv, LeftInv, Using, Stages, Containers, Running, Failed, Phases,
     Nil, Labels, InStage
<1>5. Settled' /\ CompletedPassed'
  BY <1>0, PhasesAssumption DEF Typed, TypeOK, PhaseInv, PassedInv, Settled, CompletedPassed,
     Stages, Containers, Running, Failed, Phases, Nil, Labels, InStage
<1> QED
  BY <1>1, <1>2, <1>3, <1>4, <1>5

\* The helper container is removed.
LEMMA PreparedInv ==
  ASSUME IInv, NEW p \in Procs, Prepared(p)
  PROVE  IInv'
<1> USE DEF IInv, Prepared, Go, Put, Works, Breaks, NoFault, AFault, Configured, State, History
<1>0. /\ pc[p] \notin {"new", "done"} /\ installLock = p /\ installLock # Nobody
      /\ \A q \in Procs : q # p => pc[q] \in {"new", "done"}
  BY Alone
<1>1. Typed'
  BY <1>0, PhasesAssumption DEF Typed, TypeOK, Stages, Containers, Running, Failed, Phases, Nil,
     Labels, InStage
<1>2. PhaseInv'
  BY <1>0 DEF Typed, TypeOK, PhaseInv, Stages, Containers, Running, Failed, Phases, Nil, Labels,
     InStage
<1>3. PassedInv'
  BY <1>0 DEF Typed, TypeOK, PhaseInv, PassedInv, Stages, Containers, Running, Failed, Phases, Nil,
     Labels, InStage
<1>4. LeftInv'
  BY <1>0 DEF Typed, TypeOK, PhaseInv, LeftInv, Using, Stages, Containers, Running, Failed, Phases,
     Nil, Labels, InStage
<1>5. Settled' /\ CompletedPassed'
  BY <1>0, PhasesAssumption DEF Typed, TypeOK, PhaseInv, PassedInv, Settled, CompletedPassed,
     Stages, Containers, Running, Failed, Phases, Nil, Labels, InStage
<1> QED
  BY <1>1, <1>2, <1>3, <1>4, <1>5

\* The container of the stage is created.
LEMMA CreateInv ==
  ASSUME IInv, NEW p \in Procs, Create(p)
  PROVE  IInv'
<1> USE DEF IInv, Create, Go, Put, Works, Breaks, NoFault, AFault, Configured, State, History
<1>0. /\ pc[p] \notin {"new", "done"} /\ installLock = p /\ installLock # Nobody
      /\ \A q \in Procs : q # p => pc[q] \in {"new", "done"}
  BY Alone
<1>1. Typed'
  BY <1>0, PhasesAssumption DEF Typed, TypeOK, Stages, Containers, Running, Failed, Phases, Nil,
     Labels, InStage
<1>2. PhaseInv'
  BY <1>0 DEF Typed, TypeOK, PhaseInv, Stages, Containers, Running, Failed, Phases, Nil, Labels,
     InStage
<1>3. PassedInv'
  BY <1>0 DEF Typed, TypeOK, PhaseInv, PassedInv, Stages, Containers, Running, Failed, Phases, Nil,
     Labels, InStage
<1>4. LeftInv'
  BY <1>0 DEF Typed, TypeOK, PhaseInv, LeftInv, Using, Stages, Containers, Running, Failed, Phases,
     Nil, Labels, InStage
<1>5. Settled' /\ CompletedPassed'
  BY <1>0, PhasesAssumption DEF Typed, TypeOK, PhaseInv, PassedInv, Settled, CompletedPassed,
     Stages, Containers, Running, Failed, Phases, Nil, Labels, InStage
<1> QED
  BY <1>1, <1>2, <1>3, <1>4, <1>5

\* The container of the stage is started, or left behind.
LEMMA StartInv ==
  ASSUME IInv, NEW p \in Procs, Start(p)
  PROVE  IInv'
<1> USE DEF IInv, Start, Go, Put, Works, Breaks, NoFault, AFault, Configured, State, History
<1>0. /\ pc[p] \notin {"new", "done"} /\ installLock = p /\ installLock # Nobody
      /\ \A q \in Procs : q # p => pc[q] \in {"new", "done"}
  BY Alone
<1>1. Typed'
  <2>1. /\ pc' \in [Procs -> Labels] /\ installLock' \in Procs \cup {Nobody}
        /\ \A q \in Procs : pc'[q] \notin {"new", "done"} <=> installLock' = q
    BY <1>0 DEF Typed, TypeOK, Labels
  <2>2. cont' \in [Containers -> {"none", "created", "running", "exited"}]
    BY DEF Typed, TypeOK, Stages, Containers
  <2>3. stuck' \subseteq Containers /\ passed' \subseteq Stages
    BY DEF Typed, TypeOK, Stages, Containers
  <2>4. /\ script' \in Scripts /\ image' \in BOOLEAN /\ scheduled' \in BOOLEAN
        /\ ctx' \in [Procs -> BOOLEAN]
        /\ script'.skip => ~script'.warmup
        /\ ~script'.warmup => ~script'.post
    BY DEF Typed, TypeOK
  <2>5. /\ stage' \in Stages /\ attempt' \in 0 .. 1 + Retries
        /\ phase' \in Phases /\ exitCode' \in {Nil, 0, 1}
    BY DEF Typed, TypeOK, Nil
  <2> QED
    BY <2>1, <2>2, <2>3, <2>4, <2>5 DEF Typed, TypeOK
<1>2. PhaseInv'
  BY <1>0 DEF Typed, TypeOK, PhaseInv, Stages, Containers, Running, Failed, Phases, Nil, Labels,
     InStage
<1>3. PassedInv'
  BY <1>0 DEF Typed, TypeOK, PhaseInv, PassedInv, Stages, Containers, Running, Failed, Phases, Nil,
     Labels, InStage
<1>4. LeftInv'
  BY <1>0 DEF Typed, TypeOK, PhaseInv, LeftInv, Using, Stages, Containers, Running, Failed, Phases,
     Nil, Labels, InStage
<1>5. Settled' /\ CompletedPassed'
  BY <1>0, PhasesAssumption DEF Typed, TypeOK, PhaseInv, PassedInv, Settled, CompletedPassed,
     Stages, Containers, Running, Failed, Phases, Nil, Labels, InStage
<1> QED
  BY <1>1, <1>2, <1>3, <1>4, <1>5

\* The installer has exited or the wait has failed.
LEMMA ExecuteWaitInv ==
  ASSUME IInv, NEW p \in Procs, ExecuteWait(p)
  PROVE  IInv'
<1> USE DEF IInv, ExecuteWait, Go, Put, Works, Breaks, NoFault, AFault, Configured, State, History
<1>0. /\ pc[p] \notin {"new", "done"} /\ installLock = p /\ installLock # Nobody
      /\ \A q \in Procs : q # p => pc[q] \in {"new", "done"}
  BY Alone
<1>1. Typed'
  <2>1. /\ pc' \in [Procs -> Labels] /\ installLock' \in Procs \cup {Nobody}
        /\ \A q \in Procs : pc'[q] \notin {"new", "done"} <=> installLock' = q
    BY <1>0 DEF Typed, TypeOK, Labels
  <2>2. cont' \in [Containers -> {"none", "created", "running", "exited"}]
    BY DEF Typed, TypeOK, Stages, Containers
  <2>3. stuck' \subseteq Containers /\ passed' \subseteq Stages
    BY DEF Typed, TypeOK, Stages, Containers
  <2>4. /\ script' \in Scripts /\ image' \in BOOLEAN /\ scheduled' \in BOOLEAN
        /\ ctx' \in [Procs -> BOOLEAN]
        /\ script'.skip => ~script'.warmup
        /\ ~script'.warmup => ~script'.post
    BY DEF Typed, TypeOK
  <2>5. /\ stage' \in Stages /\ attempt' \in 0 .. 1 + Retries
        /\ phase' \in Phases /\ exitCode' \in {Nil, 0, 1}
    BY DEF Typed, TypeOK, Nil
  <2> QED
    BY <2>1, <2>2, <2>3, <2>4, <2>5 DEF Typed, TypeOK
<1>2. PhaseInv'
  BY <1>0 DEF Typed, TypeOK, PhaseInv, Stages, Containers, Running, Failed, Phases, Nil, Labels,
     InStage
<1>3. PassedInv'
  BY <1>0 DEF Typed, TypeOK, PhaseInv, PassedInv, Stages, Containers, Running, Failed, Phases, Nil,
     Labels, InStage
<1>4. LeftInv'
  BY <1>0 DEF Typed, TypeOK, PhaseInv, LeftInv, Using, Stages, Containers, Running, Failed, Phases,
     Nil, Labels, InStage
<1>5. Settled' /\ CompletedPassed'
  BY <1>0, PhasesAssumption DEF Typed, TypeOK, PhaseInv, PassedInv, Settled, CompletedPassed,
     Stages, Containers, Running, Failed, Phases, Nil, Labels, InStage
<1> QED
  BY <1>1, <1>2, <1>3, <1>4, <1>5

\* The installer is removed, or left behind.
LEMMA AfterExecuteInv ==
  ASSUME IInv, NEW p \in Procs, AfterExecute(p)
  PROVE  IInv'
<1> USE DEF IInv, AfterExecute, Go, Put, Works, Breaks, NoFault, AFault, Configured, State, History
<1>0. /\ pc[p] \notin {"new", "done"} /\ installLock = p /\ installLock # Nobody
      /\ \A q \in Procs : q # p => pc[q] \in {"new", "done"}
  BY Alone
<1>1. Typed'
  <2>1. /\ pc' \in [Procs -> Labels] /\ installLock' \in Procs \cup {Nobody}
        /\ \A q \in Procs : pc'[q] \notin {"new", "done"} <=> installLock' = q
    BY <1>0 DEF Typed, TypeOK, Labels
  <2>2. cont' \in [Containers -> {"none", "created", "running", "exited"}]
    BY DEF Typed, TypeOK, Stages, Containers
  <2>3. stuck' \subseteq Containers /\ passed' \subseteq Stages
    BY DEF Typed, TypeOK, Stages, Containers
  <2>4. /\ script' \in Scripts /\ image' \in BOOLEAN /\ scheduled' \in BOOLEAN
        /\ ctx' \in [Procs -> BOOLEAN]
        /\ script'.skip => ~script'.warmup
        /\ ~script'.warmup => ~script'.post
    BY DEF Typed, TypeOK
  <2>5. /\ stage' \in Stages /\ attempt' \in 0 .. 1 + Retries
        /\ phase' \in Phases /\ exitCode' \in {Nil, 0, 1}
    BY DEF Typed, TypeOK, Nil
  <2> QED
    BY <2>1, <2>2, <2>3, <2>4, <2>5 DEF Typed, TypeOK
<1>2. PhaseInv'
  BY <1>0 DEF Typed, TypeOK, PhaseInv, Stages, Containers, Running, Failed, Phases, Nil, Labels,
     InStage
<1>3. PassedInv'
  BY <1>0 DEF Typed, TypeOK, PhaseInv, PassedInv, Stages, Containers, Running, Failed, Phases, Nil,
     Labels, InStage
<1>4. LeftInv'
  BY <1>0 DEF Typed, TypeOK, PhaseInv, LeftInv, Using, Stages, Containers, Running, Failed, Phases,
     Nil, Labels, InStage
<1>5. Settled' /\ CompletedPassed'
  BY <1>0, PhasesAssumption DEF Typed, TypeOK, PhaseInv, PassedInv, Settled, CompletedPassed,
     Stages, Containers, Running, Failed, Phases, Nil, Labels, InStage
<1> QED
  BY <1>1, <1>2, <1>3, <1>4, <1>5

\* The warmup has ended.
LEMMA WarmupWaitInv ==
  ASSUME IInv, NEW p \in Procs, WarmupWait(p)
  PROVE  IInv'
<1> USE DEF IInv, WarmupWait, Go, Put, Configured, State, History
<1>0. /\ pc[p] \notin {"new", "done"} /\ installLock = p /\ installLock # Nobody
      /\ \A q \in Procs : q # p => pc[q] \in {"new", "done"}
  BY Alone
<1>1. Typed'
  <2>1. /\ pc' \in [Procs -> Labels] /\ installLock' \in Procs \cup {Nobody}
        /\ \A q \in Procs : pc'[q] \notin {"new", "done"} <=> installLock' = q
    BY <1>0 DEF Typed, TypeOK, Labels
  <2>2. cont' \in [Containers -> {"none", "created", "running", "exited"}]
    BY DEF Typed, TypeOK, Stages, Containers
  <2>3. stuck' \subseteq Containers /\ passed' \subseteq Stages
    BY DEF Typed, TypeOK, Stages, Containers
  <2>4. /\ script' \in Scripts /\ image' \in BOOLEAN /\ scheduled' \in BOOLEAN
        /\ ctx' \in [Procs -> BOOLEAN]
        /\ script'.skip => ~script'.warmup
        /\ ~script'.warmup => ~script'.post
    BY DEF Typed, TypeOK
  <2>5. /\ stage' \in Stages /\ attempt' \in 0 .. 1 + Retries
        /\ phase' \in Phases /\ exitCode' \in {Nil, 0, 1}
    BY DEF Typed, TypeOK, Nil
  <2> QED
    BY <2>1, <2>2, <2>3, <2>4, <2>5 DEF Typed, TypeOK
<1>2. PhaseInv'
  BY <1>0 DEF Typed, TypeOK, PhaseInv, Stages, Containers, Running, Failed, Phases, Nil, Labels,
     InStage
<1>3. PassedInv'
  BY <1>0 DEF Typed, TypeOK, PhaseInv, PassedInv, Stages, Containers, Running, Failed, Phases, Nil,
     Labels, InStage
<1>4. LeftInv'
  BY <1>0 DEF Typed, TypeOK, PhaseInv, LeftInv, Using, Stages, Containers, Running, Failed, Phases,
     Nil, Labels, InStage
<1>5. Settled' /\ CompletedPassed'
  BY <1>0, PhasesAssumption DEF Typed, TypeOK, PhaseInv, PassedInv, Settled, CompletedPassed,
     Stages, Containers, Running, Failed, Phases, Nil, Labels, InStage
<1> QED
  BY <1>1, <1>2, <1>3, <1>4, <1>5

\* The post-warmup has ended.
LEMMA PostWaitInv ==
  ASSUME IInv, NEW p \in Procs, PostWait(p)
  PROVE  IInv'
<1> USE DEF IInv, PostWait, Go, Put, Configured, State, History
<1>0. /\ pc[p] \notin {"new", "done"} /\ installLock = p /\ installLock # Nobody
      /\ \A q \in Procs : q # p => pc[q] \in {"new", "done"}
  BY Alone
<1>1. Typed'
  <2>1. /\ pc' \in [Procs -> Labels] /\ installLock' \in Procs \cup {Nobody}
        /\ \A q \in Procs : pc'[q] \notin {"new", "done"} <=> installLock' = q
    BY <1>0 DEF Typed, TypeOK, Labels
  <2>2. cont' \in [Containers -> {"none", "created", "running", "exited"}]
    BY DEF Typed, TypeOK, Stages, Containers
  <2>3. stuck' \subseteq Containers /\ passed' \subseteq Stages
    BY DEF Typed, TypeOK, Stages, Containers
  <2>4. /\ script' \in Scripts /\ image' \in BOOLEAN /\ scheduled' \in BOOLEAN
        /\ ctx' \in [Procs -> BOOLEAN]
        /\ script'.skip => ~script'.warmup
        /\ ~script'.warmup => ~script'.post
    BY DEF Typed, TypeOK
  <2>5. /\ stage' \in Stages /\ attempt' \in 0 .. 1 + Retries
        /\ phase' \in Phases /\ exitCode' \in {Nil, 0, 1}
    BY DEF Typed, TypeOK, Nil
  <2> QED
    BY <2>1, <2>2, <2>3, <2>4, <2>5 DEF Typed, TypeOK
<1>2. PhaseInv'
  BY <1>0 DEF Typed, TypeOK, PhaseInv, Stages, Containers, Running, Failed, Phases, Nil, Labels,
     InStage
<1>3. PassedInv'
  BY <1>0 DEF Typed, TypeOK, PhaseInv, PassedInv, Stages, Containers, Running, Failed, Phases, Nil,
     Labels, InStage
<1>4. LeftInv'
  BY <1>0 DEF Typed, TypeOK, PhaseInv, LeftInv, Using, Stages, Containers, Running, Failed, Phases,
     Nil, Labels, InStage
<1>5. Settled' /\ CompletedPassed'
  BY <1>0, PhasesAssumption DEF Typed, TypeOK, PhaseInv, PassedInv, Settled, CompletedPassed,
     Stages, Containers, Running, Failed, Phases, Nil, Labels, InStage
<1> QED
  BY <1>1, <1>2, <1>3, <1>4, <1>5

\* The warmup begins, or there is none.
LEMMA RunWarmupInv ==
  ASSUME IInv, NEW p \in Procs, RunWarmup(p)
  PROVE  IInv'
<1> USE DEF IInv, RunWarmup, Go, Begin, StartInstallPhase, Configured, State, History
<1>0. /\ pc[p] \notin {"new", "done"} /\ installLock = p /\ installLock # Nobody
      /\ \A q \in Procs : q # p => pc[q] \in {"new", "done"}
  BY Alone
<1>1. Typed'
  BY <1>0, PhasesAssumption DEF Typed, TypeOK, Stages, Containers, Running, Failed, Phases, Nil,
     Labels, InStage
<1>2. PhaseInv'
  BY <1>0 DEF Typed, TypeOK, PhaseInv, Stages, Containers, Running, Failed, Phases, Nil, Labels,
     InStage
<1>3. PassedInv'
  BY <1>0 DEF Typed, TypeOK, PhaseInv, PassedInv, Stages, Containers, Running, Failed, Phases, Nil,
     Labels, InStage
<1>4. LeftInv'
  BY <1>0 DEF Typed, TypeOK, PhaseInv, LeftInv, Using, Stages, Containers, Running, Failed, Phases,
     Nil, Labels, InStage
<1>5. Settled' /\ CompletedPassed'
  BY <1>0, PhasesAssumption DEF Typed, TypeOK, PhaseInv, PassedInv, Settled, CompletedPassed,
     Stages, Containers, Running, Failed, Phases, Nil, Labels, InStage
<1> QED
  BY <1>1, <1>2, <1>3, <1>4, <1>5

\* The post-warmup begins, or there is none.
LEMMA RunPostWarmupInv ==
  ASSUME IInv, NEW p \in Procs, RunPostWarmup(p)
  PROVE  IInv'
<1> USE DEF IInv, RunPostWarmup, Go, Begin, StartInstallPhase, Configured, State, History
<1>0. /\ pc[p] \notin {"new", "done"} /\ installLock = p /\ installLock # Nobody
      /\ \A q \in Procs : q # p => pc[q] \in {"new", "done"}
  BY Alone
<1>1. Typed'
  BY <1>0, PhasesAssumption DEF Typed, TypeOK, Stages, Containers, Running, Failed, Phases, Nil,
     Labels, InStage
<1>2. PhaseInv'
  BY <1>0 DEF Typed, TypeOK, PhaseInv, Stages, Containers, Running, Failed, Phases, Nil, Labels,
     InStage
<1>3. PassedInv'
  BY <1>0 DEF Typed, TypeOK, PhaseInv, PassedInv, Stages, Containers, Running, Failed, Phases, Nil,
     Labels, InStage
<1>4. LeftInv'
  BY <1>0 DEF Typed, TypeOK, PhaseInv, LeftInv, Using, Stages, Containers, Running, Failed, Phases,
     Nil, Labels, InStage
<1>5. Settled' /\ CompletedPassed'
  BY <1>0, PhasesAssumption DEF Typed, TypeOK, PhaseInv, PassedInv, Settled, CompletedPassed,
     Stages, Containers, Running, Failed, Phases, Nil, Labels, InStage
<1> QED
  BY <1>1, <1>2, <1>3, <1>4, <1>5

\* A failed installer is removed, or left behind.
LEMMA InstallerErrorInv ==
  ASSUME IInv, NEW p \in Procs, InstallerError(p)
  PROVE  IInv'
<1> USE DEF IInv, InstallerError, Go, Put, Works, Breaks, NoFault, AFault, Configured, State, History
<1>0. /\ pc[p] \notin {"new", "done"} /\ installLock = p /\ installLock # Nobody
      /\ \A q \in Procs : q # p => pc[q] \in {"new", "done"}
  BY Alone
<1>1. Typed'
  <2>1. /\ pc' \in [Procs -> Labels] /\ installLock' \in Procs \cup {Nobody}
        /\ \A q \in Procs : pc'[q] \notin {"new", "done"} <=> installLock' = q
    BY <1>0 DEF Typed, TypeOK, Labels
  <2>2. cont' \in [Containers -> {"none", "created", "running", "exited"}]
    BY DEF Typed, TypeOK, Stages, Containers
  <2>3. stuck' \subseteq Containers /\ passed' \subseteq Stages
    BY DEF Typed, TypeOK, Stages, Containers
  <2>4. /\ script' \in Scripts /\ image' \in BOOLEAN /\ scheduled' \in BOOLEAN
        /\ ctx' \in [Procs -> BOOLEAN]
        /\ script'.skip => ~script'.warmup
        /\ ~script'.warmup => ~script'.post
    BY DEF Typed, TypeOK
  <2>5. /\ stage' \in Stages /\ attempt' \in 0 .. 1 + Retries
        /\ phase' \in Phases /\ exitCode' \in {Nil, 0, 1}
    BY DEF Typed, TypeOK, Nil
  <2> QED
    BY <2>1, <2>2, <2>3, <2>4, <2>5 DEF Typed, TypeOK
<1>2. PhaseInv'
  BY <1>0 DEF Typed, TypeOK, PhaseInv, Stages, Containers, Running, Failed, Phases, Nil, Labels,
     InStage
<1>3. PassedInv'
  BY <1>0 DEF Typed, TypeOK, PhaseInv, PassedInv, Stages, Containers, Running, Failed, Phases, Nil,
     Labels, InStage
<1>4. LeftInv'
  BY <1>0 DEF Typed, TypeOK, PhaseInv, LeftInv, Using, Stages, Containers, Running, Failed, Phases,
     Nil, Labels, InStage
<1>5. Settled' /\ CompletedPassed'
  BY <1>0, PhasesAssumption DEF Typed, TypeOK, PhaseInv, PassedInv, Settled, CompletedPassed,
     Stages, Containers, Running, Failed, Phases, Nil, Labels, InStage
<1> QED
  BY <1>1, <1>2, <1>3, <1>4, <1>5

\* A failed warmup is repeated, ignored or the end.
LEMMA WarmupErrorInv ==
  ASSUME IInv, NEW p \in Procs, WarmupError(p)
  PROVE  IInv'
<1> USE DEF IInv, WarmupError, Go, Begin, StartInstallPhase, FinishInstallPhase, WarmupAttempts, Configured, State, History
<1>0. /\ pc[p] \notin {"new", "done"} /\ installLock = p /\ installLock # Nobody
      /\ \A q \in Procs : q # p => pc[q] \in {"new", "done"}
  BY Alone
<1>1. Typed'
  BY <1>0, PhasesAssumption DEF Typed, TypeOK, Stages, Containers, Running, Failed, Phases, Nil,
     Labels, InStage
<1>2. PhaseInv'
  BY <1>0 DEF Typed, TypeOK, PhaseInv, Stages, Containers, Running, Failed, Phases, Nil, Labels,
     InStage
<1>3. PassedInv'
  BY <1>0 DEF Typed, TypeOK, PhaseInv, PassedInv, Stages, Containers, Running, Failed, Phases, Nil,
     Labels, InStage
<1>4. LeftInv'
  BY <1>0 DEF Typed, TypeOK, PhaseInv, LeftInv, Using, Stages, Containers, Running, Failed, Phases,
     Nil, Labels, InStage
<1>5. Settled' /\ CompletedPassed'
  BY <1>0, PhasesAssumption DEF Typed, TypeOK, PhaseInv, PassedInv, Settled, CompletedPassed,
     Stages, Containers, Running, Failed, Phases, Nil, Labels, InStage
<1> QED
  BY <1>1, <1>2, <1>3, <1>4, <1>5

\* A failed post-warmup is ignored or the end.
LEMMA PostErrorInv ==
  ASSUME IInv, NEW p \in Procs, PostError(p)
  PROVE  IInv'
<1> USE DEF IInv, PostError, Go, FinishInstallPhase, Configured, State, History
<1>0. /\ pc[p] \notin {"new", "done"} /\ installLock = p /\ installLock # Nobody
      /\ \A q \in Procs : q # p => pc[q] \in {"new", "done"}
  BY Alone
<1>1. Typed'
  BY <1>0, PhasesAssumption DEF Typed, TypeOK, Stages, Containers, Running, Failed, Phases, Nil,
     Labels, InStage
<1>2. PhaseInv'
  BY <1>0 DEF Typed, TypeOK, PhaseInv, Stages, Containers, Running, Failed, Phases, Nil, Labels,
     InStage
<1>3. PassedInv'
  BY <1>0 DEF Typed, TypeOK, PhaseInv, PassedInv, Stages, Containers, Running, Failed, Phases, Nil,
     Labels, InStage
<1>4. LeftInv'
  BY <1>0 DEF Typed, TypeOK, PhaseInv, LeftInv, Using, Stages, Containers, Running, Failed, Phases,
     Nil, Labels, InStage
<1>5. Settled' /\ CompletedPassed'
  BY <1>0, PhasesAssumption DEF Typed, TypeOK, PhaseInv, PassedInv, Settled, CompletedPassed,
     Stages, Containers, Running, Failed, Phases, Nil, Labels, InStage
<1> QED
  BY <1>1, <1>2, <1>3, <1>4, <1>5

\* The end of an installation.
LEMMA FinishInv ==
  ASSUME IInv, NEW p \in Procs, Finish(p)
  PROVE  IInv'
<1> USE DEF IInv, Finish, FinishInstallPhase, Configured, State, History
<1>0. /\ pc[p] \notin {"new", "done"} /\ installLock = p /\ installLock # Nobody
      /\ \A q \in Procs : q # p => pc[q] \in {"new", "done"}
  BY Alone
<1>1. Typed'
  BY <1>0, PhasesAssumption DEF Typed, TypeOK, Stages, Containers, Running, Failed, Phases, Nil,
     Labels, InStage
<1>2. PhaseInv'
  BY <1>0 DEF Typed, TypeOK, PhaseInv, Stages, Containers, Running, Failed, Phases, Nil, Labels,
     InStage
<1>3. PassedInv'
  BY <1>0 DEF Typed, TypeOK, PhaseInv, PassedInv, Stages, Containers, Running, Failed, Phases, Nil,
     Labels, InStage
<1>4. LeftInv'
  BY <1>0 DEF Typed, TypeOK, PhaseInv, LeftInv, Using, Stages, Containers, Running, Failed, Phases,
     Nil, Labels, InStage
<1>5. Settled' /\ CompletedPassed'
  BY <1>0, PhasesAssumption DEF Typed, TypeOK, PhaseInv, PassedInv, Settled, CompletedPassed,
     Stages, Containers, Running, Failed, Phases, Nil, Labels, InStage
<1> QED
  BY <1>1, <1>2, <1>3, <1>4, <1>5

\* A refused installation, the start of one, and one that is complete at once.
LEMMA InstallInv ==
  ASSUME IInv, NEW p \in Procs, Install(p)
  PROVE  IInv'
<1> USE DEF IInv, Install, Go, StartInstallPhase, FinishInstallPhase, Configured, State, History
<1> USE PhasesAssumption
<1>0. pc[p] = "new" /\ installLock # p
  BY DEF Typed, TypeOK
<1>1. CASE installLock # Nobody
  <2>1. /\ pc' = [pc EXCEPT ![p] = "done"]
        /\ UNCHANGED <<script, image, scheduled, installLock, stage, attempt, ctx, phase,
                       exitCode, cont, faults, stuck, passed>>
    BY <1>1
  <2> QED
    BY <1>0, <1>1, <2>1 DEF Typed, TypeOK, Labels, InStage, PhaseInv, PassedInv, LeftInv,
       Using, Settled, CompletedPassed
<1>2. CASE installLock = Nobody
  <2>0. \A q \in Procs : pc[q] \in {"new", "done"}
    BY <1>2 DEF Typed, TypeOK
  <2>1. /\ installLock' = p /\ stage' = "installer" /\ attempt' = 0 /\ passed' = {}
        /\ UNCHANGED <<script, image, scheduled, ctx, cont, faults, stuck>>
        /\ \/ /\ ~script.skip /\ pc' = [pc EXCEPT ![p] = "script"]
              /\ phase' = Running["installer"] /\ exitCode' = Nil
           \/ /\ script.skip /\ pc' = [pc EXCEPT ![p] = "success"]
              /\ phase' = "completed"
              /\ exitCode' = IF exitCode = Nil THEN 0 ELSE exitCode
    BY <1>2
  <2> QED
    BY <1>2, <2>0, <2>1 DEF Typed, TypeOK, Stages, Running, Phases, Nil, Labels, InStage,
       PhaseInv, PassedInv, LeftInv, Using, Settled, CompletedPassed
<1> QED
  BY <1>1, <1>2

\* The context of an installation is over.
LEMMA CancelInv ==
  ASSUME IInv, NEW p \in Procs, Cancel(p)
  PROVE  IInv'
BY DEF IInv, Cancel, Configured, State, History, Typed, TypeOK, PhaseInv, PassedInv, LeftInv,
   Using, Settled, CompletedPassed

\* The cron pulls the image.
LEMMA ScheduledPullInv ==
  ASSUME IInv, ScheduledPull
  PROVE  IInv'
BY DEF IInv, ScheduledPull, State, History, Typed, TypeOK, PhaseInv, PassedInv, LeftInv,
   Using, Settled, CompletedPassed

\* IInv is an invariant: it holds at first, and every step keeps it.
THEOREM Invariance == Spec => []IInv
<1>1. Init => IInv
  <2> SUFFICES ASSUME Init PROVE IInv
    OBVIOUS
  <2>1. /\ script \in Scripts
        /\ script.skip => ~script.warmup
        /\ ~script.warmup => ~script.post
    BY DEF Init
  <2>2. /\ image \in BOOLEAN /\ scheduled \in BOOLEAN
        /\ stage \in Stages /\ phase \in Phases /\ stuck \subseteq Containers
        /\ passed \subseteq Stages /\ ctx \in [Procs -> BOOLEAN]
        /\ installLock \in Procs \cup {Nobody}
    BY DEF Init, Stages, Phases
  <2>3. attempt \in 0 .. 1 + Retries /\ exitCode \in {Nil, 0, 1}
    BY PhasesAssumption DEF Init
  <2>4. /\ cont \in [Containers -> {"none", "created", "running", "exited"}]
        /\ pc \in [Procs -> Labels]
    BY DEF Init, Labels
  <2>5. \A p \in Procs : pc[p] = "new" /\ installLock # p
    BY PhasesAssumption DEF Init
  <2>6. \A p \in Procs : pc[p] \notin {"new", "done"} <=> installLock = p
    BY <2>5
  <2>9. Typed
    BY <2>1, <2>2, <2>3, <2>4, <2>6 DEF Typed, TypeOK
  <2>7. PhaseInv /\ PassedInv /\ LeftInv
    BY <2>5 DEF Init, PhaseInv, PassedInv, LeftInv, InStage
  <2>8. Settled /\ CompletedPassed
    BY DEF Init, Settled, CompletedPassed, Stages, Running
  <2> QED
    BY <2>7, <2>8, <2>9 DEF IInv
<1>2. IInv /\ [Next]_vars => IInv'
  <2> SUFFICES ASSUME IInv, [Next]_vars PROVE IInv'
    OBVIOUS
  <2>1. CASE UNCHANGED vars
    BY <2>1 DEF vars, IInv, Typed, TypeOK, PhaseInv, PassedInv, LeftInv, Using, Settled,
       CompletedPassed
  <2>2. CASE ScheduledPull
    BY <2>2, ScheduledPullInv
  <2>3. ASSUME NEW p \in Procs, Install(p) \/ Step(p) \/ Cancel(p)
        PROVE  IInv'
    BY <2>3, InstallInv, CancelInv, FetchScriptInv, PullInstallationImageInv, RemoveOldInv,
       PrepareInv, PreparedInv, CreateInv, StartInv, ExecuteWaitInv, AfterExecuteInv,
       WarmupWaitInv, PostWaitInv, RunWarmupInv, RunPostWarmupInv, InstallerErrorInv,
       WarmupErrorInv, PostErrorInv, FinishInv DEF Step
  <2> QED
    BY <2>1, <2>2, <2>3 DEF Next
<1> QED
  BY <1>1, <1>2, PTL DEF Spec

\* The type invariant, with the lock: Server.installLock is held exactly by the
\* goroutine that is inside install, so that two installations of a server never
\* meet at the fixed names of its containers.
THEOREM TypeCorrect == Spec => []TypeOK
<1>1. IInv => TypeOK
  BY DEF IInv, Typed
<1> QED
  BY <1>1, Invariance, PTL

\* Between two installations the phase that GetInstallState returns is never one
\* that is under way, whatever failed or was cancelled before.
THEOREM PhaseSettles == Spec => []Settled
<1>1. IInv => Settled
  BY DEF IInv
<1> QED
  BY <1>1, Invariance, PTL

\* The phase "completed" is shown only when every stage that the script asks for
\* has passed, unless the script's policy is to continue after a failed warmup.
THEOREM CompletedMeansPassed == Spec => []CompletedPassed
<1>1. IInv => CompletedPassed
  BY DEF IInv
<1> QED
  BY <1>1, Invariance, PTL

\* After an installation no container of it exists, except one whose start or
\* removal has failed.
THEOREM LeavesNothing == Spec => []NoLeftovers
<1>1. IInv => NoLeftovers
  BY PhasesAssumption DEF IInv, Typed, TypeOK, LeftInv, Using, NoLeftovers
<1> QED
  BY <1>1, Invariance, PTL
=============================================================================
