------------------------- MODULE InstallLock_proofs -------------------------
(***************************************************************************)
(* Mutual exclusion of the installations of one base, for any number of    *)
(* servers.  OneInstaller is not inductive: it says nothing of the lock    *)
(* file that keeps a second server out.  OwnerInv adds it: as long as the  *)
(* directory has not been removed, a server between the creation of the    *)
(* lock file and its release has its name in the file; DirInv says that    *)
(* there is no such file without the directory.                            *)
(***************************************************************************)
EXTENDS InstallLock, TLAPS

\* From the creation of the lock file to its removal.
Owning == {"entries", "install", "script", "release", "giveBack"}

OwnerInv == ~torn => \A s \in Servers : pc[s] \in Owning => lockFile = s

\* The lock file is a file of the directory.
DirInv == lockFile # None => dir

IInv == TypeOK /\ OwnerInv /\ DirInv

-----------------------------------------------------------------------------
(* One lemma per part of the system.                                         *)

\* The file-system calls before an installation keep the invariant.
LEMMA AcquireInv ==
    ASSUME IInv, NEW s \in Servers,
           CheckBase(s) \/ MakeDir(s) \/ CreateLock(s) \/ ReadEntries(s)
    PROVE  IInv'
<1> USE InstallAssumption
<1>1. CASE CheckBase(s)
  <2>1. TypeOK'
    BY <1>1 DEF IInv, TypeOK, CheckBase, Look, Move, BeginWait, Others, files,
                InstallPC, StartPC
  <2>2. OwnerInv' /\ DirInv'
    BY <1>1 DEF IInv, TypeOK, OwnerInv, DirInv, Owning, CheckBase, Look, Move, BeginWait, files
  <2> QED BY <2>1, <2>2 DEF IInv
<1>2. CASE MakeDir(s)
  BY <1>2 DEF IInv, TypeOK, OwnerInv, DirInv, Owning, MakeDir, Move, Others, InstallPC, StartPC
<1>3. CASE CreateLock(s)
  <2>1. TypeOK'
    BY <1>3 DEF IInv, TypeOK, CreateLock, Look, Move, Others, files, InstallPC, StartPC
  <2>2. OwnerInv' /\ DirInv'
    BY <1>3 DEF IInv, TypeOK, OwnerInv, DirInv, Owning, CreateLock, Look, Move, files
  <2> QED BY <2>1, <2>2 DEF IInv
<1>4. CASE ReadEntries(s)
  <2>1. TypeOK'
    BY <1>4 DEF IInv, TypeOK, ReadEntries, RemoveLock, EndInstall, Look, Move, Others,
                files, InstallPC, StartPC
  <2>2. OwnerInv' /\ DirInv'
    BY <1>4 DEF IInv, TypeOK, OwnerInv, DirInv, Owning, ReadEntries, RemoveLock, Look, Move, files
  <2> QED BY <2>1, <2>2 DEF IInv
<1> QED BY <1>1, <1>2, <1>3, <1>4

\* So do an installation, its end and the way a failed one is cleaned up.
LEMMA InstallInv ==
    ASSUME IInv, NEW s \in Servers, Install(s) \/ Release(s) \/ CleanUp(s)
    PROVE  IInv'
<1> USE InstallAssumption
<1>1. CASE Install(s)
  <2>1. TypeOK'
    BY <1>1 DEF IInv, TypeOK, Install, RunScript, Complete, SkipScripts, Fail, EndInstall,
                Move, Others, files, InstallPC, StartPC
  <2>2. OwnerInv' /\ DirInv'
    BY <1>1 DEF IInv, TypeOK, OwnerInv, DirInv, Owning, Install, RunScript, Complete, SkipScripts,
                Fail, Move, files
  <2> QED BY <2>1, <2>2 DEF IInv
<1>2. CASE Release(s)
  <2>1. TypeOK'
    BY <1>2 DEF IInv, TypeOK, Release, BeginWait, RemoveLock, Move, Others, InstallPC, StartPC
  <2>2. OwnerInv' /\ DirInv'
    BY <1>2 DEF IInv, TypeOK, OwnerInv, DirInv, Owning, Release, BeginWait, RemoveLock, Move
  <2> QED BY <2>1, <2>2 DEF IInv
<1>3. CASE CleanUp(s)
  <2>1. TypeOK'
    BY <1>3 DEF IInv, TypeOK, CleanUp, RemoveLock, RemoveAll, Move, Others, InstallPC, StartPC
  <2>2. OwnerInv' /\ DirInv'
    BY <1>3 DEF IInv, TypeOK, OwnerInv, DirInv, Owning, CleanUp, RemoveLock, RemoveAll, Move
  <2> QED BY <2>1, <2>2 DEF IInv
<1> QED BY <1>1, <1>2, <1>3

\* And the waits, the mount and a reinstallation, which takes no lock.
LEMMA WaitInv ==
    ASSUME IInv, NEW s \in Servers, Wait(s) \/ Mount(s) \/ Stop(s) \/ Reinstall(s)
    PROVE  IInv'
<1> USE InstallAssumption
<1>1. CASE Wait(s)
  <2>1. TypeOK'
    BY <1>1 DEF IInv, TypeOK, Wait, Poll, Look, RemoveAll, Move, Others, files,
                InstallPC, StartPC
  <2>2. OwnerInv' /\ DirInv'
    BY <1>1 DEF IInv, TypeOK, OwnerInv, DirInv, Owning, Wait, Poll, Look, RemoveAll, Move, files
  <2> QED BY <2>1, <2>2 DEF IInv
<1>2. CASE Mount(s) \/ Stop(s)
  BY <1>2 DEF IInv, TypeOK, OwnerInv, DirInv, Owning, Mount, Stop, Look, Move, Others, files,
              InstallPC, StartPC
<1>3. CASE Reinstall(s)
  <2>1. TypeOK'
    BY <1>3 DEF IInv, TypeOK, Reinstall, RunScript, Complete, SkipScripts, Fail, Look, Move,
                Others, files, InstallPC, StartPC
  <2>2. OwnerInv' /\ DirInv'
    BY <1>3 DEF IInv, TypeOK, OwnerInv, DirInv, Owning, Reinstall, RunScript, Complete, SkipScripts,
                Fail, Look, Move, files
  <2> QED BY <2>1, <2>2 DEF IInv
<1> QED BY <1>1, <1>2, <1>3

\* Requests, deletions and a restart of the daemon.
LEMMA OutsideInv ==
    ASSUME IInv,
           (\E s \in Servers : Request(s) \/ Cancel(s)) \/ Crash
    PROVE  IInv'
<1> USE InstallAssumption
<1>1. CASE Crash
  BY <1>1 DEF IInv, TypeOK, OwnerInv, DirInv, Owning, Crash, InstallPC, StartPC
<1>2. ASSUME NEW s \in Servers, Request(s)
      PROVE  IInv'
  BY <1>2 DEF IInv, TypeOK, OwnerInv, DirInv, Owning, Request, Look, Move, Others, files,
              InstallPC, StartPC
<1>3. ASSUME NEW s \in Servers, Cancel(s)
      PROVE  IInv'
  BY <1>3 DEF IInv, TypeOK, OwnerInv, DirInv, Owning, Cancel, files
<1> QED BY <1>1, <1>2, <1>3

-----------------------------------------------------------------------------
\* IInv is inductive.
LEMMA Inductive == IInv /\ [Next]_vars => IInv'
<1> SUFFICES ASSUME IInv, [Next]_vars
             PROVE  IInv'
  OBVIOUS
<1>1. CASE UNCHANGED vars
  BY <1>1 DEF IInv, TypeOK, OwnerInv, DirInv, Owning, vars, files
<1>2. CASE Crash
  BY <1>2, OutsideInv
<1>3. ASSUME NEW s \in Servers, Request(s) \/ Cancel(s)
      PROVE  IInv'
  BY <1>3, OutsideInv
<1>4. ASSUME NEW s \in Servers, Step(s) \/ Stop(s)
      PROVE  IInv'
  BY <1>4, AcquireInv, InstallInv, WaitInv DEF Step
<1> QED BY <1>1, <1>2, <1>3, <1>4 DEF Next

\* The invariant holds in every reachable state.
LEMMA Invariance == Spec => []IInv
<1>1. Init => IInv
  BY InstallAssumption DEF Init, IInv, TypeOK, OwnerInv, DirInv, Owning, InstallPC, StartPC
<1> QED BY <1>1, Inductive, PTL DEF Spec

\* Every variable keeps its type, for any set of servers and any faults.
THEOREM InstallTyping == Spec => []TypeOK
BY Invariance, PTL DEF IInv

\* Until the directory is removed for the first time one start at most installs
\* the base, however many servers check, create and lock it at the same time.
THEOREM ExclusiveInstall == Spec => []OneInstaller
<1>1. IInv => OneInstaller
  BY DEF IInv, OwnerInv, Owning, OneInstaller
<1> QED BY <1>1, Invariance, PTL
=============================================================================
