----------------------------- MODULE InstallLock -----------------------------
(***************************************************************************)
(* The servers of one daemon that share an installed base, and the .lock   *)
(* file by which their starts agree on who installs it.                    *)
(*                                                                         *)
(*   daemon/server/install_lock.go   the lock file                         *)
(*   daemon/server/power.go          the loop of onBeforeStart             *)
(*   daemon/server/install.go        Install and Reinstall                 *)
(*                                                                         *)
(* A step is one call to the file system.  The directory may disappear     *)
(* between any two of them, and with it the lock and what an installer     *)
(* container has written: its bind mount shows a directory that is gone.   *)
(***************************************************************************)
EXTENDS Naturals

CONSTANTS Servers,   \* servers with the same base path
          None,      \* no server
          MaySkip,   \* whether protocube may set SkipInstallScripts
          Ops,       \* the requests this instance makes
          Faults     \* which of AllFaults may happen

AllFaults == {"fail", "cancel", "crash"}

ASSUME InstallAssumption ==
    /\ None \notin Servers
    /\ MaySkip \in BOOLEAN
    /\ Ops \subseteq {"start", "reinstall"}
    /\ Faults \subseteq AllFaults

\* Where a start or a reinstallation can be.  "mounted": the server runs.
StartPC == {"check", "acquire", "mkdir", "excl", "entries", "install", "script",
            "release", "giveBack", "remove", "wait", "recheck", "stale", "mount"}
InstallPC == StartPC \cup {"idle", "done", "mounted", "validate", "reinstall", "rescript"}

VARIABLES
    dir,        \* serverPath is a directory
    lockFile,   \* who wrote serverPath/.lock, or None when there is no such file
    base,       \* what else is in it: "empty", "part" or "full"
    pc,
    bound,      \* bound[s]: the containers of s write to the present directory
    waitsFor,   \* the installation that was running when s began to wait and still is
    cancelled,  \* the server's context
    torn,       \* the directory has been removed at least once
    crashed     \* the daemon has been restarted

files == <<dir, lockFile, base, bound, torn>>
vars == <<files, pc, waitsFor, cancelled, crashed>>

TypeOK ==
    /\ dir \in BOOLEAN
    /\ lockFile \in Servers \cup {None}
    /\ base \in {"empty", "part", "full"}
    /\ pc \in [Servers -> InstallPC]
    /\ bound \in [Servers -> BOOLEAN]
    /\ waitsFor \in [Servers -> Servers \cup {None}]
    /\ cancelled \in [Servers -> BOOLEAN]
    /\ torn \in BOOLEAN
    /\ crashed \in BOOLEAN

\* Nothing is installed.
Init ==
    /\ dir = FALSE
    /\ lockFile = None
    /\ base = "empty"
    /\ pc = [s \in Servers |-> "idle"]
    /\ bound = [s \in Servers |-> FALSE]
    /\ waitsFor = [s \in Servers |-> None]
    /\ cancelled = [s \in Servers |-> FALSE]
    /\ torn = FALSE
    /\ crashed = FALSE

-----------------------------------------------------------------------------
\* s moves from label l to label m.
Move(s, l, m) == pc[s] = l /\ pc' = [pc EXCEPT ![s] = m]

Others == UNCHANGED <<cancelled, crashed>>

\* s moves and changes no file.
Look(s, l, m) == Move(s, l, m) /\ UNCHANGED <<files, waitsFor>> /\ Others

\* os.RemoveAll(serverPath).
RemoveAll ==
    /\ dir' = FALSE
    /\ lockFile' = None
    /\ base' = "empty"
    /\ bound' = [s \in Servers |-> FALSE]
    /\ torn' = (torn \/ dir)

\* os.Remove(lp), whoever wrote the file.
RemoveLock == lockFile' = None /\ UNCHANGED <<dir, base, bound, torn>>

\* The label "wait" starts a deadline.  An installation that was under way has
\* started its own before, of the same length.
BeginWait(s, l) ==
    /\ Move(s, l, "wait")
    /\ waitsFor' = [waitsFor EXCEPT ![s] =
           IF lockFile # None /\ pc[lockFile] \in {"entries", "install", "script"}
             THEN lockFile ELSE None]

\* The installation of s is over, and with it the waits that it outlasts.
EndInstall(s) == waitsFor' = [t \in Servers |-> IF waitsFor[t] = s THEN None ELSE waitsFor[t]]

\* A power action or a reinstallation: one per server and life of the daemon
\* (a bound), and none once the server is being deleted.
Request(s) ==
    /\ ~cancelled[s]
    /\ \/ "start" \in Ops /\ Look(s, "idle", "check")
       \/ "reinstall" \in Ops /\ Look(s, "idle", "validate")

-----------------------------------------------------------------------------
(* AcquireInstallLock.                                                       *)

\* IsBaseInstalled: the directory exists.
CheckBase(s) ==
    \/ ~dir /\ (Look(s, "check", "acquire") \/ Look(s, "acquire", "mkdir"))
    \/ /\ dir
       /\ BeginWait(s, "check") \/ BeginWait(s, "acquire")
       /\ UNCHANGED files /\ Others

MakeDir(s) ==
    /\ Move(s, "mkdir", "excl")
    /\ dir' = TRUE
    /\ UNCHANGED <<lockFile, base, bound, torn, waitsFor>> /\ Others

\* Mutant of CreateLock: the file is opened without O_EXCL.
CreateLockShared(s) ==
    /\ dir
    /\ Move(s, "excl", "entries")
    /\ lockFile' = s
    /\ UNCHANGED <<dir, base, bound, torn, waitsFor>> /\ Others

\* OpenFile with O_CREATE|O_EXCL.
CreateLock(s) ==
    \/ /\ dir /\ lockFile = None
       /\ Move(s, "excl", "entries")
       /\ lockFile' = s
       /\ UNCHANGED <<dir, base, bound, torn, waitsFor>> /\ Others
    \/ dir /\ lockFile # None /\ Look(s, "excl", "acquire")
    \/ ~dir /\ Look(s, "excl", "done")

\* ReadDir: somebody else's content makes an installation unnecessary.
ReadEntries(s) ==
    \/ dir /\ base = "empty" /\ Look(s, "entries", "install")
    \/ /\ dir /\ base # "empty"
       /\ Move(s, "entries", "wait")
       /\ RemoveLock /\ EndInstall(s) /\ Others
    \/ /\ ~dir
       /\ Move(s, "entries", "done")
       /\ RemoveLock /\ EndInstall(s) /\ Others

-----------------------------------------------------------------------------
(* Install, under a deadline and the server's context.                       *)

\* The installer container starts on the directory at serverPath.
RunScript(s, l, m) ==
    /\ dir /\ ~cancelled[s]
    /\ Move(s, l, m)
    /\ base' = "part"
    /\ bound' = [bound EXCEPT ![s] = TRUE]
    /\ UNCHANGED <<dir, lockFile, torn, waitsFor>> /\ Others

\* Mutant of Complete: it leaves a mark that no reader of the base knows.
CompleteMarked(s, l, m) ==
    /\ ~cancelled[s]
    /\ Move(s, l, m)
    /\ base' = IF bound[s] THEN "marked" ELSE base
    /\ bound' = [bound EXCEPT ![s] = FALSE]
    /\ UNCHANGED <<dir, lockFile, torn>>

\* The script and the warmup succeed.
Complete(s, l, m) ==
    /\ ~cancelled[s]
    /\ Move(s, l, m)
    /\ base' = IF bound[s] THEN "full" ELSE base
    /\ bound' = [bound EXCEPT ![s] = FALSE]
    /\ UNCHANGED <<dir, lockFile, torn>>

\* They fail, run into the deadline or are cancelled, or find no directory.
Fail(s, l, m) ==
    /\ "fail" \in Faults \/ cancelled[s] \/ ~dir
    /\ Move(s, l, m)
    /\ bound' = [bound EXCEPT ![s] = FALSE]
    /\ UNCHANGED <<dir, lockFile, base, torn>>

\* An installation without scripts succeeds and writes nothing.  Whether one is
\* configured comes with the Sync before it.
SkipScripts(s, l, m) ==
    /\ MaySkip
    /\ Move(s, l, m)
    /\ UNCHANGED files

Install(s) ==
    \/ RunScript(s, "install", "script")
    \/ /\ \/ Complete(s, "script", "release")
          \/ SkipScripts(s, "install", "release")
          \/ Fail(s, "install", "giveBack")
          \/ Fail(s, "script", "giveBack")
       /\ EndInstall(s) /\ Others

\* Mutant of Release: the lock stays behind after a success.
ReleaseNever(s) ==
    /\ BeginWait(s, "release")
    /\ UNCHANGED files /\ Others

\* release() after a success.
Release(s) ==
    /\ BeginWait(s, "release")
    /\ RemoveLock /\ Others

\* After a failure: release(), then os.RemoveAll(serverPath).
CleanUp(s) ==
    \/ Move(s, "giveBack", "remove") /\ RemoveLock /\ UNCHANGED waitsFor /\ Others
    \/ Move(s, "remove", "done") /\ RemoveAll /\ UNCHANGED waitsFor /\ Others

-----------------------------------------------------------------------------
(* WaitForInstallLockReleased, and the mount that follows it.                *)

\* The deadline of s may have passed: the installation it found is over, and
\* the present holder of the lock is not between two calls.
MayGiveUp(s) == waitsFor[s] = None /\ pc[lockFile] # "entries"

\* The next look at the lock file finds none.
Poll(s) == lockFile = None /\ Look(s, "wait", "mount")

Wait(s) ==
    \/ Poll(s)
    \/ lockFile = None /\ Look(s, "recheck", "mount")
    \/ lockFile # None /\ (MayGiveUp(s) \/ cancelled[s]) /\ Look(s, "wait", "recheck")
    \/ lockFile # None /\ Look(s, "recheck", "stale")
    \/ Move(s, "stale", "check") /\ RemoveAll /\ UNCHANGED waitsFor /\ Others

\* Overlay.Mount fails without the lower directory.
Mount(s) ==
    \/ dir /\ Look(s, "mount", "mounted")
    \/ ~dir /\ Look(s, "mount", "done")

Stop(s) == Look(s, "mounted", "done")

-----------------------------------------------------------------------------
(* Reinstall takes no lock file.                                             *)

\* No server of the base is online, which one that has yet to start is not.
BaseReinstallAllowed == \A t \in Servers : pc[t] # "mounted"

Reinstall(s) ==
    \/ BaseReinstallAllowed /\ Look(s, "validate", "reinstall")
    \/ ~BaseReinstallAllowed /\ Look(s, "validate", "done")
    \/ RunScript(s, "reinstall", "rescript")
    \/ /\ \/ Complete(s, "rescript", "done")
          \/ SkipScripts(s, "reinstall", "done")
          \/ Fail(s, "reinstall", "done")
          \/ Fail(s, "rescript", "done")
       /\ UNCHANGED waitsFor /\ Others

-----------------------------------------------------------------------------
\* The server is deleted: its context is cancelled.
Cancel(s) ==
    /\ "cancel" \in Faults
    /\ pc[s] \notin {"idle", "done", "mounted"}
    /\ ~cancelled[s]
    /\ cancelled' = [cancelled EXCEPT ![s] = TRUE]
    /\ UNCHANGED <<files, pc, waitsFor, crashed>>

\* The daemon restarts: its goroutines are gone, files and servers stay.  Once.
Crash ==
    /\ "crash" \in Faults /\ ~crashed
    /\ crashed' = TRUE
    /\ pc' = [s \in Servers |-> IF pc[s] = "mounted" THEN "mounted" ELSE "idle"]
    /\ bound' = [s \in Servers |-> FALSE]
    /\ waitsFor' = [s \in Servers |-> None]
    /\ UNCHANGED <<dir, lockFile, base, torn, cancelled>>

Step(s) ==
    \/ CheckBase(s) \/ MakeDir(s) \/ CreateLock(s) \/ ReadEntries(s)
    \/ Install(s) \/ Release(s) \/ CleanUp(s)
    \/ Wait(s) \/ Mount(s) \/ Reinstall(s)

Next == (\E s \in Servers : Request(s) \/ Step(s) \/ Stop(s) \/ Cancel(s)) \/ Crash

Spec == Init /\ [][Next]_vars

\* Goroutines run, polls and deadlines come; requests, stops and faults need
\* not.  A wait that polls for ever does not miss the lock's absence for ever.
FairSpec == Spec /\ \A s \in Servers : WF_vars(Step(s)) /\ SF_vars(Poll(s))

-----------------------------------------------------------------------------
\* Until the directory is removed for the first time (a failed installation, a
\* lock taken for stale), one start at most installs: power.go uses a lock file
\* "so only one process installs; others wait", although each start checks for
\* the directory, creates it and creates the file in separate steps.
OneInstaller ==
    ~torn => \A s, t \in Servers :
                pc[s] \in {"install", "script"} /\ pc[t] \in {"install", "script"} => s = t

\* Every start ends, mounted or with an error, whatever fails and also when the
\* daemon restarted in the middle of an installation and left its lock behind:
\* onBeforeStart waits and retries without a bound on the number of rounds.
StartsEnd == \A s \in Servers : (pc[s] \in StartPC) ~> (pc[s] \in {"idle", "done", "mounted"})

\* A server runs on a base somebody has finished installing: the others "wait
\* and then skip when the folder has content (installed)", says onBeforeStart.
MountsContent == [][\A s \in Servers : pc[s] = "mount" /\ pc'[s] = "mounted" => base # "empty"]_vars
=============================================================================
