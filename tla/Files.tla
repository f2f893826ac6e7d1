-------------------------------- MODULE Files --------------------------------
(***************************************************************************)
(* The file operations of one server's volume and the usage counter that    *)
(* stands for its disk quota: daemon/server/filesystem (filesystem.go,      *)
(* disk_space.go, compress.go) over daemon/internal/ufs.  Goroutines call   *)
(* the operations without a lock between them; each is modelled step by     *)
(* step, one step per access to the disk or to the counter, because the     *)
(* counter is only ever an account kept beside the disk.                    *)
(*                                                                         *)
(* A path is a member of a small set with a parent, a file is its size in   *)
(* units, a directory is Dir.  Symbolic links, owners, modes and times are  *)
(* left out.  drift, blind and walked are history: what the properties      *)
(* need to know of the past.                                                *)
(***************************************************************************)
EXTENDS Integers, Sequences, FiniteSets, FiniteSetsExt, Functions

CONSTANTS
  Callers,      \* goroutines that call the operations
  FilePaths,    \* names used for files
  DirPaths,     \* names used for directories below the root
  Root,         \* the volume's own directory
  Parent,       \* the directory of every path
  CopyNames,    \* the names findCopySuffix tries for a file, the stamped one last
  Sizes,        \* sizes of the files operations are asked to write
  Limit,        \* the quota; 0 is no limit and -1 no writing at all
  MaxCalls,     \* operations begun in a behaviour
  MaxFaults     \* failed disk calls in a behaviour

Paths == FilePaths \cup DirPaths
\* What is at a path: a file of so many units, or one of these.
None == -1
Dir == -2

ASSUME PathsAssumption ==
  /\ IsFiniteSet(Paths) /\ IsFiniteSet(Callers)
  /\ Root \notin Paths \cup Callers
  /\ FilePaths \cap DirPaths = {}
  /\ Parent \in [Paths -> DirPaths \cup {Root}]
  /\ \A d \in DirPaths : Parent[d] = Root
  /\ \A p \in DOMAIN CopyNames : CopyNames[p] \in Seq(FilePaths) \ {<<>>}

MaxSize == Max(Sizes)

ASSUME SizesAssumption == /\ Sizes \subseteq Nat /\ \E m \in Sizes : \A n \in Sizes : n <= m
                          /\ Limit \in Int
                          /\ MaxCalls \in Nat
                          /\ MaxFaults \in Nat

VARIABLES
  tree,       \* what is on the disk
  usage,      \* Quota.usage
  fresh,      \* the last lookup is younger than the check interval
  mu,         \* who holds Filesystem.mu, Root for nobody
  call,       \* the operation each goroutine is in
  open,       \* the caller's handle still names the file at its path
  calls, faults,
  drift,      \* the counter may differ from the disk for a known reason
  blind       \* something was written that no trustworthy check allowed

vars == <<tree, usage, fresh, mu, call, open, calls, faults, drift, blind>>

Idle == [at |-> "idle", kind |-> "none", path |-> Root, entry |-> Root, old |-> 0,
         new |-> 0, delta |-> 0, todo |-> {}, quiet |-> FALSE]

Exists(p) == p \in Paths => tree[p] # None
IsFile(p) == p \in Paths /\ tree[p] >= 0
SizeOf(p) == IF IsFile(p) THEN tree[p] ELSE 0
Total == SumFunctionOnSet([p \in Paths |-> SizeOf(p)], Paths)
Children(d) == {p \in Paths : Parent[p] = d /\ tree[p] # None}

At(c, step) == call[c].at = step
Go(c, step) == call' = [call EXCEPT ![c].at = step]
Return(c) == call' = [call EXCEPT ![c] = Idle]

\* The operations under way; a lookup is none.
Active(c) == call[c].kind \notin {"none", "scan"}

\* The paths whose file an operation changes.
Changes(op) == IF op.kind = "rename" THEN {op.path, op.entry} ELSE {op.path}

\* Another caller is inside an operation on one of the paths, on the
\* directory of one or on an entry of one.
Overlaps(c, paths) ==
  \E o \in Callers \ {c}, p \in paths :
    /\ Active(o)
    /\ \E q \in Changes(call[o]) :
         \/ q = p \/ Root \in {p, q}
         \/ p # Root /\ Parent[p] = q
         \/ q # Root /\ Parent[q] = p

\* An operation that begins during a lookup spoils what the lookup will store.
Start(c, op) ==
  /\ At(c, "idle") /\ calls < MaxCalls
  /\ calls' = calls + 1
  /\ call' = [o \in Callers |-> IF o = c THEN op ELSE [call[o] EXCEPT !.quiet = FALSE]]
  /\ drift' = (drift \/ Overlaps(c, Changes(op)) \/ mu # Root)

CanFit(size) ==
  \/ Limit = 0
  \/ Limit # -1 /\ (usage = -1 \/ usage + size <= Limit)

-----------------------------------------------------------------------------
(* Init and the disk calls the operations are made of.                      *)

\* New: the counter starts at 0 whatever is on the disk.
Init ==
  /\ \E full \in SUBSET FilePaths, size \in Sizes :
       tree = [p \in Paths |->
                 IF p \in full THEN size
                 ELSE IF p \in DirPaths /\ \E f \in full : Parent[f] = p
                 THEN Dir ELSE None]
  /\ Limit > 0 => Total <= Limit
  /\ usage = 0
  /\ fresh = FALSE
  /\ mu = Root
  /\ call = [c \in Callers |-> Idle]
  /\ open = [c \in Callers |-> FALSE]
  /\ calls = 0 /\ faults = 0
  /\ drift = (Total # 0)
  /\ blind = FALSE

\* Touch: the missing parents are made, the file is created or truncated.
Touched(p) == [q \in Paths |-> IF q = p THEN 0
                               ELSE IF q = Parent[p] THEN Dir ELSE tree[q]]

\* Create without O_TRUNC: an existing file keeps what it holds.
Created(p) == [tree EXCEPT ![p] = SizeOf(p)]

\* Handles to a file that is unlinked or replaced name nothing any more.
Detached(gone) == [c \in Callers |-> open[c] /\ call[c].path \notin gone]

\* io.Copy through a handle: n units from the start of the file.
Written(c, n) ==
  IF open[c] THEN [tree EXCEPT ![call[c].path] = Max({SizeOf(call[c].path), n})]
  ELSE tree

\* Units io.Copy moves when nothing fails: a copy ends where its source does.
Ready(c) == IF call[c].kind = "copy" /\ IsFile(call[c].entry)
            THEN Min({call[c].new, tree[call[c].entry]}) ELSE call[c].new
Fault(failed) == /\ faults' = faults + (IF failed THEN 1 ELSE 0)
                 /\ faults' <= MaxFaults

-----------------------------------------------------------------------------
(* Write, Writefile and the entries of an extracted archive.                *)

BeginWrite(c, p, size) ==
  /\ Start(c, [Idle EXCEPT !.at = "check", !.kind = "write", !.path = p,
                           !.old = SizeOf(p), !.new = size])
  /\ UNCHANGED <<tree, usage, fresh, mu, open, faults, blind>>

BeginWritefile(c, p, size) ==
  /\ Start(c, [Idle EXCEPT !.at = "touch", !.kind = "write", !.path = p,
                           !.old = SizeOf(p), !.new = size])
  /\ blind' = TRUE
  /\ UNCHANGED <<tree, usage, fresh, mu, open, faults>>

\* A plausible bug: the result of HasSpaceFor is ignored.
CheckIgnored(c) ==
  /\ At(c, "check")
  /\ Go(c, IF call[c].kind = "copy" THEN "name" ELSE "touch")
  /\ UNCHANGED <<tree, usage, fresh, mu, open, calls, faults, drift, blind>>

\* HasSpaceFor(newSize - currentSize).
Check(c) ==
  /\ At(c, "check")
  /\ LET grows == call[c].new - call[c].old IN
       \/ /\ CanFit(grows)
          /\ Go(c, IF call[c].kind = "copy" THEN "name" ELSE "touch")
          /\ blind' = (blind \/ (drift /\ call[c].new > 0))
       \/ /\ ~CanFit(grows)
          /\ Return(c)
          /\ UNCHANGED blind
  /\ UNCHANGED <<tree, usage, fresh, mu, open, calls, faults, drift>>

\* Touch with O_TRUNC; when it fails Write returns before anything changed.
Touch(c) ==
  /\ At(c, "touch")
  /\ \/ /\ tree' = Touched(call[c].path)
        /\ open' = [open EXCEPT ![c] = TRUE]
        /\ Go(c, "data")
        /\ Fault(FALSE)
     \/ /\ Fault(TRUE)
        /\ Return(c)
        /\ UNCHANGED <<tree, open>>
  /\ UNCHANGED <<usage, fresh, mu, calls, drift, blind>>

\* A plausible bug: the size of the file that was replaced is forgotten.
DataForgets(c) ==
  /\ At(c, "data")
  /\ \E n \in 0 .. Ready(c) :
       /\ Fault(n # Ready(c))
       /\ tree' = Written(c, n)
       /\ call' = [call EXCEPT ![c].at = "load", ![c].delta = n]
  /\ open' = [open EXCEPT ![c] = FALSE]
  /\ UNCHANGED <<usage, fresh, mu, calls, drift, blind>>

\* io.Copy, then Quota.Add with the difference of the sizes.
Data(c) ==
  /\ At(c, "data")
  /\ \E n \in 0 .. Ready(c) :
       /\ Fault(n # Ready(c))
       /\ tree' = Written(c, n)
       /\ call' = [call EXCEPT ![c].at = "load", ![c].delta = n - call[c].old]
  /\ open' = [open EXCEPT ![c] = FALSE]
  /\ UNCHANGED <<usage, fresh, mu, calls, drift, blind>>

\* Quota.Add, first half: the counter is read and the sum compared with 0.
AddLoad(c) ==
  /\ At(c, "load")
  /\ Go(c, IF usage + call[c].delta < 0 THEN "zero" ELSE "add")
  /\ UNCHANGED <<tree, usage, fresh, mu, open, calls, faults, drift, blind>>

\* Second half: the counter is set to 0 or the amount added to what it is now.
AddDo(c) ==
  /\ call[c].at \in {"zero", "add"}
  /\ usage' = IF At(c, "zero") THEN 0 ELSE usage + call[c].delta
  /\ IF call[c].kind = "unlink" THEN Go(c, "unlink")
     ELSE IF call[c].kind = "gunzip" THEN Go(c, "chunk")
     ELSE Return(c)
  /\ UNCHANGED <<tree, fresh, mu, open, calls, faults, drift, blind>>

-----------------------------------------------------------------------------
(* Copy.                                                                    *)

\* The source is opened and its size read.
BeginCopy(c, p) ==
  /\ p \in DOMAIN CopyNames /\ IsFile(p)
  /\ Start(c, [Idle EXCEPT !.at = "check", !.kind = "copy", !.path = p,
                           !.entry = p, !.new = tree[p]])
  /\ UNCHANGED <<tree, usage, fresh, mu, open, faults, blind>>

FindCopySuffix(p) ==
  LET free == {i \in 1 .. Len(CopyNames[p]) : tree[CopyNames[p][i]] = None}
  IN CopyNames[p][IF free = {} THEN Len(CopyNames[p]) ELSE Min(free)]

\* findCopySuffix looks, the open creates: two steps.
CopyName(c) ==
  /\ At(c, "name")
  /\ LET to == FindCopySuffix(call[c].path) IN
       /\ drift' = (drift \/ Overlaps(c, {to}) \/ tree[to] # None)
       /\ call' = [call EXCEPT ![c].at = "create", ![c].path = to]
  /\ UNCHANGED <<tree, usage, fresh, mu, open, calls, faults, blind>>

CopyCreate(c) ==
  /\ At(c, "create")
  /\ \/ /\ Exists(Parent[call[c].path])
        /\ tree' = Created(call[c].path)
        /\ open' = [open EXCEPT ![c] = TRUE]
        /\ Go(c, IF call[c].kind = "copy" THEN "data" ELSE "chunk")
     \/ /\ ~Exists(Parent[call[c].path])
        /\ Return(c)
        /\ UNCHANGED <<tree, open>>
  /\ UNCHANGED <<usage, fresh, mu, calls, faults, drift, blind>>

-----------------------------------------------------------------------------
(* Decompression of a single compressed file, one unit at a time.           *)

BeginGunzip(c, p, size) ==
  /\ Start(c, [Idle EXCEPT !.at = "create", !.kind = "gunzip", !.path = p, !.new = size])
  /\ UNCHANGED <<tree, usage, fresh, mu, open, faults, blind>>

\* old counts the units written.  Over an existing file the units are added
\* to the counter although the file does not grow by them.
Chunk(c) ==
  /\ At(c, "chunk")
  /\ \/ /\ call[c].old < call[c].new /\ CanFit(1)
        /\ LET n == call[c].old + 1 IN
             /\ drift' = (drift \/ (open[c] /\ n <= SizeOf(call[c].path)))
             /\ tree' = Written(c, n)
             /\ call' = [call EXCEPT ![c].at = "load", ![c].old = n, ![c].delta = 1]
        /\ blind' = (blind \/ drift)
        /\ UNCHANGED open
     \/ /\ call[c].old = call[c].new \/ ~CanFit(1)
        /\ open' = [open EXCEPT ![c] = FALSE]
        /\ Return(c)
        /\ UNCHANGED <<tree, drift, blind>>
  /\ UNCHANGED <<usage, fresh, mu, calls, faults>>

-----------------------------------------------------------------------------
(* Delete, which is Quota.RemoveAll.                                        *)

\* RemoveStat: the size is read here, the file unlinked in the next step.
BeginDelete(c, p) ==
  /\ tree[p] # None
  /\ Start(c, [Idle EXCEPT !.at = "remove", !.kind = "delete", !.path = p,
                           !.old = SizeOf(p)])
  /\ UNCHANGED <<tree, usage, fresh, mu, open, faults, blind>>

Unlinked(p) == [tree EXCEPT ![p] = None]

\* A file goes and its size is subtracted afterwards; an empty directory
\* goes; a directory with entries is emptied one by one; a file that could
\* not be unlinked is tried again by removeAllFrom.
Remove(c) ==
  /\ At(c, "remove")
  /\ LET p == call[c].path IN
       \/ /\ p \in FilePaths /\ tree[p] # None
          /\ tree' = Unlinked(p)
          /\ open' = Detached({p})
          /\ call' = [call EXCEPT ![c].at = "load", ![c].delta = -call[c].old]
          /\ Fault(FALSE)
       \/ /\ p \in DirPaths /\ tree[p] # None /\ Children(p) = {}
          /\ tree' = Unlinked(p)
          /\ Return(c)
          /\ Fault(FALSE)
          /\ UNCHANGED open
       \/ /\ tree[p] = None
          /\ Return(c)
          /\ Fault(FALSE)
          /\ UNCHANGED <<tree, open>>
       \/ /\ tree[p] # None
          /\ Fault(~(p \in DirPaths /\ Children(p) # {}))
          /\ call' = [call EXCEPT ![c].at = "entries", ![c].kind = "unlink",
                                  ![c].todo = IF p \in DirPaths THEN Children(p) ELSE {p}]
          /\ UNCHANGED <<tree, open>>
  /\ UNCHANGED <<usage, fresh, mu, calls, drift, blind>>

\* Quota.unlinkat subtracts the size of a regular file before it unlinks it.
Entry(c) ==
  /\ At(c, "entries")
  /\ \/ \E p \in call[c].todo :
          call' = [call EXCEPT ![c].at = IF IsFile(p) THEN "load" ELSE "entries",
                               ![c].entry = p,
                               ![c].delta = -SizeOf(p),
                               ![c].todo = @ \ {p}]
     \/ /\ call[c].todo = {}
        /\ Go(c, "rmdir")
  /\ UNCHANGED <<tree, usage, fresh, mu, open, calls, faults, drift, blind>>

\* The unlink itself; when it fails the counter has been lowered for nothing.
Unlink(c) ==
  /\ At(c, "unlink")
  /\ \/ /\ tree' = Unlinked(call[c].entry)
        /\ open' = Detached({call[c].entry})
        /\ Fault(FALSE)
        /\ UNCHANGED drift
     \/ /\ Fault(TRUE)
        /\ drift' = TRUE
        /\ UNCHANGED <<tree, open>>
  /\ Go(c, "entries")
  /\ UNCHANGED <<usage, fresh, mu, calls, blind>>

\* A plausible bug: the directory goes with whatever was put in it meanwhile.
RmdirForced(c) ==
  /\ At(c, "rmdir")
  /\ tree' = IF call[c].path \in DirPaths THEN Unlinked(call[c].path) ELSE tree
  /\ Return(c)
  /\ UNCHANGED <<usage, fresh, mu, open, calls, faults, drift, blind>>

\* The emptied directory goes, unless something was put in it meanwhile.
Rmdir(c) ==
  /\ At(c, "rmdir")
  /\ tree' = IF call[c].path \in DirPaths /\ Children(call[c].path) = {}
             THEN Unlinked(call[c].path) ELSE tree
  /\ Return(c)
  /\ UNCHANGED <<usage, fresh, mu, open, calls, faults, drift, blind>>

-----------------------------------------------------------------------------
(* Rename, CreateDirectory, CompressFiles and TruncateRootDirectory.        *)

\* The old path exists, the new one does not and its directory is made.
BeginRename(c, p, q) ==
  /\ p # q /\ tree[p] # None /\ tree[q] = None
  /\ Start(c, [Idle EXCEPT !.at = "rename", !.kind = "rename", !.path = q, !.entry = p])
  /\ tree' = IF Parent[q] = Root THEN tree ELSE [tree EXCEPT ![Parent[q]] = Dir]
  /\ UNCHANGED <<usage, fresh, mu, open, faults, blind>>

\* renameat replaces whatever is at the new path by then; handles follow.
Rename(c) ==
  /\ At(c, "rename")
  /\ LET p == call[c].entry  q == call[c].path IN
       \/ /\ tree[p] # None /\ Exists(Parent[q])
          /\ tree' = [tree EXCEPT ![q] = tree[p], ![p] = None]
          /\ open' = Detached({q})
          /\ call' = [o \in Callers |->
                        IF o = c THEN Idle
                        ELSE IF open[o] /\ call[o].path = p
                        THEN [call[o] EXCEPT !.path = q] ELSE call[o]]
       \/ /\ tree[p] = None \/ ~Exists(Parent[q])
          /\ Return(c)
          /\ UNCHANGED <<tree, open>>
  /\ UNCHANGED <<usage, fresh, mu, calls, faults, drift, blind>>

CreateDirectory(c, d) ==
  /\ Start(c, Idle)
  /\ tree' = [tree EXCEPT ![d] = Dir]
  /\ UNCHANGED <<usage, fresh, mu, open, faults, blind>>

\* The archive's file is created, then Stream panics: archives are switched off.
CompressFiles(c, p) ==
  /\ Exists(Parent[p])
  /\ Start(c, [Idle EXCEPT !.at = "panic", !.kind = "compress", !.path = p])
  /\ tree' = Created(p)
  /\ UNCHANGED <<usage, fresh, mu, open, faults, blind>>

Panic(c) ==
  /\ At(c, "panic")
  /\ Return(c)
  /\ UNCHANGED <<tree, usage, fresh, mu, open, calls, faults, drift, blind>>

\* Everything goes, then a new Quota with its counter at 0 replaces the old.
TruncateRootDirectory(c) ==
  /\ Start(c, [Idle EXCEPT !.at = "swap", !.kind = "truncate", !.path = Root])
  /\ tree' = [p \in Paths |-> None]
  /\ open' = Detached(Paths)
  /\ UNCHANGED <<usage, fresh, mu, faults, blind>>

SwapQuota(c) ==
  /\ At(c, "swap")
  /\ usage' = 0
  /\ Return(c)
  /\ UNCHANGED <<tree, fresh, mu, open, calls, faults, drift, blind>>

-----------------------------------------------------------------------------
(* DiskUsage: the lookup that sets the counter from the disk.               *)

\* A call that may block, or the goroutine of one that may not and found no
\* lookup in progress.
BeginLookup(c) ==
  /\ ~fresh /\ At(c, "idle") /\ calls < MaxCalls
  /\ calls' = calls + 1
  /\ call' = [call EXCEPT ![c] = [Idle EXCEPT !.at = "lock", !.kind = "scan"]]
  /\ UNCHANGED <<tree, usage, fresh, mu, open, faults, drift, blind>>

LockMu(c) ==
  /\ At(c, "lock") /\ mu = Root
  /\ mu' = c
  /\ call' = [call EXCEPT ![c].at = "walk", ![c].todo = FilePaths,
                          ![c].quiet = \A o \in Callers : ~Active(o)]
  /\ drift' = (drift \/ \E o \in Callers : Active(o))
  /\ UNCHANGED <<tree, usage, fresh, open, calls, faults, blind>>

\* WalkDirat: every regular file is counted once, at the size it has when the
\* walk reaches it.  A failed call ends the walk with the sum so far.
Walk(c) ==
  /\ At(c, "walk") /\ call[c].todo # {}
  /\ LET p == CHOOSE p \in call[c].todo : TRUE IN
       \/ /\ call' = [call EXCEPT ![c].todo = @ \ {p}, ![c].new = @ + SizeOf(p)]
          /\ Fault(FALSE)
          /\ UNCHANGED drift
       \/ /\ call' = [call EXCEPT ![c].todo = {}, ![c].quiet = FALSE]
          /\ Fault(TRUE)
          /\ drift' = TRUE
  /\ UNCHANGED <<tree, usage, fresh, mu, open, calls, blind>>

\* The sum replaces the counter, whatever was added to it since the walk began.
SetUsage(c) ==
  /\ At(c, "walk") /\ call[c].todo = {}
  /\ usage' = call[c].new
  /\ fresh' = TRUE
  /\ mu' = Root
  /\ drift' = (drift /\ ~call[c].quiet)
  /\ Return(c)
  /\ UNCHANGED <<tree, open, calls, faults, blind>>

Expire ==
  /\ fresh
  /\ fresh' = FALSE
  /\ UNCHANGED <<tree, usage, mu, call, open, calls, faults, drift, blind>>

-----------------------------------------------------------------------------
Step(c) ==
  \/ Check(c) \/ Touch(c) \/ Data(c) \/ AddLoad(c) \/ AddDo(c)
  \/ CopyName(c) \/ CopyCreate(c) \/ Chunk(c)
  \/ Remove(c) \/ Entry(c) \/ Unlink(c) \/ Rmdir(c)
  \/ Rename(c) \/ Panic(c) \/ SwapQuota(c)
  \/ LockMu(c) \/ Walk(c) \/ SetUsage(c)

Next ==
  \/ \E c \in Callers : Step(c) \/ TruncateRootDirectory(c) \/ BeginLookup(c)
  \/ \E c \in Callers, p \in FilePaths, size \in Sizes :
       \/ BeginWrite(c, p, size)
       \/ BeginWritefile(c, p, size)
       \/ BeginGunzip(c, p, size)
  \/ \E c \in Callers, p \in FilePaths : BeginCopy(c, p) \/ CompressFiles(c, p)
  \/ \E c \in Callers, p, q \in FilePaths : BeginRename(c, p, q)
  \/ \E c \in Callers, p \in Paths : BeginDelete(c, p)
  \/ \E c \in Callers, d \in DirPaths : CreateDirectory(c, d)
  \/ Expire

Spec == Init /\ [][Next]_vars

-----------------------------------------------------------------------------
(* Properties.                                                              *)

\* Type invariant: files have sizes below a bound, entries live in existing
\* directories, mu is held exactly by the lookup that walks, and the counter
\* of the Quota is an integer.
TypeOK ==
  /\ tree \in [Paths -> {None, Dir} \cup (0 .. MaxSize)]
  /\ \A p \in FilePaths : tree[p] # None => Exists(Parent[p])
  /\ usage \in Int
  /\ fresh \in BOOLEAN /\ drift \in BOOLEAN /\ blind \in BOOLEAN
  /\ \A c \in Callers : mu = c <=> At(c, "walk")
  /\ open \in [Callers -> BOOLEAN]

\* The account is right: with no operation under way, and none of the known
\* causes of drift since the last undisturbed lookup (two operations on one
\* file, an operation during a lookup, a failed unlink or walk, a
\* decompression over an existing file), the Quota's counter is the size of
\* the volume.  Operations on different files may overlap freely.
Accounted ==
  (~drift /\ \A c \in Callers : ~Active(c)) => usage = Total

\* The limit holds up to the race between CanFit and the write: as long as
\* nothing was written unchecked or checked against a drifted counter, the
\* volume exceeds its limit by at most one largest file per caller.
Fits ==
  (~blind /\ Limit > 0) => Total <= Limit + Cardinality(Callers) * MaxSize
=============================================================================
