---------------------------- MODULE Files_proofs ----------------------------
(***************************************************************************)
(* Proofs about Files.tla, for all finite sets of goroutines and paths, all *)
(* sizes, any quota and any number of operations and failing disk calls.    *)
(*                                                                         *)
(* The type invariant says that the disk is a tree whatever operations      *)
(* overlap and that a lookup walks under its mutex.  It is not inductive:   *)
(* what a goroutine writes, removes or renames depends on what it has read  *)
(* in an earlier step, and a handle on what the others have unlinked.       *)
(*                                                                         *)
(* Accounted and Fits are about sums over the files and the goroutines.     *)
(* The account that is inductive says that the volume is the counter plus   *)
(* what every operation has still to add to it, that what an operation has  *)
(* read is still so, and that no two operations are on one file; Fits adds  *)
(* to the volume what the operations that passed their check may still      *)
(* write.                                                                   *)
(***************************************************************************)
EXTENDS Files, FiniteSetTheorems, WellFoundedInduction, TLAPS

Steps == {"idle", "check", "touch", "data", "load", "zero", "add", "name", "create", "chunk", "remove",
          "entries", "unlink", "rmdir", "rename", "panic", "swap", "lock", "walk"}
Kinds == {"none", "write", "copy", "gunzip", "delete", "unlink", "rename", "compress", "truncate", "scan"}
Op == [at : Steps, kind : Kinds, path : Paths \cup {Root}, entry : Paths \cup {Root}, old : Int,
       new : Int, delta : Int, todo : SUBSET Paths, quiet : BOOLEAN]

\* Names used for files are files, names used for directories directories.
DiskInv ==
  /\ tree \in [Paths -> {None, Dir} \cup (0 .. MaxSize)]
  /\ \A p \in FilePaths : tree[p] # Dir /\ (tree[p] # None => Exists(Parent[p]))
  /\ \A d \in DirPaths : tree[d] \in {None, Dir}

\* A path as close to another as an operation on a directory is to its entries.
Near(p, q) == \/ q = p \/ Root \in {p, q}
              \/ p # Root /\ Parent[p] = q
              \/ q # Root /\ Parent[q] = p

\* A file that an operation on the path may remove.
Under(e, path) == e \in FilePaths /\ (e = path \/ Parent[e] = path)

\* What an operation remembers where it is.
OpOK(op) ==
  /\ op.at = "idle" <=> op.kind = "none"
  /\ op.at \in {"check", "data"} => op.kind \in {"write", "copy"}
  /\ op.at = "touch" => op.kind = "write"
  /\ op.at = "name" => op.kind = "copy"
  /\ op.at = "create" => op.kind \in {"copy", "gunzip"} /\ op.old = 0
  /\ op.at = "chunk" => op.kind = "gunzip"
  /\ op.at \in {"load", "zero", "add"} => op.kind \in {"write", "copy", "gunzip", "delete", "unlink"}
  /\ op.at = "remove" => op.kind = "delete"
  /\ op.at \in {"entries", "unlink", "rmdir"} => op.kind = "unlink"
  /\ op.at = "rename" <=> op.kind = "rename"
  /\ op.at = "panic" => op.kind = "compress"
  /\ op.at = "swap" <=> op.kind = "truncate"
  /\ op.at \in {"lock", "walk"} <=> op.kind = "scan"
  /\ op.kind \in {"write", "copy", "gunzip", "rename", "compress"} => op.path \in FilePaths
  /\ op.kind \in {"delete", "unlink"} => op.path \in Paths
  /\ op.kind = "truncate" => op.path = Root
  /\ op.kind \in {"write", "copy", "gunzip"} => op.new \in 0 .. MaxSize
  /\ op.old \in 0 .. MaxSize
  /\ op.kind = "gunzip" => op.old <= op.new
  /\ op.kind = "copy" => op.old = 0
  /\ op.kind = "copy" /\ op.at \in {"check", "name"} => op.path \in DOMAIN CopyNames
  /\ op.kind = "rename" => op.entry \in FilePaths /\ op.entry # op.path
  /\ op.kind = "unlink" => \A e \in op.todo : Under(e, op.path)
  /\ op.kind = "unlink" /\ op.at \in {"load", "zero", "add", "unlink"} => Under(op.entry, op.path)
  /\ op.at = "lock" => op.new = 0
  /\ op.at = "walk" => op.todo \subseteq FilePaths

\* A handle names a file that is there, and only copying and decompressing use one.
HandleOK(c) ==
  open[c] => /\ At(c, "data") \/ (call[c].kind = "gunzip" /\ call[c].at \in {"chunk", "load", "zero", "add"})
             /\ call[c].path \in FilePaths /\ IsFile(call[c].path)

Flags == /\ usage \in Int /\ fresh \in BOOLEAN /\ drift \in BOOLEAN /\ blind \in BOOLEAN
         /\ open \in [Callers -> BOOLEAN]
MutexInv == \A c \in Callers : mu = c <=> At(c, "walk")
CallInv == call \in [Callers -> Op] /\ \A c \in Callers : OpOK(call[c])
HandleInv == \A c \in Callers : HandleOK(c)
IInv == DiskInv /\ Flags /\ MutexInv /\ CallInv /\ HandleInv

-----------------------------------------------------------------------------
(* The account: the counter, the disk and what is still to be added.         *)

\* What the disk already holds, or no longer does, that the counter will learn of
\* in a later step of the operation.
Off(op) == IF op.at = "data" THEN -op.old
           ELSE IF op.at \in {"load", "zero", "add"} /\ op.kind # "unlink" THEN op.delta
           ELSE IF op.at = "unlink" THEN -op.delta ELSE 0
Offs == SumFunctionOnSet([c \in Callers |-> Off(call[c])], Callers)

\* The file whose size covers that amount.
Target(op) == IF op.kind = "unlink" THEN op.entry ELSE op.path

\* What an operation has read is still so.
PhaseOK(c) ==
  LET op == call[c] IN
  /\ op.at # "zero"
  /\ op.at \in {"check", "touch", "remove"} /\ op.kind # "copy" => op.old = SizeOf(op.path)
  /\ op.at = "data" => open[c] /\ tree[op.path] = 0
  /\ op.at = "create" /\ op.kind = "copy" => tree[op.path] = None
  /\ op.at \in {"load", "add"} /\ op.kind # "unlink" => op.delta <= SizeOf(op.path)
  /\ op.at \in {"load", "add", "unlink"} /\ op.kind = "unlink" => op.delta = -SizeOf(op.entry)
  /\ op.kind = "gunzip" /\ op.at # "create" => open[c] /\ tree[op.path] >= op.old
  /\ op.kind = "gunzip" /\ op.at \in {"load", "add"} => op.delta = 1 /\ tree[op.path] = op.old
  /\ op.kind = "rename" => tree[op.path] = None
  /\ op.at = "swap" => \A f \in FilePaths : tree[f] = None
  /\ op.at = "walk" => op.quiet
PhaseInv == \A c \in Callers : PhaseOK(c)

\* No two operations are on one file, or on a directory and an entry of it.
Apart ==
  \A c, o \in Callers : c # o /\ Active(c) /\ Active(o) =>
     \A p \in Changes(call[c]), q \in Changes(call[o]) : ~Near(p, q)

\* The counter and the amounts still to be added make up the volume, except
\* between the two steps of TruncateRootDirectory.
Balance == (\A c \in Callers : ~At(c, "swap")) => Total = usage + Offs
Account == Apart /\ PhaseInv /\ Balance

\* What an undisturbed walk has counted and what is left of it are the volume.
Left(c) == SumFunctionOnSet([p \in Paths |-> IF p \in call[c].todo THEN SizeOf(p) ELSE 0], Paths)
WalkInv == \A c \in Callers : At(c, "walk") /\ call[c].quiet =>
             (\A o \in Callers : ~Active(o)) /\ call[c].new + Left(c) = Total

-----------------------------------------------------------------------------
(* Sizes, and the least and the greatest of a set.                           *)

\* The largest size is one of the sizes, and 0 .. MaxSize has them all.
LEMMA SizesBounded == MaxSize \in Nat /\ Sizes \subseteq 0 .. MaxSize
<1>1. PICK m \in Sizes : \A n \in Sizes : n <= m
  BY SizesAssumption
<1>2. \A n \in Sizes : m >= n
  BY <1>1, SizesAssumption
<1>3. Max(Sizes) \in Sizes /\ \A n \in Sizes : Max(Sizes) >= n
  BY <1>2 DEF Max
<1>4. MaxSize \in Nat
  BY <1>3, SizesAssumption DEF MaxSize
<1>5. ASSUME NEW n \in Sizes PROVE n \in 0 .. MaxSize
  BY <1>3, <1>4, SizesAssumption DEF MaxSize
<1> QED
  BY <1>4, <1>5

\* Max and Min of two numbers.
LEMMA OfTwo ==
  ASSUME NEW x \in Int, NEW y \in Int
  PROVE  /\ Max({x, y}) \in {x, y} /\ Max({x, y}) >= x /\ Max({x, y}) >= y
         /\ Min({x, y}) \in {x, y} /\ Min({x, y}) <= x /\ Min({x, y}) <= y
<1>1. \E m \in {x, y} : \A n \in {x, y} : m >= n
  OBVIOUS
<1>2. \E m \in {x, y} : \A n \in {x, y} : m <= n
  OBVIOUS
<1>3. Max({x, y}) \in {x, y} /\ \A n \in {x, y} : Max({x, y}) >= n
  BY <1>1 DEF Max
<1>4. Min({x, y}) \in {x, y} /\ \A n \in {x, y} : Min({x, y}) <= n
  BY <1>2 DEF Min
<1> QED
  BY <1>3, <1>4

\* The least of a set of positions is one of them.
LEMMA MinIsIn == ASSUME NEW S \in SUBSET Nat, S # {} PROVE Min(S) \in S
<1> DEFINE R == {ss \in Nat \X Nat : ss[1] < ss[2]}
<1>1. IsWellFoundedOn(R, Nat)
  BY NatLessThanWellFounded, Zenon DEF OpToRel
<1>2. PICK x \in S : \A y \in S : ~(<<y, x>> \in R)
  <2> HIDE DEF R
  <2> QED
    BY <1>1, WFMin
<1>3. ASSUME NEW y \in S PROVE x <= y
  <2>1. <<y, x>> \in Nat \X Nat /\ x \in Nat /\ y \in Nat
    OBVIOUS
  <2>2. y < x => <<y, x>> \in R
    BY <2>1
  <2>3. ~(y < x)
    BY <1>2, <2>2
  <2> QED
    BY <2>1, <2>3
<1> QED
  BY <1>2, <1>3 DEF Min

\* findCopySuffix returns a name for a file.
LEMMA SuffixIsFile == ASSUME NEW p \in DOMAIN CopyNames PROVE FindCopySuffix(p) \in FilePaths
<1> DEFINE q == CopyNames[p]
           free == {i \in 1 .. Len(q) : tree[q[i]] = None}
<1>1. q \in Seq(FilePaths) /\ q # << >>
  BY PathsAssumption
<1>2. Len(q) \in Nat /\ Len(q) > 0
  BY <1>1
<1>3. free \in SUBSET Nat
  BY <1>2
<1>4. free # {} => Min(free) \in free
  <2> HIDE DEF free
  <2> QED
    BY <1>3, MinIsIn
<1>5. (IF free = {} THEN Len(q) ELSE Min(free)) \in 1 .. Len(q)
  BY <1>2, <1>4
<1> QED
  BY <1>1, <1>5 DEF FindCopySuffix

-----------------------------------------------------------------------------
(* What the goroutines remember.                                             *)

\* The size of a file, and how far a copy reaches.
LEMMA SizeBound ==
  ASSUME DiskInv
  PROVE  \A p \in Paths : SizeOf(p) \in 0 .. MaxSize
BY SizesBounded DEF DiskInv, SizeOf, IsFile, None, Dir

\* A goroutine that changes nothing but its own operation.
LEMMA OneCall ==
  ASSUME CallInv, NEW c \in Callers, NEW r \in Op, OpOK(r), call' = [call EXCEPT ![c] = r]
  PROVE  CallInv'
BY DEF CallInv

\* A goroutine that starts an operation.
LEMMA Started ==
  ASSUME CallInv, NEW c \in Callers, NEW r \in Op, OpOK(r), Start(c, r)
  PROVE  CallInv'
<1>1. ASSUME NEW o \in Callers
      PROVE  [call[o] EXCEPT !.quiet = FALSE] \in Op /\ OpOK([call[o] EXCEPT !.quiet = FALSE])
  BY DEF CallInv, Op, OpOK
<1> QED
  BY <1>1 DEF CallInv, Start

\* The names of the steps and of the operations.
LEMMA Names ==
  /\ "idle" \in Steps /\ "check" \in Steps /\ "touch" \in Steps /\ "data" \in Steps /\ "load" \in Steps
  /\ "zero" \in Steps /\ "add" \in Steps /\ "name" \in Steps /\ "create" \in Steps /\ "chunk" \in Steps
  /\ "remove" \in Steps /\ "entries" \in Steps /\ "unlink" \in Steps /\ "rmdir" \in Steps
  /\ "rename" \in Steps /\ "panic" \in Steps /\ "swap" \in Steps /\ "lock" \in Steps /\ "walk" \in Steps
  /\ "none" \in Kinds /\ "write" \in Kinds /\ "copy" \in Kinds /\ "gunzip" \in Kinds /\ "delete" \in Kinds
  /\ "unlink" \in Kinds /\ "rename" \in Kinds /\ "compress" \in Kinds /\ "truncate" \in Kinds
  /\ "scan" \in Kinds
BY DEF Steps, Kinds

\* A goroutine that is in no operation.
LEMMA IdleOp == Idle \in Op /\ OpOK(Idle)
BY SizesBounded DEF Idle, Op, OpOK, Steps, Kinds

\* A goroutine that goes on to its next step.
LEMMA Went ==
  ASSUME CallInv, NEW c \in Callers, NEW s \in Steps, Go(c, s), OpOK([call[c] EXCEPT !.at = s])
  PROVE  CallInv'
<1>1. call[c] \in Op
  BY DEF CallInv
<1>2. [call[c] EXCEPT !.at = s] \in Op
  BY <1>1 DEF Op
<1>3. call' = [call EXCEPT ![c] = [call[c] EXCEPT !.at = s]]
  BY DEF Go
<1> QED
  BY <1>2, <1>3, OneCall

\* CallInv in one step.
LEMMA CallStep == IInv /\ [Next]_vars => CallInv'
<1> SUFFICES ASSUME IInv, [Next]_vars PROVE CallInv'
  OBVIOUS
<1>0. DiskInv /\ Flags /\ CallInv /\ HandleInv
  BY DEF IInv
<1>1. ASSUME NEW c \in Callers, NEW p \in FilePaths, NEW size \in Sizes, BeginWrite(c, p, size)
      PROVE  CallInv'
  <2> DEFINE r == [Idle EXCEPT !.at = "check", !.kind = "write", !.path = p, !.old = SizeOf(p), !.new = size]
  <2>1. /\ SizeOf(p) \in Int /\ SizeOf(p) \in 0 .. MaxSize /\ 0 \in 0 .. MaxSize
        /\ size \in 0 .. MaxSize /\ size \in Int /\ p \in Paths \cup {Root}
    BY <1>0, SizeBound, SizesBounded DEF Paths
  <2>2. r \in Op
    BY <2>1, Names, IdleOp DEF Op
  <2>3. OpOK(r)
    BY <2>1 DEF Idle, OpOK
  <2>4. Start(c, r)
    BY <1>1 DEF BeginWrite
  <2> HIDE DEF r
  <2> QED
    BY <1>0, <2>2, <2>3, <2>4, Started
<1>2. ASSUME NEW c \in Callers, NEW p \in FilePaths, NEW size \in Sizes, BeginWritefile(c, p, size)
      PROVE  CallInv'
  <2> DEFINE r == [Idle EXCEPT !.at = "touch", !.kind = "write", !.path = p, !.old = SizeOf(p), !.new = size]
  <2>1. /\ SizeOf(p) \in Int /\ SizeOf(p) \in 0 .. MaxSize /\ 0 \in 0 .. MaxSize
        /\ size \in 0 .. MaxSize /\ size \in Int /\ p \in Paths \cup {Root}
    BY <1>0, SizeBound, SizesBounded DEF Paths
  <2>2. r \in Op
    BY <2>1, Names, IdleOp DEF Op
  <2>3. OpOK(r)
    BY <2>1 DEF Idle, OpOK
  <2>4. Start(c, r)
    BY <1>2 DEF BeginWritefile
  <2> HIDE DEF r
  <2> QED
    BY <1>0, <2>2, <2>3, <2>4, Started
<1>3. ASSUME NEW c \in Callers, NEW p \in FilePaths, NEW size \in Sizes, BeginGunzip(c, p, size)
      PROVE  CallInv'
  <2> DEFINE r == [Idle EXCEPT !.at = "create", !.kind = "gunzip", !.path = p, !.new = size]
  <2>1. /\ SizeOf(p) \in Int /\ SizeOf(p) \in 0 .. MaxSize /\ 0 \in 0 .. MaxSize
        /\ size \in 0 .. MaxSize /\ size \in Int /\ p \in Paths \cup {Root}
    BY <1>0, SizeBound, SizesBounded DEF Paths
  <2>2. r \in Op
    BY <2>1, Names, IdleOp DEF Op
  <2>3. OpOK(r)
    BY <2>1 DEF Idle, OpOK
  <2>4. Start(c, r)
    BY <1>3 DEF BeginGunzip
  <2> HIDE DEF r
  <2> QED
    BY <1>0, <2>2, <2>3, <2>4, Started
<1>4. ASSUME NEW c \in Callers, NEW p \in FilePaths, BeginCopy(c, p) PROVE CallInv'
  <2> DEFINE r == [Idle EXCEPT !.at = "check", !.kind = "copy", !.path = p, !.entry = p, !.new = tree[p]]
  <2>1. /\ tree[p] \in 0 .. MaxSize /\ tree[p] \in Int /\ p \in DOMAIN CopyNames
        /\ p \in Paths \cup {Root} /\ 0 \in 0 .. MaxSize
    BY <1>0, <1>4, SizesBounded DEF BeginCopy, IsFile, DiskInv, None, Dir
  <2>2. r \in Op
    BY <2>1, Names, IdleOp DEF Op
  <2>3. OpOK(r)
    BY <2>1 DEF Idle, OpOK
  <2>4. Start(c, r)
    BY <1>4 DEF BeginCopy
  <2> HIDE DEF r
  <2> QED
    BY <1>0, <2>2, <2>3, <2>4, Started
<1>5. ASSUME NEW c \in Callers, NEW p \in FilePaths, CompressFiles(c, p) PROVE CallInv'
  <2> DEFINE r == [Idle EXCEPT !.at = "panic", !.kind = "compress", !.path = p]
  <2>1. p \in Paths \cup {Root} /\ 0 \in 0 .. MaxSize
    BY SizesBounded DEF Paths
  <2>2. r \in Op
    BY <2>1, Names, IdleOp DEF Op
  <2>3. OpOK(r)
    BY <2>1 DEF Idle, OpOK
  <2>4. Start(c, r)
    BY <1>5 DEF CompressFiles
  <2> HIDE DEF r
  <2> QED
    BY <1>0, <2>2, <2>3, <2>4, Started
<1>6. ASSUME NEW c \in Callers, NEW p \in FilePaths, NEW q \in FilePaths, BeginRename(c, p, q)
      PROVE  CallInv'
  <2> DEFINE r == [Idle EXCEPT !.at = "rename", !.kind = "rename", !.path = q, !.entry = p]
  <2>1. p \in Paths \cup {Root} /\ q \in Paths \cup {Root} /\ 0 \in 0 .. MaxSize /\ p # q
    BY <1>6, SizesBounded DEF Paths, BeginRename
  <2>2. r \in Op
    BY <2>1, Names, IdleOp DEF Op
  <2>3. OpOK(r)
    BY <2>1 DEF Idle, OpOK
  <2>4. Start(c, r)
    BY <1>6 DEF BeginRename
  <2> HIDE DEF r
  <2> QED
    BY <1>0, <2>2, <2>3, <2>4, Started
<1>7. ASSUME NEW c \in Callers, NEW p \in Paths, BeginDelete(c, p) PROVE CallInv'
  <2> DEFINE r == [Idle EXCEPT !.at = "remove", !.kind = "delete", !.path = p, !.old = SizeOf(p)]
  <2>1. SizeOf(p) \in Int /\ SizeOf(p) \in 0 .. MaxSize
    BY <1>0, SizeBound, SizesBounded
  <2>2. r \in Op
    BY <2>1, Names, IdleOp DEF Op
  <2>3. OpOK(r)
    BY <2>1 DEF Idle, OpOK
  <2>4. Start(c, r)
    BY <1>7 DEF BeginDelete
  <2> HIDE DEF r
  <2> QED
    BY <1>0, <2>2, <2>3, <2>4, Started
<1>8. ASSUME NEW c \in Callers, NEW d \in DirPaths, CreateDirectory(c, d) PROVE CallInv'
  BY <1>0, <1>8, IdleOp, Started DEF CreateDirectory
<1>9. ASSUME NEW c \in Callers, TruncateRootDirectory(c) PROVE CallInv'
  <2> DEFINE r == [Idle EXCEPT !.at = "swap", !.kind = "truncate", !.path = Root]
  <2>1. Root \in Paths \cup {Root} /\ 0 \in 0 .. MaxSize
    BY SizesBounded
  <2>2. r \in Op
    BY <2>1, Names, IdleOp DEF Op
  <2>3. OpOK(r)
    BY <2>1 DEF Idle, OpOK
  <2>4. Start(c, r)
    BY <1>9 DEF TruncateRootDirectory
  <2> HIDE DEF r
  <2> QED
    BY <1>0, <2>2, <2>3, <2>4, Started
<1>10. ASSUME NEW c \in Callers, BeginLookup(c) PROVE CallInv'
  <2> DEFINE r == [Idle EXCEPT !.at = "lock", !.kind = "scan"]
  <2>2. r \in Op
    BY Names, IdleOp DEF Op
  <2>3. OpOK(r)
    BY SizesBounded DEF Idle, OpOK
  <2>4. call' = [call EXCEPT ![c] = r]
    BY <1>10 DEF BeginLookup
  <2> HIDE DEF r
  <2> QED
    BY <1>0, <2>2, <2>3, <2>4, OneCall
<1>11. ASSUME NEW c \in Callers, Return(c) PROVE CallInv'
  BY <1>0, <1>11, IdleOp, OneCall DEF Return
<1>12. ASSUME NEW c \in Callers PROVE call[c] \in Op /\ OpOK(call[c])
  BY <1>0 DEF CallInv
<1>13. ASSUME NEW c \in Callers, Check(c) PROVE CallInv'
  <2>1. CASE Return(c)
    BY <1>11, <2>1
  <2>2. CASE Go(c, IF call[c].kind = "copy" THEN "name" ELSE "touch")
    <3>1. /\ call[c].kind = "copy" => OpOK([call[c] EXCEPT !.at = "name"])
          /\ call[c].kind # "copy" => OpOK([call[c] EXCEPT !.at = "touch"])
      BY <1>12, <1>13 DEF Check, At, Op, OpOK
    <3> QED
      BY <1>0, <2>2, <3>1, Went, Names
  <2> QED
    BY <1>13, <2>1, <2>2 DEF Check
<1>14. ASSUME NEW c \in Callers, Touch(c) PROVE CallInv'
  <2>1. OpOK([call[c] EXCEPT !.at = "data"])
    BY <1>12, <1>14 DEF Touch, At, Op, OpOK
  <2>2. Go(c, "data") \/ Return(c)
    BY <1>14 DEF Touch
  <2> QED
    BY <1>0, <1>11, <2>1, <2>2, Went, Names
<1>15. ASSUME NEW c \in Callers, Data(c) PROVE CallInv'
  <2>1. PICK n \in 0 .. Ready(c) : call' = [call EXCEPT ![c].at = "load", ![c].delta = n - call[c].old]
    BY <1>15 DEF Data
  <2>2. n - call[c].old \in Int
    BY <1>12, <2>1 DEF Op
  <2> DEFINE r == [call[c] EXCEPT !.at = "load", !.delta = n - call[c].old]
  <2>3. r \in Op
    BY <1>12, <2>2, Names DEF Op
  <2>4. OpOK(r)
    BY <1>12, <1>15 DEF Data, At, Op, OpOK
  <2>5. call' = [call EXCEPT ![c] = r]
    BY <2>1
  <2> HIDE DEF r
  <2> QED
    BY <1>0, <2>3, <2>4, <2>5, OneCall
<1>16. ASSUME NEW c \in Callers, AddLoad(c) PROVE CallInv'
  <2>1. OpOK([call[c] EXCEPT !.at = "zero"]) /\ OpOK([call[c] EXCEPT !.at = "add"])
    BY <1>12, <1>16 DEF AddLoad, At, Op, OpOK
  <2>2. Go(c, "zero") \/ Go(c, "add")
    BY <1>16 DEF AddLoad
  <2> QED
    BY <1>0, <2>1, <2>2, Went, Names
<1>17. ASSUME NEW c \in Callers, AddDo(c) PROVE CallInv'
  <2>1. /\ call[c].kind = "unlink" => OpOK([call[c] EXCEPT !.at = "unlink"])
        /\ call[c].kind = "gunzip" => OpOK([call[c] EXCEPT !.at = "chunk"])
    BY <1>12, <1>17 DEF AddDo, At, Op, OpOK
  <2>2. \/ call[c].kind = "unlink" /\ Go(c, "unlink")
        \/ call[c].kind = "gunzip" /\ Go(c, "chunk")
        \/ Return(c)
    BY <1>17 DEF AddDo
  <2> QED
    BY <1>0, <1>11, <2>1, <2>2, Went, Names
<1>18. ASSUME NEW c \in Callers, CopyName(c) PROVE CallInv'
  <2> DEFINE to == FindCopySuffix(call[c].path)
             r == [call[c] EXCEPT !.at = "create", !.path = to]
  <2>1. to \in FilePaths /\ to \in Paths \cup {Root}
    BY <1>12, <1>18, SuffixIsFile DEF CopyName, At, OpOK, Paths
  <2>2. call' = [call EXCEPT ![c] = r]
    BY <1>18 DEF CopyName
  <2> HIDE DEF to
  <2>3. r \in Op
    BY <1>12, <2>1, Names DEF Op
  <2>4. OpOK(r)
    BY <1>12, <1>18, <2>1 DEF CopyName, At, Op, OpOK
  <2> HIDE DEF r
  <2> QED
    BY <1>0, <2>2, <2>3, <2>4, OneCall
<1>19. ASSUME NEW c \in Callers, CopyCreate(c) PROVE CallInv'
  <2>1. /\ call[c].kind = "copy" => OpOK([call[c] EXCEPT !.at = "data"])
        /\ call[c].kind # "copy" => OpOK([call[c] EXCEPT !.at = "chunk"])
    BY <1>12, <1>19 DEF CopyCreate, At, Op, OpOK
  <2>2. \/ call[c].kind = "copy" /\ Go(c, "data")
        \/ call[c].kind # "copy" /\ Go(c, "chunk")
        \/ Return(c)
    BY <1>19 DEF CopyCreate
  <2> QED
    BY <1>0, <1>11, <2>1, <2>2, Went, Names
<1>20. ASSUME NEW c \in Callers, Chunk(c) PROVE CallInv'
  <2>1. CASE Return(c)
    BY <1>11, <2>1
  <2> DEFINE n == call[c].old + 1
             r == [call[c] EXCEPT !.at = "load", !.old = n, !.delta = 1]
  <2>2. CASE call[c].old < call[c].new /\ call' = [call EXCEPT ![c] = r]
    <3>1. n \in Int /\ n \in 0 .. MaxSize /\ n <= call[c].new
      BY <1>12, <1>20, <2>2, SizesBounded DEF Chunk, At, Op, OpOK
    <3>2. r \in Op
      <4> HIDE DEF n
      <4>1. call[c] \in Op /\ n \in Int /\ 1 \in Int
        BY <1>12, <3>1
      <4> QED
        BY <4>1, Names DEF Op
    <3>3. OpOK(r)
      <4> HIDE DEF n
      <4> QED
        BY <1>12, <1>20, <3>1 DEF Chunk, At, Op, OpOK
    <3> HIDE DEF r
    <3> QED
      BY <1>0, <2>2, <3>2, <3>3, OneCall
  <2>3. Return(c) \/ (call[c].old < call[c].new /\ call' = [call EXCEPT ![c] = r])
    BY <1>20 DEF Chunk
  <2> QED
    BY <2>1, <2>2, <2>3
<1>21. ASSUME NEW c \in Callers, Remove(c) PROVE CallInv'
  <2> DEFINE p == call[c].path
             t == IF p \in DirPaths THEN Children(p) ELSE {p}
             r == [call[c] EXCEPT !.at = "load", !.delta = -call[c].old]
             u == [call[c] EXCEPT !.at = "entries", !.kind = "unlink", !.todo = t]
  <2>1. p \in Paths
    BY <1>12, <1>21 DEF Remove, At, OpOK
  <2>2. t \in SUBSET Paths /\ \A e \in t : Under(e, p)
    BY <2>1, PathsAssumption DEF Children, Under, Paths
  <2>3. -call[c].old \in Int
    BY <1>12 DEF Op
  <2>4. Return(c) \/ call' = [call EXCEPT ![c] = r] \/ call' = [call EXCEPT ![c] = u]
    BY <1>21 DEF Remove
  <2>5. r \in Op /\ (call[c].kind # "unlink" => OpOK(r))
    BY <1>12, <1>21, <2>3, Names DEF Remove, At, Op, OpOK
  <2> HIDE DEF t
  <2>6. u \in Op /\ OpOK(u)
    BY <1>12, <1>21, <2>2, Names DEF Remove, At, Op, OpOK
  <2>7. call[c].kind # "unlink"
    BY <1>12, <1>21 DEF Remove, At, OpOK
  <2> HIDE DEF r, u
  <2> QED
    BY <1>0, <1>11, <2>4, <2>5, <2>6, <2>7, OneCall
<1>22. ASSUME NEW c \in Callers, Entry(c) PROVE CallInv'
  <2>1. CASE Go(c, "rmdir")
    <3>1. OpOK([call[c] EXCEPT !.at = "rmdir"])
      BY <1>12, <1>22 DEF Entry, At, Op, OpOK
    <3> QED
      BY <1>0, <2>1, <3>1, Went, Names
  <2>2. ASSUME NEW p \in call[c].todo,
               call' = [call EXCEPT ![c].at = IF IsFile(p) THEN "load" ELSE "entries",
                                    ![c].entry = p, ![c].delta = -SizeOf(p), ![c].todo = @ \ {p}]
        PROVE  CallInv'
    <3> DEFINE s == IF IsFile(p) THEN "load" ELSE "entries"
               n == -SizeOf(p)
               t == call[c].todo \ {p}
               r == [call[c] EXCEPT !.at = s, !.entry = p, !.delta = n, !.todo = t]
    <3>1. p \in Paths /\ t \in SUBSET Paths
      BY <1>12, <2>2 DEF Op
    <3>2. n \in Int
      BY <1>0, <3>1, SizeBound, SizesBounded
    <3>3. s \in Steps /\ s \in {"load", "entries"} /\ (s = "load" => p \in FilePaths)
      BY <1>0, <3>1, Names DEF IsFile, DiskInv, Paths, None, Dir
    <3>4. call' = [call EXCEPT ![c] = r]
      BY <2>2
    <3> HIDE DEF s, n, t
    <3>5. r \in Op
      BY <1>12, <3>1, <3>2, <3>3 DEF Op
    <3>6. OpOK(r)
      BY <1>12, <1>22, <2>2, <3>3 DEF Entry, At, Op, OpOK, t
    <3> HIDE DEF r
    <3> QED
      BY <1>0, <3>4, <3>5, <3>6, OneCall
  <2> QED
    BY <1>22, <2>1, <2>2 DEF Entry
<1>23. ASSUME NEW c \in Callers, Unlink(c) PROVE CallInv'
  <2>1. OpOK([call[c] EXCEPT !.at = "entries"])
    BY <1>12, <1>23 DEF Unlink, At, Op, OpOK
  <2>2. Go(c, "entries")
    BY <1>23 DEF Unlink
  <2> QED
    BY <1>0, <2>1, <2>2, Went, Names
<1>24. ASSUME NEW c \in Callers, Rename(c) PROVE CallInv'
  <2>1. ASSUME NEW o \in Callers, open[o], NEW q \in FilePaths
        PROVE  [call[o] EXCEPT !.path = q] \in Op /\ OpOK([call[o] EXCEPT !.path = q])
    <3>1. At(o, "data") \/ (call[o].kind = "gunzip" /\ call[o].at \in {"chunk", "load", "zero", "add"})
      BY <1>0, <2>1 DEF HandleInv, HandleOK
    <3>2. q \in Paths \cup {Root}
      BY DEF Paths
    <3>3. [call[o] EXCEPT !.path = q] \in Op
      BY <1>12, <3>2 DEF Op
    <3>4. OpOK([call[o] EXCEPT !.path = q])
      BY <1>12, <3>1 DEF At, Op, OpOK
    <3> QED
      BY <3>3, <3>4
  <2>2. call[c].path \in FilePaths
    BY <1>12, <1>24 DEF Rename, At, OpOK
  <2> QED
    BY <1>0, <1>11, <1>24, <2>1, <2>2, IdleOp DEF Rename, CallInv
<1>25. ASSUME NEW c \in Callers, LockMu(c) PROVE CallInv'
  <2> DEFINE b == \A o \in Callers : ~Active(o)
             r == [call[c] EXCEPT !.at = "walk", !.todo = FilePaths, !.quiet = b]
  <2>1. b \in BOOLEAN
    BY Zenon
  <2>2. call' = [call EXCEPT ![c] = r]
    BY <1>25 DEF LockMu
  <2> HIDE DEF b
  <2>3. r \in Op
    BY <1>12, <2>1, Names DEF Op, Paths
  <2>4. OpOK(r)
    BY <1>12, <1>25 DEF LockMu, At, Op, OpOK
  <2> HIDE DEF r
  <2> QED
    BY <1>0, <2>2, <2>3, <2>4, OneCall
<1>26. ASSUME NEW c \in Callers, Walk(c) PROVE CallInv'
  <2> DEFINE p == CHOOSE p \in call[c].todo : TRUE
             n == call[c].new + SizeOf(p)
             t == call[c].todo \ {p}
             r == [call[c] EXCEPT !.todo = t, !.new = n]
             u == [call[c] EXCEPT !.todo = {}, !.quiet = FALSE]
  <2>1. p \in call[c].todo /\ call[c].at = "walk"
    BY <1>26 DEF Walk, At
  <2>2. call' = [call EXCEPT ![c] = r] \/ call' = [call EXCEPT ![c] = u]
    BY <1>26 DEF Walk
  <2> HIDE DEF p
  <2>3. n \in Int /\ t \in SUBSET Paths /\ t \subseteq FilePaths
    BY <1>0, <1>12, <2>1, SizeBound, SizesBounded DEF Op, OpOK
  <2> HIDE DEF n, t
  <2>4. r \in Op /\ u \in Op
    BY <1>12, <2>3 DEF Op
  <2>5. /\ r.at = "walk" /\ r.kind = call[c].kind /\ r.path = call[c].path /\ r.todo = t
        /\ u.at = "walk" /\ u.kind = call[c].kind /\ u.path = call[c].path /\ u.todo = {}
        /\ u.old = call[c].old /\ r.old = call[c].old
    BY <1>12, <2>1 DEF Op
  <2> HIDE DEF r, u
  <2>6. OpOK(r)
    BY <1>12, <2>1, <2>3, <2>5 DEF OpOK
  <2>7. OpOK(u)
    BY <1>12, <2>1, <2>5 DEF OpOK
  <2> QED
    BY <1>0, <2>2, <2>4, <2>6, <2>7, OneCall
<1>27. CASE UNCHANGED call
  BY <1>0, <1>27 DEF CallInv
<1> QED
  BY <1>1, <1>2, <1>3, <1>4, <1>5, <1>6, <1>7, <1>8, <1>9, <1>10, <1>11, <1>13, <1>14, <1>15,
     <1>16, <1>17, <1>18, <1>19, <1>20, <1>21, <1>22, <1>23, <1>24, <1>25, <1>26, <1>27
  DEF Next, Step, vars, Rmdir, Panic, SwapQuota, SetUsage, Expire

-----------------------------------------------------------------------------
(* The disk.                                                                 *)

\* A file is written or created in a directory that is there.
LEMMA PutFile ==
  ASSUME DiskInv, NEW p \in FilePaths, NEW n \in 0 .. MaxSize, Exists(Parent[p]),
         tree' = [tree EXCEPT ![p] = n]
  PROVE  DiskInv'
<1>1. p \in Paths /\ p \notin DirPaths /\ n # None /\ n # Dir /\ n \in {None, Dir} \cup (0 .. MaxSize)
  BY PathsAssumption, SizesBounded DEF Paths, None, Dir
<1>2. ASSUME NEW q \in FilePaths PROVE Parent[q] \in DirPaths \cup {Root} /\ q \in Paths
  BY PathsAssumption DEF Paths
<1>3. tree' \in [Paths -> {None, Dir} \cup (0 .. MaxSize)]
  BY <1>1 DEF DiskInv
<1>4. \A d \in DirPaths : tree'[d] = tree[d]
  BY <1>1 DEF DiskInv, Paths
<1>5. ASSUME NEW q \in FilePaths PROVE Exists(Parent[q])' <=> Exists(Parent[q])
  BY <1>2, <1>4, PathsAssumption DEF Exists
<1>6. ASSUME NEW q \in FilePaths PROVE tree'[q] # Dir /\ (tree'[q] # None => Exists(Parent[q])')
  BY <1>1, <1>2, <1>5 DEF DiskInv
<1> QED
  BY <1>3, <1>4, <1>6 DEF DiskInv

\* A file is unlinked.
LEMMA DropFile ==
  ASSUME DiskInv, NEW p \in FilePaths, tree' = [tree EXCEPT ![p] = None]
  PROVE  DiskInv'
<1>1. p \in Paths /\ p \notin DirPaths /\ None # Dir
  BY PathsAssumption DEF Paths, None, Dir
<1>2. ASSUME NEW q \in FilePaths PROVE Parent[q] \in DirPaths \cup {Root} /\ q \in Paths
  BY PathsAssumption DEF Paths
<1>3. tree' \in [Paths -> {None, Dir} \cup (0 .. MaxSize)]
  BY <1>1 DEF DiskInv
<1>4. \A d \in DirPaths : tree'[d] = tree[d]
  BY <1>1 DEF DiskInv, Paths
<1>5. ASSUME NEW q \in FilePaths PROVE Exists(Parent[q])' <=> Exists(Parent[q])
  BY <1>2, <1>4, PathsAssumption DEF Exists
<1>6. ASSUME NEW q \in FilePaths PROVE tree'[q] # Dir /\ (tree'[q] # None => Exists(Parent[q])')
  BY <1>1, <1>2, <1>5 DEF DiskInv
<1> QED
  BY <1>3, <1>4, <1>6 DEF DiskInv

\* A directory is made.
LEMMA MakeDir ==
  ASSUME DiskInv, NEW d \in DirPaths, tree' = [tree EXCEPT ![d] = Dir]
  PROVE  DiskInv'
<1>1. d \in Paths /\ d \notin FilePaths /\ None # Dir
  BY PathsAssumption DEF Paths, None, Dir
<1>2. ASSUME NEW q \in FilePaths PROVE Parent[q] \in DirPaths \cup {Root} /\ q \in Paths
  BY PathsAssumption DEF Paths
<1>3. tree' \in [Paths -> {None, Dir} \cup (0 .. MaxSize)]
  BY <1>1 DEF DiskInv
<1>4. \A f \in FilePaths : tree'[f] = tree[f]
  BY <1>1 DEF DiskInv, Paths
<1>5. \A e \in DirPaths : tree'[e] \in {None, Dir} /\ (tree[e] # None => tree'[e] # None)
  BY <1>1 DEF DiskInv, Paths
<1>6. ASSUME NEW q \in FilePaths PROVE Exists(Parent[q]) => Exists(Parent[q])'
  BY <1>2, <1>5, PathsAssumption DEF Exists
<1> QED
  BY <1>3, <1>4, <1>5, <1>6 DEF DiskInv

\* An empty directory is removed.
LEMMA DropDir ==
  ASSUME DiskInv, NEW d \in DirPaths, Children(d) = {}, tree' = [tree EXCEPT ![d] = None]
  PROVE  DiskInv'
<1>1. d \in Paths /\ d \notin FilePaths /\ None # Dir
  BY PathsAssumption DEF Paths, None, Dir
<1>2. ASSUME NEW q \in FilePaths PROVE Parent[q] \in DirPaths \cup {Root} /\ q \in Paths
  BY PathsAssumption DEF Paths
<1>3. tree' \in [Paths -> {None, Dir} \cup (0 .. MaxSize)]
  BY <1>1 DEF DiskInv
<1>4. \A f \in FilePaths : tree'[f] = tree[f]
  BY <1>1 DEF DiskInv, Paths
<1>5. \A e \in DirPaths : tree'[e] \in {None, Dir} /\ (e # d => tree'[e] = tree[e])
  BY <1>1 DEF DiskInv, Paths
<1>6. ASSUME NEW q \in FilePaths, tree[q] # None PROVE Exists(Parent[q])'
  <2>1. Parent[q] # d
    BY <1>2, <1>6 DEF Children
  <2>2. Exists(Parent[q])
    BY <1>6 DEF DiskInv
  <2> QED
    BY <1>2, <1>5, <2>1, <2>2, PathsAssumption DEF Exists
<1> QED
  BY <1>3, <1>4, <1>5, <1>6 DEF DiskInv

\* Touch makes the directory and the empty file.
LEMMA TouchFile ==
  ASSUME DiskInv, NEW p \in FilePaths, tree' = Touched(p)
  PROVE  DiskInv'
<1>1. /\ p \in Paths /\ p \notin DirPaths /\ None # Dir /\ 0 # None /\ 0 # Dir
      /\ {0, None, Dir} \subseteq {None, Dir} \cup (0 .. MaxSize)
  BY PathsAssumption, SizesBounded DEF Paths, None, Dir
<1>2. ASSUME NEW q \in FilePaths
      PROVE  Parent[q] \in DirPaths \cup {Root} /\ q \in Paths /\ q \notin DirPaths
  BY PathsAssumption DEF Paths
<1>3. tree' \in [Paths -> {None, Dir} \cup (0 .. MaxSize)]
  BY <1>1 DEF DiskInv, Touched
<1>4. ASSUME NEW e \in DirPaths
      PROVE  /\ tree'[e] \in {None, Dir}
             /\ tree[e] # None \/ e = Parent[p] => tree'[e] # None
  BY <1>1 DEF DiskInv, Touched, Paths
<1>5. ASSUME NEW q \in FilePaths, q # p PROVE tree'[q] = tree[q]
  BY <1>2, <1>5, PathsAssumption DEF Touched, Paths
<1>6. tree'[p] = 0
  BY <1>1 DEF Touched
<1>7. ASSUME NEW q \in FilePaths PROVE Exists(Parent[q]) \/ q = p => Exists(Parent[q])'
  BY <1>2, <1>4, PathsAssumption DEF Exists
<1>8. ASSUME NEW q \in FilePaths PROVE tree'[q] # Dir /\ (tree'[q] # None => Exists(Parent[q])')
  BY <1>1, <1>5, <1>6, <1>7 DEF DiskInv
<1> QED
  BY <1>3, <1>4, <1>8 DEF DiskInv

\* A rename replaces whatever file is at the new path.
LEMMA MoveFile ==
  ASSUME DiskInv, NEW p \in FilePaths, NEW q \in FilePaths, tree[p] # None, Exists(Parent[q]),
         tree' = [tree EXCEPT ![q] = tree[p], ![p] = None]
  PROVE  DiskInv'
<1>1. /\ p \in Paths /\ p \notin DirPaths /\ q \in Paths /\ q \notin DirPaths /\ None # Dir
      /\ tree[p] \in 0 .. MaxSize
  BY PathsAssumption DEF Paths, None, Dir, DiskInv
<1>2. ASSUME NEW f \in FilePaths PROVE Parent[f] \in DirPaths \cup {Root} /\ f \in Paths
  BY PathsAssumption DEF Paths
<1>3. tree' \in [Paths -> {None, Dir} \cup (0 .. MaxSize)]
  BY <1>1 DEF DiskInv
<1>4. \A d \in DirPaths : tree'[d] = tree[d]
  BY <1>1 DEF DiskInv, Paths
<1>5. ASSUME NEW f \in FilePaths PROVE Exists(Parent[f])' <=> Exists(Parent[f])
  BY <1>2, <1>4, PathsAssumption DEF Exists
<1>6. ASSUME NEW f \in FilePaths PROVE tree'[f] # Dir /\ (tree'[f] # None => Exists(Parent[f])')
  <2>1. tree'[f] = None \/ (f = q /\ tree'[f] = tree[p]) \/ tree'[f] = tree[f]
    BY <1>1, <1>2 DEF DiskInv
  <2> QED
    BY <1>1, <1>5, <2>1 DEF DiskInv
<1> QED
  BY <1>3, <1>4, <1>6 DEF DiskInv

\* What a write through a handle leaves.
LEMMA WrittenFile ==
  ASSUME IInv, NEW c \in Callers, NEW n \in 0 .. MaxSize, tree' = Written(c, n)
  PROVE  /\ DiskInv'
         /\ \A f \in FilePaths : IsFile(f) => tree'[f] >= 0
<1>1. CASE open[c]
  <2> DEFINE p == call[c].path
             m == Max({SizeOf(p), n})
  <2>1. p \in FilePaths /\ IsFile(p)
    BY <1>1 DEF IInv, HandleInv, HandleOK
  <2>2. SizeOf(p) \in 0 .. MaxSize
    BY <2>1, SizeBound DEF IInv, Paths
  <2>3. m \in 0 .. MaxSize
    <3>1. SizeOf(p) \in Int /\ n \in Int
      BY <2>2, SizesBounded
    <3>2. m \in {SizeOf(p), n}
      BY <3>1, OfTwo
    <3> QED
      BY <2>2, <3>2
  <2>4. tree' = [tree EXCEPT ![p] = m]
    BY <1>1 DEF Written
  <2>5. Exists(Parent[p]) /\ DiskInv
    BY <2>1 DEF IInv, DiskInv, IsFile, None
  <2> HIDE DEF p, m
  <2>6. DiskInv'
    BY <2>1, <2>3, <2>4, <2>5, PutFile
  <2>7. m >= 0
    BY <2>3, SizesBounded
  <2>8. ASSUME NEW f \in FilePaths, IsFile(f) PROVE tree'[f] >= 0
    BY <2>4, <2>5, <2>7, <2>8 DEF DiskInv, IsFile
  <2> QED
    BY <2>6, <2>8
<1>2. CASE ~open[c]
  <2>1. tree' = tree
    BY <1>2 DEF Written
  <2> QED
    BY <2>1 DEF IInv, DiskInv, IsFile, Exists
<1> QED
  BY <1>1, <1>2

\* A copy moves no more than the operation asked for.
LEMMA ReadyBound ==
  ASSUME IInv, NEW c \in Callers, At(c, "data"), NEW n \in 0 .. Ready(c)
  PROVE  n \in 0 .. MaxSize /\ n <= call[c].new
<1>1. call[c] \in Op /\ call[c].new \in 0 .. MaxSize
  BY DEF IInv, CallInv, OpOK, At
<1>2. Ready(c) \in Int /\ Ready(c) <= call[c].new
  <2>1. CASE call[c].kind = "copy" /\ IsFile(call[c].entry)
    <3>1. call[c].new \in Int /\ tree[call[c].entry] \in Int
      BY <1>1, <2>1, SizesBounded DEF IInv, DiskInv, IsFile, None, Dir
    <3>2. /\ Min({call[c].new, tree[call[c].entry]}) \in Int
          /\ Min({call[c].new, tree[call[c].entry]}) <= call[c].new
      <4>1. PICK x \in Int, y \in Int : x = call[c].new /\ y = tree[call[c].entry]
        BY <3>1
      <4>2. Min({x, y}) \in {x, y} /\ Min({x, y}) <= x
        BY OfTwo
      <4>3. Min({x, y}) \in Int
        BY <4>2
      <4> QED
        BY <4>1, <4>2, <4>3
    <3>3. Ready(c) = Min({call[c].new, tree[call[c].entry]})
      BY <2>1 DEF Ready
    <3> QED
      BY <1>1, <3>2, <3>3, SizesBounded
  <2>2. CASE ~(call[c].kind = "copy" /\ IsFile(call[c].entry))
    BY <1>1, <2>2, SizesBounded DEF Ready
  <2> QED
    BY <2>1, <2>2
<1> QED
  BY <1>1, <1>2, SizesBounded

\* A unit that decompression writes is below the size of the whole.
LEMMA ChunkBound ==
  ASSUME IInv, NEW c \in Callers, At(c, "chunk"), call[c].old < call[c].new
  PROVE  call[c].old + 1 \in 0 .. MaxSize
<1>1. call[c] \in Op /\ call[c].new \in 0 .. MaxSize /\ call[c].old \in 0 .. call[c].new
  BY DEF IInv, CallInv, OpOK, At
<1> QED
  BY <1>1, SizesBounded

\* DiskInv in one step.
LEMMA DiskStep == IInv /\ [Next]_vars => DiskInv'
<1> SUFFICES ASSUME IInv, [Next]_vars PROVE DiskInv'
  OBVIOUS
<1>0. DiskInv /\ CallInv /\ HandleInv
  BY DEF IInv
<1>1. CASE UNCHANGED tree
  BY <1>0, <1>1 DEF DiskInv, Exists
<1>2. ASSUME NEW c \in Callers, Touch(c) PROVE DiskInv'
  <2>1. call[c].path \in FilePaths
    BY <1>0, <1>2 DEF Touch, At, CallInv, OpOK
  <2>2. tree' = Touched(call[c].path) \/ UNCHANGED tree
    BY <1>2 DEF Touch
  <2> QED
    BY <1>0, <1>1, <2>1, <2>2, TouchFile
<1>3. ASSUME NEW c \in Callers, Data(c) PROVE DiskInv'
  <2>1. PICK n \in 0 .. Ready(c) : tree' = Written(c, n)
    BY <1>3 DEF Data
  <2>2. n \in 0 .. MaxSize
    BY <1>3, ReadyBound DEF Data
  <2> QED
    BY <2>1, <2>2, WrittenFile
<1>4. ASSUME NEW p \in FilePaths, Exists(Parent[p]), tree' = Created(p) PROVE DiskInv'
  <2>1. SizeOf(p) \in 0 .. MaxSize
    BY <1>0, SizeBound DEF Paths
  <2> QED
    BY <1>0, <1>4, <2>1, PutFile DEF Created
<1>5. ASSUME NEW c \in Callers, CopyCreate(c) PROVE DiskInv'
  <2>1. call[c].path \in FilePaths
    BY <1>0, <1>5 DEF CopyCreate, At, CallInv, OpOK
  <2> QED
    BY <1>1, <1>4, <1>5, <2>1 DEF CopyCreate
<1>6. ASSUME NEW c \in Callers, Chunk(c) PROVE DiskInv'
  <2>1. CASE call[c].old < call[c].new /\ tree' = Written(c, call[c].old + 1)
    BY <1>6, <2>1, ChunkBound, WrittenFile DEF Chunk
  <2> QED
    BY <1>1, <1>6, <2>1 DEF Chunk
<1>7. ASSUME NEW c \in Callers, Remove(c) PROVE DiskInv'
  <2>1. \/ call[c].path \in FilePaths /\ tree' = Unlinked(call[c].path)
        \/ call[c].path \in DirPaths /\ Children(call[c].path) = {} /\ tree' = Unlinked(call[c].path)
        \/ UNCHANGED tree
    BY <1>7 DEF Remove
  <2> QED
    BY <1>0, <1>1, <2>1, DropFile, DropDir DEF Unlinked
<1>8. ASSUME NEW c \in Callers, Unlink(c) PROVE DiskInv'
  <2>1. call[c].entry \in FilePaths
    BY <1>0, <1>8 DEF Unlink, At, CallInv, OpOK, Under
  <2>2. tree' = Unlinked(call[c].entry) \/ UNCHANGED tree
    BY <1>8 DEF Unlink
  <2> QED
    BY <1>0, <1>1, <2>1, <2>2, DropFile DEF Unlinked
<1>9. ASSUME NEW c \in Callers, Rmdir(c) PROVE DiskInv'
  <2>1. \/ call[c].path \in DirPaths /\ Children(call[c].path) = {} /\ tree' = Unlinked(call[c].path)
        \/ UNCHANGED tree
    BY <1>9 DEF Rmdir
  <2> QED
    BY <1>0, <1>1, <2>1, DropDir DEF Unlinked
<1>10. ASSUME NEW c \in Callers, Rename(c) PROVE DiskInv'
  <2>1. call[c].path \in FilePaths /\ call[c].entry \in FilePaths
    BY <1>0, <1>10 DEF Rename, At, CallInv, OpOK
  <2>2. \/ /\ tree[call[c].entry] # None /\ Exists(Parent[call[c].path])
           /\ tree' = [tree EXCEPT ![call[c].path] = tree[call[c].entry], ![call[c].entry] = None]
        \/ UNCHANGED tree
    BY <1>10 DEF Rename
  <2> QED
    BY <1>0, <1>1, <2>1, <2>2, MoveFile
<1>11. ASSUME NEW c \in Callers, NEW p \in FilePaths, NEW q \in FilePaths, BeginRename(c, p, q)
       PROVE  DiskInv'
  <2>1. Parent[q] \in DirPaths \cup {Root}
    BY PathsAssumption DEF Paths
  <2>2. UNCHANGED tree \/ (Parent[q] # Root /\ tree' = [tree EXCEPT ![Parent[q]] = Dir])
    BY <1>11 DEF BeginRename
  <2> QED
    BY <1>0, <1>1, <2>1, <2>2, MakeDir
<1>12. ASSUME NEW c \in Callers, NEW d \in DirPaths, CreateDirectory(c, d) PROVE DiskInv'
  BY <1>0, <1>12, MakeDir DEF CreateDirectory
<1>13. ASSUME NEW c \in Callers, NEW p \in FilePaths, CompressFiles(c, p) PROVE DiskInv'
  BY <1>4, <1>13 DEF CompressFiles
<1>14. ASSUME NEW c \in Callers, TruncateRootDirectory(c) PROVE DiskInv'
  BY <1>14 DEF TruncateRootDirectory, DiskInv, None, Dir, Paths
<1> QED
  BY <1>1, <1>2, <1>3, <1>5, <1>6, <1>7, <1>8, <1>9, <1>10, <1>11, <1>12, <1>13, <1>14
  DEF Next, Step, vars, BeginWrite, BeginWritefile, BeginGunzip, BeginCopy, BeginDelete, BeginLookup,
      Check, AddLoad, AddDo, CopyName, Entry, Panic, SwapQuota, LockMu, Walk, SetUsage, Expire

-----------------------------------------------------------------------------
(* The counter, the mutex and the handles.                                   *)

\* The counter and the history variables in one step.
LEMMA FlagsStep == IInv /\ [Next]_vars => Flags'
<1> SUFFICES ASSUME IInv, [Next]_vars PROVE Flags'
  OBVIOUS
<1>0. Flags /\ CallInv
  BY DEF IInv
<1>1. usage' \in Int
  <2>1. \A c \in Callers : call[c].new \in Int /\ call[c].delta \in Int
    BY <1>0 DEF CallInv, Op
  <2>2. \/ usage' = usage \/ usage' = 0
        \/ \E c \in Callers : usage' = call[c].new \/ usage' = usage + call[c].delta
    BY DEF Next, Step, vars, BeginWrite, BeginWritefile, BeginGunzip, BeginCopy, CompressFiles, BeginRename,
           BeginDelete, CreateDirectory, TruncateRootDirectory, BeginLookup, Check, Touch, Data, AddLoad, AddDo,
           CopyName, CopyCreate, Chunk, Remove, Entry, Unlink, Rmdir, Rename, Panic, SwapQuota, LockMu, Walk,
           SetUsage, Expire
  <2> QED
    BY <1>0, <2>1, <2>2 DEF Flags
<1>2. fresh' \in BOOLEAN
  <2>1. CASE UNCHANGED fresh
    BY <1>0, <2>1 DEF Flags
  <2>2. ASSUME NEW c \in Callers, SetUsage(c) PROVE fresh' \in BOOLEAN
    BY <1>0, <2>2, Zenon DEF Flags, SetUsage
  <2>3. CASE Expire
    BY <2>3, Zenon DEF Expire
  <2> QED
    BY <2>1, <2>2, <2>3
    DEF Next, Step, vars, BeginWrite, BeginWritefile, BeginGunzip, BeginCopy, CompressFiles,
        BeginRename, BeginDelete, CreateDirectory, TruncateRootDirectory, BeginLookup, Check, Touch,
        Data, AddLoad, AddDo, CopyName, CopyCreate, Chunk, Remove, Entry, Unlink, Rmdir, Rename,
        Panic, SwapQuota, LockMu, Walk
<1>3. drift' \in BOOLEAN
  <2>1. CASE UNCHANGED drift
    BY <1>0, <2>1 DEF Flags
  <2>2. ASSUME NEW c \in Callers, NEW op, Start(c, op) PROVE drift' \in BOOLEAN
    BY <2>2, Zenon DEF Start
  <2>3. ASSUME NEW c \in Callers, CopyName(c) PROVE drift' \in BOOLEAN
    BY <1>0, <2>3, Zenon DEF Flags, CopyName
  <2>4. ASSUME NEW c \in Callers, Chunk(c) PROVE drift' \in BOOLEAN
    BY <1>0, <2>4, Zenon DEF Flags, Chunk
  <2>5. ASSUME NEW c \in Callers, Unlink(c) PROVE drift' \in BOOLEAN
    BY <1>0, <2>5, Zenon DEF Flags, Unlink
  <2>6. ASSUME NEW c \in Callers, LockMu(c) PROVE drift' \in BOOLEAN
    BY <1>0, <2>6, Zenon DEF Flags, LockMu
  <2>7. ASSUME NEW c \in Callers, Walk(c) PROVE drift' \in BOOLEAN
    BY <1>0, <2>7, Zenon DEF Flags, Walk
  <2>8. ASSUME NEW c \in Callers, SetUsage(c) PROVE drift' \in BOOLEAN
    BY <1>0, <2>8, Zenon DEF Flags, SetUsage
  <2> QED
    BY <2>1, <2>2, <2>3, <2>4, <2>5, <2>6, <2>7, <2>8
    DEF Next, Step, vars, BeginWrite, BeginWritefile, BeginGunzip, BeginCopy, CompressFiles,
        BeginRename, BeginDelete, CreateDirectory, TruncateRootDirectory, BeginLookup, Check, Touch,
        Data, AddLoad, AddDo, CopyCreate, Remove, Entry, Rmdir, Rename, Panic, SwapQuota, Expire
<1>4. blind' \in BOOLEAN
  <2>1. CASE UNCHANGED blind
    BY <1>0, <2>1 DEF Flags
  <2>2. ASSUME NEW c \in Callers, NEW p \in FilePaths, NEW size \in Sizes, BeginWritefile(c, p, size)
        PROVE  blind' \in BOOLEAN
    BY <1>0, <2>2, Zenon DEF Flags, BeginWritefile
  <2>3. ASSUME NEW c \in Callers, Check(c) PROVE blind' \in BOOLEAN
    BY <1>0, <2>3, Zenon DEF Flags, Check
  <2>4. ASSUME NEW c \in Callers, Chunk(c) PROVE blind' \in BOOLEAN
    BY <1>0, <2>4, Zenon DEF Flags, Chunk
  <2> QED
    BY <2>1, <2>2, <2>3, <2>4
    DEF Next, Step, vars, BeginWrite, BeginGunzip, BeginCopy, CompressFiles, BeginRename,
        BeginDelete, CreateDirectory, TruncateRootDirectory, BeginLookup, Touch, Data, AddLoad,
        AddDo, CopyName, CopyCreate, Remove, Entry, Unlink, Rmdir, Rename, Panic, SwapQuota, LockMu,
        Walk, SetUsage, Expire
<1>5. open' \in [Callers -> BOOLEAN]
  <2>1. CASE UNCHANGED open
    BY <1>0, <2>1 DEF Flags
  <2>2. ASSUME NEW gone, open' = Detached(gone) PROVE open' \in [Callers -> BOOLEAN]
    BY <2>2, Zenon DEF Detached
  <2>3. ASSUME NEW c \in Callers, NEW b \in BOOLEAN, open' = [open EXCEPT ![c] = b]
        PROVE  open' \in [Callers -> BOOLEAN]
    BY <1>0, <2>3 DEF Flags
  <2>4. ASSUME NEW c \in Callers, Touch(c) PROVE open' \in [Callers -> BOOLEAN]
    BY <2>1, <2>2, <2>3, <2>4 DEF Touch
  <2>5. ASSUME NEW c \in Callers, Data(c) PROVE open' \in [Callers -> BOOLEAN]
    BY <2>1, <2>2, <2>3, <2>5 DEF Data
  <2>6. ASSUME NEW c \in Callers, CopyCreate(c) PROVE open' \in [Callers -> BOOLEAN]
    BY <2>1, <2>2, <2>3, <2>6 DEF CopyCreate
  <2>7. ASSUME NEW c \in Callers, Chunk(c) PROVE open' \in [Callers -> BOOLEAN]
    BY <2>1, <2>2, <2>3, <2>7 DEF Chunk
  <2>8. ASSUME NEW c \in Callers, Remove(c) PROVE open' \in [Callers -> BOOLEAN]
    BY <2>1, <2>2, <2>3, <2>8 DEF Remove
  <2>9. ASSUME NEW c \in Callers, Unlink(c) PROVE open' \in [Callers -> BOOLEAN]
    BY <2>1, <2>2, <2>3, <2>9 DEF Unlink
  <2>10. ASSUME NEW c \in Callers, Rename(c) PROVE open' \in [Callers -> BOOLEAN]
    BY <2>1, <2>2, <2>3, <2>10 DEF Rename
  <2>11. ASSUME NEW c \in Callers, TruncateRootDirectory(c) PROVE open' \in [Callers -> BOOLEAN]
    BY <2>1, <2>2, <2>3, <2>11 DEF TruncateRootDirectory
  <2> QED
    BY <2>1, <2>4, <2>5, <2>6, <2>7, <2>8, <2>9, <2>10, <2>11
    DEF Next, Step, vars, BeginWrite, BeginWritefile, BeginGunzip, BeginCopy, CompressFiles,
        BeginRename, BeginDelete, CreateDirectory, BeginLookup, Check, AddLoad, AddDo, CopyName,
        Entry, Rmdir, Panic, SwapQuota, LockMu, Walk, SetUsage, Expire
<1> QED
  BY <1>1, <1>2, <1>3, <1>4, <1>5 DEF Flags

\* Only LockMu and SetUsage make a goroutine a walker or end its walk.
LEMMA MutexKept ==
  ASSUME MutexInv, UNCHANGED mu, \A o \in Callers : call'[o].at = "walk" <=> call[o].at = "walk"
  PROVE  MutexInv'
BY DEF MutexInv, At

\* A goroutine that is not walking leaves, goes on or begins.
LEMMA NotWalking ==
  ASSUME CallInv, NEW c \in Callers, call[c].at # "walk", NEW r, r.at # "walk",
         \/ call' = [call EXCEPT ![c] = r]
         \/ Start(c, r)
  PROVE  \A o \in Callers : call'[o].at = "walk" <=> call[o].at = "walk"
<1>1. ASSUME NEW o \in Callers PROVE call[o] \in Op
  BY DEF CallInv
<1>2. CASE call' = [call EXCEPT ![c] = r]
  BY <1>2 DEF CallInv
<1>3. CASE Start(c, r)
  <2>1. ASSUME NEW o \in Callers, o # c PROVE call'[o] = [call[o] EXCEPT !.quiet = FALSE]
    BY <1>3, <2>1 DEF Start
  <2>2. call'[c] = r
    BY <1>3 DEF Start
  <2>3. ASSUME NEW o \in Callers, o # c PROVE call'[o].at = call[o].at
    BY <1>1, <2>1, <2>3 DEF Op
  <2> QED
    BY <2>2, <2>3
<1> QED
  BY <1>2, <1>3

\* MutexInv in one step.
LEMMA MutexStep == IInv /\ [Next]_vars => MutexInv'
<1> SUFFICES ASSUME IInv, [Next]_vars PROVE MutexInv'
  OBVIOUS
<1>0. MutexInv /\ CallInv /\ Idle.at = "idle"
  BY DEF IInv, Idle
<1>1. CASE UNCHANGED <<mu, call>>
  BY <1>0, <1>1 DEF MutexInv, At
<1>2. ASSUME NEW c \in Callers, call[c].at # "walk", Return(c), UNCHANGED mu PROVE MutexInv'
  BY <1>0, <1>2, NotWalking, MutexKept DEF Return
<1>3. ASSUME NEW c \in Callers PROVE call[c] \in Op
  BY <1>0 DEF CallInv
<1>4. ASSUME NEW c \in Callers, NEW s, s # "walk", call[c].at # "walk", Go(c, s), UNCHANGED mu
      PROVE  MutexInv'
  <2>1. call' = [call EXCEPT ![c] = [call[c] EXCEPT !.at = s]]
    BY <1>4 DEF Go
  <2>2. [call[c] EXCEPT !.at = s].at # "walk"
    BY <1>3, <1>4 DEF Op
  <2> QED
    BY <1>0, <1>4, <2>1, <2>2, NotWalking, MutexKept
<1>5. ASSUME NEW c \in Callers, NEW r, r.at # "walk", Start(c, r), UNCHANGED mu PROVE MutexInv'
  <2>1. call[c].at # "walk"
    BY <1>5 DEF Start, At
  <2> QED
    BY <1>0, <1>5, <2>1, NotWalking, MutexKept
<1>6. ASSUME NEW c \in Callers, NEW p \in FilePaths, NEW size \in Sizes, BeginWrite(c, p, size)
      PROVE  MutexInv'
  <2> DEFINE r == [Idle EXCEPT !.at = "check", !.kind = "write", !.path = p, !.old = SizeOf(p), !.new = size]
  <2>1. r.at # "walk"
    BY DEF Idle
  <2>2. Start(c, r) /\ UNCHANGED mu
    BY <1>6 DEF BeginWrite
  <2> HIDE DEF r
  <2> QED
    BY <1>5, <2>1, <2>2
<1>7. ASSUME NEW c \in Callers, NEW p \in FilePaths, NEW size \in Sizes, BeginWritefile(c, p, size)
      PROVE  MutexInv'
  <2> DEFINE r == [Idle EXCEPT !.at = "touch", !.kind = "write", !.path = p, !.old = SizeOf(p), !.new = size]
  <2>1. r.at # "walk"
    BY DEF Idle
  <2>2. Start(c, r) /\ UNCHANGED mu
    BY <1>7 DEF BeginWritefile
  <2> HIDE DEF r
  <2> QED
    BY <1>5, <2>1, <2>2
<1>8. ASSUME NEW c \in Callers, NEW p \in FilePaths, NEW size \in Sizes, BeginGunzip(c, p, size)
      PROVE  MutexInv'
  <2> DEFINE r == [Idle EXCEPT !.at = "create", !.kind = "gunzip", !.path = p, !.new = size]
  <2>1. r.at # "walk"
    BY DEF Idle
  <2>2. Start(c, r) /\ UNCHANGED mu
    BY <1>8 DEF BeginGunzip
  <2> HIDE DEF r
  <2> QED
    BY <1>5, <2>1, <2>2
<1>9. ASSUME NEW c \in Callers, NEW p \in FilePaths, BeginCopy(c, p) PROVE MutexInv'
  <2> DEFINE r == [Idle EXCEPT !.at = "check", !.kind = "copy", !.path = p, !.entry = p, !.new = tree[p]]
  <2>1. r.at # "walk"
    BY DEF Idle
  <2>2. Start(c, r) /\ UNCHANGED mu
    BY <1>9 DEF BeginCopy
  <2> HIDE DEF r
  <2> QED
    BY <1>5, <2>1, <2>2
<1>10. ASSUME NEW c \in Callers, NEW p \in FilePaths, CompressFiles(c, p) PROVE MutexInv'
  <2> DEFINE r == [Idle EXCEPT !.at = "panic", !.kind = "compress", !.path = p]
  <2>1. r.at # "walk"
    BY DEF Idle
  <2>2. Start(c, r) /\ UNCHANGED mu
    BY <1>10 DEF CompressFiles
  <2> HIDE DEF r
  <2> QED
    BY <1>5, <2>1, <2>2
<1>11. ASSUME NEW c \in Callers, NEW p \in FilePaths, NEW q \in FilePaths, BeginRename(c, p, q)
       PROVE  MutexInv'
  <2> DEFINE r == [Idle EXCEPT !.at = "rename", !.kind = "rename", !.path = q, !.entry = p]
  <2>1. r.at # "walk"
    BY DEF Idle
  <2>2. Start(c, r) /\ UNCHANGED mu
    BY <1>11 DEF BeginRename
  <2> HIDE DEF r
  <2> QED
    BY <1>5, <2>1, <2>2
<1>12. ASSUME NEW c \in Callers, NEW p \in Paths, BeginDelete(c, p) PROVE MutexInv'
  <2> DEFINE r == [Idle EXCEPT !.at = "remove", !.kind = "delete", !.path = p, !.old = SizeOf(p)]
  <2>1. r.at # "walk"
    BY DEF Idle
  <2>2. Start(c, r) /\ UNCHANGED mu
    BY <1>12 DEF BeginDelete
  <2> HIDE DEF r
  <2> QED
    BY <1>5, <2>1, <2>2
<1>13. ASSUME NEW c \in Callers, NEW d \in DirPaths, CreateDirectory(c, d) PROVE MutexInv'
  BY <1>0, <1>5, <1>13 DEF CreateDirectory
<1>14. ASSUME NEW c \in Callers, TruncateRootDirectory(c) PROVE MutexInv'
  <2> DEFINE r == [Idle EXCEPT !.at = "swap", !.kind = "truncate", !.path = Root]
  <2>1. r.at # "walk"
    BY DEF Idle
  <2>2. Start(c, r) /\ UNCHANGED mu
    BY <1>14 DEF TruncateRootDirectory
  <2> HIDE DEF r
  <2> QED
    BY <1>5, <2>1, <2>2
<1>15. ASSUME NEW c \in Callers, Check(c) PROVE MutexInv'
  <2>1. call[c].at # "walk" /\ UNCHANGED mu
    BY <1>15 DEF Check, At
  <2> QED
    BY <1>2, <1>4, <1>15, <2>1 DEF Check
<1>16. ASSUME NEW c \in Callers, Touch(c) PROVE MutexInv'
  <2>1. call[c].at # "walk" /\ UNCHANGED mu
    BY <1>16 DEF Touch, At
  <2> QED
    BY <1>2, <1>4, <1>16, <2>1 DEF Touch
<1>17. ASSUME NEW c \in Callers, AddLoad(c) PROVE MutexInv'
  <2>1. call[c].at # "walk" /\ UNCHANGED mu
    BY <1>17 DEF AddLoad, At
  <2> QED
    BY <1>2, <1>4, <1>17, <2>1 DEF AddLoad
<1>18. ASSUME NEW c \in Callers, AddDo(c) PROVE MutexInv'
  <2>1. call[c].at # "walk" /\ UNCHANGED mu
    BY <1>18 DEF AddDo, At
  <2> QED
    BY <1>2, <1>4, <1>18, <2>1 DEF AddDo
<1>19. ASSUME NEW c \in Callers, CopyCreate(c) PROVE MutexInv'
  <2>1. call[c].at # "walk" /\ UNCHANGED mu
    BY <1>19 DEF CopyCreate, At
  <2> QED
    BY <1>2, <1>4, <1>19, <2>1 DEF CopyCreate
<1>20. ASSUME NEW c \in Callers, Unlink(c) PROVE MutexInv'
  <2>1. call[c].at # "walk" /\ UNCHANGED mu
    BY <1>20 DEF Unlink, At
  <2> QED
    BY <1>2, <1>4, <1>20, <2>1 DEF Unlink
<1>21. ASSUME NEW c \in Callers, Rmdir(c) PROVE MutexInv'
  <2>1. call[c].at # "walk" /\ UNCHANGED mu
    BY <1>21 DEF Rmdir, At
  <2> QED
    BY <1>2, <1>4, <1>21, <2>1 DEF Rmdir
<1>22. ASSUME NEW c \in Callers, Panic(c) PROVE MutexInv'
  <2>1. call[c].at # "walk" /\ UNCHANGED mu
    BY <1>22 DEF Panic, At
  <2> QED
    BY <1>2, <1>4, <1>22, <2>1 DEF Panic
<1>23. ASSUME NEW c \in Callers, SwapQuota(c) PROVE MutexInv'
  <2>1. call[c].at # "walk" /\ UNCHANGED mu
    BY <1>23 DEF SwapQuota, At
  <2> QED
    BY <1>2, <1>4, <1>23, <2>1 DEF SwapQuota
<1>24. ASSUME NEW c \in Callers, Data(c) PROVE MutexInv'
  <2>1. call[c].at # "walk" /\ UNCHANGED mu
    BY <1>24 DEF Data, At
  <2>2. /\ \A o \in Callers \ {c} : call'[o].at = call[o].at
        /\ call'[c].at # "walk"
    BY <1>0, <1>3, <1>24 DEF Data, Go, Return, At, Idle, CallInv, Op
  <2> QED
    BY <1>0, <2>1, <2>2, MutexKept
<1>25. ASSUME NEW c \in Callers, CopyName(c) PROVE MutexInv'
  <2>1. call[c].at # "walk" /\ UNCHANGED mu
    BY <1>25 DEF CopyName, At
  <2>2. /\ \A o \in Callers \ {c} : call'[o].at = call[o].at
        /\ call'[c].at # "walk"
    BY <1>0, <1>3, <1>25 DEF CopyName, Go, Return, At, Idle, CallInv, Op
  <2> QED
    BY <1>0, <2>1, <2>2, MutexKept
<1>26. ASSUME NEW c \in Callers, Chunk(c) PROVE MutexInv'
  <2>1. call[c].at # "walk" /\ UNCHANGED mu
    BY <1>26 DEF Chunk, At
  <2>2. /\ \A o \in Callers \ {c} : call'[o].at = call[o].at
        /\ call'[c].at # "walk"
    BY <1>0, <1>3, <1>26 DEF Chunk, Go, Return, At, Idle, CallInv, Op
  <2> QED
    BY <1>0, <2>1, <2>2, MutexKept
<1>27. ASSUME NEW c \in Callers, Remove(c) PROVE MutexInv'
  <2>1. call[c].at # "walk" /\ UNCHANGED mu
    BY <1>27 DEF Remove, At
  <2>2. /\ \A o \in Callers \ {c} : call'[o].at = call[o].at
        /\ call'[c].at # "walk"
    BY <1>0, <1>3, <1>27 DEF Remove, Go, Return, At, Idle, CallInv, Op
  <2> QED
    BY <1>0, <2>1, <2>2, MutexKept
<1>28. ASSUME NEW c \in Callers, Entry(c) PROVE MutexInv'
  <2>1. call[c].at # "walk" /\ UNCHANGED mu
    BY <1>28 DEF Entry, At
  <2>2. /\ \A o \in Callers \ {c} : call'[o].at = call[o].at
        /\ call'[c].at # "walk"
    <3>1. ASSUME NEW p \in call[c].todo,
                 call' = [call EXCEPT ![c].at = IF IsFile(p) THEN "load" ELSE "entries",
                                      ![c].entry = p, ![c].delta = -SizeOf(p), ![c].todo = @ \ {p}]
          PROVE  /\ \A o \in Callers \ {c} : call'[o].at = call[o].at
                 /\ call'[c].at # "walk"
      <4> DEFINE s == IF IsFile(p) THEN "load" ELSE "entries"
                 r == [call[c] EXCEPT !.at = s, !.entry = p, !.delta = -SizeOf(p), !.todo = call[c].todo \ {p}]
      <4>1. call' = [call EXCEPT ![c] = r]
        BY <3>1
      <4>2. r.at = s /\ s # "walk"
        BY <1>3 DEF Op
      <4> HIDE DEF r, s
      <4> QED
        BY <1>0, <4>1, <4>2 DEF CallInv
    <3>2. ASSUME Go(c, "rmdir")
          PROVE  /\ \A o \in Callers \ {c} : call'[o].at = call[o].at
                 /\ call'[c].at # "walk"
      BY <1>0, <1>3, <3>2 DEF Go, CallInv, Op
    <3> QED
      BY <1>28, <3>1, <3>2 DEF Entry
  <2> QED
    BY <1>0, <2>1, <2>2, MutexKept
<1>29. ASSUME NEW c \in Callers, Rename(c) PROVE MutexInv'
  <2>1. call[c].at # "walk" /\ UNCHANGED mu
    BY <1>29 DEF Rename, At
  <2>2. /\ \A o \in Callers \ {c} : call'[o].at = call[o].at
        /\ call'[c].at # "walk"
    BY <1>0, <1>3, <1>29 DEF Rename, Go, Return, At, Idle, CallInv, Op
  <2> QED
    BY <1>0, <2>1, <2>2, MutexKept
<1>30. ASSUME NEW c \in Callers, BeginLookup(c) PROVE MutexInv'
  <2>1. call[c].at # "walk" /\ UNCHANGED mu
    BY <1>30 DEF BeginLookup, At
  <2>2. /\ \A o \in Callers \ {c} : call'[o].at = call[o].at
        /\ call'[c].at # "walk"
    BY <1>0, <1>3, <1>30 DEF BeginLookup, Go, Return, At, Idle, CallInv, Op
  <2> QED
    BY <1>0, <2>1, <2>2, MutexKept
<1>31. ASSUME NEW c \in Callers, Walk(c) PROVE MutexInv'
  <2>1. UNCHANGED mu /\ \A o \in Callers : call'[o].at = call[o].at
    <3> DEFINE p == CHOOSE p \in call[c].todo : TRUE
               r == [call[c] EXCEPT !.todo = call[c].todo \ {p}, !.new = call[c].new + SizeOf(p)]
               u == [call[c] EXCEPT !.todo = {}, !.quiet = FALSE]
    <3>1. UNCHANGED mu /\ (call' = [call EXCEPT ![c] = r] \/ call' = [call EXCEPT ![c] = u])
      BY <1>31 DEF Walk
    <3>2. r.at = call[c].at /\ u.at = call[c].at
      BY <1>3 DEF Op
    <3> HIDE DEF r, u
    <3> QED
      BY <1>0, <3>1, <3>2 DEF CallInv
  <2> QED
    BY <1>0, <2>1, MutexKept
<1>32. ASSUME NEW c \in Callers, LockMu(c) PROVE MutexInv'
  <2>1. /\ mu = Root /\ mu' = c /\ call'[c].at = "walk"
        /\ \A o \in Callers \ {c} : call'[o].at = call[o].at
    BY <1>0, <1>3, <1>32 DEF LockMu, CallInv, Op
  <2> QED
    BY <1>0, <2>1, PathsAssumption DEF MutexInv, At
<1>33. ASSUME NEW c \in Callers, SetUsage(c) PROVE MutexInv'
  <2>1. /\ call[c].at = "walk" /\ mu' = Root /\ call'[c].at = "idle"
        /\ \A o \in Callers \ {c} : call'[o].at = call[o].at
    BY <1>0, <1>33 DEF SetUsage, At, Return, CallInv
  <2> QED
    BY <1>0, <2>1, PathsAssumption DEF MutexInv, At
<1> QED
  BY <1>1, <1>6, <1>7, <1>8, <1>9, <1>10, <1>11, <1>12, <1>13, <1>14, <1>15, <1>16, <1>17,
     <1>18, <1>19, <1>20, <1>21, <1>22, <1>23, <1>24, <1>25, <1>26, <1>27, <1>28, <1>29, <1>30,
     <1>31, <1>32, <1>33 DEF Next, Step, vars, Expire

\* The others' handles are good after a step that keeps their operations and their files.
LEMMA HandlesKept ==
  ASSUME IInv, NEW c \in Callers,
         \A o \in Callers \ {c} : /\ call'[o].at = call[o].at /\ call'[o].kind = call[o].kind
                                  /\ call'[o].path = call[o].path,
         \A o \in Callers \ {c} : open'[o] => open[o] /\ tree'[call[o].path] >= 0,
         open'[c] => HandleOK(c)'
  PROVE  HandleInv'
<1>1. ASSUME NEW o \in Callers \ {c}, open'[o] PROVE HandleOK(o)'
  <2>1. open[o] /\ tree'[call[o].path] >= 0
    BY <1>1
  <2>2. /\ At(o, "data") \/ (call[o].kind = "gunzip" /\ call[o].at \in {"chunk", "load", "zero", "add"})
        /\ call[o].path \in FilePaths
    BY <2>1 DEF IInv, HandleInv, HandleOK
  <2> QED
    BY <1>1, <2>1, <2>2 DEF HandleOK, At, IsFile, Paths
<1>2. ASSUME NEW o \in Callers, ~open'[o] PROVE HandleOK(o)'
  BY <1>2 DEF HandleOK
<1> QED
  BY <1>1, <1>2 DEF HandleInv

\* A goroutine starts an operation, or changes its own: the others keep theirs.
LEMMA OthersSame ==
  ASSUME CallInv, NEW c \in Callers, NEW r, call' = [call EXCEPT ![c] = r] \/ Start(c, r)
  PROVE  \A o \in Callers \ {c} : /\ call'[o].at = call[o].at /\ call'[o].kind = call[o].kind
                                  /\ call'[o].path = call[o].path
<1>1. ASSUME NEW o \in Callers PROVE call[o] \in Op
  BY DEF CallInv
<1>2. CASE call' = [call EXCEPT ![c] = r]
  BY <1>2 DEF CallInv
<1>3. CASE Start(c, r)
  <2>1. ASSUME NEW o \in Callers, o # c PROVE call'[o] = [call[o] EXCEPT !.quiet = FALSE]
    BY <1>3, <2>1 DEF Start
  <2> QED
    BY <1>1, <2>1 DEF Op
<1> QED
  BY <1>2, <1>3

\* Where a goroutine may have an open handle.
LEMMA OpenWhere ==
  ASSUME IInv, NEW c \in Callers, open[c]
  PROVE  /\ call[c].at \in {"data", "chunk", "load", "zero", "add"}
         /\ call[c].at # "data" => call[c].kind = "gunzip"
         /\ call[c].path \in FilePaths /\ tree[call[c].path] >= 0
BY DEF IInv, HandleInv, HandleOK, At, IsFile

\* A step of a goroutine without a handle that leaves every file a file and every handle as it is.
LEMMA HandlesUntouched ==
  ASSUME IInv, NEW c \in Callers, NEW r, call' = [call EXCEPT ![c] = r] \/ Start(c, r),
         call[c].at \notin {"data", "chunk", "load", "zero", "add"}, UNCHANGED open,
         \A f \in FilePaths : tree[f] >= 0 => tree'[f] >= 0
  PROVE  HandleInv'
<1>1. ~open[c] /\ ~open'[c]
  BY OpenWhere
<1>2. \A o \in Callers \ {c} : open'[o] => open[o] /\ tree'[call[o].path] >= 0
  BY OpenWhere
<1>3. \A o \in Callers \ {c} : /\ call'[o].at = call[o].at /\ call'[o].kind = call[o].kind
                               /\ call'[o].path = call[o].path
  BY OthersSame DEF IInv
<1> QED
  BY <1>1, <1>2, <1>3, HandlesKept

\* HandleInv in one step.
LEMMA HandleStep == IInv /\ [Next]_vars => HandleInv'
<1> SUFFICES ASSUME IInv, [Next]_vars PROVE HandleInv'
  OBVIOUS
<1>0. HandleInv /\ CallInv /\ DiskInv /\ open \in [Callers -> BOOLEAN]
  BY DEF IInv, Flags
<1>1. CASE UNCHANGED <<tree, call, open>>
  BY <1>0, <1>1 DEF HandleInv, HandleOK, At, IsFile
<1>2. ASSUME NEW c \in Callers PROVE call[c] \in Op /\ OpOK(call[c])
  BY <1>0 DEF CallInv
<1>3. ASSUME NEW c \in Callers, NEW r, call' = [call EXCEPT ![c] = r] \/ Start(c, r),
             call[c].at \notin {"data", "chunk", "load", "zero", "add"}, UNCHANGED <<open, tree>>
      PROVE  HandleInv'
  BY <1>3, HandlesUntouched
<1>4. ASSUME NEW c \in Callers, NEW r, Start(c, r), UNCHANGED open,
             \A f \in FilePaths : tree[f] >= 0 => tree'[f] >= 0
      PROVE  HandleInv'
  <2>1. call[c].at \notin {"data", "chunk", "load", "zero", "add"}
    BY <1>4 DEF Start, At
  <2> QED
    BY <1>4, <2>1, HandlesUntouched
<1>5. ASSUME NEW c \in Callers, NEW p \in FilePaths, NEW size \in Sizes, BeginWrite(c, p, size)
      PROVE  HandleInv'
  BY <1>4, <1>5 DEF BeginWrite
<1>6. ASSUME NEW c \in Callers, NEW p \in FilePaths, NEW size \in Sizes, BeginWritefile(c, p, size)
      PROVE  HandleInv'
  BY <1>4, <1>6 DEF BeginWritefile
<1>7. ASSUME NEW c \in Callers, NEW p \in FilePaths, NEW size \in Sizes, BeginGunzip(c, p, size)
      PROVE  HandleInv'
  BY <1>4, <1>7 DEF BeginGunzip
<1>8. ASSUME NEW c \in Callers, NEW p \in FilePaths, BeginCopy(c, p) PROVE HandleInv'
  BY <1>4, <1>8 DEF BeginCopy
<1>9. ASSUME NEW c \in Callers, NEW p \in Paths, BeginDelete(c, p) PROVE HandleInv'
  BY <1>4, <1>9 DEF BeginDelete
<1>10. ASSUME NEW c \in Callers, NEW p \in FilePaths, CompressFiles(c, p) PROVE HandleInv'
  <2>1. \A f \in FilePaths : tree[f] >= 0 => tree'[f] >= 0
    <3>1. tree' = [tree EXCEPT ![p] = SizeOf(p)] /\ SizeOf(p) \in 0 .. MaxSize
      BY <1>0, <1>10, SizeBound DEF CompressFiles, Created, Paths
    <3> QED
      BY <1>0, <3>1, SizesBounded DEF DiskInv, Paths
  <2> QED
    BY <1>4, <1>10, <2>1 DEF CompressFiles
<1>11. ASSUME NEW c \in Callers, NEW p \in FilePaths, NEW q \in FilePaths, BeginRename(c, p, q)
       PROVE  HandleInv'
  <2>1. \A f \in FilePaths : tree'[f] = tree[f]
    <3>1. tree' = tree \/ (Parent[q] # Root /\ tree' = [tree EXCEPT ![Parent[q]] = Dir])
      BY <1>11 DEF BeginRename
    <3>2. Parent[q] # Root => Parent[q] \notin FilePaths
      BY PathsAssumption DEF Paths
    <3> QED
      BY <1>0, <3>1, <3>2 DEF DiskInv, Paths
  <2> QED
    BY <1>4, <1>11, <2>1 DEF BeginRename
<1>12. ASSUME NEW c \in Callers, NEW d \in DirPaths, CreateDirectory(c, d) PROVE HandleInv'
  <2>1. \A f \in FilePaths : tree'[f] = tree[f]
    BY <1>0, <1>12, PathsAssumption DEF CreateDirectory, DiskInv, Paths
  <2> QED
    BY <1>4, <1>12, <2>1 DEF CreateDirectory
<1>13. ASSUME NEW c \in Callers, TruncateRootDirectory(c) PROVE HandleInv'
  <2>1. ASSUME NEW o \in Callers PROVE ~open'[o]
    <3>1. open' = [b \in Callers |-> open[b] /\ call[b].path \notin Paths]
      BY <1>13 DEF TruncateRootDirectory, Detached
    <3>2. open[o] => call[o].path \in Paths
      BY OpenWhere DEF Paths
    <3> QED
      BY <3>1, <3>2
  <2> QED
    BY <2>1 DEF HandleInv, HandleOK
<1>14. ASSUME NEW c \in Callers, BeginLookup(c) PROVE HandleInv'
  BY <1>3, <1>14 DEF BeginLookup, At, Go, Return
<1>15. ASSUME NEW c \in Callers, Check(c) PROVE HandleInv'
  BY <1>3, <1>15 DEF Check, At, Go, Return
<1>16. ASSUME NEW c \in Callers, CopyName(c) PROVE HandleInv'
  BY <1>3, <1>16 DEF CopyName, At, Go, Return
<1>17. ASSUME NEW c \in Callers, Panic(c) PROVE HandleInv'
  BY <1>3, <1>17 DEF Panic, At, Go, Return
<1>18. ASSUME NEW c \in Callers, SwapQuota(c) PROVE HandleInv'
  BY <1>3, <1>18 DEF SwapQuota, At, Go, Return
<1>19. ASSUME NEW c \in Callers, LockMu(c) PROVE HandleInv'
  BY <1>3, <1>19 DEF LockMu, At, Go, Return
<1>20. ASSUME NEW c \in Callers, SetUsage(c) PROVE HandleInv'
  BY <1>3, <1>20 DEF SetUsage, At, Go, Return
<1>21. ASSUME NEW c \in Callers, Entry(c) PROVE HandleInv'
  <2>1. \E r : call' = [call EXCEPT ![c] = r]
    BY <1>21 DEF Entry, Go
  <2> QED
    BY <1>3, <1>21, <2>1 DEF Entry, At
<1>22. ASSUME NEW c \in Callers, Walk(c) PROVE HandleInv'
  <2>1. \E r : call' = [call EXCEPT ![c] = r]
    BY <1>22 DEF Walk
  <2> QED
    BY <1>3, <1>22, <2>1 DEF Walk, At
<1>23. ASSUME NEW c \in Callers, Rmdir(c) PROVE HandleInv'
  <2>1. \A f \in FilePaths : tree'[f] = tree[f]
    BY <1>0, <1>23, PathsAssumption DEF Rmdir, Unlinked, DiskInv, Paths
  <2>2. call[c].at = "rmdir" /\ call' = [call EXCEPT ![c] = Idle] /\ UNCHANGED open
    BY <1>23 DEF Rmdir, At, Return
  <2> QED
    BY <2>1, <2>2, HandlesUntouched
<1>24. ASSUME NEW c \in Callers, Touch(c) PROVE HandleInv'
  <2>1. call[c].path \in FilePaths /\ call[c].at = "touch"
    BY <1>2, <1>24 DEF Touch, At, OpOK
  <2>2. CASE Return(c) /\ UNCHANGED <<tree, open>>
    BY <1>3, <2>1, <2>2 DEF Return
  <2>3. CASE tree' = Touched(call[c].path) /\ open' = [open EXCEPT ![c] = TRUE] /\ Go(c, "data")
    <3>1. \A f \in FilePaths : tree[f] >= 0 => tree'[f] >= 0
      BY <1>0, <2>1, <2>3, PathsAssumption DEF Touched, Paths, DiskInv
    <3>2. tree'[call[c].path] >= 0
      BY <2>1, <2>3 DEF Touched, Paths
    <3>3. call'[c].at = "data" /\ call'[c].path = call[c].path
      BY <1>0, <1>2, <2>3 DEF Go, CallInv, Op
    <3>4. HandleOK(c)'
      BY <2>1, <3>2, <3>3 DEF HandleOK, At, IsFile, Paths
    <3>5. \A o \in Callers \ {c} : open'[o] => open[o]
      BY <1>0, <2>3
    <3>6. \E r : call' = [call EXCEPT ![c] = r]
      BY <2>3 DEF Go
    <3> QED
      BY <1>0, <3>1, <3>4, <3>5, <3>6, OpenWhere, OthersSame, HandlesKept
  <2> QED
    BY <1>24, <2>2, <2>3 DEF Touch
<1>25. ASSUME NEW c \in Callers, Data(c) PROVE HandleInv'
  <2>1. PICK n \in 0 .. Ready(c) :
          /\ tree' = Written(c, n)
          /\ call' = [call EXCEPT ![c].at = "load", ![c].delta = n - call[c].old]
    BY <1>25 DEF Data
  <2>2. n \in 0 .. MaxSize
    BY <1>25, ReadyBound DEF Data
  <2>3. \A f \in FilePaths : tree[f] >= 0 => tree'[f] >= 0
    BY <2>1, <2>2, WrittenFile DEF IsFile, Paths
  <2>4. ~open'[c] /\ \A o \in Callers \ {c} : open'[o] => open[o]
    BY <1>0, <1>25 DEF Data
  <2>5. \E r : call' = [call EXCEPT ![c] = r]
    BY <2>1
  <2> QED
    BY <1>0, <2>3, <2>4, <2>5, OpenWhere, OthersSame, HandlesKept
<1>26. ASSUME NEW c \in Callers, AddLoad(c) PROVE HandleInv'
  <2>1. PICK s \in {"zero", "add"} : Go(c, s)
    BY <1>26 DEF AddLoad
  <2>2. UNCHANGED <<tree, open>> /\ call[c].at = "load"
    BY <1>26 DEF AddLoad, At
  <2>3. call'[c].at = s /\ call'[c].path = call[c].path /\ call'[c].kind = call[c].kind
    BY <1>0, <1>2, <2>1 DEF Go, CallInv, Op
  <2>4. open'[c] => HandleOK(c)'
    BY <2>1, <2>2, <2>3, OpenWhere DEF HandleOK, At, IsFile, Paths
  <2>5. \E r : call' = [call EXCEPT ![c] = r]
    BY <2>1 DEF Go
  <2> QED
    BY <1>0, <2>2, <2>4, <2>5, OpenWhere, OthersSame, HandlesKept
<1>27. ASSUME NEW c \in Callers, AddDo(c) PROVE HandleInv'
  <2>1. UNCHANGED <<tree, open>> /\ call[c].at \in {"zero", "add"}
    BY <1>27 DEF AddDo
  <2>2. call[c].kind = "gunzip" => call'[c].at = "chunk" /\ call'[c].path = call[c].path /\ call'[c].kind = "gunzip"
    BY <1>0, <1>2, <1>27 DEF AddDo, Go, CallInv, Op
  <2>3. open'[c] => HandleOK(c)'
    BY <2>1, <2>2, OpenWhere DEF HandleOK, At, IsFile, Paths
  <2>4. \E r : call' = [call EXCEPT ![c] = r]
    BY <1>27 DEF AddDo, Go, Return
  <2> QED
    BY <1>0, <2>1, <2>3, <2>4, OpenWhere, OthersSame, HandlesKept
<1>28. ASSUME NEW c \in Callers, CopyCreate(c) PROVE HandleInv'
  <2>1. /\ call[c].path \in FilePaths /\ call[c].at = "create"
        /\ call[c].kind \in {"copy", "gunzip"}
    BY <1>2, <1>28 DEF CopyCreate, At, OpOK
  <2>2. CASE Return(c) /\ UNCHANGED <<tree, open>>
    BY <1>3, <2>1, <2>2 DEF Return
  <2>3. CASE /\ tree' = Created(call[c].path) /\ open' = [open EXCEPT ![c] = TRUE]
             /\ Go(c, IF call[c].kind = "copy" THEN "data" ELSE "chunk")
    <3> DEFINE p == call[c].path
    <3>1. tree' = [tree EXCEPT ![p] = SizeOf(p)] /\ SizeOf(p) \in 0 .. MaxSize
      BY <1>0, <2>1, <2>3, SizeBound DEF Created, Paths
    <3>2. (\A f \in FilePaths : tree[f] >= 0 => tree'[f] >= 0) /\ tree'[p] >= 0
      <4> HIDE DEF p
      <4> QED
        BY <1>0, <3>1, SizesBounded, <2>1 DEF DiskInv, Paths, p
    <3>3. /\ call'[c].at = IF call[c].kind = "copy" THEN "data" ELSE "chunk"
          /\ call'[c].path = call[c].path /\ call'[c].kind = call[c].kind
      BY <1>0, <1>2, <2>3 DEF Go, CallInv, Op
    <3>4. HandleOK(c)'
      BY <2>1, <3>2, <3>3 DEF HandleOK, At, IsFile, Paths
    <3>5. \A o \in Callers \ {c} : open'[o] => open[o]
      BY <1>0, <2>3
    <3>6. \E r : call' = [call EXCEPT ![c] = r]
      BY <2>3 DEF Go
    <3> QED
      BY <1>0, <3>2, <3>4, <3>5, <3>6, OpenWhere, OthersSame, HandlesKept
  <2> QED
    BY <1>28, <2>2, <2>3 DEF CopyCreate
<1>29. ASSUME NEW c \in Callers, Chunk(c) PROVE HandleInv'
  <2>1. call[c].at = "chunk" /\ call[c].kind = "gunzip" /\ call[c].path \in FilePaths
    BY <1>2, <1>29 DEF Chunk, At, OpOK
  <2>2. CASE Return(c) /\ open' = [open EXCEPT ![c] = FALSE] /\ UNCHANGED tree
    <3>1. ~open'[c] /\ \A o \in Callers \ {c} : open'[o] => open[o]
      BY <1>0, <2>2
    <3>2. \E r : call' = [call EXCEPT ![c] = r]
      BY <2>2 DEF Return
    <3> QED
      BY <1>0, <2>2, <3>1, <3>2, OpenWhere, OthersSame, HandlesKept
  <2>3. CASE /\ call[c].old < call[c].new /\ UNCHANGED open
             /\ tree' = Written(c, call[c].old + 1)
             /\ call' = [call EXCEPT ![c].at = "load", ![c].old = call[c].old + 1, ![c].delta = 1]
    <3>1. call[c].old + 1 \in 0 .. MaxSize
      BY <1>29, <2>3, ChunkBound DEF Chunk
    <3>2. \A f \in FilePaths : tree[f] >= 0 => tree'[f] >= 0
      BY <2>3, <3>1, WrittenFile DEF IsFile, Paths
    <3>3. call'[c].at = "load" /\ call'[c].path = call[c].path /\ call'[c].kind = call[c].kind
      BY <1>0, <1>2, <2>3 DEF CallInv, Op
    <3>4. open'[c] => HandleOK(c)'
      BY <2>1, <2>3, <3>2, <3>3, OpenWhere DEF HandleOK, At, IsFile, Paths
    <3>5. \E r : call' = [call EXCEPT ![c] = r]
      BY <2>3
    <3>6. \A o \in Callers \ {c} : open'[o] => open[o] /\ tree'[call[o].path] >= 0
      BY <2>3, <3>2, OpenWhere
    <3>7. \A o \in Callers \ {c} : /\ call'[o].at = call[o].at /\ call'[o].kind = call[o].kind
                                   /\ call'[o].path = call[o].path
      BY <1>0, <3>5, OthersSame
    <3> QED
      BY <3>4, <3>6, <3>7, HandlesKept
  <2> QED
    BY <1>29, <2>2, <2>3 DEF Chunk
<1>30. ASSUME NEW c \in Callers, NEW r, call' = [call EXCEPT ![c] = r], NEW p \in FilePaths, ~open[c],
             tree' = Unlinked(p), open' = Detached({p})
      PROVE  HandleInv'
  <2>1. open' = [b \in Callers |-> open[b] /\ call[b].path \notin {p}]
    BY <1>30 DEF Detached
  <2>2. ~open'[c] /\ \A o \in Callers \ {c} : open'[o] => open[o] /\ call[o].path # p
    BY <1>30, <2>1
  <2>3. \A f \in FilePaths : f # p => tree'[f] = tree[f]
    BY <1>0, <1>30 DEF Unlinked, DiskInv, Paths
  <2> QED
    BY <1>0, <1>30, <2>2, <2>3, OpenWhere, OthersSame, HandlesKept
<1>31. ASSUME NEW c \in Callers, Remove(c) PROVE HandleInv'
  <2>1. call[c].at = "remove" /\ call[c].path \in Paths /\ ~open[c]
    BY <1>2, <1>31, OpenWhere DEF Remove, At, OpOK
  <2>2. \E r : call' = [call EXCEPT ![c] = r]
    BY <1>31 DEF Remove, Return
  <2>3. CASE call[c].path \in FilePaths /\ tree' = Unlinked(call[c].path) /\ open' = Detached({call[c].path})
    BY <1>30, <2>1, <2>2, <2>3
  <2>4. CASE UNCHANGED <<tree, open>>
    BY <1>3, <2>1, <2>2, <2>4
  <2>5. CASE call[c].path \in DirPaths /\ tree' = Unlinked(call[c].path) /\ UNCHANGED open
    <3>1. \A f \in FilePaths : tree'[f] = tree[f]
      BY <1>0, <2>5, PathsAssumption DEF Unlinked, DiskInv, Paths
    <3> QED
      BY <2>1, <2>2, <2>5, <3>1, HandlesUntouched
  <2> QED
    BY <1>31, <2>3, <2>4, <2>5 DEF Remove
<1>32. ASSUME NEW c \in Callers, Unlink(c) PROVE HandleInv'
  <2>1. call[c].at = "unlink" /\ call[c].entry \in FilePaths /\ ~open[c]
    BY <1>2, <1>32, OpenWhere DEF Unlink, At, OpOK, Under
  <2>2. \E r : call' = [call EXCEPT ![c] = r]
    BY <1>32 DEF Unlink, Go
  <2>3. CASE tree' = Unlinked(call[c].entry) /\ open' = Detached({call[c].entry})
    BY <1>30, <2>1, <2>2, <2>3
  <2>4. CASE UNCHANGED <<tree, open>>
    BY <1>3, <2>1, <2>2, <2>4
  <2> QED
    BY <1>32, <2>3, <2>4 DEF Unlink
<1>33. ASSUME NEW c \in Callers, Rename(c) PROVE HandleInv'
  <2> DEFINE p == call[c].entry
             q == call[c].path
  <2>1. call[c].at = "rename" /\ p \in FilePaths /\ q \in FilePaths /\ ~open[c]
    BY <1>2, <1>33, OpenWhere DEF Rename, At, OpOK
  <2>2. CASE Return(c) /\ UNCHANGED <<tree, open>>
    BY <1>3, <2>1, <2>2 DEF Return
  <2>3. CASE /\ tree[p] # None
             /\ tree' = [tree EXCEPT ![q] = tree[p], ![p] = None]
             /\ open' = Detached({q})
             /\ call' = [o \in Callers |->
                           IF o = c THEN Idle
                           ELSE IF open[o] /\ call[o].path = p
                           THEN [call[o] EXCEPT !.path = q] ELSE call[o]]
    <3>1. open' = [b \in Callers |-> open[b] /\ call[b].path \notin {q}]
      BY <2>3 DEF Detached
    <3>2. tree[p] >= 0
      BY <1>0, <2>1, <2>3 DEF DiskInv, None, Dir, Paths
    <3>3. /\ p # q => tree'[q] = tree[p]
          /\ \A f \in FilePaths \ {p, q} : tree'[f] = tree[f]
      BY <1>0, <2>1, <2>3 DEF DiskInv, Paths
    <3>4. ASSUME NEW o \in Callers, open'[o] PROVE HandleOK(o)'
      <4>1. open[o] /\ call[o].path # q /\ o # c
        BY <2>1, <3>1, <3>4
      <4>2. /\ call[o].at \in {"data", "chunk", "load", "zero", "add"}
            /\ call[o].at # "data" => call[o].kind = "gunzip"
            /\ call[o].path \in FilePaths /\ tree[call[o].path] >= 0
        BY <4>1, OpenWhere
      <4>3. CASE call[o].path = p
        <5>1. call'[o] = [call[o] EXCEPT !.path = q]
          BY <2>3, <4>1, <4>3
        <5>2. call'[o].at = call[o].at /\ call'[o].kind = call[o].kind /\ call'[o].path = q
          BY <1>2, <5>1 DEF Op
        <5>3. tree'[q] >= 0
          BY <3>2, <3>3, <4>1, <4>3
        <5> HIDE DEF q
        <5> QED
          BY <2>1, <4>2, <5>2, <5>3 DEF HandleOK, At, IsFile, Paths
      <4>4. CASE call[o].path # p
        <5>1. call'[o] = call[o]
          BY <2>3, <4>1, <4>4
        <5>2. tree'[call[o].path] >= 0
          BY <3>3, <4>1, <4>2, <4>4
        <5> QED
          BY <4>2, <5>1, <5>2 DEF HandleOK, At, IsFile, Paths
      <4> QED
        BY <4>3, <4>4
    <3>5. ASSUME NEW o \in Callers, ~open'[o] PROVE HandleOK(o)'
      BY <3>5 DEF HandleOK
    <3> QED
      BY <3>4, <3>5 DEF HandleInv
  <2> QED
    BY <1>33, <2>2, <2>3 DEF Rename
<1> QED
  BY <1>1, <1>5, <1>6, <1>7, <1>8, <1>9, <1>10, <1>11, <1>12, <1>13, <1>14, <1>15, <1>16, <1>17,
     <1>18, <1>19, <1>20, <1>21, <1>22, <1>23, <1>24, <1>25, <1>26, <1>27, <1>28, <1>29, <1>31,
     <1>32, <1>33 DEF Next, Step, vars, Expire

-----------------------------------------------------------------------------
(* The theorem.                                                              *)

\* The invariant holds when the volume is opened.
LEMMA Starts == Init => IInv
<1> SUFFICES ASSUME Init PROVE IInv
  OBVIOUS
<1>1. DiskInv
  <2>1. PICK full \in SUBSET FilePaths, size \in Sizes :
          tree = [p \in Paths |-> IF p \in full THEN size
                                  ELSE IF p \in DirPaths /\ \E f \in full : Parent[f] = p
                                  THEN Dir ELSE None]
    BY DEF Init
  <2>2. /\ size \in 0 .. MaxSize /\ size # None /\ size # Dir /\ None # Dir
    BY SizesBounded DEF None, Dir
  <2>3. tree \in [Paths -> {None, Dir} \cup (0 .. MaxSize)]
    BY <2>1, <2>2
  <2>4. ASSUME NEW d \in DirPaths
        PROVE  d \in Paths /\ tree[d] \in {None, Dir} /\ ((\E f \in full : Parent[f] = d) => tree[d] # None)
    BY <2>1, <2>2, PathsAssumption DEF Paths
  <2>5. ASSUME NEW p \in FilePaths PROVE tree[p] # Dir /\ (tree[p] # None => p \in full)
    BY <2>1, <2>2, PathsAssumption DEF Paths
  <2>6. ASSUME NEW p \in FilePaths, tree[p] # None PROVE Exists(Parent[p])
    <3>1. p \in full /\ Parent[p] \in DirPaths \cup {Root}
      BY <2>5, <2>6, PathsAssumption DEF Paths
    <3>2. CASE Parent[p] = Root
      BY <3>2, PathsAssumption DEF Exists
    <3>3. CASE Parent[p] \in DirPaths
      BY <2>4, <3>1, <3>3 DEF Exists
    <3> QED
      BY <3>1, <3>2, <3>3
  <2> QED
    BY <2>3, <2>4, <2>5, <2>6 DEF DiskInv
<1>2. Flags
  <2>1. usage \in Int /\ open \in [Callers -> BOOLEAN]
    BY DEF Init
  <2>2. fresh \in BOOLEAN /\ drift \in BOOLEAN /\ blind \in BOOLEAN
    BY Zenon DEF Init
  <2> QED
    BY <2>1, <2>2 DEF Flags
<1>3. MutexInv
  BY PathsAssumption DEF Init, MutexInv, At, Idle
<1>4. CallInv
  BY IdleOp DEF Init, CallInv
<1>5. HandleInv
  BY DEF Init, HandleInv, HandleOK
<1> QED
  BY <1>1, <1>2, <1>3, <1>4, <1>5 DEF IInv

\* The inductive invariant holds in every state.
THEOREM Invariance == Spec => []IInv
<1>1. IInv /\ [Next]_vars => IInv'
  BY DiskStep, FlagsStep, MutexStep, CallStep, HandleStep DEF IInv
<1> QED
  BY Starts, <1>1, PTL DEF Spec

\* Whatever operations overlap, the volume stays a tree (a file is only where its
\* directory is), no file exceeds the largest that was asked for, and exactly the
\* holder of Filesystem.mu walks the disk.
THEOREM TypeCorrect == Spec => []TypeOK
<1>1. IInv => TypeOK
  BY DEF IInv, DiskInv, Flags, MutexInv, TypeOK
<1> QED
  BY Invariance, <1>1, PTL

-----------------------------------------------------------------------------
(* Sums over finite sets.                                                    *)

\* What the partial sums of f are, the elements taken as CHOOSE takes them.
IsSums(g, f, D) ==
  g = [s \in SUBSET D |-> IF s = {} THEN 0
                          ELSE f[CHOOSE x \in s : TRUE] + g[s \ {CHOOSE x \in s : TRUE}]]
Sums(f, D) == CHOOSE g : IsSums(g, f, D)

\* SumFunctionOnSet is the sum over the whole domain.
LEMMA SumIs == ASSUME NEW f, NEW D PROVE SumFunctionOnSet(f, D) = Sums(f, D)[D]
BY Zenon DEF SumFunctionOnSet, FoldFunctionOnSet, MapThenFoldSet, Sums, IsSums

\* Induction over the numbers, with a set for the property.
LEMMA Induct ==
  ASSUME NEW X, 0 \in X, \A n \in Nat : n \in X => n + 1 \in X
  PROVE  \A n \in Nat : n \in X
<1> SUFFICES ASSUME NEW m \in Nat, m \notin X PROVE FALSE
  OBVIOUS
<1> DEFINE R == {ss \in Nat \X Nat : ss[1] < ss[2]}
           S == {n \in Nat : n \notin X}
<1>1. IsWellFoundedOn(R, Nat)
  BY NatLessThanWellFounded, Zenon DEF OpToRel
<1>2. PICK x \in S : \A y \in S : ~(<<y, x>> \in R)
  <2>1. S # {} /\ S \subseteq Nat
    OBVIOUS
  <2> HIDE DEF R, S
  <2> QED
    BY <1>1, <2>1, WFMin
<1>3. x # 0 /\ x \in Nat
  OBVIOUS
<1>4. x - 1 \in Nat /\ x - 1 < x /\ (x - 1) + 1 = x
  BY <1>3
<1>5. x - 1 \in S
  BY <1>4
<1>6. <<x - 1, x>> \in R
  BY <1>4
<1> QED
  BY <1>2, <1>5, <1>6

\* Induction over the subsets of a finite set.
LEMMA SubsetInduct ==
  ASSUME NEW D, IsFiniteSet(D), NEW X, {} \in X,
         \A s \in SUBSET D, x \in D : s \in X /\ x \notin s => s \cup {x} \in X
  PROVE  \A s \in SUBSET D : s \in X
<1> DEFINE Y == {n \in Nat : \A s \in SUBSET D : Cardinality(s) = n => s \in X}
<1>1. ASSUME NEW s \in SUBSET D PROVE IsFiniteSet(s) /\ Cardinality(s) \in Nat
  BY FS_Subset, FS_CardinalityType
<1>2. 0 \in Y
  BY <1>1, FS_EmptySet
<1>3. ASSUME NEW n \in Nat, n \in Y PROVE n + 1 \in Y
  <2> SUFFICES ASSUME NEW s \in SUBSET D, Cardinality(s) = n + 1 PROVE s \in X
    OBVIOUS
  <2>1. s # {}
    <3>1. Cardinality(s) # 0
      OBVIOUS
    <3> QED
      BY <3>1, FS_EmptySet
  <2>2. PICK x \in s : TRUE
    BY <2>1
  <2> DEFINE t == s \ {x}
  <2>3. Cardinality(t) = n /\ t \in SUBSET D
    <3>1. IsFiniteSet(s) /\ x \in s
      BY <1>1
    <3>2. Cardinality(t) = Cardinality(s) - 1
      BY <3>1, FS_RemoveElement
    <3> QED
      BY <3>2
  <2>4. t \in X
    BY <1>3, <2>3
  <2>5. t \cup {x} = s /\ x \notin t /\ x \in D
    OBVIOUS
  <2> HIDE DEF t
  <2> QED
    BY <2>3, <2>4, <2>5
<1> HIDE DEF Y
<1>4. \A n \in Nat : n \in Y
  BY <1>2, <1>3, Induct
<1> QED
  BY <1>1, <1>4 DEF Y

\* The sums exist.
LEMMA SumsExist ==
  ASSUME NEW D, IsFiniteSet(D), NEW f \in [D -> Int]
  PROVE  /\ IsSums(Sums(f, D), f, D)
         /\ Sums(f, D) \in [SUBSET D -> Int]
<1> DEFINE ch(s) == CHOOSE x \in s : TRUE
           Up(n) == {s \in SUBSET D : Cardinality(s) <= n}
           Is(g, n) == /\ g \in [Up(n) -> Int]
                       /\ \A s \in Up(n) : g[s] = IF s = {} THEN 0 ELSE f[ch(s)] + g[s \ {ch(s)}]
           X == {n \in Nat : \E g : Is(g, n)}
<1>1. ASSUME NEW s \in SUBSET D
      PROVE  /\ IsFiniteSet(s) /\ Cardinality(s) \in Nat /\ Cardinality(s) <= Cardinality(D)
             /\ Cardinality(s) = 0 <=> s = {}
  BY FS_Subset, FS_CardinalityType, FS_EmptySet
<1>2. ASSUME NEW s \in SUBSET D, s # {}
      PROVE  /\ ch(s) \in s /\ ch(s) \in D /\ f[ch(s)] \in Int /\ s \ {ch(s)} \in SUBSET D
             /\ Cardinality(s \ {ch(s)}) = Cardinality(s) - 1
  <2>1. ch(s) \in s
    BY <1>2
  <2> QED
    BY <1>1, <2>1, FS_RemoveElement
<1>3. 0 \in X
  <2> DEFINE g == [s \in Up(0) |-> 0]
  <2>1. ASSUME NEW s \in Up(0) PROVE s = {}
    BY <1>1
  <2>2. Is(g, 0)
    BY <2>1
  <2> QED
    BY <2>2
<1>4. ASSUME NEW n \in Nat, n \in X PROVE n + 1 \in X
  <2>1. PICK g : Is(g, n)
    BY <1>4
  <2> DEFINE h == [s \in Up(n + 1) |-> IF s = {} THEN 0 ELSE f[ch(s)] + g[s \ {ch(s)}]]
  <2> HIDE DEF ch
  <2>2. ASSUME NEW s \in Up(n + 1), s # {} PROVE s \ {ch(s)} \in Up(n) /\ s \ {ch(s)} \in Up(n + 1)
    BY <1>1, <1>2, <2>2
  <2>3. ASSUME NEW s \in Up(n) PROVE s \in Up(n + 1) /\ h[s] = g[s]
    <3>1. s \in Up(n + 1)
      BY <1>1
    <3>2. h[s] = IF s = {} THEN 0 ELSE f[ch(s)] + g[s \ {ch(s)}]
      BY <3>1
    <3>3. g[s] = IF s = {} THEN 0 ELSE f[ch(s)] + g[s \ {ch(s)}]
      BY <2>1
    <3> QED
      BY <3>1, <3>2, <3>3
  <2>4. ASSUME NEW s \in Up(n + 1) PROVE h[s] = IF s = {} THEN 0 ELSE f[ch(s)] + h[s \ {ch(s)}]
    BY <2>2, <2>3
  <2>5. h \in [Up(n + 1) -> Int]
    <3>1. ASSUME NEW s \in Up(n + 1) PROVE (IF s = {} THEN 0 ELSE f[ch(s)] + g[s \ {ch(s)}]) \in Int
      BY <1>2, <2>1, <2>2
    <3> QED
      BY <3>1
  <2>6. \E k : Is(k, n + 1)
    BY <2>4, <2>5
  <2> HIDE DEF h, Is
  <2> QED
    BY <2>6
<1>5. Cardinality(D) \in X
  <2> HIDE DEF X
  <2> QED
    BY <1>1, <1>3, <1>4, Induct
<1>6. PICK g : Is(g, Cardinality(D))
  BY <1>5
<1>7. Up(Cardinality(D)) = SUBSET D
  BY <1>1
<1>8. IsSums(g, f, D)
  <2>1. g \in [SUBSET D -> Int] /\ \A s \in SUBSET D : g[s] = IF s = {} THEN 0 ELSE f[ch(s)] + g[s \ {ch(s)}]
    BY <1>6, <1>7
  <2> QED
    BY <2>1 DEF IsSums
<1>9. IsSums(Sums(f, D), f, D)
  BY <1>8, Zenon DEF Sums
<1> DEFINE G == Sums(f, D)
           Y == {n \in Nat : \A s \in SUBSET D : Cardinality(s) = n => G[s] \in Int}
<1>10. ASSUME NEW s \in SUBSET D PROVE G[s] = IF s = {} THEN 0 ELSE f[ch(s)] + G[s \ {ch(s)}]
  <2> HIDE DEF G
  <2> QED
    BY <1>9 DEF IsSums, G
<1> HIDE DEF G, ch
<1>11. 0 \in Y
  BY <1>1, <1>10
<1>12. ASSUME NEW n \in Nat, n \in Y PROVE n + 1 \in Y
  <2> SUFFICES ASSUME NEW s \in SUBSET D, Cardinality(s) = n + 1 PROVE G[s] \in Int
    OBVIOUS
  <2>1. s # {}
    BY <1>1
  <2>2. s \ {ch(s)} \in SUBSET D /\ Cardinality(s \ {ch(s)}) = n /\ f[ch(s)] \in Int
    BY <1>2, <2>1
  <2>3. G[s \ {ch(s)}] \in Int
    BY <1>12, <2>2
  <2> QED
    BY <1>10, <2>1, <2>2, <2>3
<1> HIDE DEF Y
<1>13. \A n \in Nat : n \in Y
  BY <1>11, <1>12, Induct
<1>14. \A s \in SUBSET D : G[s] \in Int
  BY <1>1, <1>13 DEF Y
<1>15. G = [s \in SUBSET D |-> G[s]]
  BY <1>9 DEF IsSums, G
<1> QED
  BY <1>9, <1>14, <1>15 DEF G

\* The elements may be taken in any order.
LEMMA SumsRec ==
  ASSUME NEW D, IsFiniteSet(D), NEW f \in [D -> Int]
  PROVE  /\ Sums(f, D) \in [SUBSET D -> Int]
         /\ Sums(f, D)[{}] = 0
         /\ \A s \in SUBSET D, x \in D : x \notin s => Sums(f, D)[s \cup {x}] = f[x] + Sums(f, D)[s]
<1> DEFINE ch(s) == CHOOSE x \in s : TRUE
           G == Sums(f, D)
           Y == {n \in Nat : \A s \in SUBSET D : Cardinality(s) = n =>
                                \A x \in s : G[s] = f[x] + G[s \ {x}]}
<1>1. ASSUME NEW s \in SUBSET D
      PROVE  /\ IsFiniteSet(s) /\ Cardinality(s) \in Nat
             /\ Cardinality(s) = 0 <=> s = {}
  BY FS_Subset, FS_CardinalityType, FS_EmptySet
<1>2. ASSUME NEW s \in SUBSET D, s # {} PROVE ch(s) \in s
  BY <1>2
<1>3. ASSUME NEW s \in SUBSET D PROVE G[s] = IF s = {} THEN 0 ELSE f[ch(s)] + G[s \ {ch(s)}]
  <2>1. IsSums(G, f, D)
    BY SumsExist
  <2> HIDE DEF G
  <2> QED
    BY <2>1 DEF IsSums
<1>4. G \in [SUBSET D -> Int]
  BY SumsExist
<1> HIDE DEF G, ch
<1>5. 0 \in Y
  BY <1>1
<1>6. ASSUME NEW n \in Nat, n \in Y PROVE n + 1 \in Y
  <2> SUFFICES ASSUME NEW s \in SUBSET D, Cardinality(s) = n + 1, NEW x \in s
               PROVE  G[s] = f[x] + G[s \ {x}]
    OBVIOUS
  <2> DEFINE y == ch(s)
             t == (s \ {x}) \ {y}
  <2>1. y \in s /\ y \in D /\ x \in D /\ f[x] \in Int /\ f[y] \in Int
    BY <1>2
  <2>2. G[s] = f[y] + G[s \ {y}]
    BY <1>3
  <2>3. ASSUME NEW z \in s PROVE Cardinality(s \ {z}) = n /\ s \ {z} \in SUBSET D
    <3>1. Cardinality(s \ {z}) = Cardinality(s) - 1
      BY <1>1, FS_RemoveElement
    <3> QED
      BY <3>1
  <2>4. CASE x = y
    BY <2>2, <2>4
  <2>5. CASE x # y
    <3>1. G[s \ {y}] = f[x] + G[(s \ {y}) \ {x}]
      BY <1>6, <2>1, <2>3, <2>5
    <3>2. G[s \ {x}] = f[y] + G[(s \ {x}) \ {y}]
      BY <1>6, <2>1, <2>3, <2>5
    <3>3. (s \ {y}) \ {x} = t /\ t \in SUBSET D
      OBVIOUS
    <3>4. G[t] \in Int
      BY <1>4, <3>3
    <3> HIDE DEF y, t
    <3>5. G[s \ {x}] = f[y] + G[t]
      BY <3>2 DEF t
    <3>6. G[s \ {y}] = f[x] + G[t]
      BY <3>1, <3>3
    <3> QED
      BY <2>1, <2>2, <3>4, <3>5, <3>6
  <2> QED
    BY <2>4, <2>5
<1> HIDE DEF Y
<1>7. \A n \in Nat : n \in Y
  BY <1>5, <1>6, Induct
<1>8. ASSUME NEW s \in SUBSET D, NEW x \in D, x \notin s PROVE G[s \cup {x}] = f[x] + G[s]
  <2> DEFINE u == s \cup {x}
  <2>1. u \in SUBSET D /\ x \in u /\ u \ {x} = s
    BY <1>8
  <2> HIDE DEF u
  <2>2. Cardinality(u) \in Y
    BY <1>1, <1>7, <2>1
  <2>3. G[u] = f[x] + G[u \ {x}]
    BY <2>1, <2>2 DEF Y
  <2> QED
    BY <2>1, <2>3 DEF u
<1>9. G[{}] = 0
  BY <1>3
<1> QED
  BY <1>4, <1>8, <1>9 DEF G

\* A sum is a number.
LEMMA SumType ==
  ASSUME NEW D, IsFiniteSet(D), NEW f \in [D -> Int]
  PROVE  SumFunctionOnSet(f, D) \in Int
<1>1. Sums(f, D) \in [SUBSET D -> Int]
  BY SumsRec
<1>2. SumFunctionOnSet(f, D) = Sums(f, D)[D]
  BY SumIs
<1> QED
  BY <1>1, <1>2

\* The sum of two functions.
LEMMA SumPlus ==
  ASSUME NEW D, IsFiniteSet(D), NEW f \in [D -> Int], NEW g \in [D -> Int], NEW h \in [D -> Int],
         \A x \in D : h[x] = f[x] + g[x]
  PROVE  SumFunctionOnSet(h, D) = SumFunctionOnSet(f, D) + SumFunctionOnSet(g, D)
<1> DEFINE F == Sums(f, D)
           G == Sums(g, D)
           H == Sums(h, D)
           X == {s \in SUBSET D : H[s] = F[s] + G[s]}
<1>1. /\ F \in [SUBSET D -> Int] /\ F[{}] = 0
      /\ \A s \in SUBSET D, x \in D : x \notin s => F[s \cup {x}] = f[x] + F[s]
  BY SumsRec
<1>2. /\ G \in [SUBSET D -> Int] /\ G[{}] = 0
      /\ \A s \in SUBSET D, x \in D : x \notin s => G[s \cup {x}] = g[x] + G[s]
  BY SumsRec
<1>3. /\ H \in [SUBSET D -> Int] /\ H[{}] = 0
      /\ \A s \in SUBSET D, x \in D : x \notin s => H[s \cup {x}] = h[x] + H[s]
  BY SumsRec
<1>4. SumFunctionOnSet(f, D) = F[D] /\ SumFunctionOnSet(g, D) = G[D] /\ SumFunctionOnSet(h, D) = H[D]
  BY SumIs
<1> HIDE DEF F, G, H
<1>5. {} \in X
  BY <1>1, <1>2, <1>3
<1>6. ASSUME NEW s \in SUBSET D, NEW x \in D, s \in X, x \notin s PROVE s \cup {x} \in X
  <2>1. F[s] \in Int /\ G[s] \in Int /\ H[s] = F[s] + G[s] /\ f[x] \in Int /\ g[x] \in Int
    BY <1>1, <1>2, <1>6
  <2>2. H[s \cup {x}] = h[x] + H[s] /\ F[s \cup {x}] = f[x] + F[s] /\ G[s \cup {x}] = g[x] + G[s]
    BY <1>1, <1>2, <1>3, <1>6
  <2>3. h[x] = f[x] + g[x]
    OBVIOUS
  <2> QED
    BY <2>1, <2>2, <2>3
<1> HIDE DEF X
<1>7. D \in X
  BY <1>5, <1>6, SubsetInduct
<1> QED
  BY <1>4, <1>7 DEF X

\* A sum of the larger terms is the larger sum.
LEMMA SumMono ==
  ASSUME NEW D, IsFiniteSet(D), NEW f \in [D -> Int], NEW g \in [D -> Int],
         \A x \in D : f[x] <= g[x]
  PROVE  SumFunctionOnSet(f, D) <= SumFunctionOnSet(g, D)
<1> DEFINE F == Sums(f, D)
           G == Sums(g, D)
           X == {s \in SUBSET D : F[s] <= G[s]}
<1>1. /\ F \in [SUBSET D -> Int] /\ F[{}] = 0
      /\ \A s \in SUBSET D, x \in D : x \notin s => F[s \cup {x}] = f[x] + F[s]
  BY SumsRec
<1>2. /\ G \in [SUBSET D -> Int] /\ G[{}] = 0
      /\ \A s \in SUBSET D, x \in D : x \notin s => G[s \cup {x}] = g[x] + G[s]
  BY SumsRec
<1>3. SumFunctionOnSet(f, D) = F[D] /\ SumFunctionOnSet(g, D) = G[D]
  BY SumIs
<1> HIDE DEF F, G
<1>4. {} \in X
  BY <1>1, <1>2
<1>5. ASSUME NEW s \in SUBSET D, NEW x \in D, s \in X, x \notin s PROVE s \cup {x} \in X
  <2>1. F[s] \in Int /\ G[s] \in Int /\ F[s] <= G[s] /\ f[x] \in Int /\ g[x] \in Int /\ f[x] <= g[x]
    BY <1>1, <1>2, <1>5
  <2>2. f[x] + F[s] <= g[x] + G[s]
    BY <2>1
  <2> QED
    BY <1>1, <1>2, <1>5, <2>2
<1> HIDE DEF X
<1>6. D \in X
  BY <1>4, <1>5, SubsetInduct
<1> QED
  BY <1>3, <1>6 DEF X

\* A sum of terms below a bound is below the bound times their number.
LEMMA SumBound ==
  ASSUME NEW D, IsFiniteSet(D), NEW f \in [D -> Int], NEW m \in Int, \A x \in D : f[x] <= m
  PROVE  SumFunctionOnSet(f, D) <= Cardinality(D) * m
<1> DEFINE F == Sums(f, D)
           X == {s \in SUBSET D : F[s] <= Cardinality(s) * m}
<1>1. /\ F \in [SUBSET D -> Int] /\ F[{}] = 0
      /\ \A s \in SUBSET D, x \in D : x \notin s => F[s \cup {x}] = f[x] + F[s]
  BY SumsRec
<1>2. SumFunctionOnSet(f, D) = F[D]
  BY SumIs
<1>3. ASSUME NEW s \in SUBSET D PROVE IsFiniteSet(s) /\ Cardinality(s) \in Nat
  BY FS_Subset, FS_CardinalityType
<1> HIDE DEF F
<1>4. {} \in X
  <2>1. Cardinality({}) * m = 0
    BY FS_EmptySet
  <2> QED
    BY <1>1, <2>1
<1>5. ASSUME NEW s \in SUBSET D, NEW x \in D, s \in X, x \notin s PROVE s \cup {x} \in X
  <2> DEFINE k == Cardinality(s)
  <2>1. Cardinality(s \cup {x}) = k + 1 /\ k \in Nat
    BY <1>3, <1>5, FS_AddElement
  <2>2. F[s] \in Int /\ F[s] <= k * m /\ f[x] \in Int /\ f[x] <= m
    BY <1>1, <1>5
  <2> HIDE DEF k
  <2>3. (k + 1) * m = k * m + m /\ k * m \in Int
    BY <2>1
  <2>4. f[x] + F[s] <= (k + 1) * m
    BY <2>2, <2>3
  <2> QED
    BY <1>1, <1>5, <2>1, <2>4
<1> HIDE DEF X
<1>6. D \in X
  BY <1>4, <1>5, SubsetInduct
<1> QED
  BY <1>2, <1>6 DEF X

\* Where all terms are 0 the sum is.
LEMMA SumZero ==
  ASSUME NEW D, IsFiniteSet(D), NEW f \in [D -> Int], \A x \in D : f[x] = 0
  PROVE  SumFunctionOnSet(f, D) = 0
<1>1. SumFunctionOnSet(f, D) = SumFunctionOnSet(f, D) + SumFunctionOnSet(f, D)
  BY SumPlus
<1>2. SumFunctionOnSet(f, D) \in Int
  BY SumType
<1>3. PICK n \in Int, m \in Int : n = SumFunctionOnSet(f, D) /\ m = n + n
  BY <1>2
<1>4. n = m
  BY <1>1, <1>3, Zenon
<1>5. \A x \in Int, y \in Int : y = x + x /\ x <= y /\ x >= y => x = 0
  OBVIOUS
<1>6. n <= m /\ n >= m
  BY <1>4
<1>7. n = 0
  BY <1>3, <1>5, <1>6
<1> QED
  BY <1>3, <1>7

\* One term changes.
LEMMA SumUpdate ==
  ASSUME NEW D, IsFiniteSet(D), NEW f \in [D -> Int], NEW g \in [D -> Int], NEW x \in D,
         \A y \in D : y # x => g[y] = f[y]
  PROVE  SumFunctionOnSet(g, D) = SumFunctionOnSet(f, D) - f[x] + g[x]
<1> DEFINE F == Sums(f, D)
           G == Sums(g, D)
           X == {s \in SUBSET D : G[s] = IF x \in s THEN F[s] - f[x] + g[x] ELSE F[s]}
<1>1. /\ F \in [SUBSET D -> Int] /\ F[{}] = 0
      /\ \A s \in SUBSET D, y \in D : y \notin s => F[s \cup {y}] = f[y] + F[s]
  BY SumsRec
<1>2. /\ G \in [SUBSET D -> Int] /\ G[{}] = 0
      /\ \A s \in SUBSET D, y \in D : y \notin s => G[s \cup {y}] = g[y] + G[s]
  BY SumsRec
<1>3. SumFunctionOnSet(f, D) = F[D] /\ SumFunctionOnSet(g, D) = G[D]
  BY SumIs
<1> HIDE DEF F, G
<1>4. {} \in X
  BY <1>1, <1>2
<1>5. ASSUME NEW s \in SUBSET D, NEW y \in D, s \in X, y \notin s PROVE s \cup {y} \in X
  <2>1. /\ F[s] \in Int /\ G[s] \in Int /\ f[x] \in Int /\ g[x] \in Int /\ f[y] \in Int /\ g[y] \in Int
        /\ G[s] = IF x \in s THEN F[s] - f[x] + g[x] ELSE F[s]
        /\ F[s \cup {y}] = f[y] + F[s] /\ G[s \cup {y}] = g[y] + G[s]
    BY <1>1, <1>2, <1>5
  <2>2. CASE x = y
    BY <1>5, <2>1, <2>2
  <2>3. CASE x # y
    BY <1>5, <2>1, <2>3
  <2> QED
    BY <2>2, <2>3
<1> HIDE DEF X
<1>6. D \in X
  BY <1>4, <1>5, SubsetInduct
<1> QED
  BY <1>3, <1>6 DEF X

\* Amounts that are each covered by a file of their own are covered together.
LEMMA SumCovered ==
  ASSUME NEW C, IsFiniteSet(C), NEW P, IsFiniteSet(P),
         NEW a \in [C -> Int], NEW t, NEW f \in [P -> Nat],
         \A c \in C : a[c] > 0 => t[c] \in P /\ a[c] <= f[t[c]],
         \A c, o \in C : c # o /\ a[c] > 0 /\ a[o] > 0 => t[c] # t[o]
  PROVE  SumFunctionOnSet(a, C) <= SumFunctionOnSet(f, P)
<1> DEFINE A == Sums(a, C)
           Covers(g, s) == \A c \in s : a[c] > 0 => a[c] <= g[t[c]]
           X == {s \in SUBSET C : \A g \in [P -> Nat] : Covers(g, s) => A[s] <= SumFunctionOnSet(g, P)}
<1>1. /\ A \in [SUBSET C -> Int] /\ A[{}] = 0
      /\ \A s \in SUBSET C, c \in C : c \notin s => A[s \cup {c}] = a[c] + A[s]
  BY SumsRec
<1>2. SumFunctionOnSet(a, C) = A[C]
  BY SumIs
<1>3. ASSUME NEW g \in [P -> Nat] PROVE SumFunctionOnSet(g, P) \in Nat
  <2> DEFINE z == [p \in P |-> 0]
  <2>1. z \in [P -> Int] /\ g \in [P -> Int] /\ \A p \in P : z[p] = 0 /\ z[p] <= g[p]
    OBVIOUS
  <2> HIDE DEF z
  <2>2. SumFunctionOnSet(z, P) = 0
    BY <2>1, SumZero
  <2>3. SumFunctionOnSet(z, P) <= SumFunctionOnSet(g, P) /\ SumFunctionOnSet(g, P) \in Int
    BY <2>1, SumMono, SumType
  <2> QED
    BY <2>2, <2>3
<1> HIDE DEF A
<1>4. {} \in X
  BY <1>1, <1>3
<1>5. ASSUME NEW s \in SUBSET C, NEW c \in C, s \in X, c \notin s PROVE s \cup {c} \in X
  <2> SUFFICES ASSUME NEW g \in [P -> Nat], Covers(g, s \cup {c})
               PROVE  A[s \cup {c}] <= SumFunctionOnSet(g, P)
    OBVIOUS
  <2>1. A[s \cup {c}] = a[c] + A[s] /\ A[s] \in Int /\ a[c] \in Int
    BY <1>1, <1>5
  <2>2. CASE a[c] <= 0
    <3>1. A[s] <= SumFunctionOnSet(g, P) /\ SumFunctionOnSet(g, P) \in Int
      BY <1>3, <1>5
    <3> QED
      BY <2>1, <2>2, <3>1
  <2>3. CASE a[c] > 0
    <3> DEFINE p == t[c]
               h == [g EXCEPT ![p] = g[p] - a[c]]
    <3>1. p \in P /\ a[c] <= g[p] /\ g[p] \in Nat
      BY <2>3
    <3>2. g[p] - a[c] \in Nat
      BY <2>1, <3>1
    <3>3. /\ h \in [P -> Nat] /\ h \in [P -> Int] /\ g \in [P -> Int] /\ h[p] = g[p] - a[c]
          /\ \A q \in P : q # p => h[q] = g[q]
      BY <3>1, <3>2
    <3>4. Covers(h, s)
      <4> SUFFICES ASSUME NEW o \in s, a[o] > 0 PROVE a[o] <= h[t[o]]
        OBVIOUS
      <4>1. o # c /\ o \in C /\ t[o] \in P
        BY <1>5
      <4>2. t[o] # p
        BY <2>3, <4>1
      <4>3. a[o] <= g[t[o]]
        OBVIOUS
      <4> HIDE DEF h, p
      <4> QED
        BY <3>3, <4>1, <4>2, <4>3
    <3> HIDE DEF h, p
    <3>5. SumFunctionOnSet(h, P) = SumFunctionOnSet(g, P) - g[p] + h[p]
      BY <3>1, <3>3, SumUpdate
    <3>6. A[s] <= SumFunctionOnSet(h, P)
      BY <1>5, <3>3, <3>4
    <3>7. SumFunctionOnSet(g, P) \in Int
      BY <1>3
    <3> QED
      BY <2>1, <3>1, <3>3, <3>5, <3>6, <3>7
  <2> QED
    BY <2>1, <2>2, <2>3
<1>6. C \in X
  <2>1. \A s \in SUBSET C, c \in C : s \in X /\ c \notin s => s \cup {c} \in X
    BY <1>5
  <2> HIDE DEF X
  <2>2. \A s \in SUBSET C : s \in X
    BY <1>4, <2>1, SubsetInduct
  <2> QED
    BY <2>2
<1> QED
  BY <1>2, <1>6

-----------------------------------------------------------------------------
(* The size of the volume.                                                   *)

\* The sets that are summed over are finite.
LEMMA Finite == IsFiniteSet(Paths) /\ IsFiniteSet(Callers)
BY PathsAssumption

\* The sizes, and the volume as their sum.
LEMMA Sized ==
  ASSUME DiskInv
  PROVE  /\ [p \in Paths |-> SizeOf(p)] \in [Paths -> Nat]
         /\ [p \in Paths |-> SizeOf(p)] \in [Paths -> Int]
         /\ Total \in Int /\ Total >= 0
<1> DEFINE f == [p \in Paths |-> SizeOf(p)]
           z == [p \in Paths |-> 0]
<1>1. \A p \in Paths : SizeOf(p) \in Nat
  BY SizeBound, SizesBounded
<1>2. f \in [Paths -> Nat] /\ f \in [Paths -> Int] /\ z \in [Paths -> Int]
  BY <1>1
<1>3. \A p \in Paths : z[p] = 0 /\ z[p] <= f[p]
  BY <1>1
<1>4. Total = SumFunctionOnSet(f, Paths)
  BY DEF Total
<1> HIDE DEF f, z
<1>5. SumFunctionOnSet(z, Paths) = 0 /\ SumFunctionOnSet(z, Paths) <= SumFunctionOnSet(f, Paths)
  BY <1>2, <1>3, SumZero, SumMono, Finite
<1>6. SumFunctionOnSet(f, Paths) \in Int
  BY <1>2, SumType, Finite
<1> QED
  BY <1>2, <1>4, <1>5, <1>6 DEF f

\* Directories have no size, and a file that is left alone keeps its own.
LEMMA SizesKept ==
  ASSUME DiskInv, DiskInv'
  PROVE  /\ \A p \in DirPaths : SizeOf(p) = 0 /\ SizeOf(p)' = 0
         /\ \A p \in FilePaths : tree'[p] = tree[p] => SizeOf(p)' = SizeOf(p)
BY DEF DiskInv, SizeOf, IsFile, None, Dir, Paths

\* The volume after a step is a number too.
LEMMA NextTotal ==
  ASSUME DiskInv'
  PROVE  /\ [p \in Paths |-> SizeOf(p)'] \in [Paths -> Int]
         /\ Total' = SumFunctionOnSet([p \in Paths |-> SizeOf(p)'], Paths)
         /\ Total' \in Int
<1>1. \A p \in Paths : SizeOf(p)' \in Int
  BY SizesBounded DEF DiskInv, SizeOf, IsFile, None, Dir
<1>2. [p \in Paths |-> SizeOf(p)'] \in [Paths -> Int]
  BY <1>1
<1>3. Total' = SumFunctionOnSet([p \in Paths |-> SizeOf(p)'], Paths)
  BY DEF Total
<1> QED
  BY <1>2, <1>3, SumType, Finite

\* One file changes.
LEMMA TotalOne ==
  ASSUME DiskInv, DiskInv', NEW x \in Paths, \A f \in FilePaths : f # x => tree'[f] = tree[f]
  PROVE  Total' = Total - SizeOf(x) + SizeOf(x)'
<1> DEFINE f == [p \in Paths |-> SizeOf(p)]
           g == [p \in Paths |-> SizeOf(p)']
<1>1. f \in [Paths -> Int] /\ Total = SumFunctionOnSet(f, Paths)
  BY Sized DEF Total
<1>3. g \in [Paths -> Int] /\ Total' = SumFunctionOnSet(g, Paths)
  BY NextTotal
<1>4. \A p \in Paths : p # x => g[p] = f[p]
  BY SizesKept DEF Paths
<1>5. f[x] = SizeOf(x) /\ g[x] = SizeOf(x)'
  OBVIOUS
<1> HIDE DEF f, g
<1> QED
  BY <1>1, <1>3, <1>4, <1>5, SumUpdate, Finite

\* No file grows.
LEMMA TotalLess ==
  ASSUME DiskInv, DiskInv', \A p \in FilePaths : SizeOf(p)' <= SizeOf(p)
  PROVE  Total' <= Total
<1> DEFINE f == [p \in Paths |-> SizeOf(p)]
           g == [p \in Paths |-> SizeOf(p)']
<1>1. f \in [Paths -> Int] /\ Total = SumFunctionOnSet(f, Paths)
  BY Sized DEF Total
<1>3. g \in [Paths -> Int] /\ Total' = SumFunctionOnSet(g, Paths)
  BY NextTotal
<1>4. \A p \in Paths : g[p] <= f[p]
  BY SizesKept DEF Paths
<1> HIDE DEF f, g
<1> QED
  BY <1>1, <1>3, <1>4, SumMono, Finite

\* No file changes.
LEMMA TotalSame ==
  ASSUME DiskInv, DiskInv', \A f \in FilePaths : tree'[f] = tree[f]
  PROVE  Total' = Total
<1>1. \A p \in Paths : SizeOf(p)' = SizeOf(p)
  BY SizesKept DEF Paths
<1>2. [p \in Paths |-> SizeOf(p)'] = [p \in Paths |-> SizeOf(p)]
  BY <1>1
<1> QED
  BY <1>2 DEF Total

\* A volume without files.
LEMMA TotalEmpty == ASSUME DiskInv, \A f \in FilePaths : tree[f] = None PROVE Total = 0
<1> DEFINE f == [p \in Paths |-> SizeOf(p)]
<1>1. f \in [Paths -> Int] /\ Total = SumFunctionOnSet(f, Paths)
  BY Sized DEF Total
<1>2. \A p \in Paths : f[p] = 0
  BY DEF DiskInv, SizeOf, IsFile, None, Dir, Paths
<1> HIDE DEF f
<1> QED
  BY <1>1, <1>2, SumZero, Finite

\* The amounts still to be added.
LEMMA OffTypes ==
  ASSUME CallInv
  PROVE  /\ \A c \in Callers : Off(call[c]) \in Int
         /\ [c \in Callers |-> Off(call[c])] \in [Callers -> Int]
         /\ Offs \in Int
<1>1. ASSUME NEW c \in Callers PROVE Off(call[c]) \in Int
  <2>1. call[c].old \in Int /\ call[c].delta \in Int
    BY DEF CallInv, Op
  <2> QED
    BY <2>1 DEF Off
<1>2. [c \in Callers |-> Off(call[c])] \in [Callers -> Int]
  BY <1>1
<1> QED
  BY <1>1, <1>2, SumType, Finite DEF Offs

\* One goroutine's amount changes.
LEMMA OffsOne ==
  ASSUME CallInv, CallInv', NEW c \in Callers, \A o \in Callers \ {c} : Off(call'[o]) = Off(call[o])
  PROVE  Offs' = Offs - Off(call[c]) + Off(call'[c])
<1> DEFINE f == [o \in Callers |-> Off(call[o])]
           g == [o \in Callers |-> Off(call'[o])]
<1>1. f \in [Callers -> Int] /\ Offs = SumFunctionOnSet(f, Callers)
  BY OffTypes DEF Offs
<1>2. ASSUME NEW o \in Callers PROVE Off(call'[o]) \in Int
  <2>1. call'[o].old \in Int /\ call'[o].delta \in Int
    BY DEF CallInv, Op
  <2> QED
    BY <2>1 DEF Off
<1>3. g \in [Callers -> Int] /\ Offs' = SumFunctionOnSet(g, Callers)
  BY <1>2 DEF Offs, Off
<1>4. \A o \in Callers : o # c => g[o] = f[o]
  OBVIOUS
<1>5. f[c] = Off(call[c]) /\ g[c] = Off(call'[c])
  OBVIOUS
<1> HIDE DEF f, g
<1> QED
  BY <1>1, <1>3, <1>4, <1>5, SumUpdate, Finite

-----------------------------------------------------------------------------
(* Operations on different files leave each other alone.                      *)

\* The step does not touch what the other operations have read, and their handles.
Spared(c) ==
  \A o \in Callers \ {c} :
    /\ call'[o].at = call[o].at /\ call'[o].kind = call[o].kind /\ call'[o].path = call[o].path
    /\ call'[o].entry = call[o].entry /\ call'[o].old = call[o].old /\ call'[o].delta = call[o].delta
    /\ call[o].at = "walk" => call'[o].quiet = call[o].quiet
    /\ open'[o] = open[o]
    /\ Active(o) => \A f \in FilePaths :
         (At(o, "swap") \/ \E q \in Changes(call[o]) : Under(f, q)) => tree'[f] = tree[f]

\* A file below two paths puts them side by side.
LEMMA Meet == ASSUME NEW f, NEW p, NEW q, Under(f, p), Under(f, q) PROVE Near(p, q)
BY PathsAssumption DEF Under, Near, Paths

\* What Overlaps is about.
LEMMA NoOverlap ==
  ASSUME NEW c \in Callers, NEW S, ~Overlaps(c, S), NEW o \in Callers \ {c}, Active(o),
         NEW p \in S, NEW q \in Changes(call[o])
  PROVE  ~Near(p, q) /\ ~Near(q, p)
BY DEF Overlaps, Near

\* Each goroutine changes nothing but files below its own paths.
LEMMA FrameSpares ==
  ASSUME Apart, CallInv, NEW c \in Callers,
         \A o \in Callers \ {c} : call'[o] = call[o] /\ open'[o] = open[o],
         \A f \in FilePaths : tree'[f] = tree[f] \/ (Active(c) /\ \E q \in Changes(call[c]) : Under(f, q))
  PROVE  Spared(c)
<1> SUFFICES ASSUME NEW o \in Callers \ {c}, Active(o), NEW f \in FilePaths, tree'[f] # tree[f],
                    At(o, "swap") \/ \E q \in Changes(call[o]) : Under(f, q)
             PROVE  FALSE
  BY DEF Spared
<1>1. PICK p \in Changes(call[c]) : Under(f, p) /\ Active(c)
  OBVIOUS
<1>2. ASSUME NEW q \in Changes(call[o]) PROVE ~Near(p, q)
  BY <1>1 DEF Apart
<1>3. CASE At(o, "swap")
  <2>1. Root \in Changes(call[o])
    BY <1>3 DEF CallInv, OpOK, At, Changes
  <2> QED
    BY <1>2, <2>1 DEF Near
<1>4. CASE \E q \in Changes(call[o]) : Under(f, q)
  BY <1>1, <1>2, <1>4, Meet
<1> QED
  BY <1>3, <1>4

\* A goroutine that is spared finds what it has read.
LEMMA PhaseKept ==
  ASSUME IInv, IInv', NEW c \in Callers, Spared(c), NEW o \in Callers \ {c}, PhaseOK(o)
  PROVE  PhaseOK(o)'
<1>1. /\ call'[o].at = call[o].at /\ call'[o].kind = call[o].kind /\ call'[o].path = call[o].path
      /\ call'[o].entry = call[o].entry /\ call'[o].old = call[o].old /\ call'[o].delta = call[o].delta
      /\ call[o].at = "walk" => call'[o].quiet = call[o].quiet
      /\ open'[o] = open[o]
  BY DEF Spared
<1>2. OpOK(call[o])
  BY DEF IInv, CallInv
<1>3. CASE ~Active(o)
  BY <1>1, <1>2, <1>3 DEF PhaseOK, Active, OpOK
<1>4. CASE Active(o)
  <2>1. PICK p, e : p = call[o].path /\ e = call[o].entry
    OBVIOUS
  <2>2. ASSUME NEW f \in FilePaths, Under(f, p) PROVE tree'[f] = tree[f]
    BY <1>4, <2>1, <2>2 DEF Spared, Changes
  <2>3. p \in FilePaths => tree'[p] = tree[p]
    BY <2>2 DEF Under
  <2>4. p \in Paths => SizeOf(p)' = SizeOf(p)
    BY <2>3, SizesKept DEF IInv, Paths
  <2>5. call[o].kind = "unlink" /\ call[o].at \in {"load", "add", "unlink"} => SizeOf(e)' = SizeOf(e)
    <3> SUFFICES ASSUME call[o].kind = "unlink", call[o].at \in {"load", "add", "unlink"}
                 PROVE  SizeOf(e)' = SizeOf(e)
      OBVIOUS
    <3>1. Under(e, p)
      BY <1>2, <2>1 DEF OpOK
    <3> QED
      BY <2>2, <3>1, SizesKept DEF IInv, Under
  <2>6. At(o, "swap") => \A f \in FilePaths : tree'[f] = tree[f]
    BY <1>4 DEF Spared
  <2>7. p \in FilePaths => p \in Paths
    BY DEF Paths
  <2>8. call[o].kind \in {"write", "copy", "gunzip", "rename"} => tree'[p] = tree[p] /\ p \in Paths
    BY <1>2, <2>1, <2>3, <2>7 DEF OpOK
  <2>9. call[o].at \in {"check", "touch", "remove", "load", "add"} => p \in Paths
    BY <1>2, <2>1, <2>7 DEF OpOK
  <2>10. call[o].at \in {"data", "create"} => call[o].kind \in {"write", "copy", "gunzip"}
    BY <1>2 DEF OpOK
  <2> QED
    BY <1>1, <2>1, <2>4, <2>5, <2>6, <2>8, <2>9, <2>10 DEF PhaseOK, At
<1> QED
  BY <1>3, <1>4

\* The operations stay apart.
LEMMA ApartKept ==
  ASSUME Apart, NEW c \in Callers, Spared(c),
         Active(c)' => \/ Active(c) /\ Changes(call'[c]) = Changes(call[c])
                       \/ ~Overlaps(c, Changes(call'[c]))
  PROVE  Apart'
<1>1. ASSUME NEW o \in Callers \ {c}
      PROVE  (Active(o)' <=> Active(o)) /\ Changes(call'[o]) = Changes(call[o])
  BY DEF Spared, Active, Changes
<1>2. ASSUME NEW o \in Callers \ {c}, Active(c)', Active(o), NEW p \in Changes(call'[c]), NEW q \in Changes(call[o])
      PROVE  ~Near(p, q) /\ ~Near(q, p)
  <2>1. CASE Active(c) /\ Changes(call'[c]) = Changes(call[c])
    BY <1>2, <2>1 DEF Apart
  <2>2. CASE ~Overlaps(c, Changes(call'[c]))
    BY <1>2, <2>2, NoOverlap
  <2> QED
    BY <1>2, <2>1, <2>2
<1>3. ASSUME NEW b \in Callers, NEW o \in Callers, b # o, Active(b)', Active(o)',
             NEW p \in Changes(call'[b]), NEW q \in Changes(call'[o])
      PROVE  ~Near(p, q)
  <2>1. CASE b = c
    BY <1>1, <1>2, <1>3, <2>1
  <2>2. CASE o = c
    BY <1>1, <1>2, <1>3, <2>2
  <2>3. CASE b # c /\ o # c
    BY <1>1, <1>3, <2>3 DEF Apart
  <2> QED
    BY <2>1, <2>2, <2>3
<1> QED
  BY <1>3 DEF Apart, Near, Changes

\* The arithmetic of the account.
LEMMA Evened ==
  ASSUME NEW t \in Int, NEW t1 \in Int, NEW u \in Int, NEW u1 \in Int, NEW s \in Int, NEW s1,
         NEW a \in Int, NEW b \in Int, t = u + s, s1 = s - a + b, t1 - t = (u1 - u) + (b - a)
  PROVE  t1 = u1 + s1
OBVIOUS

\* The account is kept by a step that spares the others and settles its own part.
LEMMA OneStep ==
  ASSUME IInv, IInv', Account, NEW c \in Callers, Spared(c), PhaseOK(c)',
         Active(c)' => \/ Active(c) /\ Changes(call'[c]) = Changes(call[c])
                       \/ ~Overlaps(c, Changes(call'[c])),
         \/ call'[c].at = "swap"
         \/ /\ ~At(c, "swap")
            /\ Total' - Total = (usage' - usage) + (Off(call'[c]) - Off(call[c]))
  PROVE  Account'
<1>1. Apart'
  BY ApartKept DEF Account
<1>2. PhaseInv'
  BY PhaseKept DEF Account, PhaseInv
<1>3. Balance'
  <2> SUFFICES ASSUME \A o \in Callers : ~At(o, "swap")' PROVE Total' = usage' + Offs'
    BY DEF Balance
  <2>1. \A o \in Callers : ~At(o, "swap")
    BY DEF Spared, At
  <2>2. Total = usage + Offs
    BY <2>1 DEF Account, Balance
  <2>3. \A o \in Callers \ {c} : Off(call'[o]) = Off(call[o])
    BY DEF Spared, Off
  <2>4. CallInv /\ CallInv' /\ DiskInv /\ DiskInv' /\ usage \in Int /\ usage' \in Int
    BY DEF IInv, Flags
  <2>5. Offs' = Offs - Off(call[c]) + Off(call'[c])
    BY <2>3, <2>4, OffsOne
  <2>6. Off(call[c]) \in Int /\ Off(call'[c]) \in Int /\ Offs \in Int
    <3>1. call'[c].old \in Int /\ call'[c].delta \in Int
      BY <2>4 DEF CallInv, Op
    <3> QED
      BY <2>4, <3>1, OffTypes DEF Off
  <2>7. Total \in Int /\ Total' \in Int
    BY <2>4, Sized, NextTotal
  <2>8. Total' - Total = (usage' - usage) + (Off(call'[c]) - Off(call[c]))
    BY DEF At
  <2>9. PICK a, b : a = Off(call[c]) /\ b = Off(call'[c])
    OBVIOUS
  <2>10. a \in Int /\ b \in Int /\ Offs' = Offs - a + b /\ Total' - Total = (usage' - usage) + (b - a)
    BY <2>5, <2>6, <2>8, <2>9
  <2>11. PICK t, t1, u, u1, s, s1 : t = Total /\ t1 = Total' /\ u = usage /\ u1 = usage' /\ s = Offs /\ s1 = Offs'
    OBVIOUS
  <2>12. t \in Int /\ t1 \in Int /\ u \in Int /\ u1 \in Int /\ s \in Int
    BY <2>4, <2>6, <2>7, <2>11
  <2>13. t = u + s /\ s1 = s - a + b /\ t1 - t = (u1 - u) + (b - a)
    BY <2>2, <2>10, <2>11
  <2>14. t1 = u1 + s1
    BY <2>10, <2>12, <2>13, Evened
  <2> QED
    BY <2>11, <2>14
<1> QED
  BY <1>1, <1>2, <1>3 DEF Account

\* Where nothing is under way the account is the counter.
LEMMA Settled ==
  ASSUME IInv, \A o \in Callers : ~Active(o), \A o \in Callers : At(o, "walk") => call[o].quiet
  PROVE  /\ Offs = 0 /\ Apart /\ PhaseInv /\ \A o \in Callers : ~At(o, "swap")
         /\ usage = Total => Account
<1>1. ASSUME NEW o \in Callers PROVE OpOK(call[o]) /\ call[o].kind \in {"none", "scan"}
  BY DEF IInv, CallInv, Active
<1>2. ASSUME NEW o \in Callers PROVE call[o].at \in {"idle", "lock", "walk"}
  BY <1>1 DEF OpOK
<1>3. \A o \in Callers : Off(call[o]) = 0
  BY <1>2 DEF Off
<1>4. Offs = 0
  <2> DEFINE f == [o \in Callers |-> Off(call[o])]
  <2>1. f \in [Callers -> Int] /\ \A o \in Callers : f[o] = 0
    BY <1>3
  <2>2. Offs = SumFunctionOnSet(f, Callers)
    BY DEF Offs
  <2> HIDE DEF f
  <2> QED
    BY <2>1, <2>2, SumZero, Finite
<1>5. Apart
  BY DEF Apart
<1>6. PhaseInv
  BY <1>1, <1>2 DEF PhaseInv, PhaseOK, At
<1>7. \A o \in Callers : ~At(o, "swap")
  BY <1>2 DEF At
<1>8. usage = Total => Balance
  <2>1. usage \in Int
    BY DEF IInv, Flags
  <2> QED
    BY <1>4, <2>1 DEF Balance
<1> QED
  BY <1>4, <1>5, <1>6, <1>7, <1>8 DEF Account

-----------------------------------------------------------------------------
(* The counter is never below what is still to be subtracted.                *)

\* The file covers the amount, and no other operation comes near it.
Covers(c, n) == /\ Active(c) /\ Under(Target(call[c]), call[c].path)
                /\ n <= SizeOf(Target(call[c]))

\* An amount still to be added is on the disk.
LEMMA OffCovered ==
  ASSUME IInv, NEW c \in Callers, PhaseOK(c), Off(call[c]) > 0
  PROVE  Covers(c, Off(call[c]))
<1>1. call[c] \in Op /\ OpOK(call[c]) /\ call[c].old \in Int /\ call[c].delta \in Int /\ call[c].old >= 0
  BY SizesBounded DEF IInv, CallInv, Op, OpOK
<1>2. CASE call[c].at = "data"
  BY <1>1, <1>2 DEF Off
<1>3. CASE call[c].at \in {"load", "zero", "add"} /\ call[c].kind # "unlink"
  <2>1. Off(call[c]) = call[c].delta /\ call[c].delta <= SizeOf(call[c].path)
    BY <1>3 DEF Off, PhaseOK
  <2>2. SizeOf(call[c].path) > 0
    <3>1. call[c].path \in Paths
      BY <1>1, <1>3 DEF OpOK, Paths
    <3>2. SizeOf(call[c].path) \in Int
      BY <3>1, SizeBound, SizesBounded DEF IInv
    <3> QED
      BY <1>1, <2>1, <3>2
  <2>3. call[c].path \in FilePaths
    BY <2>2 DEF SizeOf, IsFile, IInv, DiskInv, None, Dir, Paths
  <2>4. Active(c)
    BY <1>1, <1>3 DEF Active, OpOK
  <2> QED
    BY <1>3, <2>1, <2>3, <2>4 DEF Covers, Target, Under
<1>4. CASE call[c].at = "unlink"
  <2>1. call[c].kind = "unlink" /\ Under(call[c].entry, call[c].path)
    BY <1>1, <1>4 DEF OpOK
  <2>2. call[c].delta = -SizeOf(call[c].entry) /\ call[c].entry \in Paths
    BY <1>4, <2>1 DEF PhaseOK, Under, Paths
  <2>3. Off(call[c]) = SizeOf(call[c].entry)
    BY <1>1, <1>4, <2>1, <2>2, SizeBound DEF Off, IInv
  <2> QED
    BY <2>1, <2>3, SizeBound, <2>2 DEF Covers, Target, Active, IInv
<1> QED
  BY <1>2, <1>3, <1>4 DEF Off

\* Amounts that are covered are together no more than the volume.
LEMMA CoveredTotal ==
  ASSUME IInv, Apart, NEW a \in [Callers -> Int], \A c \in Callers : a[c] > 0 => Covers(c, a[c])
  PROVE  SumFunctionOnSet(a, Callers) <= Total
<1> DEFINE f == [p \in Paths |-> SizeOf(p)]
           t == [c \in Callers |-> Target(call[c])]
<1>1. f \in [Paths -> Nat] /\ Total = SumFunctionOnSet(f, Paths)
  BY Sized DEF Total, IInv
<1>2. ASSUME NEW c \in Callers, a[c] > 0
      PROVE  t[c] \in Paths /\ a[c] <= f[t[c]] /\ Under(t[c], call[c].path) /\ Active(c)
  <2>1. Covers(c, a[c])
    BY <1>2
  <2>2. Target(call[c]) \in Paths
    BY <2>1 DEF Covers, Under, Paths
  <2> QED
    BY <2>1, <2>2 DEF Covers
<1>3. ASSUME NEW c \in Callers, NEW o \in Callers, c # o, a[c] > 0, a[o] > 0 PROVE t[c] # t[o]
  <2>1. call[c].path \in Changes(call[c]) /\ call[o].path \in Changes(call[o])
    BY DEF Changes
  <2>2. ~Near(call[c].path, call[o].path)
    BY <1>2, <1>3, <2>1 DEF Apart
  <2>3. t[c] = t[o] => Near(call[c].path, call[o].path)
    BY <1>2, <1>3, Meet
  <2> QED
    BY <2>2, <2>3
<1> HIDE DEF f, t
<1> QED
  BY <1>1, <1>2, <1>3, SumCovered, Finite

\* Without drift the counter is not negative.
LEMMA NotNegative ==
  ASSUME IInv, Account, \A o \in Callers : ~At(o, "swap")
  PROVE  usage >= 0 /\ Total = usage + Offs
<1> DEFINE a == [c \in Callers |-> Off(call[c])]
<1>1. a \in [Callers -> Int] /\ Offs = SumFunctionOnSet(a, Callers) /\ Offs \in Int
  BY OffTypes DEF IInv, Offs
<1>2. \A c \in Callers : a[c] > 0 => Covers(c, a[c])
  BY OffCovered DEF Account, PhaseInv
<1> HIDE DEF a
<1>3. Offs <= Total
  BY <1>1, <1>2, CoveredTotal DEF Account
<1>4. Total = usage + Offs /\ usage \in Int
  BY DEF Account, Balance, IInv, Flags
<1> QED
  BY <1>1, <1>3, <1>4

\* What Quota.Add is about to add does not take the counter below 0.
LEMMA NotTooMuch ==
  ASSUME IInv, Account, \A o \in Callers : ~At(o, "swap"), NEW c \in Callers, At(c, "load")
  PROVE  usage + call[c].delta >= 0
<1> DEFINE a == [o \in Callers |-> Off(call[o])]
           n == IF call[c].kind = "unlink" THEN -call[c].delta ELSE 0
           b == [a EXCEPT ![c] = n]
<1>1. a \in [Callers -> Int] /\ Offs = SumFunctionOnSet(a, Callers) /\ Offs \in Int
  BY OffTypes DEF IInv, Offs
<1>2. call[c] \in Op /\ OpOK(call[c]) /\ call[c].delta \in Int
  BY DEF IInv, CallInv, Op
<1>3. n \in Int /\ n - a[c] = -call[c].delta /\ a[c] \in Int
  BY <1>2 DEF Off, At
<1>4. n > 0 => Covers(c, n)
  <2> SUFFICES ASSUME n > 0 PROVE Covers(c, n)
    OBVIOUS
  <2>1. call[c].kind = "unlink" /\ n = -call[c].delta
    OBVIOUS
  <2>2. Under(call[c].entry, call[c].path) /\ call[c].delta = -SizeOf(call[c].entry)
    BY <1>2, <2>1 DEF OpOK, At, Account, PhaseInv, PhaseOK
  <2>3. SizeOf(call[c].entry) \in Int
    BY <2>2, SizeBound, SizesBounded DEF IInv, Under, Paths
  <2>4. n = SizeOf(call[c].entry)
    BY <2>1, <2>2, <2>3
  <2> HIDE DEF n
  <2> QED
    BY <2>1, <2>2, <2>3, <2>4 DEF Covers, Target, Active
<1>5. \A o \in Callers : a[o] > 0 => Covers(o, a[o])
  BY OffCovered DEF Account, PhaseInv
<1> HIDE DEF n
<1>6. b \in [Callers -> Int] /\ b[c] = n /\ \A o \in Callers : o # c => b[o] = a[o]
  BY <1>1, <1>3
<1> HIDE DEF a, b
<1>7. \A o \in Callers : b[o] > 0 => Covers(o, b[o])
  BY <1>4, <1>5, <1>6
<1>8. SumFunctionOnSet(b, Callers) = Offs - a[c] + n
  BY <1>1, <1>6, SumUpdate, Finite
<1>9. SumFunctionOnSet(b, Callers) <= Total
  BY <1>6, <1>7, CoveredTotal DEF Account
<1>10. Total = usage + Offs /\ usage \in Int
  BY DEF Account, Balance, IInv, Flags
<1> QED
  BY <1>1, <1>2, <1>3, <1>8, <1>9, <1>10

-----------------------------------------------------------------------------
(* The account in one step.                                                  *)

\* A goroutine replaces its own operation.
LEMMA Own ==
  ASSUME IInv, NEW c \in Callers, NEW r, call' = [call EXCEPT ![c] = r]
  PROVE  call'[c] = r /\ \A o \in Callers \ {c} : call'[o] = call[o]
BY DEF IInv, CallInv

\* A goroutine goes on to its next step.
LEMMA Onward ==
  ASSUME IInv, NEW c \in Callers, NEW s, Go(c, s)
  PROVE  /\ call'[c].at = s /\ call'[c].kind = call[c].kind /\ call'[c].path = call[c].path
         /\ call'[c].entry = call[c].entry /\ call'[c].old = call[c].old /\ call'[c].delta = call[c].delta
         /\ call'[c].new = call[c].new /\ call'[c].todo = call[c].todo /\ call'[c].quiet = call[c].quiet
         /\ \A o \in Callers \ {c} : call'[o] = call[o]
<1>1. call[c] \in Op
  BY DEF IInv, CallInv
<1>2. call' = [call EXCEPT ![c] = [call[c] EXCEPT !.at = s]]
  BY DEF Go
<1>3. call'[c] = [call[c] EXCEPT !.at = s] /\ \A o \in Callers \ {c} : call'[o] = call[o]
  BY <1>2, Own
<1> QED
  BY <1>1, <1>3 DEF Op

\* A goroutine that returns has nothing to settle.
LEMMA AtRest ==
  ASSUME NEW c \in Callers, call'[c] = Idle
  PROVE  PhaseOK(c)' /\ ~Active(c)' /\ Off(call'[c]) = 0 /\ call'[c].at # "swap"
BY DEF PhaseOK, Active, Off, Idle

\* Nobody is in TruncateRootDirectory beside another operation.
LEMMA NoSwap ==
  ASSUME IInv, Account, NEW c \in Callers, Active(c), ~At(c, "swap")
  PROVE  \A o \in Callers : ~At(o, "swap")
<1> SUFFICES ASSUME NEW o \in Callers, At(o, "swap"), o # c PROVE FALSE
  OBVIOUS
<1>1. OpOK(call[o])
  BY DEF IInv, CallInv
<1>2. Active(o) /\ Root \in Changes(call[o])
  BY <1>1 DEF OpOK, At, Active, Changes
<1>3. call[c].path \in Changes(call[c]) /\ Near(call[c].path, Root)
  BY DEF Changes, Near
<1> QED
  BY <1>2, <1>3 DEF Account, Apart

\* A goroutine's handle is not on a file of another's.
LEMMA HandlesApart ==
  ASSUME IInv, Apart, NEW c \in Callers, Active(c), NEW p \in FilePaths,
         \E q \in Changes(call[c]) : Under(p, q),
         NEW o \in Callers \ {c}, open[o]
  PROVE  call[o].path # p
<1>1. HandleOK(o) /\ OpOK(call[o])
  BY DEF IInv, HandleInv, CallInv
<1>2. Active(o) /\ call[o].path \in Changes(call[o]) /\ call[o].path \in FilePaths
  BY <1>1 DEF HandleOK, OpOK, Active, At, Changes
<1>3. PICK q \in Changes(call[c]) : Under(p, q)
  OBVIOUS
<1>4. ~Near(q, call[o].path)
  BY <1>2, <1>3 DEF Apart
<1>5. Under(call[o].path, call[o].path)
  BY <1>2 DEF Under
<1> QED
  BY <1>3, <1>4, <1>5, Meet

\* Steps that leave the files and the counter alone.
LEMMA AccountFiles ==
  ASSUME IInv, IInv', Account, NEW c \in Callers, \A o \in Callers \ {c} : call'[o] = call[o],
         UNCHANGED usage, \A f \in FilePaths : tree'[f] = tree[f], \A o \in Callers \ {c} : open'[o] = open[o],
         PhaseOK(c)', Off(call'[c]) = Off(call[c]), ~At(c, "swap"),
         Active(c)' => \/ Active(c) /\ Changes(call'[c]) = Changes(call[c])
                       \/ ~Overlaps(c, Changes(call'[c]))
  PROVE  Account'
<1>1. Spared(c)
  BY FrameSpares DEF Account, IInv
<1>2. Total' = Total /\ Total \in Int /\ usage \in Int /\ Off(call[c]) \in Int
  BY TotalSame, Sized, OffTypes DEF IInv, Flags
<1>3. Total' - Total = (usage' - usage) + (Off(call'[c]) - Off(call[c]))
  BY <1>2
<1> QED
  BY <1>1, <1>3, OneStep

\* Steps that leave the disk and the counter alone.
LEMMA AccountQuietly ==
  ASSUME IInv, IInv', Account, NEW c \in Callers, \A o \in Callers \ {c} : call'[o] = call[o],
         UNCHANGED <<tree, usage>>, \A o \in Callers \ {c} : open'[o] = open[o],
         PhaseOK(c)', Off(call'[c]) = Off(call[c]), ~At(c, "swap"),
         Active(c)' => \/ Active(c) /\ Changes(call'[c]) = Changes(call[c])
                       \/ ~Overlaps(c, Changes(call'[c]))
  PROVE  Account'
BY AccountFiles

\* HasSpaceFor only reads.
LEMMA AccountCheck ==
  ASSUME IInv, IInv', Account, NEW c \in Callers, Check(c)
  PROVE  Account'
<1>0. OpOK(call[c]) /\ call[c].at = "check" /\ UNCHANGED <<tree, usage, open>> /\ PhaseOK(c)
  BY DEF IInv, CallInv, Check, At, Account, PhaseInv
<1>1. CASE Return(c)
  <2>1. call'[c] = Idle /\ \A o \in Callers \ {c} : call'[o] = call[o]
    BY <1>1, Own DEF Return
  <2>2. Off(call[c]) = 0 /\ ~At(c, "swap")
    BY <1>0 DEF Off, At
  <2> QED
    BY <1>0, <2>1, <2>2, AtRest, AccountQuietly
<1>2. CASE Go(c, IF call[c].kind = "copy" THEN "name" ELSE "touch")
  <2> DEFINE s == IF call[c].kind = "copy" THEN "name" ELSE "touch"
  <2>1. /\ call'[c].at = s /\ call'[c].kind = call[c].kind /\ call'[c].path = call[c].path
        /\ call'[c].entry = call[c].entry /\ call'[c].old = call[c].old
        /\ \A o \in Callers \ {c} : call'[o] = call[o]
    BY <1>2, Onward
  <2>2. Off(call'[c]) = Off(call[c]) /\ ~At(c, "swap")
    BY <1>0, <2>1 DEF Off, At
  <2>3. Active(c) /\ Changes(call'[c]) = Changes(call[c])
    BY <1>0, <2>1 DEF Active, Changes, OpOK
  <2>4. PhaseOK(c)'
    BY <1>0, <2>1 DEF PhaseOK, SizeOf, IsFile, OpOK
  <2> QED
    BY <1>0, <2>1, <2>2, <2>3, <2>4, AccountQuietly
<1> QED
  BY <1>1, <1>2 DEF Check

\* Steps that change one file of the operation's own.
LEMMA AccountFile ==
  ASSUME IInv, IInv', Account, NEW c \in Callers, \A o \in Callers \ {c} : call'[o] = call[o],
         \A o \in Callers \ {c} : open'[o] = open[o], UNCHANGED usage,
         NEW p \in FilePaths, Active(c), \E q \in Changes(call[c]) : Under(p, q),
         \A f \in FilePaths : f # p => tree'[f] = tree[f],
         PhaseOK(c)', ~At(c, "swap"), call'[c].at # "swap",
         SizeOf(p)' - SizeOf(p) = Off(call'[c]) - Off(call[c]),
         Active(c)' => Changes(call'[c]) = Changes(call[c])
  PROVE  Account'
<1>1. Spared(c)
  <2>1. \A f \in FilePaths : tree'[f] = tree[f] \/ (Active(c) /\ \E q \in Changes(call[c]) : Under(f, q))
    OBVIOUS
  <2> QED
    BY <2>1, FrameSpares DEF Account, IInv
<1>2. p \in Paths /\ DiskInv /\ DiskInv' /\ usage \in Int
  BY DEF Paths, IInv, Flags
<1>3. Total' = Total - SizeOf(p) + SizeOf(p)'
  BY <1>2, TotalOne
<1>4. Total \in Int /\ SizeOf(p) \in Int
  BY <1>2, Sized, SizeBound, SizesBounded
<1>5. SizeOf(p)' \in Int
  BY <1>2, SizesBounded DEF DiskInv, SizeOf, IsFile, None, Dir
<1>6. PICK m, n : m = SizeOf(p) /\ n = SizeOf(p)'
  OBVIOUS
<1>7. Total' - Total = SizeOf(p)' - SizeOf(p)
  <2>1. m \in Int /\ n \in Int /\ Total \in Int /\ Total' = Total - m + n
    BY <1>3, <1>4, <1>5, <1>6
  <2>2. Total' - Total = n - m
    BY <2>1
  <2> QED
    BY <1>6, <2>2
<1>8. usage' - usage = 0
  BY <1>2
<1>9. Off(call'[c]) - Off(call[c]) \in Int
  BY <1>4, <1>5
<1>10. Total' - Total = (usage' - usage) + (Off(call'[c]) - Off(call[c]))
  BY <1>7, <1>8, <1>9
<1> QED
  BY <1>1, <1>10, OneStep

\* A goroutine that returns without a further change.
LEMMA AccountReturn ==
  ASSUME IInv, IInv', Account, NEW c \in Callers, Return(c), UNCHANGED <<tree, usage>>,
         \A o \in Callers \ {c} : open'[o] = open[o], Off(call[c]) = 0, ~At(c, "swap")
  PROVE  Account'
<1>1. call'[c] = Idle /\ \A o \in Callers \ {c} : call'[o] = call[o]
  BY Own DEF Return
<1> QED
  BY <1>1, AtRest, AccountQuietly

\* Touch truncates the file; its size is subtracted later.
LEMMA AccountTouch ==
  ASSUME IInv, IInv', Account, NEW c \in Callers, Touch(c)
  PROVE  Account'
<1>0. /\ OpOK(call[c]) /\ call[c].at = "touch" /\ UNCHANGED usage /\ PhaseOK(c) /\ call[c] \in Op
      /\ call[c].kind = "write" /\ call[c].path \in FilePaths /\ call[c].path \in Paths
  BY DEF IInv, CallInv, Touch, At, Account, PhaseInv, OpOK, Paths
<1>1. Off(call[c]) = 0 /\ ~At(c, "swap")
  BY <1>0 DEF Off, At
<1>2. CASE Return(c) /\ UNCHANGED <<tree, open>>
  BY <1>0, <1>1, <1>2, AccountReturn
<1>3. CASE tree' = Touched(call[c].path) /\ open' = [open EXCEPT ![c] = TRUE] /\ Go(c, "data")
  <2>1. /\ call'[c].at = "data" /\ call'[c].kind = call[c].kind /\ call'[c].path = call[c].path
        /\ call'[c].old = call[c].old /\ \A o \in Callers \ {c} : call'[o] = call[o]
    BY <1>3, Onward
  <2>2. PICK p \in FilePaths : p = call[c].path
    BY <1>0
  <2>3. tree'[p] = 0 /\ \A f \in FilePaths : f # p => tree'[f] = tree[f]
    BY <1>3, <2>2, PathsAssumption DEF Touched, Paths
  <2>4. open'[c] /\ \A o \in Callers \ {c} : open'[o] = open[o]
    BY <1>3 DEF IInv, Flags
  <2>5. Active(c) /\ Under(p, p) /\ p \in Changes(call[c]) /\ Changes(call'[c]) = Changes(call[c])
    BY <1>0, <2>1, <2>2 DEF Active, Under, Changes
  <2>6. SizeOf(p)' = 0
    BY <2>3 DEF SizeOf, IsFile
  <2>7. call[c].old = SizeOf(p) /\ call[c].old \in Int
    BY <1>0, <2>2 DEF PhaseOK, Op
  <2>8. Off(call'[c]) = -call[c].old
    BY <2>1 DEF Off
  <2>9. SizeOf(p)' - SizeOf(p) = Off(call'[c]) - Off(call[c])
    BY <1>1, <2>6, <2>7, <2>8
  <2>10. PhaseOK(c)'
    BY <1>0, <2>1, <2>2, <2>3, <2>4 DEF PhaseOK
  <2>11. call'[c].at # "swap"
    BY <2>1
  <2> QED
    BY <1>0, <1>1, <2>1, <2>3, <2>4, <2>5, <2>9, <2>10, <2>11, AccountFile
<1> QED
  BY <1>2, <1>3 DEF Touch

\* io.Copy writes to the empty file.
LEMMA AccountData ==
  ASSUME IInv, IInv', Account, NEW c \in Callers, Data(c)
  PROVE  Account'
<1>0. /\ OpOK(call[c]) /\ call[c].at = "data" /\ UNCHANGED usage /\ PhaseOK(c) /\ call[c] \in Op
      /\ call[c].kind \in {"write", "copy"} /\ call[c].path \in FilePaths /\ call[c].path \in Paths
      /\ call[c].old \in Int /\ call[c].old >= 0
  BY SizesBounded DEF IInv, CallInv, Data, At, Account, PhaseInv, OpOK, Paths
<1>1. Off(call[c]) = -call[c].old /\ ~At(c, "swap")
  BY <1>0 DEF Off, At
<1>2. PICK n \in 0 .. Ready(c) :
        /\ tree' = Written(c, n)
        /\ call' = [call EXCEPT ![c].at = "load", ![c].delta = n - call[c].old]
  BY DEF Data
<1>3. n \in 0 .. MaxSize /\ n \in Int /\ n >= 0
  BY ReadyBound, SizesBounded DEF Data
<1>4. call' = [call EXCEPT ![c] = [call[c] EXCEPT !.at = "load", !.delta = n - call[c].old]]
  BY <1>2
<1>5. /\ call'[c] = [call[c] EXCEPT !.at = "load", !.delta = n - call[c].old]
      /\ \A o \in Callers \ {c} : call'[o] = call[o]
  BY <1>4, Own
<1>6. /\ call'[c].at = "load" /\ call'[c].kind = call[c].kind /\ call'[c].path = call[c].path
      /\ call'[c].delta = n - call[c].old
  BY <1>0, <1>5 DEF Op
<1>7. PICK p \in FilePaths : p = call[c].path
  BY <1>0
<1>8. open[c] /\ tree[p] = 0 /\ SizeOf(p) = 0
  BY <1>0, <1>7 DEF PhaseOK, SizeOf, IsFile
<1>9. tree' = [tree EXCEPT ![p] = n]
  <2>1. Max({0, n}) \in {0, n} /\ Max({0, n}) >= n
    BY <1>3, OfTwo
  <2>2. Max({0, n}) = n
    BY <1>3, <2>1
  <2> QED
    BY <1>2, <1>7, <1>8, <2>2 DEF Written
<1>10. tree'[p] = n /\ \A f \in FilePaths : f # p => tree'[f] = tree[f]
  BY <1>9 DEF IInv, DiskInv, Paths
<1>11. SizeOf(p)' = n
  BY <1>3, <1>10, <1>0, <1>7 DEF SizeOf, IsFile
<1>12. \A o \in Callers \ {c} : open'[o] = open[o]
  BY DEF Data, IInv, Flags
<1>13. Active(c) /\ Under(p, p) /\ p \in Changes(call[c]) /\ Changes(call'[c]) = Changes(call[c])
  BY <1>0, <1>6, <1>7 DEF Active, Under, Changes
<1>14. Off(call'[c]) = n - call[c].old
  BY <1>0, <1>6 DEF Off
<1>15. SizeOf(p)' - SizeOf(p) = Off(call'[c]) - Off(call[c])
  BY <1>0, <1>1, <1>3, <1>8, <1>11, <1>14
<1>16. (call[c].delta <= SizeOf(call[c].path))'
  <2>1. call'[c].delta <= n
    BY <1>0, <1>3, <1>6
  <2> QED
    BY <1>6, <1>7, <1>10, <1>3, <2>1 DEF SizeOf, IsFile, Paths
<1>17. PhaseOK(c)'
  BY <1>0, <1>6, <1>16 DEF PhaseOK
<1>18. call'[c].at # "swap"
  BY <1>6
<1> QED
  BY <1>0, <1>1, <1>5, <1>10, <1>12, <1>13, <1>15, <1>17, <1>18, AccountFile

\* Quota.Add never finds a sum below 0.
LEMMA AccountAddLoad ==
  ASSUME IInv, IInv', Account, NEW c \in Callers, AddLoad(c)
  PROVE  Account'
<1>0. /\ OpOK(call[c]) /\ call[c].at = "load" /\ UNCHANGED <<tree, usage, open>> /\ PhaseOK(c)
      /\ call[c] \in Op
  BY DEF IInv, CallInv, AddLoad, At, Account, PhaseInv
<1>1. Active(c) /\ ~At(c, "swap")
  BY <1>0 DEF Active, At, OpOK
<1>2. usage + call[c].delta >= 0 /\ usage \in Int /\ call[c].delta \in Int
  BY <1>0, <1>1, NoSwap, NotTooMuch DEF At, IInv, Flags, Op
<1>3. Go(c, "add")
  BY <1>2 DEF AddLoad
<1>4. /\ call'[c].at = "add" /\ call'[c].kind = call[c].kind /\ call'[c].path = call[c].path
      /\ call'[c].entry = call[c].entry /\ call'[c].old = call[c].old /\ call'[c].delta = call[c].delta
      /\ \A o \in Callers \ {c} : call'[o] = call[o]
  BY <1>3, Onward
<1>5. Off(call'[c]) = Off(call[c])
  BY <1>0, <1>4 DEF Off
<1>6. Changes(call'[c]) = Changes(call[c])
  BY <1>4 DEF Changes
<1>7. PhaseOK(c)'
  BY <1>0, <1>4 DEF PhaseOK, SizeOf, IsFile
<1> QED
  BY <1>0, <1>1, <1>4, <1>5, <1>6, <1>7, AccountQuietly

\* The amount moves from what is still to be added to the counter; a directory's
\* entry is subtracted before it goes.
LEMMA AccountAddDo ==
  ASSUME IInv, IInv', Account, NEW c \in Callers, AddDo(c)
  PROVE  Account'
<1>0. /\ OpOK(call[c]) /\ call[c].at = "add" /\ UNCHANGED <<tree, open>> /\ PhaseOK(c)
      /\ call[c] \in Op /\ call[c].delta \in Int /\ usage \in Int
  <2>1. OpOK(call[c]) /\ PhaseOK(c) /\ call[c] \in Op /\ usage \in Int
    BY DEF IInv, CallInv, Account, PhaseInv, Flags
  <2>2. call[c].at = "add" /\ UNCHANGED <<tree, open>>
    BY <2>1 DEF AddDo, PhaseOK
  <2> QED
    BY <2>1, <2>2 DEF Op
<1>1. Active(c) /\ ~At(c, "swap")
  BY <1>0 DEF Active, At, OpOK
<1>2. usage' = usage + call[c].delta
  BY <1>0 DEF AddDo, At
<1>3. Total' = Total /\ Total \in Int
  BY <1>0, TotalSame, Sized DEF IInv
<1>4. ASSUME \A o \in Callers \ {c} : call'[o] = call[o], PhaseOK(c)', call'[c].at # "swap",
             Off(call'[c]) - Off(call[c]) = -call[c].delta,
             Active(c)' => Changes(call'[c]) = Changes(call[c])
      PROVE  Account'
  <2>1. Spared(c)
    BY <1>0, <1>4, FrameSpares DEF Account, IInv
  <2>2. Total' - Total = (usage' - usage) + (Off(call'[c]) - Off(call[c]))
    BY <1>0, <1>2, <1>3, <1>4
  <2> QED
    BY <1>1, <1>4, <2>1, <2>2, OneStep
<1>5. CASE call[c].kind = "unlink"
  <2>1. Go(c, "unlink")
    BY <1>5 DEF AddDo
  <2>2. /\ call'[c].at = "unlink" /\ call'[c].kind = call[c].kind /\ call'[c].path = call[c].path
        /\ call'[c].entry = call[c].entry /\ call'[c].old = call[c].old /\ call'[c].delta = call[c].delta
        /\ \A o \in Callers \ {c} : call'[o] = call[o]
    BY <2>1, Onward
  <2>3. Off(call'[c]) = -call[c].delta /\ Off(call[c]) = 0
    BY <1>0, <1>5, <2>2 DEF Off
  <2>4. Changes(call'[c]) = Changes(call[c])
    BY <2>2 DEF Changes
  <2>5. PhaseOK(c)'
    BY <1>0, <1>5, <2>2 DEF PhaseOK, SizeOf, IsFile
  <2>6. Off(call'[c]) - Off(call[c]) = -call[c].delta /\ call'[c].at # "swap"
    BY <1>0, <2>2, <2>3
  <2> QED
    BY <1>4, <2>2, <2>4, <2>5, <2>6
<1>6. CASE call[c].kind = "gunzip"
  <2>1. Go(c, "chunk")
    BY <1>6 DEF AddDo
  <2>2. /\ call'[c].at = "chunk" /\ call'[c].kind = call[c].kind /\ call'[c].path = call[c].path
        /\ call'[c].entry = call[c].entry /\ call'[c].old = call[c].old /\ call'[c].delta = call[c].delta
        /\ \A o \in Callers \ {c} : call'[o] = call[o]
    BY <2>1, Onward
  <2>3. Off(call'[c]) = 0 /\ Off(call[c]) = call[c].delta
    BY <1>0, <1>6, <2>2 DEF Off
  <2>4. Changes(call'[c]) = Changes(call[c])
    BY <2>2 DEF Changes
  <2>5. PhaseOK(c)'
    BY <1>0, <1>6, <2>2 DEF PhaseOK
  <2>6. Off(call'[c]) - Off(call[c]) = -call[c].delta /\ call'[c].at # "swap"
    BY <1>0, <2>2, <2>3
  <2> QED
    BY <1>4, <2>2, <2>4, <2>5, <2>6
<1>7. CASE call[c].kind \notin {"unlink", "gunzip"}
  <2>1. Return(c)
    BY <1>7 DEF AddDo
  <2>2. call'[c] = Idle /\ \A o \in Callers \ {c} : call'[o] = call[o]
    BY <2>1, Own DEF Return
  <2>3. Off(call'[c]) = 0 /\ Off(call[c]) = call[c].delta
    BY <1>0, <1>7, <2>2, AtRest DEF Off
  <2>4. Off(call'[c]) - Off(call[c]) = -call[c].delta
    BY <1>0, <2>3
  <2> QED
    BY <1>4, <2>2, <2>4, AtRest
<1> QED
  BY <1>5, <1>6, <1>7

\* The copy's name is free, and nobody else is on it.
LEMMA AccountCopyName ==
  ASSUME IInv, IInv', Account, NEW c \in Callers, CopyName(c), ~drift'
  PROVE  Account'
<1>0. /\ OpOK(call[c]) /\ call[c].at = "name" /\ UNCHANGED <<tree, usage, open>> /\ call[c].kind = "copy"
      /\ call[c] \in Op
  BY DEF IInv, CallInv, CopyName, At, OpOK
<1>1. PICK to : to = FindCopySuffix(call[c].path)
  OBVIOUS
<1>2. ~Overlaps(c, {to}) /\ tree[to] = None /\ call' = [call EXCEPT ![c].at = "create", ![c].path = to]
  BY <1>1 DEF CopyName
<1>3. call' = [call EXCEPT ![c] = [call[c] EXCEPT !.at = "create", !.path = to]]
  BY <1>2
<1>4. /\ call'[c] = [call[c] EXCEPT !.at = "create", !.path = to]
      /\ \A o \in Callers \ {c} : call'[o] = call[o]
  BY <1>3, Own
<1>5. call'[c].at = "create" /\ call'[c].kind = "copy" /\ call'[c].path = to
  BY <1>0, <1>4 DEF Op
<1>6. Off(call'[c]) = Off(call[c]) /\ ~At(c, "swap")
  BY <1>0, <1>5 DEF Off, At
<1>7. Changes(call'[c]) = {to}
  BY <1>5 DEF Changes
<1>8. PhaseOK(c)'
  BY <1>0, <1>2, <1>5 DEF PhaseOK
<1> QED
  BY <1>0, <1>2, <1>4, <1>6, <1>7, <1>8, AccountQuietly

\* The file is created empty, or opened as it is.
LEMMA AccountCopyCreate ==
  ASSUME IInv, IInv', Account, NEW c \in Callers, CopyCreate(c)
  PROVE  Account'
<1>0. /\ OpOK(call[c]) /\ call[c].at = "create" /\ UNCHANGED usage /\ PhaseOK(c) /\ call[c] \in Op
      /\ call[c].kind \in {"copy", "gunzip"} /\ call[c].path \in FilePaths /\ call[c].path \in Paths
      /\ call[c].old = 0
  BY DEF IInv, CallInv, CopyCreate, At, Account, PhaseInv, OpOK, Paths
<1>1. Off(call[c]) = 0 /\ ~At(c, "swap")
  BY <1>0 DEF Off, At
<1>2. CASE Return(c) /\ UNCHANGED <<tree, open>>
  BY <1>0, <1>1, <1>2, AccountReturn
<1>3. CASE /\ tree' = Created(call[c].path) /\ open' = [open EXCEPT ![c] = TRUE]
           /\ Go(c, IF call[c].kind = "copy" THEN "data" ELSE "chunk")
  <2>1. /\ call'[c].at = IF call[c].kind = "copy" THEN "data" ELSE "chunk"
        /\ call'[c].kind = call[c].kind /\ call'[c].path = call[c].path
        /\ call'[c].old = call[c].old /\ \A o \in Callers \ {c} : call'[o] = call[o]
    BY <1>3, Onward
  <2>2. PICK p \in FilePaths : p = call[c].path
    BY <1>0
  <2>3. SizeOf(p) \in Int /\ SizeOf(p) >= 0
    BY <1>0, <2>2, SizeBound, SizesBounded DEF IInv
  <2>4. tree'[p] = SizeOf(p) /\ \A f \in FilePaths : f # p => tree'[f] = tree[f]
    BY <1>0, <1>3, <2>2 DEF Created, IInv, DiskInv, Paths
  <2>5. open'[c] /\ \A o \in Callers \ {c} : open'[o] = open[o]
    BY <1>3 DEF IInv, Flags
  <2>6. Active(c) /\ Under(p, p) /\ p \in Changes(call[c]) /\ Changes(call'[c]) = Changes(call[c])
    BY <1>0, <2>1, <2>2 DEF Active, Under, Changes
  <2>7. SizeOf(p)' = tree'[p]
    BY <1>0, <2>2, <2>3, <2>4 DEF SizeOf, IsFile
  <2>8. Off(call'[c]) = 0
    <3>1. call'[c].at \in {"data", "chunk"} /\ call'[c].old = 0
      BY <1>0, <2>1
    <3>2. PICK n \in Int : n = call'[c].old /\ n <= 0 /\ n >= 0
      BY <3>1
    <3>3. -n = 0
      BY <3>2
    <3>4. -call'[c].old = 0
      BY <3>2, <3>3, Zenon
    <3> QED
      BY <3>1, <3>4, Zenon DEF Off
  <2>9. SizeOf(p)' - SizeOf(p) = Off(call'[c]) - Off(call[c])
    BY <1>1, <2>3, <2>4, <2>7, <2>8
  <2>10. call[c].kind = "copy" => SizeOf(p) = 0
    BY <1>0, <2>2 DEF PhaseOK, SizeOf, IsFile, None
  <2>11. PhaseOK(c)'
    BY <1>0, <2>1, <2>2, <2>3, <2>4, <2>5, <2>10 DEF PhaseOK
  <2>12. call'[c].at # "swap"
    BY <2>1
  <2> QED
    BY <1>0, <1>1, <2>1, <2>4, <2>5, <2>6, <2>9, <2>11, <2>12, AccountFile
<1> QED
  BY <1>2, <1>3 DEF CopyCreate

\* A unit is written behind what the file holds.
LEMMA AccountChunk ==
  ASSUME IInv, IInv', Account, NEW c \in Callers, Chunk(c), ~drift'
  PROVE  Account'
<1>0. /\ OpOK(call[c]) /\ call[c].at = "chunk" /\ UNCHANGED usage /\ PhaseOK(c) /\ call[c] \in Op
      /\ call[c].kind = "gunzip" /\ call[c].path \in FilePaths /\ call[c].path \in Paths
      /\ call[c].old \in Int /\ call[c].old >= 0
  BY SizesBounded DEF IInv, CallInv, Chunk, At, Account, PhaseInv, OpOK, Paths
<1>1. Off(call[c]) = 0 /\ ~At(c, "swap")
  BY <1>0 DEF Off, At
<1>2. CASE Return(c) /\ open' = [open EXCEPT ![c] = FALSE] /\ UNCHANGED tree
  <2>1. \A o \in Callers \ {c} : open'[o] = open[o]
    BY <1>2 DEF IInv, Flags
  <2> QED
    BY <1>0, <1>1, <1>2, <2>1, AccountReturn
<1>3. CASE /\ drift' = (drift \/ (open[c] /\ call[c].old + 1 <= SizeOf(call[c].path)))
           /\ tree' = Written(c, call[c].old + 1)
           /\ call' = [call EXCEPT ![c].at = "load", ![c].old = call[c].old + 1, ![c].delta = 1]
           /\ UNCHANGED open
  <2>1. PICK p \in FilePaths, n \in Int : p = call[c].path /\ n = call[c].old + 1
    BY <1>0
  <2>2. call' = [call EXCEPT ![c] = [call[c] EXCEPT !.at = "load", !.old = n, !.delta = 1]]
    BY <1>3, <2>1
  <2>3. /\ call'[c] = [call[c] EXCEPT !.at = "load", !.old = n, !.delta = 1]
        /\ \A o \in Callers \ {c} : call'[o] = call[o]
    BY <2>2, Own
  <2>4. /\ call'[c].at = "load" /\ call'[c].kind = "gunzip" /\ call'[c].path = p
        /\ call'[c].old = n /\ call'[c].delta = 1
    BY <1>0, <2>1, <2>3 DEF Op
  <2>5. open[c] /\ tree[p] >= call[c].old
    BY <1>0, <2>1 DEF PhaseOK
  <2>6. tree[p] \in Int /\ SizeOf(p) = tree[p]
    BY <1>0, <2>1, <2>5, SizesBounded DEF IInv, DiskInv, SizeOf, IsFile, None, Dir
  <2>7. ~(n <= SizeOf(p))
    BY <1>3, <2>1, <2>5
  <2>8. SizeOf(p) = call[c].old /\ SizeOf(p) = n - 1 /\ n >= 1
    BY <1>0, <2>1, <2>5, <2>6, <2>7
  <2>9. Max({SizeOf(p), n}) = n
    <3>1. SizeOf(p) \in Int
      BY <2>6
    <3>2. Max({SizeOf(p), n}) \in {SizeOf(p), n} /\ Max({SizeOf(p), n}) >= n
      BY <3>1, OfTwo
    <3> QED
      BY <2>7, <3>1, <3>2
  <2>10. tree' = [tree EXCEPT ![p] = n]
    BY <1>3, <2>1, <2>5, <2>9 DEF Written
  <2>11. tree'[p] = n /\ \A f \in FilePaths : f # p => tree'[f] = tree[f]
    BY <2>10 DEF IInv, DiskInv, Paths
  <2>12. SizeOf(p)' = n
    BY <1>0, <2>1, <2>8, <2>11 DEF SizeOf, IsFile
  <2>13. Off(call'[c]) = 1
    BY <2>4 DEF Off
  <2>14. SizeOf(p)' - SizeOf(p) = Off(call'[c]) - Off(call[c])
    BY <1>1, <2>8, <2>12, <2>13
  <2>15. Active(c) /\ Under(p, p) /\ p \in Changes(call[c]) /\ Changes(call'[c]) = Changes(call[c])
    BY <1>0, <2>1, <2>4 DEF Active, Under, Changes
  <2>16. PhaseOK(c)'
    <3>1. (call[c].delta <= SizeOf(call[c].path))'
      BY <2>4, <2>8, <2>11, <1>0, <2>1 DEF SizeOf, IsFile
    <3> QED
      BY <1>3, <2>4, <2>5, <2>11, <3>1 DEF PhaseOK
  <2>17. call'[c].at # "swap" /\ \A o \in Callers \ {c} : open'[o] = open[o]
    BY <1>3, <2>4
  <2> QED
    BY <1>0, <1>1, <2>3, <2>11, <2>14, <2>15, <2>16, <2>17, AccountFile
<1> QED
  BY <1>2, <1>3 DEF Chunk

\* An entry of the disk goes; the handles of the others stay.
LEMMA Drop ==
  ASSUME IInv, Apart, NEW c \in Callers, Active(c), NEW p \in FilePaths,
         \E q \in Changes(call[c]) : Under(p, q), tree' = Unlinked(p), open' = Detached({p})
  PROVE  /\ \A o \in Callers \ {c} : open'[o] = open[o]
         /\ tree'[p] = None /\ \A f \in FilePaths : f # p => tree'[f] = tree[f]
         /\ SizeOf(p)' = 0
<1>1. ASSUME NEW o \in Callers \ {c} PROVE open'[o] = open[o]
  <2>1. open'[o] = (open[o] /\ call[o].path \notin {p})
    BY DEF Detached
  <2>2. open[o] => call[o].path # p
    BY HandlesApart
  <2>3. open[o] \in BOOLEAN
    BY DEF IInv, Flags
  <2> QED
    BY <2>1, <2>2, <2>3
<1>2. tree'[p] = None /\ \A f \in FilePaths : f # p => tree'[f] = tree[f]
  BY DEF Unlinked, IInv, DiskInv, Paths
<1>3. SizeOf(p)' = 0
  BY <1>2 DEF SizeOf, IsFile, None
<1> QED
  BY <1>1, <1>2, <1>3

\* Delete: the file goes and its size is subtracted later; the rest changes no file.
LEMMA AccountRemove ==
  ASSUME IInv, IInv', Account, NEW c \in Callers, Remove(c)
  PROVE  Account'
<1>0. /\ OpOK(call[c]) /\ call[c].at = "remove" /\ UNCHANGED usage /\ PhaseOK(c) /\ call[c] \in Op
      /\ call[c].kind = "delete" /\ call[c].path \in Paths /\ call[c].old \in Int /\ call[c].old >= 0
  BY SizesBounded DEF IInv, CallInv, Remove, At, Account, PhaseInv, OpOK
<1>1. Off(call[c]) = 0 /\ ~At(c, "swap") /\ Active(c)
  BY <1>0 DEF Off, At, Active
<1>2. CASE Return(c) /\ UNCHANGED <<tree, open>>
  BY <1>0, <1>1, <1>2, AccountReturn
<1>3. CASE /\ call[c].path \in FilePaths /\ tree' = Unlinked(call[c].path)
           /\ open' = Detached({call[c].path})
           /\ call' = [call EXCEPT ![c].at = "load", ![c].delta = -call[c].old]
  <2>1. PICK p \in FilePaths : p = call[c].path
    BY <1>3
  <2>2. call' = [call EXCEPT ![c] = [call[c] EXCEPT !.at = "load", !.delta = -call[c].old]]
    BY <1>3
  <2>3. /\ call'[c] = [call[c] EXCEPT !.at = "load", !.delta = -call[c].old]
        /\ \A o \in Callers \ {c} : call'[o] = call[o]
    BY <2>2, Own
  <2>4. /\ call'[c].at = "load" /\ call'[c].kind = "delete" /\ call'[c].path = p
        /\ call'[c].delta = -call[c].old
    BY <1>0, <2>1, <2>3 DEF Op
  <2>5. Under(p, p) /\ p \in Changes(call[c]) /\ Changes(call'[c]) = Changes(call[c])
    BY <1>0, <2>1, <2>4 DEF Under, Changes
  <2>6. /\ \A o \in Callers \ {c} : open'[o] = open[o]
        /\ \A f \in FilePaths : f # p => tree'[f] = tree[f]
        /\ SizeOf(p)' = 0 /\ tree'[p] = None
    BY <1>1, <1>3, <2>1, <2>5, Drop DEF Account
  <2>7. Off(call'[c]) = -call[c].old
    BY <2>4 DEF Off
  <2>8. call[c].old = SizeOf(p)
    BY <1>0, <2>1 DEF PhaseOK
  <2>9. SizeOf(p)' - SizeOf(p) = Off(call'[c]) - Off(call[c])
    BY <1>0, <1>1, <2>6, <2>7, <2>8
  <2>10. PhaseOK(c)'
    <3>1. (call[c].delta <= SizeOf(call[c].path))'
      BY <1>0, <2>4, <2>6 DEF SizeOf, IsFile, None
    <3> QED
      BY <2>4, <3>1 DEF PhaseOK
  <2>11. call'[c].at # "swap"
    BY <2>4
  <2> QED
    BY <1>0, <1>1, <2>3, <2>5, <2>6, <2>9, <2>10, <2>11, AccountFile
<1>4. CASE call[c].path \in DirPaths /\ tree' = Unlinked(call[c].path) /\ Return(c) /\ UNCHANGED open
  <2>1. \A f \in FilePaths : tree'[f] = tree[f]
    BY <1>4, PathsAssumption DEF Unlinked, IInv, DiskInv, Paths
  <2>2. call'[c] = Idle /\ \A o \in Callers \ {c} : call'[o] = call[o]
    BY <1>4, Own DEF Return
  <2> QED
    BY <1>0, <1>1, <1>4, <2>1, <2>2, AtRest, AccountFiles
<1>5. CASE /\ UNCHANGED <<tree, open>>
           /\ \E t : call' = [call EXCEPT ![c].at = "entries", ![c].kind = "unlink", ![c].todo = t]
  <2>1. PICK t : call' = [call EXCEPT ![c] = [call[c] EXCEPT !.at = "entries", !.kind = "unlink", !.todo = t]]
    BY <1>5
  <2>2. /\ call'[c] = [call[c] EXCEPT !.at = "entries", !.kind = "unlink", !.todo = t]
        /\ \A o \in Callers \ {c} : call'[o] = call[o]
    BY <2>1, Own
  <2>3. call'[c].at = "entries" /\ call'[c].kind = "unlink" /\ call'[c].path = call[c].path
    BY <1>0, <2>2 DEF Op
  <2>4. PhaseOK(c)' /\ Off(call'[c]) = 0 /\ Changes(call'[c]) = Changes(call[c])
    BY <1>0, <2>3 DEF PhaseOK, Off, Changes
  <2> QED
    BY <1>0, <1>1, <1>5, <2>2, <2>4, AccountQuietly
<1> QED
  BY <1>2, <1>3, <1>4, <1>5 DEF Remove

\* A directory's entry is looked at.
LEMMA AccountEntry ==
  ASSUME IInv, IInv', Account, NEW c \in Callers, Entry(c)
  PROVE  Account'
<1>0. /\ OpOK(call[c]) /\ call[c].at = "entries" /\ UNCHANGED <<tree, usage, open>> /\ call[c] \in Op
      /\ call[c].kind = "unlink"
  BY DEF IInv, CallInv, Entry, At, OpOK
<1>1. Off(call[c]) = 0 /\ ~At(c, "swap") /\ Active(c)
  BY <1>0 DEF Off, At, Active
<1>2. CASE Go(c, "rmdir")
  <2>1. /\ call'[c].at = "rmdir" /\ call'[c].kind = call[c].kind /\ call'[c].path = call[c].path
        /\ \A o \in Callers \ {c} : call'[o] = call[o]
    BY <1>2, Onward
  <2>2. PhaseOK(c)' /\ Off(call'[c]) = 0 /\ Changes(call'[c]) = Changes(call[c])
    BY <1>0, <2>1 DEF PhaseOK, Off, Changes
  <2> QED
    BY <1>0, <1>1, <2>1, <2>2, AccountQuietly
<1>3. ASSUME NEW p \in call[c].todo,
             call' = [call EXCEPT ![c].at = IF IsFile(p) THEN "load" ELSE "entries",
                                  ![c].entry = p, ![c].delta = -SizeOf(p), ![c].todo = @ \ {p}]
      PROVE  Account'
  <2>1. PICK s, n, t : /\ s = IF IsFile(p) THEN "load" ELSE "entries"
                       /\ n = -SizeOf(p) /\ t = call[c].todo \ {p}
    OBVIOUS
  <2>2. call' = [call EXCEPT ![c] = [call[c] EXCEPT !.at = s, !.entry = p, !.delta = n, !.todo = t]]
    BY <1>3, <2>1
  <2>3. /\ call'[c] = [call[c] EXCEPT !.at = s, !.entry = p, !.delta = n, !.todo = t]
        /\ \A o \in Callers \ {c} : call'[o] = call[o]
    BY <2>2, Own
  <2>4. /\ call'[c].at = s /\ call'[c].kind = "unlink" /\ call'[c].path = call[c].path
        /\ call'[c].entry = p /\ call'[c].delta = n
    BY <1>0, <2>3 DEF Op
  <2>5. s \in {"load", "entries"}
    BY <2>1
  <2>6. SizeOf(p)' = SizeOf(p)
    BY <1>0 DEF SizeOf, IsFile
  <2>7. PhaseOK(c)'
    BY <2>1, <2>4, <2>5, <2>6 DEF PhaseOK
  <2>8. Off(call'[c]) = 0 /\ Changes(call'[c]) = Changes(call[c])
    BY <1>0, <2>4, <2>5 DEF Off, Changes
  <2> QED
    BY <1>0, <1>1, <2>3, <2>7, <2>8, AccountQuietly
<1> QED
  BY <1>2, <1>3 DEF Entry

\* The entry goes after its size was subtracted.
LEMMA AccountUnlink ==
  ASSUME IInv, IInv', Account, NEW c \in Callers, Unlink(c), ~drift'
  PROVE  Account'
<1>0. /\ OpOK(call[c]) /\ call[c].at = "unlink" /\ UNCHANGED usage /\ PhaseOK(c) /\ call[c] \in Op
      /\ call[c].kind = "unlink" /\ Under(call[c].entry, call[c].path) /\ call[c].delta \in Int
  BY DEF IInv, CallInv, Unlink, At, Account, PhaseInv, OpOK, Op
<1>1. Off(call[c]) = -call[c].delta /\ ~At(c, "swap") /\ Active(c)
  BY <1>0 DEF Off, At, Active
<1>2. PICK p \in FilePaths : p = call[c].entry
  BY <1>0 DEF Under
<1>3. tree' = Unlinked(p) /\ open' = Detached({p}) /\ Go(c, "entries")
  BY <1>2 DEF Unlink
<1>4. /\ call'[c].at = "entries" /\ call'[c].kind = call[c].kind /\ call'[c].path = call[c].path
      /\ \A o \in Callers \ {c} : call'[o] = call[o]
  BY <1>3, Onward
<1>5. \E q \in Changes(call[c]) : Under(p, q)
  BY <1>0, <1>2 DEF Changes
<1>6. /\ \A o \in Callers \ {c} : open'[o] = open[o]
      /\ \A f \in FilePaths : f # p => tree'[f] = tree[f]
      /\ SizeOf(p)' = 0
  BY <1>1, <1>3, <1>5, Drop DEF Account
<1>7. call[c].delta = -SizeOf(p) /\ SizeOf(p) \in Int
  BY <1>0, <1>2, SizeBound, SizesBounded DEF PhaseOK, IInv, Paths
<1>8. PhaseOK(c)' /\ Off(call'[c]) = 0 /\ Changes(call'[c]) = Changes(call[c]) /\ call'[c].at # "swap"
  BY <1>0, <1>4 DEF PhaseOK, Off, Changes
<1>9. SizeOf(p)' - SizeOf(p) = Off(call'[c]) - Off(call[c])
  BY <1>0, <1>1, <1>6, <1>7, <1>8
<1> QED
  BY <1>0, <1>1, <1>4, <1>5, <1>6, <1>8, <1>9, AccountFile

\* The emptied directory goes.
LEMMA AccountRmdir ==
  ASSUME IInv, IInv', Account, NEW c \in Callers, Rmdir(c)
  PROVE  Account'
<1>0. call[c].at = "rmdir" /\ UNCHANGED <<usage, open>> /\ Return(c)
  BY DEF Rmdir, At
<1>1. Off(call[c]) = 0 /\ ~At(c, "swap")
  BY <1>0 DEF Off, At
<1>2. \A f \in FilePaths : tree'[f] = tree[f]
  BY PathsAssumption DEF Rmdir, Unlinked, IInv, DiskInv, Paths
<1>3. call'[c] = Idle /\ \A o \in Callers \ {c} : call'[o] = call[o]
  BY <1>0, Own DEF Return
<1> QED
  BY <1>0, <1>1, <1>2, <1>3, AtRest, AccountFiles

\* A file moves: one path gains what the other loses, and loses what it had.
LEMMA Moved ==
  ASSUME DiskInv, DiskInv', NEW p \in FilePaths, NEW q \in FilePaths, p # q,
         tree' = [tree EXCEPT ![q] = tree[p], ![p] = None]
  PROVE  Total' = Total - SizeOf(q) /\ \A f \in FilePaths \ {p, q} : tree'[f] = tree[f]
<1> DEFINE f == [x \in Paths |-> SizeOf(x)]
           g == [x \in Paths |-> SizeOf(x)']
           h == [f EXCEPT ![p] = 0]
<1>1. p \in Paths /\ q \in Paths /\ f \in [Paths -> Int] /\ Total = SumFunctionOnSet(f, Paths)
  BY Sized DEF Total, Paths
<1>2. g \in [Paths -> Int] /\ Total' = SumFunctionOnSet(g, Paths)
  BY NextTotal
<1>3. tree'[q] = tree[p] /\ tree'[p] = None /\ \A x \in FilePaths \ {p, q} : tree'[x] = tree[x]
  BY DEF DiskInv, Paths
<1>4. SizeOf(p)' = 0 /\ SizeOf(q)' = SizeOf(p)
  BY <1>1, <1>3 DEF SizeOf, IsFile, None
<1>5. \A x \in Paths \ {p, q} : SizeOf(x)' = SizeOf(x)
  BY <1>3, SizesKept DEF Paths
<1>6. f[p] = SizeOf(p) /\ g[q] = SizeOf(p) /\ f[q] = SizeOf(q) /\ g[p] = 0 /\ f[p] \in Int /\ f[q] \in Int
  BY <1>1, <1>4
<1>7. \A x \in Paths \ {p, q} : g[x] = f[x]
  BY <1>5
<1> HIDE DEF f, g
<1>8. h \in [Paths -> Int] /\ h[p] = 0 /\ h[q] = f[q] /\ \A x \in Paths : x # p => h[x] = f[x]
  BY <1>1, <1>6
<1>9. \A x \in Paths : x # q => g[x] = h[x]
  BY <1>6, <1>7, <1>8
<1> HIDE DEF h
<1>10. SumFunctionOnSet(h, Paths) = SumFunctionOnSet(f, Paths) - f[p] + h[p]
  BY <1>1, <1>8, SumUpdate, Finite
<1>11. SumFunctionOnSet(g, Paths) = SumFunctionOnSet(h, Paths) - h[q] + g[q]
  BY <1>1, <1>2, <1>8, <1>9, SumUpdate, Finite
<1>12. SumFunctionOnSet(f, Paths) \in Int
  BY <1>1, SumType, Finite
<1>13. Total' = Total - SizeOf(q)
  BY <1>1, <1>2, <1>6, <1>8, <1>10, <1>11, <1>12
<1> QED
  BY <1>3, <1>13

\* The file moves with its size; nobody else holds either name.
LEMMA AccountRename ==
  ASSUME IInv, IInv', Account, NEW c \in Callers, Rename(c)
  PROVE  Account'
<1>0. /\ OpOK(call[c]) /\ call[c].at = "rename" /\ UNCHANGED usage /\ PhaseOK(c) /\ usage \in Int
      /\ call[c].kind = "rename" /\ call[c].path \in FilePaths /\ call[c].entry \in FilePaths
      /\ call[c].path # call[c].entry
  BY DEF IInv, CallInv, Rename, At, Account, PhaseInv, OpOK, Flags
<1>1. Off(call[c]) = 0 /\ ~At(c, "swap") /\ Active(c)
  BY <1>0 DEF Off, At, Active
<1>2. CASE Return(c) /\ UNCHANGED <<tree, open>>
  BY <1>0, <1>1, <1>2, AccountReturn
<1>3. PICK p \in FilePaths, q \in FilePaths : p = call[c].entry /\ q = call[c].path /\ p # q
  BY <1>0
<1>4. CASE /\ tree' = [tree EXCEPT ![q] = tree[p], ![p] = None]
           /\ open' = Detached({q})
           /\ call' = [o \in Callers |->
                         IF o = c THEN Idle
                         ELSE IF open[o] /\ call[o].path = p
                         THEN [call[o] EXCEPT !.path = q] ELSE call[o]]
  <2>1. tree[q] = None
    BY <1>0, <1>3 DEF PhaseOK
  <2>2. Total' = Total /\ \A f \in FilePaths \ {p, q} : tree'[f] = tree[f]
    <3>1. SizeOf(q) = 0 /\ Total \in Int
      BY <2>1, Sized DEF SizeOf, IsFile, None, IInv
    <3>2. Total' = Total - SizeOf(q) /\ \A f \in FilePaths \ {p, q} : tree'[f] = tree[f]
      BY <1>3, <1>4, Moved DEF IInv
    <3> QED
      BY <3>1, <3>2
  <2>3. Under(p, p) /\ Under(q, q) /\ p \in Changes(call[c]) /\ q \in Changes(call[c])
    BY <1>0, <1>3 DEF Under, Changes
  <2>4. ASSUME NEW o \in Callers \ {c}, open[o] PROVE call[o].path # p /\ call[o].path # q
    BY <1>1, <2>3, <2>4, HandlesApart DEF Account
  <2>5. ASSUME NEW o \in Callers \ {c} PROVE call'[o] = call[o] /\ open'[o] = open[o]
    <3>1. call'[o] = call[o]
      BY <1>4, <2>4
    <3>2. open'[o] = (open[o] /\ call[o].path \notin {q}) /\ open[o] \in BOOLEAN
      BY <1>4 DEF Detached, IInv, Flags
    <3> QED
      BY <2>4, <3>1, <3>2
  <2>6. call'[c] = Idle
    BY <1>4
  <2>7. \A f \in FilePaths : tree'[f] = tree[f] \/ (Active(c) /\ \E r \in Changes(call[c]) : Under(f, r))
    BY <1>1, <2>2, <2>3
  <2>8. Spared(c)
    BY <2>5, <2>7, FrameSpares DEF Account, IInv
  <2>9. Total \in Int
    BY Sized DEF IInv
  <2>10. Total' - Total = (usage' - usage) + (Off(call'[c]) - Off(call[c]))
    BY <1>0, <1>1, <2>2, <2>6, <2>9, AtRest
  <2> QED
    BY <1>1, <2>6, <2>8, <2>10, AtRest, OneStep
<1> QED
  BY <1>2, <1>3, <1>4 DEF Rename

\* Panic only returns.
LEMMA AccountPanic ==
  ASSUME IInv, IInv', Account, NEW c \in Callers, Panic(c)
  PROVE  Account'
<1>1. Off(call[c]) = 0 /\ ~At(c, "swap")
  BY DEF Panic, Off, At
<1>2. Return(c) /\ UNCHANGED <<tree, usage>> /\ \A o \in Callers \ {c} : open'[o] = open[o]
  BY DEF Panic
<1> QED
  BY <1>1, <1>2, AccountReturn

\* Only one goroutine walks.
LEMMA OneWalks ==
  ASSUME IInv
  PROVE  /\ mu = Root => \A o \in Callers : ~At(o, "walk")
         /\ \A c, o \in Callers : At(c, "walk") /\ At(o, "walk") => c = o
BY PathsAssumption DEF IInv, MutexInv

\* Nothing is under way and the counter is the size of the volume.
Rests == /\ \A o \in Callers : ~Active(o) /\ (At(o, "walk") => call[o].quiet)
         /\ usage = Total

\* Then the account is right.
LEMMA RestSettles == IInv /\ Rests => Account
BY Settled DEF Rests

\* TruncateRootDirectory was alone; the new counter is 0 as the volume is empty.
LEMMA AccountSwapQuota ==
  ASSUME IInv, IInv', Account, NEW c \in Callers, SwapQuota(c)
  PROVE  Account'
<1>0. OpOK(call[c]) /\ At(c, "swap") /\ usage' = 0 /\ UNCHANGED <<tree, mu>> /\ Return(c) /\ PhaseOK(c)
  BY DEF IInv, CallInv, SwapQuota, Account, PhaseInv
<1>1. call'[c] = Idle /\ \A o \in Callers \ {c} : call'[o] = call[o]
  BY <1>0, Own DEF Return
<1>2. ASSUME NEW o \in Callers \ {c} PROVE ~Active(o)
  <2>1. Active(c) /\ Root \in Changes(call[c])
    BY <1>0 DEF OpOK, At, Active, Changes
  <2>2. call[o].path \in Changes(call[o]) /\ Near(Root, call[o].path)
    BY DEF Changes, Near
  <2> QED
    BY <2>1, <2>2 DEF Account, Apart
<1>3. \A o \in Callers : ~Active(o)'
  BY <1>1, <1>2, AtRest DEF Active
<1>4. \A o \in Callers : (At(o, "walk") => call[o].quiet)'
  BY <1>1 DEF At, Idle, Account, PhaseInv, PhaseOK
<1>5. Total' = 0
  <2>1. \A f \in FilePaths : tree[f] = None
    BY <1>0 DEF PhaseOK, At
  <2>2. Total = 0
    BY <2>1, TotalEmpty DEF IInv
  <2>3. Total' = Total
    BY <1>0, TotalSame DEF IInv
  <2> QED
    BY <2>2, <2>3
<1>6. (usage = Total)'
  BY <1>0, <1>5
<1>7. Rests'
  BY <1>3, <1>4, <1>6 DEF Rests
<1> QED
  BY <1>7, RestSettles, PTL

\* The lookup takes the lock while nothing is under way.
LEMMA AccountLockMu ==
  ASSUME IInv, IInv', Account, NEW c \in Callers, LockMu(c), ~drift'
  PROVE  Account'
<1>0. OpOK(call[c]) /\ call[c].at = "lock" /\ UNCHANGED <<tree, usage, open>> /\ call[c] \in Op
  <2>1. OpOK(call[c]) /\ call[c] \in Op
    BY DEF IInv, CallInv
  <2>2. call[c].at = "lock" /\ UNCHANGED <<tree, usage, open>>
    BY Zenon DEF LockMu, At
  <2> QED
    BY <2>1, <2>2
<1>1. \A o \in Callers : ~Active(o)
  BY DEF LockMu
<1>2. PICK q : q = (\A o \in Callers : ~Active(o))
  OBVIOUS
<1>3. q
  BY <1>1, <1>2
<1>4. call' = [call EXCEPT ![c] = [call[c] EXCEPT !.at = "walk", !.todo = FilePaths, !.quiet = q]]
  BY <1>2 DEF LockMu
<1>5. /\ call'[c] = [call[c] EXCEPT !.at = "walk", !.todo = FilePaths, !.quiet = q]
      /\ \A o \in Callers \ {c} : call'[o] = call[o]
  BY <1>4, Own
<1>6. call'[c].at = "walk" /\ call'[c].kind = call[c].kind /\ call'[c].quiet = q
  BY <1>0, <1>5 DEF Op
<1>7. call'[c].kind = "scan"
  BY <1>0, <1>6 DEF OpOK
<1>8. PhaseOK(c)' /\ ~Active(c)'
  BY <1>3, <1>6, <1>7 DEF PhaseOK, Active
<1>9. Off(call'[c]) = Off(call[c]) /\ ~At(c, "swap")
  BY <1>0, <1>6 DEF Off, At
<1> QED
  BY <1>0, <1>5, <1>8, <1>9, AccountQuietly

\* The walk only reads.
LEMMA AccountWalk ==
  ASSUME IInv, IInv', Account, NEW c \in Callers, Walk(c), ~drift'
  PROVE  Account'
<1>0. OpOK(call[c]) /\ call[c].at = "walk" /\ UNCHANGED <<tree, usage, open>> /\ call[c] \in Op /\ PhaseOK(c)
  BY DEF IInv, CallInv, Walk, At, Account, PhaseInv
<1>1. PICK t, n : call' = [call EXCEPT ![c].todo = t, ![c].new = n]
  BY DEF Walk
<1>2. call' = [call EXCEPT ![c] = [call[c] EXCEPT !.todo = t, !.new = n]]
  BY <1>1
<1>3. /\ call'[c] = [call[c] EXCEPT !.todo = t, !.new = n]
      /\ \A o \in Callers \ {c} : call'[o] = call[o]
  BY <1>2, Own
<1>4. call'[c].at = "walk" /\ call'[c].kind = call[c].kind /\ call'[c].quiet = call[c].quiet
  BY <1>0, <1>3 DEF Op
<1>5. call'[c].kind = "scan"
  BY <1>0, <1>4 DEF OpOK
<1>6. PhaseOK(c)' /\ ~Active(c)'
  BY <1>0, <1>4, <1>5 DEF PhaseOK, Active
<1>7. Off(call'[c]) = Off(call[c]) /\ ~At(c, "swap")
  BY <1>0, <1>4 DEF Off, At
<1> QED
  BY <1>0, <1>3, <1>6, <1>7, AccountQuietly

\* What an undisturbed lookup stores is the size of the volume.
LEMMA AccountSetUsage ==
  ASSUME IInv, IInv', ~drift => Account, WalkInv, NEW c \in Callers, SetUsage(c), ~drift'
  PROVE  Account'
<1>0. /\ call[c].at = "walk" /\ UNCHANGED tree /\ Return(c) /\ usage' = call[c].new
      /\ call[c].todo = {} /\ call[c].new \in Int
  BY DEF SetUsage, At, IInv, CallInv, Op
<1>1. call[c].quiet
  <2>1. ~drift \/ call[c].quiet
    BY DEF SetUsage
  <2>2. ~drift => call[c].quiet
    BY <1>0 DEF Account, PhaseInv, PhaseOK
  <2> QED
    BY <2>1, <2>2
<1>2. (\A o \in Callers : ~Active(o)) /\ call[c].new + Left(c) = Total
  BY <1>0, <1>1 DEF WalkInv, At
<1>3. Left(c) = 0
  <2> DEFINE f == [p \in Paths |-> IF p \in call[c].todo THEN SizeOf(p) ELSE 0]
  <2>1. f \in [Paths -> Int] /\ \A p \in Paths : f[p] = 0
    BY <1>0
  <2>2. Left(c) = SumFunctionOnSet(f, Paths)
    BY DEF Left
  <2> HIDE DEF f
  <2> QED
    BY <2>1, <2>2, SumZero, Finite
<1>4. usage' = Total
  BY <1>0, <1>2, <1>3
<1>5. Total' = Total
  BY <1>0, TotalSame DEF IInv
<1>6. call'[c] = Idle /\ \A o \in Callers \ {c} : call'[o] = call[o]
  BY <1>0, Own DEF Return
<1>7. \A o \in Callers : ~Active(o)'
  BY <1>2, <1>6, AtRest DEF Active
<1>8. \A o \in Callers : ~At(o, "walk")'
  BY <1>0, <1>6, OneWalks DEF At, Idle
<1>9. Rests'
  BY <1>4, <1>5, <1>7, <1>8 DEF Rests
<1> QED
  BY <1>9, RestSettles, PTL

-----------------------------------------------------------------------------
(* The account when an operation begins.                                     *)

\* What an operation that begins does to the others.
LEMMA Begun ==
  ASSUME IInv, NEW c \in Callers, NEW r, Start(c, r)
  PROVE  /\ call'[c] = r /\ At(c, "idle") /\ calls' = calls + 1
         /\ \A o \in Callers \ {c} :
              /\ call'[o].at = call[o].at /\ call'[o].kind = call[o].kind /\ call'[o].path = call[o].path
              /\ call'[o].entry = call[o].entry /\ call'[o].old = call[o].old
              /\ call'[o].delta = call[o].delta /\ call'[o].new = call[o].new
              /\ call'[o].todo = call[o].todo /\ ~call'[o].quiet
<1>1. call'[c] = r /\ At(c, "idle") /\ calls' = calls + 1
  BY DEF Start
<1>2. ASSUME NEW o \in Callers \ {c}
      PROVE  /\ call'[o].at = call[o].at /\ call'[o].kind = call[o].kind /\ call'[o].path = call[o].path
             /\ call'[o].entry = call[o].entry /\ call'[o].old = call[o].old
             /\ call'[o].delta = call[o].delta /\ call'[o].new = call[o].new
             /\ call'[o].todo = call[o].todo /\ ~call'[o].quiet
  <2>1. call'[o] = [call[o] EXCEPT !.quiet = FALSE] /\ call[o] \in Op
    BY DEF Start, IInv, CallInv
  <2> QED
    BY <2>1 DEF Op
<1> QED
  BY <1>1, <1>2

\* Without drift it begins away from the others, and during no walk.
LEMMA BegunApart ==
  ASSUME IInv, NEW c \in Callers, NEW r, Start(c, r), ~drift'
  PROVE  ~drift /\ ~Overlaps(c, Changes(r)) /\ \A o \in Callers : ~At(o, "walk")
<1>1. ~drift /\ ~Overlaps(c, Changes(r)) /\ mu = Root
  BY DEF Start
<1> QED
  BY <1>1, OneWalks

\* Beside an operation on the whole volume there is no other.
LEMMA RootAlone ==
  ASSUME NEW c \in Callers, NEW r, ~Overlaps(c, Changes(r)), Root \in Changes(r), NEW o \in Callers \ {c}
  PROVE  ~Active(o)
<1>1. call[o].path \in Changes(call[o]) /\ Near(Root, call[o].path)
  BY DEF Changes, Near
<1> QED
  BY <1>1, NoOverlap

\* An operation begins with what it has read, and nothing to settle.
LEMMA AccountStart ==
  ASSUME IInv, IInv', Account, NEW c \in Callers, NEW r, Start(c, r), ~drift', UNCHANGED usage,
         \A o \in Callers \ {c} : open'[o] = open[o],
         \A f \in FilePaths : \/ tree'[f] = tree[f]
                              \/ Root \in Changes(r)
                              \/ \E q \in Changes(r) : Under(f, q),
         PhaseOK(c)', r.at = "swap" \/ (Total' = Total /\ Off(r) = 0)
  PROVE  Account'
<1>0. call'[c] = r /\ At(c, "idle") /\ ~Overlaps(c, Changes(r)) /\ \A o \in Callers : ~At(o, "walk")
  BY Begun, BegunApart
<1>1. Spared(c)
  <2>1. ASSUME NEW o \in Callers \ {c}, Active(o), NEW f \in FilePaths, tree'[f] # tree[f],
               At(o, "swap") \/ \E q \in Changes(call[o]) : Under(f, q)
        PROVE  FALSE
    <3>1. Root \notin Changes(r)
      BY <1>0, <2>1, RootAlone
    <3>2. PICK p \in Changes(r) : Under(f, p)
      BY <2>1, <3>1
    <3>3. CASE At(o, "swap")
      <4>1. Root \in Changes(call[o])
        BY <3>3 DEF IInv, CallInv, OpOK, At, Changes
      <4> QED
        BY <1>0, <2>1, <4>1, NoOverlap DEF Near
    <3>4. CASE \E q \in Changes(call[o]) : Under(f, q)
      BY <1>0, <2>1, <3>2, <3>4, Meet, NoOverlap
    <3> QED
      BY <2>1, <3>3, <3>4
  <2>2. ASSUME NEW o \in Callers \ {c}
        PROVE  /\ call'[o].at = call[o].at /\ call'[o].kind = call[o].kind /\ call'[o].path = call[o].path
               /\ call'[o].entry = call[o].entry /\ call'[o].old = call[o].old /\ call'[o].delta = call[o].delta
               /\ call[o].at = "walk" => call'[o].quiet = call[o].quiet
               /\ open'[o] = open[o]
    BY <1>0, Begun DEF At
  <2> QED
    BY <2>1, <2>2 DEF Spared
<1>2. CASE r.at = "swap"
  BY <1>0, <1>1, <1>2, OneStep
<1>3. CASE Total' = Total /\ Off(r) = 0
  <2>1. Off(call[c]) = 0 /\ ~At(c, "swap")
    BY <1>0 DEF Off, At
  <2>2. Total \in Int /\ usage \in Int
    BY Sized DEF IInv, Flags
  <2>3. Off(call'[c]) = 0
    BY <1>0, <1>3
  <2>4. Total' - Total = (usage' - usage) + (Off(call'[c]) - Off(call[c]))
    BY <1>3, <2>1, <2>2, <2>3
  <2> QED
    BY <1>0, <1>1, <2>1, <2>4, OneStep
<1> QED
  BY <1>2, <1>3

\* Write reads the size of the file it will replace.
LEMMA AccountBeginWrite ==
  ASSUME IInv, IInv', Account, NEW c \in Callers, NEW p \in FilePaths, NEW r, Start(c, r),
         r.at \in {"check", "touch"}, r.kind = "write", r.path = p, r.old = SizeOf(p),
         UNCHANGED <<tree, usage, open>>, ~drift'
  PROVE  Account'
<1>1. call'[c] = r
  BY Begun
<1>2. SizeOf(p)' = SizeOf(p)
  BY DEF SizeOf, IsFile
<1>3. PhaseOK(c)'
  BY <1>1, <1>2 DEF PhaseOK, SizeOf, IsFile
<1>4. Total' = Total /\ Off(r) = 0
  BY TotalSame DEF IInv, Off
<1>5. \A o \in Callers \ {c} : open'[o] = open[o]
  OBVIOUS
<1> QED
  BY <1>3, <1>4, <1>5, AccountStart

\* Copying and decompressing have read nothing the account depends on.
LEMMA AccountBeginCopy ==
  ASSUME IInv, IInv', Account, NEW c \in Callers, NEW r, Start(c, r), UNCHANGED <<tree, usage, open>>, ~drift',
         (r.at = "check" /\ r.kind = "copy") \/ (r.at = "create" /\ r.kind = "gunzip")
  PROVE  Account'
<1>1. call'[c] = r
  BY Begun
<1>2. PhaseOK(c)'
  BY <1>1 DEF PhaseOK
<1>3. Total' = Total /\ Off(r) = 0
  BY TotalSame DEF IInv, Off
<1>4. \A o \in Callers \ {c} : open'[o] = open[o]
  OBVIOUS
<1> QED
  BY <1>2, <1>3, <1>4, AccountStart

\* Delete reads the size of the file.
LEMMA AccountBeginDelete ==
  ASSUME IInv, IInv', Account, NEW c \in Callers, NEW p \in Paths, BeginDelete(c, p), ~drift'
  PROVE  Account'
<1> DEFINE r == [Idle EXCEPT !.at = "remove", !.kind = "delete", !.path = p, !.old = SizeOf(p)]
<1>1. r.at = "remove" /\ r.kind = "delete" /\ r.path = p /\ r.old = SizeOf(p)
  BY DEF Idle
<1>2. Start(c, r) /\ UNCHANGED <<tree, usage, open>>
  BY DEF BeginDelete
<1> HIDE DEF r
<1>3. call'[c] = r
  BY <1>2, Begun
<1>4. SizeOf(p)' = SizeOf(p)
  BY <1>2 DEF SizeOf, IsFile
<1>5. PhaseOK(c)'
  BY <1>1, <1>2, <1>3, <1>4 DEF PhaseOK, SizeOf, IsFile
<1>6. Total' = Total /\ Off(r) = 0
  BY <1>1, <1>2, TotalSame DEF IInv, Off
<1>7. \A o \in Callers \ {c} : open'[o] = open[o]
  BY <1>2
<1> QED
  BY <1>2, <1>5, <1>6, <1>7, AccountStart

\* Making a directory changes no file.
LEMMA DirOnly ==
  ASSUME IInv, NEW d \in DirPaths, tree' = [tree EXCEPT ![d] = Dir]
  PROVE  \A f \in FilePaths : tree'[f] = tree[f]
BY PathsAssumption DEF IInv, DiskInv, Paths

\* Rename makes the new directory; the new name is free.
LEMMA AccountBeginRename ==
  ASSUME IInv, IInv', Account, NEW c \in Callers, NEW p \in FilePaths, NEW q \in FilePaths,
         BeginRename(c, p, q), ~drift'
  PROVE  Account'
<1> DEFINE r == [Idle EXCEPT !.at = "rename", !.kind = "rename", !.path = q, !.entry = p]
<1>1. r.at = "rename" /\ r.kind = "rename" /\ r.path = q
  BY DEF Idle
<1>2. Start(c, r) /\ UNCHANGED <<usage, open>> /\ tree[q] = None
  BY DEF BeginRename
<1> HIDE DEF r
<1>3. call'[c] = r
  BY <1>2, Begun
<1>4. \A f \in FilePaths : tree'[f] = tree[f]
  <2>1. Parent[q] = Root \/ Parent[q] \in DirPaths
    BY PathsAssumption DEF Paths
  <2> QED
    BY <2>1, DirOnly DEF BeginRename
<1>5. PhaseOK(c)'
  BY <1>1, <1>2, <1>3, <1>4 DEF PhaseOK
<1>6. Total' = Total /\ Off(r) = 0
  BY <1>1, <1>4, TotalSame DEF IInv, Off
<1>7. \A o \in Callers \ {c} : open'[o] = open[o]
  BY <1>2
<1> QED
  BY <1>2, <1>4, <1>5, <1>6, <1>7, AccountStart

\* CreateDirectory returns at once.
LEMMA AccountCreateDirectory ==
  ASSUME IInv, IInv', Account, NEW c \in Callers, NEW d \in DirPaths, CreateDirectory(c, d), ~drift'
  PROVE  Account'
<1>1. Start(c, Idle) /\ UNCHANGED <<usage, open>>
  BY DEF CreateDirectory
<1>2. call'[c] = Idle
  BY <1>1, Begun
<1>3. \A f \in FilePaths : tree'[f] = tree[f]
  BY DirOnly DEF CreateDirectory
<1>4. PhaseOK(c)'
  BY <1>2, AtRest
<1>5. Total' = Total /\ Off(Idle) = 0
  BY <1>3, TotalSame DEF IInv, Off, Idle
<1>6. \A o \in Callers \ {c} : open'[o] = open[o]
  BY <1>1
<1> QED
  BY <1>1, <1>3, <1>4, <1>5, <1>6, AccountStart

\* A file that is created keeps its size, and an empty one has none.
LEMMA MadeFile ==
  ASSUME DiskInv, DiskInv', NEW p \in FilePaths, tree' = Created(p)
  PROVE  Total' = Total /\ \A f \in FilePaths : f # p => tree'[f] = tree[f]
<1>1. p \in Paths /\ SizeOf(p) \in Int /\ SizeOf(p) >= 0 /\ Total \in Int
  BY SizeBound, SizesBounded, Sized DEF Paths
<1>2. tree'[p] = SizeOf(p) /\ \A f \in FilePaths : f # p => tree'[f] = tree[f]
  BY <1>1 DEF Created, DiskInv, Paths
<1>3. SizeOf(p)' = SizeOf(p)
  <2>1. SizeOf(p)' = tree'[p]
    BY <1>1, <1>2 DEF SizeOf, IsFile
  <2> QED
    BY <1>2, <2>1
<1>4. Total' = Total - SizeOf(p) + SizeOf(p)'
  BY <1>1, <1>2, TotalOne
<1> QED
  BY <1>1, <1>2, <1>3, <1>4

\* CompressFiles leaves an archive without content.
LEMMA AccountCompressFiles ==
  ASSUME IInv, IInv', Account, NEW c \in Callers, NEW p \in FilePaths, CompressFiles(c, p), ~drift'
  PROVE  Account'
<1> DEFINE r == [Idle EXCEPT !.at = "panic", !.kind = "compress", !.path = p]
<1>1. r.at = "panic" /\ r.kind = "compress" /\ r.path = p
  BY DEF Idle
<1>2. Start(c, r) /\ UNCHANGED <<usage, open>> /\ tree' = Created(p)
  BY DEF CompressFiles
<1> HIDE DEF r
<1>3. call'[c] = r
  BY <1>2, Begun
<1>4. Total' = Total /\ \A f \in FilePaths : f # p => tree'[f] = tree[f]
  BY <1>2, MadeFile DEF IInv
<1>5. PhaseOK(c)'
  BY <1>1, <1>3 DEF PhaseOK
<1>6. Off(r) = 0
  BY <1>1 DEF Off
<1>7. Under(p, p) /\ p \in Changes(r)
  BY <1>1 DEF Under, Changes
<1>8. \A o \in Callers \ {c} : open'[o] = open[o]
  BY <1>2
<1> QED
  BY <1>2, <1>4, <1>5, <1>6, <1>7, <1>8, AccountStart

\* TruncateRootDirectory empties the volume; nobody else is in an operation.
LEMMA AccountTruncate ==
  ASSUME IInv, IInv', Account, NEW c \in Callers, TruncateRootDirectory(c), ~drift'
  PROVE  Account'
<1> DEFINE r == [Idle EXCEPT !.at = "swap", !.kind = "truncate", !.path = Root]
<1>1. r.at = "swap" /\ r.kind = "truncate" /\ r.path = Root
  BY DEF Idle
<1>2. Start(c, r) /\ UNCHANGED usage /\ tree' = [p \in Paths |-> None] /\ open' = Detached(Paths)
  BY DEF TruncateRootDirectory
<1> HIDE DEF r
<1>3. call'[c] = r
  BY <1>2, Begun
<1>4. Root \in Changes(r)
  BY <1>1 DEF Changes
<1>5. ASSUME NEW o \in Callers \ {c} PROVE open'[o] = open[o]
  <2>1. ~Active(o)
    BY <1>2, <1>4, BegunApart, RootAlone
  <2>2. ~open[o]
    BY <2>1 DEF IInv, HandleInv, HandleOK, CallInv, OpOK, Active, At
  <2>3. open'[o] = (open[o] /\ call[o].path \notin Paths) /\ open[o] \in BOOLEAN
    BY <1>2 DEF Detached, IInv, Flags
  <2> QED
    BY <2>2, <2>3
<1>6. PhaseOK(c)'
  BY <1>1, <1>2, <1>3 DEF PhaseOK, Paths
<1> QED
  BY <1>1, <1>2, <1>4, <1>5, <1>6, AccountStart

-----------------------------------------------------------------------------
(* The account in every step.                                                *)

\* A step beside the operations.
LEMMA AccountStutter ==
  ASSUME Account, UNCHANGED <<tree, usage, call, open>>
  PROVE  Account'
<1>1. Apart'
  BY DEF Account, Apart, Active, Near, Changes
<1>2. PhaseInv'
  BY DEF Account, PhaseInv, PhaseOK, SizeOf, IsFile
<1>3. Total' = Total
  BY DEF Total, SizeOf, IsFile
<1>4. Offs' = Offs
  BY DEF Offs, Off
<1>5. Balance'
  BY <1>3, <1>4 DEF Account, Balance, At
<1> QED
  BY <1>1, <1>2, <1>5 DEF Account

\* A lookup begins.
LEMMA AccountBeginLookup ==
  ASSUME IInv, IInv', Account, NEW c \in Callers, BeginLookup(c)
  PROVE  Account'
<1>1. PICK r : call' = [call EXCEPT ![c] = r] /\ r = [Idle EXCEPT !.at = "lock", !.kind = "scan"]
  BY DEF BeginLookup
<1>2. r.at = "lock" /\ r.kind = "scan" /\ UNCHANGED <<tree, usage, open>> /\ call[c].at = "idle"
  BY <1>1 DEF BeginLookup, At, Idle
<1>3. call'[c] = r /\ \A o \in Callers \ {c} : call'[o] = call[o]
  BY <1>1, Own
<1>4. PhaseOK(c)' /\ ~Active(c)'
  BY <1>2, <1>3 DEF PhaseOK, Active
<1>5. Off(call'[c]) = Off(call[c]) /\ ~At(c, "swap")
  BY <1>2, <1>3 DEF Off, At
<1> QED
  BY <1>2, <1>3, <1>4, <1>5, AccountQuietly

\* Only SetUsage makes the counter trusted again.
LEMMA DriftStays ==
  ASSUME Next, ~drift', \A c \in Callers : ~SetUsage(c)
  PROVE  ~drift
<1>1. ASSUME NEW c \in Callers, Step(c) PROVE ~drift
  <2>1. CASE Check(c)
    BY <2>1, Zenon DEF Check
  <2>2. CASE Touch(c)
    BY <2>2, Zenon DEF Touch
  <2>3. CASE Data(c)
    BY <2>3, Zenon DEF Data
  <2>4. CASE AddLoad(c)
    BY <2>4, Zenon DEF AddLoad
  <2>5. CASE AddDo(c)
    BY <2>5, Zenon DEF AddDo
  <2>6. CASE CopyName(c)
    BY <2>6, Zenon DEF CopyName
  <2>7. CASE CopyCreate(c)
    BY <2>7, Zenon DEF CopyCreate
  <2>8. CASE Chunk(c)
    BY <2>8, Zenon DEF Chunk
  <2>9. CASE Remove(c)
    BY <2>9, Zenon DEF Remove
  <2>10. CASE Entry(c)
    BY <2>10, Zenon DEF Entry
  <2>11. CASE Unlink(c)
    BY <2>11, Zenon DEF Unlink
  <2>12. CASE Rmdir(c)
    BY <2>12, Zenon DEF Rmdir
  <2>13. CASE Rename(c)
    BY <2>13, Zenon DEF Rename
  <2>14. CASE Panic(c)
    BY <2>14, Zenon DEF Panic
  <2>15. CASE SwapQuota(c)
    BY <2>15, Zenon DEF SwapQuota
  <2>16. CASE LockMu(c)
    BY <2>16, Zenon DEF LockMu
  <2>17. CASE Walk(c)
    BY <2>17, Zenon DEF Walk
  <2> QED
    BY <1>1, <2>1, <2>2, <2>3, <2>4, <2>5, <2>6, <2>7, <2>8, <2>9, <2>10, <2>11, <2>12, <2>13, <2>14,
       <2>15, <2>16, <2>17 DEF Step
<1>2. ASSUME NEW c \in Callers, NEW r, Start(c, r) PROVE ~drift
  BY <1>2 DEF Start
<1>3. ASSUME NEW c \in Callers, TruncateRootDirectory(c) \/ BeginLookup(c) PROVE ~drift
  BY <1>2, <1>3, Zenon DEF TruncateRootDirectory, BeginLookup
<1>4. ASSUME NEW c \in Callers, NEW p \in FilePaths, NEW size \in Sizes,
             BeginWrite(c, p, size) \/ BeginWritefile(c, p, size) \/ BeginGunzip(c, p, size)
      PROVE  ~drift
  BY <1>2, <1>4, Zenon DEF BeginWrite, BeginWritefile, BeginGunzip
<1>5. ASSUME NEW c \in Callers, NEW p \in FilePaths, BeginCopy(c, p) \/ CompressFiles(c, p) PROVE ~drift
  BY <1>2, <1>5, Zenon DEF BeginCopy, CompressFiles
<1>6. ASSUME NEW c \in Callers, NEW p \in FilePaths, NEW q \in FilePaths, BeginRename(c, p, q) PROVE ~drift
  BY <1>2, <1>6, Zenon DEF BeginRename
<1>7. ASSUME NEW c \in Callers, NEW p \in Paths, BeginDelete(c, p) PROVE ~drift
  BY <1>2, <1>7, Zenon DEF BeginDelete
<1>8. ASSUME NEW c \in Callers, NEW d \in DirPaths, CreateDirectory(c, d) PROVE ~drift
  BY <1>2, <1>8, Zenon DEF CreateDirectory
<1>9. ASSUME Expire PROVE ~drift
  BY <1>9 DEF Expire
<1> QED
  BY <1>1, <1>3, <1>4, <1>5, <1>6, <1>7, <1>8, <1>9 DEF Next

\* The account in one step.
LEMMA AccountStep ==
  IInv /\ IInv' /\ WalkInv /\ (~drift => Account) /\ [Next]_vars => (~drift' => Account')
<1> SUFFICES ASSUME IInv, IInv', WalkInv, ~drift => Account, [Next]_vars, ~drift' PROVE Account'
  OBVIOUS
<1>1. CASE UNCHANGED vars
  BY <1>1, AccountStutter DEF vars
<1>2. CASE \E c \in Callers : SetUsage(c)
  BY <1>2, AccountSetUsage
<1>3. CASE Next /\ \A c \in Callers : ~SetUsage(c)
  <2>1. Account
    BY <1>3, DriftStays
  <2>2. ASSUME NEW c \in Callers, Step(c) PROVE Account'
    <3>1. CASE Check(c) \/ Touch(c) \/ Data(c) \/ AddLoad(c) \/ AddDo(c)
      BY <2>1, <3>1, AccountCheck, AccountTouch, AccountData, AccountAddLoad, AccountAddDo
    <3>2. CASE CopyName(c) \/ CopyCreate(c) \/ Chunk(c) \/ Remove(c)
      BY <2>1, <3>2, AccountCopyName, AccountCopyCreate, AccountChunk, AccountRemove
    <3>3. CASE Entry(c) \/ Unlink(c) \/ Rmdir(c) \/ Rename(c)
      BY <2>1, <3>3, AccountEntry, AccountUnlink, AccountRmdir, AccountRename
    <3>4. CASE Panic(c) \/ SwapQuota(c) \/ LockMu(c) \/ Walk(c)
      BY <2>1, <3>4, AccountPanic, AccountSwapQuota, AccountLockMu, AccountWalk
    <3> QED
      BY <1>3, <2>2, <3>1, <3>2, <3>3, <3>4 DEF Step
  <2>3. ASSUME NEW c \in Callers, NEW p \in FilePaths, NEW size \in Sizes, BeginWrite(c, p, size) PROVE Account'
    <3> DEFINE r == [Idle EXCEPT !.at = "check", !.kind = "write", !.path = p, !.old = SizeOf(p), !.new = size]
    <3>1. r.at = "check" /\ r.kind = "write" /\ r.path = p /\ r.old = SizeOf(p)
      BY DEF Idle
    <3>2. Start(c, r) /\ UNCHANGED <<tree, usage, open>>
      BY <2>3 DEF BeginWrite
    <3> HIDE DEF r
    <3> QED
      BY <2>1, <3>1, <3>2, AccountBeginWrite
  <2>4. ASSUME NEW c \in Callers, NEW p \in FilePaths, NEW size \in Sizes, BeginWritefile(c, p, size) PROVE Account'
    <3> DEFINE r == [Idle EXCEPT !.at = "touch", !.kind = "write", !.path = p, !.old = SizeOf(p), !.new = size]
    <3>1. r.at = "touch" /\ r.kind = "write" /\ r.path = p /\ r.old = SizeOf(p)
      BY DEF Idle
    <3>2. Start(c, r) /\ UNCHANGED <<tree, usage, open>>
      BY <2>4 DEF BeginWritefile
    <3> HIDE DEF r
    <3> QED
      BY <2>1, <3>1, <3>2, AccountBeginWrite
  <2>5. ASSUME NEW c \in Callers, NEW p \in FilePaths, NEW size \in Sizes, BeginGunzip(c, p, size) PROVE Account'
    <3> DEFINE r == [Idle EXCEPT !.at = "create", !.kind = "gunzip", !.path = p, !.new = size]
    <3>1. r.at = "create" /\ r.kind = "gunzip"
      BY DEF Idle
    <3>2. Start(c, r) /\ UNCHANGED <<tree, usage, open>>
      BY <2>5 DEF BeginGunzip
    <3> HIDE DEF r
    <3> QED
      BY <2>1, <3>1, <3>2, AccountBeginCopy
  <2>6. ASSUME NEW c \in Callers, NEW p \in FilePaths, BeginCopy(c, p) PROVE Account'
    <3> DEFINE r == [Idle EXCEPT !.at = "check", !.kind = "copy", !.path = p, !.entry = p, !.new = tree[p]]
    <3>1. r.at = "check" /\ r.kind = "copy"
      BY DEF Idle
    <3>2. Start(c, r) /\ UNCHANGED <<tree, usage, open>>
      BY <2>6 DEF BeginCopy
    <3> HIDE DEF r
    <3> QED
      BY <2>1, <3>1, <3>2, AccountBeginCopy
  <2>7. ASSUME Expire PROVE Account'
    BY <2>1, <2>7, AccountStutter DEF Expire
  <2> QED
    BY <1>3, <2>1, <2>2, <2>3, <2>4, <2>5, <2>6, <2>7, AccountTruncate, AccountBeginLookup,
       AccountCompressFiles, AccountBeginRename, AccountBeginDelete, AccountCreateDirectory DEF Next
<1> QED
  BY <1>1, <1>2, <1>3

-----------------------------------------------------------------------------
(* The walk.                                                                 *)

\* While an operation goes on no walk is undisturbed.
LEMMA WalkBusy ==
  ASSUME IInv, IInv', WalkInv, NEW c \in Callers, Active(c), UNCHANGED mu,
         \A o \in Callers \ {c} : call'[o].quiet = call[o].quiet
  PROVE  WalkInv'
<1>1. ~At(c, "walk")
  BY DEF IInv, CallInv, OpOK, Active, At
<1>2. \A o \in Callers : At(o, "walk")' <=> At(o, "walk")
  BY DEF IInv, MutexInv
<1>3. \A o \in Callers : ~(At(o, "walk") /\ call[o].quiet)
  BY DEF WalkInv
<1>4. ASSUME NEW o \in Callers PROVE ~(At(o, "walk") /\ call[o].quiet)'
  BY <1>1, <1>2, <1>3
<1> QED
  BY <1>4 DEF WalkInv

\* An operation that begins disturbs the walk.
LEMMA WalkBegun ==
  ASSUME IInv, IInv', NEW c \in Callers, NEW r, Start(c, r), UNCHANGED mu
  PROVE  WalkInv'
<1>1. At(c, "idle") /\ \A o \in Callers \ {c} : ~call'[o].quiet
  BY Begun
<1>2. \A o \in Callers : At(o, "walk")' <=> At(o, "walk")
  BY DEF IInv, MutexInv
<1>3. ASSUME NEW o \in Callers PROVE ~(At(o, "walk") /\ call[o].quiet)'
  BY <1>1, <1>2 DEF At
<1> QED
  BY <1>3 DEF WalkInv

\* A step that leaves the walking goroutine and the disk alone, and begins nothing.
LEMMA WalkSame ==
  ASSUME WalkInv, UNCHANGED tree,
         \A o \in Callers : /\ Active(o)' => Active(o)
                            /\ At(o, "walk")' => call'[o] = call[o]
  PROVE  WalkInv'
<1>1. SUFFICES ASSUME NEW c \in Callers, (At(c, "walk") /\ call[c].quiet)'
               PROVE  (\A o \in Callers : ~Active(o)') /\ (call[c].new + Left(c) = Total)'
  BY DEF WalkInv
<1>2. call'[c] = call[c] /\ At(c, "walk") /\ call[c].quiet
  BY <1>1 DEF At
<1>3. (\A o \in Callers : ~Active(o)) /\ call[c].new + Left(c) = Total
  BY <1>2 DEF WalkInv
<1>4. Total' = Total
  BY DEF Total, SizeOf, IsFile
<1>5. Left(c)' = Left(c)
  BY <1>2 DEF Left, SizeOf, IsFile
<1> QED
  BY <1>2, <1>3, <1>4, <1>5

\* What is left of a walk, as a sum.
LEMMA LeftSum ==
  ASSUME IInv, NEW c \in Callers
  PROVE  /\ [p \in Paths |-> IF p \in call[c].todo THEN SizeOf(p) ELSE 0] \in [Paths -> Int]
         /\ Left(c) = SumFunctionOnSet([p \in Paths |-> IF p \in call[c].todo THEN SizeOf(p) ELSE 0], Paths)
         /\ Left(c) \in Int
<1>1. \A p \in Paths : SizeOf(p) \in Int
  BY SizeBound, SizesBounded DEF IInv
<1>2. [p \in Paths |-> IF p \in call[c].todo THEN SizeOf(p) ELSE 0] \in [Paths -> Int]
  BY <1>1
<1> QED
  BY <1>2, SumType, Finite DEF Left

\* The walk starts with everything to count.
LEMMA WalkLockMu ==
  ASSUME IInv, IInv', WalkInv, NEW c \in Callers, LockMu(c)
  PROVE  WalkInv'
<1>0. OpOK(call[c]) /\ call[c] \in Op /\ DiskInv
  BY DEF IInv, CallInv
<1>1. call[c].at = "lock" /\ mu = Root /\ UNCHANGED tree
  BY Zenon DEF LockMu, At
<1>2. PICK q : q = (\A o \in Callers : ~Active(o))
  OBVIOUS
<1>3. call' = [call EXCEPT ![c] = [call[c] EXCEPT !.at = "walk", !.todo = FilePaths, !.quiet = q]]
  BY <1>2 DEF LockMu
<1>4. /\ call'[c] = [call[c] EXCEPT !.at = "walk", !.todo = FilePaths, !.quiet = q]
      /\ \A o \in Callers \ {c} : call'[o] = call[o]
  BY <1>3, Own
<1>5. /\ call'[c].kind = call[c].kind /\ call'[c].quiet = q /\ call'[c].new = call[c].new
      /\ call'[c].todo = FilePaths
  BY <1>0, <1>4 DEF Op
<1>6. call[c].new = 0 /\ call[c].kind = "scan"
  BY <1>0, <1>1 DEF OpOK
<1>7. ASSUME NEW o \in Callers \ {c} PROVE ~At(o, "walk")'
  BY <1>1, <1>4, OneWalks DEF At
<1>8. Left(c)' = Total'
  <2>1. ASSUME NEW p \in Paths PROVE (IF p \in FilePaths THEN SizeOf(p) ELSE 0) = SizeOf(p)
    BY <1>0 DEF DiskInv, SizeOf, IsFile, None, Dir, Paths
  <2>2. [p \in Paths |-> IF p \in FilePaths THEN SizeOf(p) ELSE 0] = [p \in Paths |-> SizeOf(p)]
    BY <2>1
  <2>3. Left(c)' = SumFunctionOnSet([p \in Paths |-> IF p \in FilePaths THEN SizeOf(p) ELSE 0], Paths)
    BY <1>1, <1>5 DEF Left, SizeOf, IsFile
  <2>4. Left(c)' = Total
    BY <2>2, <2>3 DEF Total
  <2>5. Total' = Total
    BY <1>1, TotalSame DEF IInv
  <2> QED
    BY <2>4, <2>5
<1>9. Total' \in Int
  BY NextTotal DEF IInv
<1>10. (call[c].new + Left(c) = Total)'
  <2>1. PICK t, l, n : t = Total' /\ l = Left(c)' /\ n = call'[c].new
    OBVIOUS
  <2>2. n + l = t
    BY <1>5, <1>6, <1>8, <1>9, <2>1
  <2> QED
    BY <2>1, <2>2
<1>11. q => \A o \in Callers : ~Active(o)'
  <2> SUFFICES ASSUME q, NEW o \in Callers PROVE ~Active(o)'
    OBVIOUS
  <2>1. ~Active(o)
    BY <1>2
  <2> QED
    BY <1>4, <1>5, <1>6, <2>1 DEF Active
<1>12. ASSUME NEW o \in Callers, At(o, "walk")', call'[o].quiet
       PROVE  (\A b \in Callers : ~Active(b)') /\ (call[o].new + Left(o) = Total)'
  <2>1. o = c
    BY <1>7, <1>12
  <2> QED
    BY <1>5, <1>10, <1>11, <1>12, <2>1
<1> QED
  BY <1>12 DEF WalkInv

\* The walk moves a file from what is left to what is counted.
LEMMA WalkOn ==
  ASSUME IInv, IInv', WalkInv, NEW c \in Callers, Walk(c)
  PROVE  WalkInv'
<1>0. OpOK(call[c]) /\ call[c] \in Op /\ DiskInv /\ DiskInv' /\ call[c].new \in Int
  BY DEF IInv, CallInv, Op
<1>1. At(c, "walk") /\ UNCHANGED tree /\ call[c].todo # {}
  BY Zenon DEF Walk
<1>2. PICK p : p = CHOOSE x \in call[c].todo : TRUE
  OBVIOUS
<1>3. p \in call[c].todo /\ p \in Paths
  BY <1>0, <1>1, <1>2 DEF OpOK, At, Paths
<1>4. ASSUME NEW r, call' = [call EXCEPT ![c] = r]
      PROVE  call'[c] = r /\ \A o \in Callers \ {c} : call'[o] = call[o] /\ ~At(o, "walk")'
  <2>1. call'[c] = r /\ \A o \in Callers \ {c} : call'[o] = call[o]
    BY <1>4, Own
  <2> QED
    BY <1>1, <2>1, OneWalks DEF At
<1>5. CASE call' = [call EXCEPT ![c].todo = {}, ![c].quiet = FALSE]
  <2>1. call' = [call EXCEPT ![c] = [call[c] EXCEPT !.todo = {}, !.quiet = FALSE]]
    BY <1>5
  <2>2. /\ call'[c] = [call[c] EXCEPT !.todo = {}, !.quiet = FALSE]
        /\ \A o \in Callers \ {c} : ~At(o, "walk")'
    BY <1>4, <2>1
  <2>3. ~call'[c].quiet
    BY <1>0, <2>2 DEF Op
  <2>4. \A o \in Callers : ~(At(o, "walk") /\ call[o].quiet)'
    BY <2>2, <2>3
  <2> QED
    BY <2>4 DEF WalkInv
<1>6. CASE call' = [call EXCEPT ![c].todo = call[c].todo \ {p}, ![c].new = call[c].new + SizeOf(p)]
  <2>1. call' = [call EXCEPT ![c] = [call[c] EXCEPT !.todo = call[c].todo \ {p}, !.new = call[c].new + SizeOf(p)]]
    BY <1>6
  <2>2. /\ call'[c] = [call[c] EXCEPT !.todo = call[c].todo \ {p}, !.new = call[c].new + SizeOf(p)]
        /\ \A o \in Callers \ {c} : call'[o] = call[o] /\ ~At(o, "walk")'
    BY <1>4, <2>1
  <2>3. /\ call'[c].kind = call[c].kind /\ call'[c].quiet = call[c].quiet
        /\ call'[c].new = call[c].new + SizeOf(p) /\ call'[c].todo = call[c].todo \ {p}
    BY <1>0, <2>2 DEF Op
  <2> SUFFICES ASSUME call'[c].quiet
               PROVE  (\A o \in Callers : ~Active(o)') /\ (call[c].new + Left(c) = Total)'
    BY <2>2 DEF WalkInv
  <2>4. (\A o \in Callers : ~Active(o)) /\ call[c].new + Left(c) = Total
    BY <1>1, <2>3 DEF WalkInv
  <2>5. \A o \in Callers : ~Active(o)'
    BY <2>2, <2>3, <2>4 DEF Active
  <2>6. Left(c)' = Left(c) - SizeOf(p) /\ Left(c) \in Int /\ SizeOf(p) \in Int
    <3> DEFINE f == [x \in Paths |-> IF x \in call[c].todo THEN SizeOf(x) ELSE 0]
               g == [x \in Paths |-> IF x \in call[c].todo \ {p} THEN SizeOf(x) ELSE 0]
    <3>1. f \in [Paths -> Int] /\ Left(c) = SumFunctionOnSet(f, Paths) /\ Left(c) \in Int
      BY LeftSum
    <3>2. \A x \in Paths : SizeOf(x) \in Int
      BY <1>0, SizeBound, SizesBounded
    <3>3. g \in [Paths -> Int]
      BY <3>2
    <3>4. Left(c)' = SumFunctionOnSet(g, Paths)
      BY <1>1, <2>3 DEF Left, SizeOf, IsFile
    <3>5. (\A x \in Paths : x # p => g[x] = f[x]) /\ g[p] = 0 /\ f[p] = SizeOf(p)
      BY <1>3
    <3> HIDE DEF f, g
    <3>6. SumFunctionOnSet(g, Paths) = SumFunctionOnSet(f, Paths) - f[p] + g[p]
      BY <1>3, <3>1, <3>3, <3>5, SumUpdate, Finite
    <3> QED
      BY <1>3, <3>1, <3>2, <3>4, <3>5, <3>6
  <2>7. Total' = Total
    BY <1>1, TotalSame DEF IInv
  <2>8. (call[c].new + Left(c) = Total)'
    <3>1. PICK n, l, s, n1, l1 : /\ n = call[c].new /\ l = Left(c) /\ s = SizeOf(p)
                                 /\ n1 = call'[c].new /\ l1 = Left(c)'
      OBVIOUS
    <3>2. n1 + l1 = n + l
      BY <1>0, <2>3, <2>6, <3>1
    <3> QED
      BY <2>4, <2>7, <3>1, <3>2
  <2> QED
    BY <2>5, <2>8
<1>7. \/ call' = [call EXCEPT ![c].todo = {}, ![c].quiet = FALSE]
      \/ call' = [call EXCEPT ![c].todo = call[c].todo \ {p}, ![c].new = call[c].new + SizeOf(p)]
  BY <1>2 DEF Walk
<1> QED
  BY <1>5, <1>6, <1>7

\* The walk in one step.
LEMMA WalkStep == IInv /\ IInv' /\ WalkInv /\ [Next]_vars => WalkInv'
<1> SUFFICES ASSUME IInv, IInv', WalkInv, [Next]_vars PROVE WalkInv'
  OBVIOUS
<1>1. ASSUME NEW c \in Callers, NEW r, call' = [call EXCEPT ![c] = r], UNCHANGED mu,
             call[c].at \notin {"idle", "lock", "walk"}
      PROVE  WalkInv'
  <2>1. Active(c)
    BY <1>1 DEF IInv, CallInv, OpOK, Active
  <2>2. \A o \in Callers \ {c} : call'[o].quiet = call[o].quiet
    BY <1>1, Own
  <2> QED
    BY <1>1, <2>1, <2>2, WalkBusy
<1>2. ASSUME UNCHANGED <<tree, call>> PROVE WalkInv'
  BY <1>2, WalkSame DEF Active, At
<1>3. ASSUME NEW c \in Callers, Step(c) PROVE WalkInv'
  <2>1. CASE Check(c)
    <3>1. \E r : call' = [call EXCEPT ![c] = r]
      BY <2>1 DEF Check, Go, Return
    <3>2. UNCHANGED mu /\ call[c].at \notin {"idle", "lock", "walk"}
      BY <2>1 DEF Check, At
    <3> QED
      BY <1>1, <3>1, <3>2
  <2>2. CASE Touch(c)
    <3>1. \E r : call' = [call EXCEPT ![c] = r]
      BY <2>2 DEF Touch, Go, Return
    <3>2. UNCHANGED mu /\ call[c].at \notin {"idle", "lock", "walk"}
      BY <2>2 DEF Touch, At
    <3> QED
      BY <1>1, <3>1, <3>2
  <2>3. CASE Data(c)
    <3>1. \E r : call' = [call EXCEPT ![c] = r]
      BY <2>3 DEF Data, Go, Return
    <3>2. UNCHANGED mu /\ call[c].at \notin {"idle", "lock", "walk"}
      BY <2>3 DEF Data, At
    <3> QED
      BY <1>1, <3>1, <3>2
  <2>4. CASE AddLoad(c)
    <3>1. \E r : call' = [call EXCEPT ![c] = r]
      BY <2>4 DEF AddLoad, Go, Return
    <3>2. UNCHANGED mu /\ call[c].at \notin {"idle", "lock", "walk"}
      BY <2>4 DEF AddLoad, At
    <3> QED
      BY <1>1, <3>1, <3>2
  <2>5. CASE AddDo(c)
    <3>1. \E r : call' = [call EXCEPT ![c] = r]
      BY <2>5 DEF AddDo, Go, Return
    <3>2. UNCHANGED mu /\ call[c].at \notin {"idle", "lock", "walk"}
      BY <2>5 DEF AddDo, At
    <3> QED
      BY <1>1, <3>1, <3>2
  <2>6. CASE CopyName(c)
    <3>1. \E r : call' = [call EXCEPT ![c] = r]
      BY <2>6 DEF CopyName, Go, Return
    <3>2. UNCHANGED mu /\ call[c].at \notin {"idle", "lock", "walk"}
      BY <2>6 DEF CopyName, At
    <3> QED
      BY <1>1, <3>1, <3>2
  <2>7. CASE CopyCreate(c)
    <3>1. \E r : call' = [call EXCEPT ![c] = r]
      BY <2>7 DEF CopyCreate, Go, Return
    <3>2. UNCHANGED mu /\ call[c].at \notin {"idle", "lock", "walk"}
      BY <2>7 DEF CopyCreate, At
    <3> QED
      BY <1>1, <3>1, <3>2
  <2>8. CASE Chunk(c)
    <3>1. \E r : call' = [call EXCEPT ![c] = r]
      BY <2>8 DEF Chunk, Go, Return
    <3>2. UNCHANGED mu /\ call[c].at \notin {"idle", "lock", "walk"}
      BY <2>8 DEF Chunk, At
    <3> QED
      BY <1>1, <3>1, <3>2
  <2>9. CASE Remove(c)
    <3>1. \E r : call' = [call EXCEPT ![c] = r]
      <4>1. CASE Return(c)
        BY <4>1 DEF Return
      <4>2. CASE call' = [call EXCEPT ![c].at = "load", ![c].delta = -call[c].old]
        BY <4>2
      <4>3. CASE \E t : call' = [call EXCEPT ![c].at = "entries", ![c].kind = "unlink", ![c].todo = t]
        BY <4>3
      <4> QED
        BY <2>9, <4>1, <4>2, <4>3 DEF Remove
    <3>2. UNCHANGED mu /\ call[c].at \notin {"idle", "lock", "walk"}
      BY <2>9 DEF Remove, At
    <3> QED
      BY <1>1, <3>1, <3>2
  <2>10. CASE Entry(c)
    <3>1. \E r : call' = [call EXCEPT ![c] = r]
      BY <2>10 DEF Entry, Go
    <3>2. UNCHANGED mu /\ call[c].at \notin {"idle", "lock", "walk"}
      BY <2>10, Zenon DEF Entry, At
    <3> QED
      BY <1>1, <3>1, <3>2
  <2>11. CASE Unlink(c)
    <3>1. \E r : call' = [call EXCEPT ![c] = r]
      BY <2>11 DEF Unlink, Go, Return
    <3>2. UNCHANGED mu /\ call[c].at \notin {"idle", "lock", "walk"}
      BY <2>11 DEF Unlink, At
    <3> QED
      BY <1>1, <3>1, <3>2
  <2>12. CASE Rmdir(c)
    <3>1. \E r : call' = [call EXCEPT ![c] = r]
      BY <2>12 DEF Rmdir, Go, Return
    <3>2. UNCHANGED mu /\ call[c].at \notin {"idle", "lock", "walk"}
      BY <2>12 DEF Rmdir, At
    <3> QED
      BY <1>1, <3>1, <3>2
  <2>13. CASE Panic(c)
    <3>1. \E r : call' = [call EXCEPT ![c] = r]
      BY <2>13 DEF Panic, Go, Return
    <3>2. UNCHANGED mu /\ call[c].at \notin {"idle", "lock", "walk"}
      BY <2>13 DEF Panic, At
    <3> QED
      BY <1>1, <3>1, <3>2
  <2>14. CASE SwapQuota(c)
    <3>1. \E r : call' = [call EXCEPT ![c] = r]
      BY <2>14 DEF SwapQuota, Go, Return
    <3>2. UNCHANGED mu /\ call[c].at \notin {"idle", "lock", "walk"}
      BY <2>14 DEF SwapQuota, At
    <3> QED
      BY <1>1, <3>1, <3>2
  <2>15. CASE Rename(c)
    <3>1. Active(c) /\ UNCHANGED mu
      BY <2>15 DEF Rename, At, IInv, CallInv, OpOK, Active
    <3>2. ASSUME NEW o \in Callers \ {c} PROVE call'[o].quiet = call[o].quiet
      <4>1. call'[o] = call[o] \/ \E q : call'[o] = [call[o] EXCEPT !.path = q]
        <5>1. CASE Return(c)
          BY <5>1, Own DEF Return
        <5>2. CASE call' = [b \in Callers |->
                              IF b = c THEN Idle
                              ELSE IF open[b] /\ call[b].path = call[c].entry
                              THEN [call[b] EXCEPT !.path = call[c].path] ELSE call[b]]
          BY <5>2
        <5> QED
          BY <2>15, <5>1, <5>2 DEF Rename
      <4>2. call[o] \in Op
        BY DEF IInv, CallInv
      <4> QED
        BY <4>1, <4>2 DEF Op
    <3> QED
      BY <3>1, <3>2, WalkBusy
  <2>16. CASE LockMu(c) \/ Walk(c)
    BY <2>16, WalkLockMu, WalkOn
  <2>17. CASE SetUsage(c)
    <3>1. mu' = Root
      BY <2>17 DEF SetUsage
    <3>2. \A o \in Callers : ~At(o, "walk")'
      BY <3>1, PathsAssumption DEF IInv, MutexInv
    <3> QED
      BY <3>2 DEF WalkInv
  <2> QED
    BY <1>3, <2>1, <2>2, <2>3, <2>4, <2>5, <2>6, <2>7, <2>8, <2>9, <2>10, <2>11, <2>12, <2>13, <2>14,
       <2>15, <2>16, <2>17 DEF Step
<1>4. ASSUME NEW c \in Callers, BeginLookup(c) PROVE WalkInv'
  <2>1. PICK r : call' = [call EXCEPT ![c] = r] /\ r = [Idle EXCEPT !.at = "lock", !.kind = "scan"]
    BY <1>4 DEF BeginLookup
  <2>2. r.at = "lock" /\ r.kind = "scan"
    BY <2>1 DEF Idle
  <2>3. call'[c] = r /\ \A o \in Callers \ {c} : call'[o] = call[o]
    BY <2>1, Own
  <2>4. UNCHANGED tree
    BY <1>4 DEF BeginLookup
  <2> QED
    BY <2>2, <2>3, <2>4, WalkSame DEF Active, At
<1>5. ASSUME NEW c \in Callers, TruncateRootDirectory(c) PROVE WalkInv'
  BY <1>5, WalkBegun DEF TruncateRootDirectory
<1>6. ASSUME NEW c \in Callers, NEW p \in FilePaths, NEW size \in Sizes,
             BeginWrite(c, p, size) \/ BeginWritefile(c, p, size) \/ BeginGunzip(c, p, size)
      PROVE  WalkInv'
  BY <1>6, WalkBegun DEF BeginWrite, BeginWritefile, BeginGunzip
<1>7. ASSUME NEW c \in Callers, NEW p \in FilePaths, BeginCopy(c, p) \/ CompressFiles(c, p) PROVE WalkInv'
  BY <1>7, WalkBegun DEF BeginCopy, CompressFiles
<1>8. ASSUME NEW c \in Callers, NEW p \in FilePaths, NEW q \in FilePaths, BeginRename(c, p, q) PROVE WalkInv'
  BY <1>8, WalkBegun DEF BeginRename
<1>9. ASSUME NEW c \in Callers, NEW p \in Paths, BeginDelete(c, p) PROVE WalkInv'
  BY <1>9, WalkBegun DEF BeginDelete
<1>10. ASSUME NEW c \in Callers, NEW d \in DirPaths, CreateDirectory(c, d) PROVE WalkInv'
  BY <1>10, WalkBegun DEF CreateDirectory
<1>11. ASSUME Expire PROVE WalkInv'
  BY <1>2, <1>11 DEF Expire
<1> QED
  BY <1>2, <1>3, <1>4, <1>5, <1>6, <1>7, <1>8, <1>9, <1>10, <1>11 DEF Next, vars

-----------------------------------------------------------------------------
(* The counter is right.                                                     *)

AInv == IInv /\ WalkInv /\ (~drift => Account)

\* The account when the volume is opened.
LEMMA AccountStarts == Init => AInv
<1> SUFFICES ASSUME Init PROVE AInv
  OBVIOUS
<1>1. IInv
  BY Starts
<1>2. \A o \in Callers : call[o].at = "idle" /\ call[o].kind = "none"
  BY DEF Init, Idle
<1>3. WalkInv
  BY <1>2 DEF WalkInv, At
<1>4. ~drift => Rests
  <2>1. ~drift => usage = Total
    BY DEF Init
  <2> QED
    BY <1>2, <2>1 DEF Rests, Active, At
<1> QED
  BY <1>1, <1>3, <1>4, RestSettles DEF AInv

\* The account holds in every state.
THEOREM AccountKept == Spec => []AInv
<1>1. AInv /\ IInv' /\ [Next]_vars => AInv'
  BY AccountStep, WalkStep DEF AInv
<1> QED
  BY AccountStarts, Invariance, <1>1, PTL DEF Spec

\* Accounted: while none of the causes of drift has happened since the last
\* undisturbed lookup and no operation is under way, Quota.usage is the size of
\* the volume, however the operations before were interleaved.
THEOREM CounterCorrect == Spec => []Accounted
<1>1. AInv => Accounted
  <2> SUFFICES ASSUME IInv, Account, \A c \in Callers : ~Active(c) PROVE usage = Total
    BY DEF AInv, Accounted
  <2>1. \A c \in Callers : At(c, "walk") => call[c].quiet
    BY DEF Account, PhaseInv, PhaseOK, At
  <2>2. Offs = 0 /\ \A c \in Callers : ~At(c, "swap")
    BY <2>1, Settled
  <2>3. Total = usage + Offs /\ usage \in Int
    BY <2>2 DEF Account, Balance, IInv, Flags
  <2> QED
    BY <2>2, <2>3
<1> QED
  BY AccountKept, <1>1, PTL

-----------------------------------------------------------------------------
(* The limit.                                                                *)

\* What an operation that passed its check may still put on the disk.
Due(op) == IF op.at \in {"touch", "name", "data"} \/ (op.at = "create" /\ op.kind = "copy")
           THEN op.new ELSE 0
Dues == SumFunctionOnSet([c \in Callers |-> Due(call[c])], Callers)

\* With that the volume is within the bound of Fits.
FitInv == (~blind /\ Limit > 0) => Total + Dues <= Limit + Cardinality(Callers) * MaxSize

\* Every amount is the size of a file.
LEMMA DueBound == ASSUME CallInv PROVE \A c \in Callers : Due(call[c]) \in 0 .. MaxSize
BY SizesBounded DEF CallInv, OpOK, Due

\* The same in the next state.
LEMMA NextDueBound == ASSUME CallInv' PROVE \A c \in Callers : Due(call'[c]) \in 0 .. MaxSize
BY SizesBounded DEF CallInv, OpOK, Due

\* The amounts and their sum are numbers.
LEMMA DueTypes ==
  ASSUME CallInv
  PROVE  /\ [c \in Callers |-> Due(call[c])] \in [Callers -> Int]
         /\ Dues \in Int /\ Dues >= 0
<1> DEFINE f == [c \in Callers |-> Due(call[c])]
           z == [c \in Callers |-> 0]
<1>1. \A c \in Callers : Due(call[c]) \in Int /\ Due(call[c]) >= 0
  BY DueBound, SizesBounded
<1>2. f \in [Callers -> Int] /\ z \in [Callers -> Int] /\ Dues = SumFunctionOnSet(f, Callers)
  BY <1>1 DEF Dues
<1>3. \A c \in Callers : z[c] = 0 /\ z[c] <= f[c]
  BY <1>1
<1> HIDE DEF f, z
<1>4. SumFunctionOnSet(z, Callers) = 0 /\ SumFunctionOnSet(z, Callers) <= SumFunctionOnSet(f, Callers)
  BY <1>2, <1>3, SumZero, SumMono, Finite
<1>5. Dues \in Int
  BY <1>2, SumType, Finite
<1> QED
  BY <1>2, <1>4, <1>5 DEF f

\* One goroutine's amount changes.
LEMMA DuesOne ==
  ASSUME CallInv, CallInv', NEW c \in Callers, \A o \in Callers \ {c} : Due(call'[o]) = Due(call[o])
  PROVE  Dues' = Dues - Due(call[c]) + Due(call'[c])
<1> DEFINE f == [o \in Callers |-> Due(call[o])]
           g == [o \in Callers |-> Due(call'[o])]
<1>1. f \in [Callers -> Int] /\ Dues = SumFunctionOnSet(f, Callers)
  BY DueTypes DEF Dues
<1>2. \A o \in Callers : Due(call'[o]) \in Int
  BY NextDueBound, SizesBounded
<1>3. g \in [Callers -> Int] /\ Dues' = SumFunctionOnSet(g, Callers)
  BY <1>2 DEF Dues, Due
<1>4. \A o \in Callers : o # c => g[o] = f[o]
  OBVIOUS
<1>5. f[c] = Due(call[c]) /\ g[c] = Due(call'[c])
  OBVIOUS
<1> HIDE DEF f, g
<1> QED
  BY <1>1, <1>3, <1>4, <1>5, SumUpdate, Finite

\* The arithmetic of a step: the volume grows by no more than the amount falls.
LEMMA FitsStep ==
  ASSUME IInv, IInv', NEW c \in Callers, \A o \in Callers \ {c} : Due(call'[o]) = Due(call[o]),
         NEW b \in Int, Total + Dues <= b, Total' - Total <= Due(call[c]) - Due(call'[c])
  PROVE  Total' + Dues' <= b
<1>1. Dues' = Dues - Due(call[c]) + Due(call'[c])
  BY DuesOne DEF IInv
<1>2. Dues \in Int /\ Total \in Int /\ Total' \in Int
  BY DueTypes, Sized, NextTotal DEF IInv
<1>3. Due(call[c]) \in Int /\ Due(call'[c]) \in Int
  BY DueBound, NextDueBound, SizesBounded DEF IInv
<1>4. PICK t, t1, d, d1, x, y : /\ t = Total /\ t1 = Total' /\ d = Dues /\ d1 = Dues'
                                /\ x = Due(call[c]) /\ y = Due(call'[c])
  OBVIOUS
<1>5. /\ t \in Int /\ t1 \in Int /\ d \in Int /\ x \in Int /\ y \in Int
      /\ d1 = d - x + y /\ t + d <= b /\ t1 - t <= x - y
  BY <1>1, <1>2, <1>3, <1>4
<1>6. t1 + d1 <= b
  BY <1>5
<1> QED
  BY <1>4, <1>6

\* A step that owes nothing more and grows nothing.
LEMMA FitsCalm ==
  ASSUME IInv, IInv', NEW c \in Callers, \A o \in Callers \ {c} : Due(call'[o]) = Due(call[o]),
         NEW b \in Int, Total + Dues <= b, Total' <= Total, Due(call'[c]) <= Due(call[c])
  PROVE  Total' + Dues' <= b
<1>1. Total \in Int /\ Total' \in Int
  BY Sized, NextTotal DEF IInv
<1>2. Due(call[c]) \in Int /\ Due(call'[c]) \in Int
  BY DueBound, NextDueBound, SizesBounded DEF IInv
<1>3. Total' - Total <= Due(call[c]) - Due(call'[c])
  <2>1. PICK t, t1, x, y : t = Total /\ t1 = Total' /\ x = Due(call[c]) /\ y = Due(call'[c])
    OBVIOUS
  <2>2. t1 - t <= x - y
    BY <1>1, <1>2, <2>1
  <2> QED
    BY <2>1, <2>2
<1> QED
  BY <1>3, FitsStep

\* What one goroutine has still to add and may still write is the size of one file.
LEMMA Burden ==
  ASSUME IInv, NEW c \in Callers, PhaseOK(c)
  PROVE  Off(call[c]) + Due(call[c]) <= MaxSize
<1>0. OpOK(call[c]) /\ Off(call[c]) \in Int /\ Due(call[c]) \in 0 .. MaxSize /\ MaxSize \in Nat
  BY OffTypes, DueBound, SizesBounded DEF IInv, CallInv
<1>1. CASE Off(call[c]) <= 0
  BY <1>0, <1>1
<1>2. CASE Off(call[c]) > 0
  <2>1. Covers(c, Off(call[c]))
    BY <1>2, OffCovered
  <2>2. Target(call[c]) \in Paths
    BY <2>1 DEF Covers, Under, Paths
  <2>3. SizeOf(Target(call[c])) \in 0 .. MaxSize
    BY <2>2, SizeBound DEF IInv
  <2>4. call[c].at # "data"
    <3> SUFFICES ASSUME call[c].at = "data" PROVE FALSE
      OBVIOUS
    <3>1. Off(call[c]) = -call[c].old /\ call[c].old \in 0 .. MaxSize
      BY <1>0 DEF Off, OpOK
    <3> QED
      BY <1>0, <1>2, <3>1
  <2>5. call[c].at \in {"load", "zero", "add", "unlink"}
    BY <1>2, <2>4 DEF Off
  <2>6. Due(call[c]) = 0
    BY <2>5 DEF Due
  <2> QED
    BY <1>0, <2>1, <2>3, <2>6 DEF Covers
<1> QED
  BY <1>0, <1>1, <1>2

\* All of them together: one largest file per goroutine.
LEMMA Burdens ==
  ASSUME IInv, Account, NEW c \in Callers, NEW x \in Int, Off(call[c]) + Due(call[c]) + x <= MaxSize
  PROVE  Offs + Dues + x <= Cardinality(Callers) * MaxSize
<1> DEFINE f == [o \in Callers |-> Off(call[o])]
           g == [o \in Callers |-> Due(call[o])]
           h == [o \in Callers |-> f[o] + g[o]]
           k == [h EXCEPT ![c] = h[c] + x]
<1>1. f \in [Callers -> Int] /\ Offs = SumFunctionOnSet(f, Callers)
  BY OffTypes DEF Offs, IInv
<1>2. g \in [Callers -> Int] /\ Dues = SumFunctionOnSet(g, Callers)
  BY DueTypes DEF Dues, IInv
<1>3. ASSUME NEW o \in Callers PROVE f[o] + g[o] <= MaxSize
  BY Burden DEF Account, PhaseInv
<1>4. f[c] + g[c] + x <= MaxSize
  OBVIOUS
<1>5. MaxSize \in Int
  BY SizesBounded
<1> HIDE DEF f, g
<1>6. h \in [Callers -> Int] /\ \A o \in Callers : h[o] = f[o] + g[o] /\ h[o] <= MaxSize
  BY <1>1, <1>2, <1>3
<1>7. SumFunctionOnSet(h, Callers) = Offs + Dues
  <2> HIDE DEF h
  <2> QED
    BY <1>1, <1>2, <1>6, SumPlus, Finite
<1>8. h[c] + x <= MaxSize
  BY <1>1, <1>2, <1>4
<1> HIDE DEF h
<1>9. /\ k \in [Callers -> Int] /\ k[c] = h[c] + x /\ h[c] \in Int
      /\ \A o \in Callers : o # c => k[o] = h[o]
  BY <1>6
<1>10. \A o \in Callers : k[o] <= MaxSize
  BY <1>6, <1>8, <1>9
<1> HIDE DEF k
<1>11. SumFunctionOnSet(k, Callers) = SumFunctionOnSet(h, Callers) - h[c] + k[c]
  BY <1>6, <1>9, SumUpdate, Finite
<1>12. SumFunctionOnSet(k, Callers) <= Cardinality(Callers) * MaxSize
  BY <1>5, <1>9, <1>10, SumBound, Finite
<1>13. SumFunctionOnSet(h, Callers) \in Int
  BY <1>6, SumType, Finite
<1>14. SumFunctionOnSet(k, Callers) = Offs + Dues + x
  BY <1>7, <1>9, <1>11, <1>13
<1> QED
  BY <1>12, <1>14

\* The bound of Fits.
LEMMA BoundType ==
  /\ Cardinality(Callers) * MaxSize \in Int /\ Cardinality(Callers) * MaxSize >= 0
  /\ Limit \in Int /\ Limit + Cardinality(Callers) * MaxSize \in Int
<1>1. Cardinality(Callers) \in Nat /\ MaxSize \in Nat /\ Limit \in Int
  BY Finite, FS_CardinalityType, SizesBounded, SizesAssumption
<1>2. PICK n \in Nat, m \in Nat : n = Cardinality(Callers) /\ m = MaxSize
  BY <1>1
<1>3. n * m \in Nat
  OBVIOUS
<1> QED
  BY <1>1, <1>2, <1>3

\* HasSpaceFor against a counter that is right: the others have at most one file each
\* beside what it counts.
LEMMA FitsCheck ==
  ASSUME IInv, IInv', ~drift => Account, NEW c \in Callers, Check(c), ~blind', Limit > 0,
         NEW b \in Int, b = Limit + Cardinality(Callers) * MaxSize, Total + Dues <= b
  PROVE  Total' + Dues' <= b
<1>0. /\ OpOK(call[c]) /\ call[c].at = "check" /\ UNCHANGED <<tree, usage, open>>
      /\ call[c].new \in 0 .. MaxSize /\ call[c].old \in 0 .. MaxSize /\ MaxSize \in Nat
  <2>1. OpOK(call[c]) /\ call[c].at = "check" /\ UNCHANGED <<tree, usage, open>>
    BY DEF IInv, CallInv, Check, At
  <2> QED
    BY <2>1, SizesBounded DEF OpOK
<1>1. Due(call[c]) = 0 /\ Off(call[c]) = 0 /\ Active(c) /\ ~At(c, "swap")
  BY <1>0 DEF Due, Off, Active, OpOK, At
<1>2. Total' = Total /\ Total \in Int
  BY <1>0, TotalSame, Sized DEF IInv
<1>3. CASE Return(c)
  <2>1. call'[c] = Idle /\ \A o \in Callers \ {c} : call'[o] = call[o]
    BY <1>3, Own DEF Return
  <2>2. Due(call'[c]) = 0 /\ \A o \in Callers \ {c} : Due(call'[o]) = Due(call[o])
    BY <2>1 DEF Due, Idle
  <2>3. Total' <= Total /\ Due(call'[c]) <= Due(call[c])
    BY <1>1, <1>2, <2>2
  <2> QED
    BY <2>2, <2>3, FitsCalm
<1>4. CASE /\ CanFit(call[c].new - call[c].old)
           /\ Go(c, IF call[c].kind = "copy" THEN "name" ELSE "touch")
           /\ blind' = (blind \/ (drift /\ call[c].new > 0))
  <2>1. /\ call'[c].at = IF call[c].kind = "copy" THEN "name" ELSE "touch"
        /\ call'[c].new = call[c].new /\ \A o \in Callers \ {c} : call'[o] = call[o]
    BY <1>4, Onward
  <2>2. Due(call'[c]) = call[c].new /\ \A o \in Callers \ {c} : Due(call'[o]) = Due(call[o])
    BY <2>1 DEF Due
  <2>3. CASE ~(call[c].new > 0)
    <3>1. Total' <= Total /\ Due(call'[c]) <= Due(call[c])
      BY <1>0, <1>1, <1>2, <2>2, <2>3
    <3> QED
      BY <2>2, <3>1, FitsCalm
  <2>4. CASE call[c].new > 0
    <3>1. Account
      BY <1>4, <2>4
    <3>2. usage >= 0 /\ Total = usage + Offs /\ usage \in Int
      BY <1>1, <3>1, NoSwap, NotNegative DEF IInv, Flags
    <3>3. usage + (call[c].new - call[c].old) <= Limit
      BY <1>4, <3>2 DEF CanFit
    <3>4. call[c].old \in Int /\ Off(call[c]) + Due(call[c]) + call[c].old <= MaxSize
      BY <1>0, <1>1
    <3>5. Offs + Dues + call[c].old <= Cardinality(Callers) * MaxSize
      BY <3>1, <3>4, Burdens
    <3>6. Dues' = Dues - Due(call[c]) + Due(call'[c])
      BY <2>2, DuesOne DEF IInv
    <3>7. Dues \in Int /\ Offs \in Int /\ Limit \in Int /\ Cardinality(Callers) * MaxSize \in Int
      BY DueTypes, OffTypes, BoundType DEF IInv
    <3>8. PICK t1, d1, d, f, u, n, o, l, m :
            /\ t1 = Total' /\ d1 = Dues' /\ d = Dues /\ f = Offs /\ u = usage
            /\ n = call[c].new /\ o = call[c].old /\ l = Limit /\ m = Cardinality(Callers) * MaxSize
      OBVIOUS
    <3>9. d \in Int /\ f \in Int /\ u \in Int /\ n \in Int /\ o \in Int /\ l \in Int /\ m \in Int
      BY <1>0, <3>2, <3>7, <3>8
    <3>10. t1 = u + f /\ d1 = d - 0 + n /\ u + (n - o) <= l /\ f + d + o <= m /\ b = l + m
      BY <1>1, <1>2, <2>2, <3>2, <3>3, <3>5, <3>6, <3>8
    <3>11. t1 + d1 <= b
      BY <3>9, <3>10
    <3> QED
      BY <3>8, <3>11
  <2> QED
    BY <2>3, <2>4
<1> QED
  BY <1>3, <1>4 DEF Check

\* A handle's file after n units: no more than n bigger.
LEMMA Grown ==
  ASSUME IInv, IInv', NEW c \in Callers, NEW n \in Int, n >= 0, tree' = Written(c, n)
  PROVE  /\ Total' \in Int /\ Total \in Int /\ Total' - Total <= n
         /\ \A k \in Int : (k <= SizeOf(call[c].path) /\ n = k + 1) => Total' - Total <= 1
<1>0. Total' \in Int /\ Total \in Int
  BY Sized, NextTotal DEF IInv
<1>1. CASE ~open[c]
  <2>1. Total' = Total
    BY <1>1, TotalSame DEF IInv, Written
  <2> QED
    BY <1>0, <2>1
<1>2. CASE open[c]
  <2>1. PICK p \in FilePaths : p = call[c].path
    BY <1>2 DEF IInv, HandleInv, HandleOK
  <2>2. p \in Paths /\ SizeOf(p) \in Int /\ SizeOf(p) >= 0
    BY SizeBound, SizesBounded DEF IInv, Paths
  <2>3. PICK s \in Int : s = SizeOf(p) /\ s >= 0
    BY <2>2
  <2>4. PICK m \in Int : m = Max({s, n}) /\ m \in {s, n} /\ m >= s /\ m >= n
    BY OfTwo
  <2>5. tree' = [tree EXCEPT ![p] = m]
    BY <1>2, <2>1, <2>3, <2>4 DEF Written
  <2>6. tree'[p] = m /\ \A f \in FilePaths : f # p => tree'[f] = tree[f]
    BY <2>2, <2>5 DEF IInv, DiskInv, Paths
  <2>7. m \in Int /\ m >= 0
    BY <2>3, <2>4
  <2>8. SizeOf(p)' = m
    BY <2>2, <2>6, <2>7 DEF SizeOf, IsFile
  <2>9. Total' = Total - SizeOf(p) + SizeOf(p)'
    BY <2>2, <2>6, TotalOne DEF IInv
  <2>10. PICK t, t1 : t = Total /\ t1 = Total'
    OBVIOUS
  <2>11. t \in Int /\ t1 = t - s + m
    BY <1>0, <2>3, <2>8, <2>9, <2>10
  <2>12. t1 - t = m - s
    BY <2>11
  <2>13. m - s <= n /\ \A k \in Int : (k <= s /\ n = k + 1) => m - s <= 1
    BY <2>3, <2>4
  <2> QED
    BY <1>0, <2>1, <2>3, <2>10, <2>12, <2>13
<1> QED
  BY <1>1, <1>2

\* io.Copy writes what the check allowed.
LEMMA FitsData ==
  ASSUME IInv, IInv', NEW c \in Callers, Data(c), NEW b \in Int, Total + Dues <= b
  PROVE  Total' + Dues' <= b
<1>1. PICK n \in 0 .. Ready(c) :
        /\ tree' = Written(c, n)
        /\ call' = [call EXCEPT ![c].at = "load", ![c].delta = n - call[c].old]
  BY DEF Data
<1>2. n \in 0 .. MaxSize /\ n <= call[c].new /\ call[c].at = "data" /\ MaxSize \in Nat
  BY ReadyBound, SizesBounded DEF Data, At
<1>3. call' = [call EXCEPT ![c] = [call[c] EXCEPT !.at = "load", !.delta = n - call[c].old]]
  BY <1>1
<1>4. /\ call'[c] = [call[c] EXCEPT !.at = "load", !.delta = n - call[c].old]
      /\ \A o \in Callers \ {c} : call'[o] = call[o]
  BY <1>3, Own
<1>5. call'[c].at = "load"
  BY <1>4 DEF IInv, CallInv, Op
<1>6. /\ Due(call'[c]) = 0 /\ Due(call[c]) = call[c].new /\ call[c].new \in Int
      /\ \A o \in Callers \ {c} : Due(call'[o]) = Due(call[o])
  BY <1>2, <1>4, <1>5 DEF Due, IInv, CallInv, Op
<1>7. Total' \in Int /\ Total \in Int /\ Total' - Total <= n
  BY <1>1, <1>2, Grown
<1>8. Total' - Total <= Due(call[c]) - Due(call'[c])
  <2>1. PICK t, t1, x : t = Total /\ t1 = Total' /\ x = call[c].new
    OBVIOUS
  <2>2. /\ t \in Int /\ t1 \in Int /\ x \in Int /\ n \in Int
        /\ t1 - t <= n /\ n <= x
    <3>1. n \in Int
      BY <1>2
    <3>2. t \in Int /\ t1 \in Int /\ t1 - t <= n
      BY <1>7, <2>1, Zenon
    <3>3. x \in Int /\ n <= x
      BY <1>2, <1>6, <2>1
    <3> QED
      BY <3>1, <3>2, <3>3
  <2>3. t1 - t <= x - 0
    BY <2>2
  <2> QED
    BY <1>6, <2>1, <2>3
<1> QED
  BY <1>6, <1>8, FitsStep

\* Decompression checks every unit.
LEMMA FitsChunk ==
  ASSUME IInv, IInv', ~drift => Account, NEW c \in Callers, Chunk(c), ~blind', Limit > 0,
         NEW b \in Int, b = Limit + Cardinality(Callers) * MaxSize, Total + Dues <= b
  PROVE  Total' + Dues' <= b
<1>0. /\ OpOK(call[c]) /\ call[c].at = "chunk" /\ call[c].kind = "gunzip" /\ call[c] \in Op
      /\ call[c].old \in Int /\ call[c].old >= 0 /\ MaxSize \in Nat
  <2>1. OpOK(call[c]) /\ call[c].at = "chunk" /\ call[c] \in Op
    BY DEF IInv, CallInv, Chunk, At
  <2> QED
    BY <2>1, SizesBounded DEF OpOK
<1>1. Due(call[c]) = 0 /\ Off(call[c]) = 0 /\ Active(c) /\ ~At(c, "swap")
  BY <1>0 DEF Due, Off, Active, At
<1>2. CASE Return(c) /\ UNCHANGED tree
  <2>1. call'[c] = Idle /\ \A o \in Callers \ {c} : call'[o] = call[o]
    BY <1>2, Own DEF Return
  <2>2. Due(call'[c]) = 0 /\ \A o \in Callers \ {c} : Due(call'[o]) = Due(call[o])
    BY <2>1 DEF Due, Idle
  <2>3. Total' = Total /\ Total \in Int
    BY <1>2, TotalSame, Sized DEF IInv
  <2>4. Total' <= Total /\ Due(call'[c]) <= Due(call[c])
    BY <1>1, <2>2, <2>3
  <2> QED
    BY <2>2, <2>4, FitsCalm
<1>3. CASE /\ CanFit(1) /\ tree' = Written(c, call[c].old + 1) /\ blind' = (blind \/ drift)
           /\ call' = [call EXCEPT ![c].at = "load", ![c].old = call[c].old + 1, ![c].delta = 1]
  <2>1. PICK n \in Int : n = call[c].old + 1 /\ n >= 0
    BY <1>0
  <2>2. call' = [call EXCEPT ![c] = [call[c] EXCEPT !.at = "load", !.old = n, !.delta = 1]]
    BY <1>3, <2>1
  <2>3. /\ call'[c] = [call[c] EXCEPT !.at = "load", !.old = n, !.delta = 1]
        /\ \A o \in Callers \ {c} : call'[o] = call[o]
    BY <2>2, Own
  <2>4. call'[c].at = "load"
    BY <1>0, <2>3 DEF Op
  <2>5. Due(call'[c]) = 0 /\ \A o \in Callers \ {c} : Due(call'[o]) = Due(call[o])
    BY <2>3, <2>4 DEF Due
  <2>6. Account
    BY <1>3
  <2>7. usage >= 0 /\ Total = usage + Offs /\ usage \in Int
    BY <1>1, <2>6, NoSwap, NotNegative DEF IInv, Flags
  <2>8. usage + 1 <= Limit
    BY <1>3, <2>7 DEF CanFit
  <2>9. call[c].old <= SizeOf(call[c].path)
    <3>1. open[c] /\ tree[call[c].path] >= call[c].old
      BY <1>0, <2>6 DEF Account, PhaseInv, PhaseOK
    <3>2. SizeOf(call[c].path) = tree[call[c].path] /\ tree[call[c].path] \in Int
      BY <3>1, SizesBounded DEF IInv, HandleInv, HandleOK, SizeOf, IsFile, DiskInv, None, Dir
    <3> QED
      BY <1>0, <3>1, <3>2
  <2>10. Total' \in Int /\ Total \in Int /\ Total' - Total <= 1
    <3>1. tree' = Written(c, n)
      BY <1>3, <2>1
    <3> QED
      BY <1>0, <2>1, <2>9, <3>1, Grown
  <2>11. Offs + Dues + 0 <= Cardinality(Callers) * MaxSize
    <3>1. Off(call[c]) + Due(call[c]) + 0 <= MaxSize
      BY <1>0, <1>1
    <3> QED
      BY <2>6, <3>1, Burdens
  <2>12. Dues' = Dues - Due(call[c]) + Due(call'[c])
    BY <2>5, DuesOne DEF IInv
  <2>13. Dues \in Int /\ Offs \in Int /\ Limit \in Int /\ Cardinality(Callers) * MaxSize \in Int
    BY DueTypes, OffTypes, BoundType DEF IInv
  <2>14. PICK t, t1, d1, d, f, u, l, m :
           /\ t = Total /\ t1 = Total' /\ d1 = Dues' /\ d = Dues /\ f = Offs /\ u = usage
           /\ l = Limit /\ m = Cardinality(Callers) * MaxSize
    OBVIOUS
  <2>15. t \in Int /\ t1 \in Int /\ d \in Int /\ f \in Int /\ u \in Int /\ l \in Int /\ m \in Int
    BY <2>7, <2>10, <2>13, <2>14
  <2>16. t = u + f /\ t1 - t <= 1 /\ d1 = d - 0 + 0 /\ u + 1 <= l /\ f + d + 0 <= m /\ b = l + m
    BY <1>1, <2>5, <2>7, <2>8, <2>10, <2>11, <2>12, <2>14
  <2>17. t1 + d1 <= b
    BY <2>15, <2>16
  <2> QED
    BY <2>14, <2>17
<1> QED
  BY <1>2, <1>3 DEF Chunk

\* A goroutine that goes on to a step that writes nothing more, and no file grows.
LEMMA FitsOver ==
  ASSUME IInv, IInv', NEW c \in Callers, \A o \in Callers \ {c} : call'[o] = call[o],
         call'[c].at \notin {"touch", "name", "data", "create"},
         \A f \in FilePaths : SizeOf(f)' <= SizeOf(f), NEW b \in Int, Total + Dues <= b
  PROVE  Total' + Dues' <= b
<1>1. Due(call'[c]) = 0 /\ \A o \in Callers \ {c} : Due(call'[o]) = Due(call[o])
  BY DEF Due
<1>2. Due(call[c]) \in 0 .. MaxSize /\ MaxSize \in Nat
  BY DueBound, SizesBounded DEF IInv
<1>3. Due(call'[c]) <= Due(call[c])
  BY <1>1, <1>2
<1>4. Total' <= Total
  BY TotalLess DEF IInv
<1> QED
  BY <1>1, <1>3, <1>4, FitsCalm

\* No file grows when none changes.
LEMMA NoneGrows ==
  ASSUME IInv, \A f \in FilePaths : tree'[f] = tree[f]
  PROVE  \A f \in FilePaths : SizeOf(f)' <= SizeOf(f)
<1>1. \A f \in FilePaths : SizeOf(f)' = SizeOf(f) /\ SizeOf(f) \in 0 .. MaxSize
  BY SizeBound DEF SizeOf, IsFile, IInv, Paths
<1> QED
  BY <1>1, SizesBounded

\* Nor when one is emptied or goes.
LEMMA OneShrinks ==
  ASSUME IInv, NEW p \in Paths, tree'[p] \in {None, 0}, \A f \in FilePaths : f # p => tree'[f] = tree[f]
  PROVE  \A f \in FilePaths : SizeOf(f)' <= SizeOf(f)
<1> SUFFICES ASSUME NEW f \in FilePaths PROVE SizeOf(f)' <= SizeOf(f)
  OBVIOUS
<1>1. SizeOf(f) \in 0 .. MaxSize /\ MaxSize \in Nat
  BY SizeBound, SizesBounded DEF IInv, Paths
<1>2. CASE f = p
  <2>1. SizeOf(f)' = 0
    BY <1>2 DEF SizeOf, IsFile, None
  <2> QED
    BY <1>1, <2>1
<1>3. CASE f # p
  <2>1. SizeOf(f)' = SizeOf(f)
    BY <1>3 DEF SizeOf, IsFile
  <2> QED
    BY <1>1, <2>1
<1> QED
  BY <1>2, <1>3

\* An unlinked path.
LEMMA UnlinkedShrinks ==
  ASSUME IInv, NEW p \in Paths, tree' = Unlinked(p)
  PROVE  \A f \in FilePaths : SizeOf(f)' <= SizeOf(f)
<1>1. tree'[p] \in {None, 0} /\ \A f \in FilePaths : f # p => tree'[f] = tree[f]
  BY DEF Unlinked, IInv, DiskInv, Paths
<1> QED
  BY <1>1, OneShrinks

\* A goroutine that returns.
LEMMA FitsReturn ==
  ASSUME IInv, IInv', NEW c \in Callers, Return(c), \A f \in FilePaths : SizeOf(f)' <= SizeOf(f),
         NEW b \in Int, Total + Dues <= b
  PROVE  Total' + Dues' <= b
<1>1. call'[c] = Idle /\ \A o \in Callers \ {c} : call'[o] = call[o]
  BY Own DEF Return
<1>2. call'[c].at \notin {"touch", "name", "data", "create"}
  BY <1>1 DEF Idle
<1> QED
  BY <1>1, <1>2, FitsOver

\* A goroutine that goes on; a file it has still to write stays due.
LEMMA FitsGo ==
  ASSUME IInv, IInv', NEW c \in Callers, NEW s, Go(c, s), Total' <= Total,
         \/ s \notin {"touch", "name", "data", "create"}
         \/ Due(call[c]) = call[c].new,
         NEW b \in Int, Total + Dues <= b
  PROVE  Total' + Dues' <= b
<1>1. /\ call'[c].at = s /\ call'[c].kind = call[c].kind /\ call'[c].new = call[c].new
      /\ \A o \in Callers \ {c} : call'[o] = call[o]
  BY Onward
<1>2. \A o \in Callers \ {c} : Due(call'[o]) = Due(call[o])
  BY <1>1
<1>3. Due(call[c]) \in 0 .. MaxSize /\ MaxSize \in Nat
  BY DueBound, SizesBounded DEF IInv
<1>4. Due(call'[c]) \in {0, call[c].new}
  BY <1>1 DEF Due
<1>5. s \notin {"touch", "name", "data", "create"} => Due(call'[c]) = 0
  BY <1>1 DEF Due
<1>6. Due(call'[c]) <= Due(call[c])
  BY <1>3, <1>4, <1>5
<1> QED
  BY <1>2, <1>6, FitsCalm

\* The steps of Write and of Copy.
LEMMA FitsWrite ==
  ASSUME IInv, IInv', NEW c \in Callers,
         Touch(c) \/ AddLoad(c) \/ AddDo(c) \/ CopyName(c) \/ CopyCreate(c),
         NEW b \in Int, Total + Dues <= b
  PROVE  Total' + Dues' <= b
<1>0. OpOK(call[c]) /\ call[c] \in Op /\ DiskInv /\ DiskInv' /\ Total \in Int
  BY Sized DEF IInv, CallInv
<1>1. CASE Touch(c)
  <2>1. CASE Return(c) /\ UNCHANGED tree
    BY <2>1, FitsReturn, NoneGrows
  <2>2. CASE tree' = Touched(call[c].path) /\ Go(c, "data")
    <3>1. call[c].at = "touch"
      BY <1>1 DEF Touch, At
    <3>2. PICK p \in FilePaths : p = call[c].path
      BY <1>0, <3>1 DEF OpOK
    <3>3. p \in Paths /\ tree'[p] \in {None, 0} /\ \A f \in FilePaths : f # p => tree'[f] = tree[f]
      BY <2>2, <3>2, PathsAssumption DEF Touched, Paths
    <3>4. Total' <= Total
      BY <1>0, <3>3, OneShrinks, TotalLess
    <3>5. Due(call[c]) = call[c].new
      BY <3>1 DEF Due
    <3> QED
      BY <2>2, <3>4, <3>5, FitsGo
  <2> QED
    BY <1>1, <2>1, <2>2 DEF Touch
<1>2. CASE AddLoad(c)
  <2>1. Total' <= Total
    <3>1. Total' = Total
      BY <1>0, <1>2, TotalSame DEF AddLoad
    <3> QED
      BY <1>0, <3>1
  <2>2. PICK s \in {"zero", "add"} : Go(c, s)
    BY <1>2 DEF AddLoad
  <2> QED
    BY <2>1, <2>2, FitsGo
<1>3. CASE AddDo(c)
  <2>1. Total' = Total /\ \A f \in FilePaths : tree'[f] = tree[f]
    BY <1>0, <1>3, TotalSame DEF AddDo
  <2>2. Total' <= Total
    BY <1>0, <2>1
  <2>3. Return(c) \/ Go(c, "unlink") \/ Go(c, "chunk")
    BY <1>3 DEF AddDo
  <2> QED
    BY <2>1, <2>2, <2>3, FitsGo, FitsReturn, NoneGrows
<1>4. CASE CopyName(c)
  <2>1. PICK to : call' = [call EXCEPT ![c].at = "create", ![c].path = to]
    BY <1>4 DEF CopyName
  <2>2. call[c].at = "name" /\ UNCHANGED tree
    BY <1>4 DEF CopyName, At
  <2>3. call' = [call EXCEPT ![c] = [call[c] EXCEPT !.at = "create", !.path = to]]
    BY <2>1
  <2>4. /\ call'[c] = [call[c] EXCEPT !.at = "create", !.path = to]
        /\ \A o \in Callers \ {c} : call'[o] = call[o]
    BY <2>3, Own
  <2>5. call'[c].at = "create" /\ call'[c].kind = call[c].kind /\ call'[c].new = call[c].new
    BY <1>0, <2>4 DEF Op
  <2>6. Due(call[c]) = call[c].new /\ Due(call'[c]) = call[c].new
    BY <1>0, <2>2, <2>5 DEF Due, OpOK
  <2>7. Due(call[c]) \in 0 .. MaxSize /\ MaxSize \in Nat
    BY DueBound, SizesBounded DEF IInv
  <2>8. Due(call'[c]) <= Due(call[c])
    BY <2>6, <2>7
  <2>9. Total' = Total
    BY <1>0, <2>2, TotalSame
  <2>10. Total' <= Total
    BY <1>0, <2>9
  <2>11. \A o \in Callers \ {c} : Due(call'[o]) = Due(call[o])
    BY <2>4
  <2> QED
    BY <2>8, <2>10, <2>11, FitsCalm
<1>5. CASE CopyCreate(c)
  <2>1. CASE Return(c) /\ UNCHANGED tree
    BY <2>1, FitsReturn, NoneGrows
  <2>2. CASE /\ tree' = Created(call[c].path)
             /\ Go(c, IF call[c].kind = "copy" THEN "data" ELSE "chunk")
    <3>1. call[c].at = "create" /\ call[c].path \in FilePaths
      BY <1>0, <1>5 DEF CopyCreate, At, OpOK
    <3>2. Total' = Total
      BY <1>0, <2>2, <3>1, MadeFile
    <3>3. Total' <= Total
      BY <1>0, <3>2
    <3>4. call[c].kind = "copy" => Due(call[c]) = call[c].new
      BY <3>1 DEF Due
    <3>5. CASE call[c].kind = "copy"
      <4>1. Go(c, "data")
        BY <2>2, <3>5
      <4> QED
        BY <3>3, <3>4, <3>5, <4>1, FitsGo
    <3>6. CASE call[c].kind # "copy"
      <4>1. Go(c, "chunk")
        BY <2>2, <3>6
      <4> QED
        BY <3>3, <4>1, FitsGo
    <3> QED
      BY <3>5, <3>6
  <2> QED
    BY <1>5, <2>1, <2>2 DEF CopyCreate
<1> QED
  BY <1>1, <1>2, <1>3, <1>4, <1>5

\* The steps of Delete.
LEMMA FitsDelete ==
  ASSUME IInv, IInv', NEW c \in Callers, Remove(c) \/ Entry(c) \/ Unlink(c) \/ Rmdir(c),
         NEW b \in Int, Total + Dues <= b
  PROVE  Total' + Dues' <= b
<1>0. OpOK(call[c]) /\ call[c] \in Op /\ DiskInv /\ DiskInv' /\ Total \in Int
  BY Sized DEF IInv, CallInv
<1>1. CASE Remove(c)
  <2>1. call[c].at = "remove" /\ call[c].path \in Paths
    BY <1>0, <1>1 DEF Remove, At, OpOK
  <2>2. \A f \in FilePaths : SizeOf(f)' <= SizeOf(f)
    <3>1. tree' = tree \/ tree' = Unlinked(call[c].path)
      BY <1>1 DEF Remove
    <3> QED
      BY <2>1, <3>1, NoneGrows, UnlinkedShrinks
  <2>3. CASE Return(c)
    BY <2>2, <2>3, FitsReturn
  <2>4. CASE call' = [call EXCEPT ![c].at = "load", ![c].delta = -call[c].old]
    <3>1. call' = [call EXCEPT ![c] = [call[c] EXCEPT !.at = "load", !.delta = -call[c].old]]
      BY <2>4
    <3>2. /\ call'[c] = [call[c] EXCEPT !.at = "load", !.delta = -call[c].old]
          /\ \A o \in Callers \ {c} : call'[o] = call[o]
      BY <3>1, Own
    <3>3. call'[c].at = "load"
      BY <1>0, <3>2 DEF Op
    <3> QED
      BY <2>2, <3>2, <3>3, FitsOver
  <2>5. CASE \E t : call' = [call EXCEPT ![c].at = "entries", ![c].kind = "unlink", ![c].todo = t]
    <3>0. PICK t : call' = [call EXCEPT ![c].at = "entries", ![c].kind = "unlink", ![c].todo = t]
      BY <2>5, Zenon
    <3>1. call' = [call EXCEPT ![c] = [call[c] EXCEPT !.at = "entries", !.kind = "unlink", !.todo = t]]
      BY <3>0
    <3>2. /\ call'[c] = [call[c] EXCEPT !.at = "entries", !.kind = "unlink", !.todo = t]
          /\ \A o \in Callers \ {c} : call'[o] = call[o]
      BY <3>1, Own
    <3>3. call'[c].at = "entries"
      BY <1>0, <3>2 DEF Op
    <3> QED
      BY <2>2, <3>2, <3>3, FitsOver
  <2> QED
    BY <1>1, <2>3, <2>4, <2>5 DEF Remove
<1>2. CASE Entry(c)
  <2>1. UNCHANGED tree
    BY <1>2, Zenon DEF Entry
  <2>2. \A f \in FilePaths : SizeOf(f)' <= SizeOf(f)
    BY <2>1, NoneGrows
  <2>3. CASE Go(c, "rmdir")
    BY <1>0, <2>2, <2>3, TotalLess, FitsGo
  <2>4. ASSUME NEW p \in call[c].todo,
               call' = [call EXCEPT ![c].at = IF IsFile(p) THEN "load" ELSE "entries",
                                    ![c].entry = p, ![c].delta = -SizeOf(p), ![c].todo = @ \ {p}]
        PROVE  Total' + Dues' <= b
    <3>1. PICK s, n, t : /\ s = IF IsFile(p) THEN "load" ELSE "entries"
                         /\ n = -SizeOf(p) /\ t = call[c].todo \ {p}
      OBVIOUS
    <3>2. call' = [call EXCEPT ![c] = [call[c] EXCEPT !.at = s, !.entry = p, !.delta = n, !.todo = t]]
      BY <2>4, <3>1
    <3>3. /\ call'[c] = [call[c] EXCEPT !.at = s, !.entry = p, !.delta = n, !.todo = t]
          /\ \A o \in Callers \ {c} : call'[o] = call[o]
      BY <3>2, Own
    <3>4. call'[c].at = s
      BY <1>0, <3>3 DEF Op
    <3>5. call'[c].at \in {"load", "entries"}
      BY <3>1, <3>4
    <3> QED
      BY <2>2, <3>3, <3>5, FitsOver
  <2>5. \/ Go(c, "rmdir")
        \/ \E p \in call[c].todo :
             call' = [call EXCEPT ![c].at = IF IsFile(p) THEN "load" ELSE "entries",
                                  ![c].entry = p, ![c].delta = -SizeOf(p), ![c].todo = @ \ {p}]
    BY <1>2, Zenon DEF Entry
  <2> QED
    BY <2>3, <2>4, <2>5, Zenon
<1>3. CASE Unlink(c)
  <2>1. call[c].entry \in Paths
    BY <1>0, <1>3 DEF Unlink, At, OpOK, Under, Paths
  <2>2. tree' = tree \/ tree' = Unlinked(call[c].entry)
    BY <1>3 DEF Unlink
  <2>3. Total' <= Total
    BY <1>0, <2>1, <2>2, NoneGrows, UnlinkedShrinks, TotalLess
  <2>4. Go(c, "entries")
    BY <1>3 DEF Unlink
  <2> QED
    BY <2>3, <2>4, FitsGo
<1>4. CASE Rmdir(c)
  <2>1. Return(c)
    BY <1>4 DEF Rmdir
  <2>2. tree' = tree \/ (call[c].path \in Paths /\ tree' = Unlinked(call[c].path))
    BY <1>4 DEF Rmdir, Paths
  <2> QED
    BY <2>1, <2>2, FitsReturn, NoneGrows, UnlinkedShrinks
<1> QED
  BY <1>1, <1>2, <1>3, <1>4

\* Rename moves a file, over another or not; handles follow.
LEMMA FitsRename ==
  ASSUME IInv, IInv', NEW c \in Callers, Rename(c), NEW b \in Int, Total + Dues <= b
  PROVE  Total' + Dues' <= b
<1>0. /\ OpOK(call[c]) /\ DiskInv /\ DiskInv' /\ Total \in Int
  BY Sized DEF IInv, CallInv
<1>1. CASE Return(c) /\ UNCHANGED tree
  BY <1>1, FitsReturn, NoneGrows
<1>2. PICK p \in FilePaths, q \in FilePaths : p = call[c].entry /\ q = call[c].path /\ p # q
  BY <1>0 DEF Rename, At, OpOK
<1>3. CASE /\ tree' = [tree EXCEPT ![q] = tree[p], ![p] = None]
           /\ call' = [o \in Callers |->
                         IF o = c THEN Idle
                         ELSE IF open[o] /\ call[o].path = p
                         THEN [call[o] EXCEPT !.path = q] ELSE call[o]]
  <2>1. Total' = Total - SizeOf(q) /\ SizeOf(q) \in 0 .. MaxSize /\ MaxSize \in Nat
    BY <1>0, <1>2, <1>3, Moved, SizeBound, SizesBounded DEF Paths
  <2>2. Total' <= Total
    BY <1>0, <2>1
  <2>3. call'[c] = Idle
    BY <1>3
  <2>4. ASSUME NEW o \in Callers \ {c} PROVE Due(call'[o]) = Due(call[o])
    <3>1. call'[o] = call[o] \/ call'[o] = [call[o] EXCEPT !.path = q]
      BY <1>3
    <3>2. call[o] \in Op
      BY DEF IInv, CallInv
    <3>3. call'[o].at = call[o].at /\ call'[o].kind = call[o].kind /\ call'[o].new = call[o].new
      BY <3>1, <3>2 DEF Op
    <3> QED
      BY <3>3 DEF Due
  <2>5. Due(call'[c]) = 0 /\ Due(call[c]) \in 0 .. MaxSize
    BY <2>3, DueBound DEF Due, Idle, IInv
  <2>6. Due(call'[c]) <= Due(call[c])
    BY <2>1, <2>5
  <2> QED
    BY <2>2, <2>4, <2>6, FitsCalm
<1> QED
  BY <1>1, <1>2, <1>3 DEF Rename

\* The lookup writes nothing.
LEMMA FitsLookup ==
  ASSUME IInv, IInv', NEW c \in Callers,
         Panic(c) \/ SwapQuota(c) \/ LockMu(c) \/ Walk(c) \/ SetUsage(c) \/ BeginLookup(c),
         NEW b \in Int, Total + Dues <= b
  PROVE  Total' + Dues' <= b
<1>1. UNCHANGED tree
  BY Zenon DEF Panic, SwapQuota, LockMu, Walk, SetUsage, BeginLookup
<1>2. \A f \in FilePaths : SizeOf(f)' <= SizeOf(f)
  BY <1>1, NoneGrows
<1>3. CASE Panic(c) \/ SwapQuota(c) \/ SetUsage(c)
  <2>1. Return(c)
    BY <1>3 DEF Panic, SwapQuota, SetUsage
  <2> QED
    BY <1>2, <2>1, FitsReturn
<1>4. CASE BeginLookup(c)
  <2>1. PICK r : call' = [call EXCEPT ![c] = r] /\ r = [Idle EXCEPT !.at = "lock", !.kind = "scan"]
    BY <1>4 DEF BeginLookup
  <2>2. call'[c] = r /\ \A o \in Callers \ {c} : call'[o] = call[o]
    BY <2>1, Own
  <2>3. call'[c].at = "lock"
    <3>1. r.at = "lock"
      BY <2>1 DEF Idle
    <3> QED
      BY <2>2, <3>1
  <2> QED
    BY <1>2, <2>2, <2>3, FitsOver
<1>5. CASE LockMu(c) \/ Walk(c)
  <2>1. call'[c].at = "walk" /\ \A o \in Callers \ {c} : call'[o] = call[o]
    <3>1. mu' = c
      BY <1>5, Zenon DEF LockMu, Walk, IInv, MutexInv
    <3>2. call'[c].at = "walk"
      BY <3>1 DEF IInv, MutexInv, At
    <3>3. \E r : call' = [call EXCEPT ![c] = r]
      <4>1. CASE LockMu(c)
        BY <4>1 DEF LockMu
      <4>2. CASE Walk(c)
        BY <4>2 DEF Walk
      <4> QED
        BY <1>5, <4>1, <4>2
    <3> QED
      BY <3>2, <3>3, Own
  <2> QED
    BY <1>2, <2>1, FitsOver
<1> QED
  BY <1>3, <1>4, <1>5

\* An operation that begins has passed no check yet.
LEMMA FitsBegun ==
  ASSUME IInv, IInv', NEW c \in Callers, NEW r, Start(c, r), Due(r) = 0, Total' <= Total,
         NEW b \in Int, Total + Dues <= b
  PROVE  Total' + Dues' <= b
<1>1. call'[c] = r
  BY Begun
<1>2. ASSUME NEW o \in Callers \ {c} PROVE Due(call'[o]) = Due(call[o])
  <2>1. call'[o].at = call[o].at /\ call'[o].kind = call[o].kind /\ call'[o].new = call[o].new
    BY Begun
  <2> QED
    BY <2>1 DEF Due
<1>3. Due(call[c]) \in 0 .. MaxSize /\ MaxSize \in Nat
  BY DueBound, SizesBounded DEF IInv
<1>4. Due(call'[c]) <= Due(call[c])
  BY <1>1, <1>3
<1> QED
  BY <1>2, <1>4, FitsCalm

\* A disk without files is no bigger.
LEMMA Emptied ==
  ASSUME IInv, IInv', \A f \in FilePaths : tree'[f] = None
  PROVE  Total' <= Total
<1>1. ASSUME NEW f \in FilePaths PROVE SizeOf(f)' <= SizeOf(f)
  <2>1. SizeOf(f)' = 0
    BY DEF SizeOf, IsFile, None
  <2>2. SizeOf(f) \in 0 .. MaxSize /\ MaxSize \in Nat
    BY SizeBound, SizesBounded DEF IInv, Paths
  <2> QED
    BY <2>1, <2>2
<1> QED
  BY <1>1, TotalLess DEF IInv

\* What was written unchecked stays so.
LEMMA BlindStays ==
  ASSUME Next, ~blind'
  PROVE  ~blind
<1>1. ASSUME NEW c \in Callers, Step(c) PROVE ~blind
  <2>1. CASE Check(c)
    BY <2>1, Zenon DEF Check
  <2>2. CASE Touch(c)
    BY <2>2, Zenon DEF Touch
  <2>3. CASE Data(c)
    BY <2>3, Zenon DEF Data
  <2>4. CASE AddLoad(c)
    BY <2>4, Zenon DEF AddLoad
  <2>5. CASE AddDo(c)
    BY <2>5, Zenon DEF AddDo
  <2>6. CASE CopyName(c)
    BY <2>6, Zenon DEF CopyName
  <2>7. CASE CopyCreate(c)
    BY <2>7, Zenon DEF CopyCreate
  <2>8. CASE Chunk(c)
    BY <2>8, Zenon DEF Chunk
  <2>9. CASE Remove(c)
    BY <2>9, Zenon DEF Remove
  <2>10. CASE Entry(c)
    BY <2>10, Zenon DEF Entry
  <2>11. CASE Unlink(c)
    BY <2>11, Zenon DEF Unlink
  <2>12. CASE Rmdir(c)
    BY <2>12, Zenon DEF Rmdir
  <2>13. CASE Rename(c)
    BY <2>13, Zenon DEF Rename
  <2>14. CASE Panic(c)
    BY <2>14, Zenon DEF Panic
  <2>15. CASE SwapQuota(c)
    BY <2>15, Zenon DEF SwapQuota
  <2>16. CASE LockMu(c)
    BY <2>16, Zenon DEF LockMu
  <2>17. CASE Walk(c)
    BY <2>17, Zenon DEF Walk
  <2>18. CASE SetUsage(c)
    BY <2>18, Zenon DEF SetUsage
  <2> QED
    BY <1>1, <2>1, <2>2, <2>3, <2>4, <2>5, <2>6, <2>7, <2>8, <2>9, <2>10, <2>11, <2>12, <2>13, <2>14,
       <2>15, <2>16, <2>17, <2>18 DEF Step
<1>2. ASSUME NEW c \in Callers, TruncateRootDirectory(c) \/ BeginLookup(c) PROVE ~blind
  BY <1>2, Zenon DEF TruncateRootDirectory, BeginLookup
<1>3. ASSUME NEW c \in Callers, NEW p \in FilePaths, NEW size \in Sizes,
             BeginWrite(c, p, size) \/ BeginWritefile(c, p, size) \/ BeginGunzip(c, p, size)
      PROVE  ~blind
  BY <1>3, Zenon DEF BeginWrite, BeginWritefile, BeginGunzip
<1>4. ASSUME NEW c \in Callers, NEW p \in FilePaths, BeginCopy(c, p) \/ CompressFiles(c, p) PROVE ~blind
  BY <1>4, Zenon DEF BeginCopy, CompressFiles
<1>5. ASSUME NEW c \in Callers, NEW p \in FilePaths, NEW q \in FilePaths, BeginRename(c, p, q) PROVE ~blind
  BY <1>5, Zenon DEF BeginRename
<1>6. ASSUME NEW c \in Callers, NEW p \in Paths, BeginDelete(c, p) PROVE ~blind
  BY <1>6, Zenon DEF BeginDelete
<1>7. ASSUME NEW c \in Callers, NEW d \in DirPaths, CreateDirectory(c, d) PROVE ~blind
  BY <1>7, Zenon DEF CreateDirectory
<1>8. ASSUME Expire PROVE ~blind
  BY <1>8 DEF Expire
<1> QED
  BY <1>1, <1>2, <1>3, <1>4, <1>5, <1>6, <1>7, <1>8 DEF Next

\* The limit in one step.
LEMMA FitStep ==
  IInv /\ IInv' /\ (~drift => Account) /\ FitInv /\ [Next]_vars => FitInv'
<1> SUFFICES ASSUME IInv, IInv', ~drift => Account, FitInv, [Next]_vars, ~blind', Limit > 0
             PROVE  Total' + Dues' <= Limit + Cardinality(Callers) * MaxSize
  BY DEF FitInv
<1>1. PICK b \in Int : b = Limit + Cardinality(Callers) * MaxSize
  BY BoundType
<1> SUFFICES Total' + Dues' <= b
  BY <1>1
<1>2. ASSUME UNCHANGED <<tree, call>>, ~blind PROVE Total' + Dues' <= b
  <2>1. Total' = Total
    BY <1>2, TotalSame DEF IInv
  <2>2. Dues' = Dues
    BY <1>2 DEF Dues, Due
  <2>3. Total + Dues <= b
    BY <1>1, <1>2 DEF FitInv
  <2> QED
    BY <2>1, <2>2, <2>3
<1>3. CASE UNCHANGED vars
  BY <1>2, <1>3 DEF vars
<1>4. CASE Next
  <2>1. ~blind
    BY <1>4, BlindStays
  <2>2. Total + Dues <= b /\ Total \in Int
    BY <1>1, <2>1, Sized DEF FitInv, IInv
  <2>3. ASSUME NEW c \in Callers, Step(c) PROVE Total' + Dues' <= b
    <3>1. CASE Check(c) \/ Chunk(c)
      BY <1>1, <2>2, <3>1, FitsCheck, FitsChunk
    <3>2. CASE Data(c) \/ Rename(c)
      BY <2>2, <3>2, FitsData, FitsRename
    <3>3. CASE Touch(c) \/ AddLoad(c) \/ AddDo(c) \/ CopyName(c) \/ CopyCreate(c)
      BY <2>2, <3>3, FitsWrite
    <3>4. CASE Remove(c) \/ Entry(c) \/ Unlink(c) \/ Rmdir(c)
      BY <2>2, <3>4, FitsDelete
    <3>5. CASE Panic(c) \/ SwapQuota(c) \/ LockMu(c) \/ Walk(c) \/ SetUsage(c)
      BY <2>2, <3>5, FitsLookup
    <3> QED
      BY <2>3, <3>1, <3>2, <3>3, <3>4, <3>5 DEF Step
  <2>4. ASSUME NEW c \in Callers, NEW r, Start(c, r), Due(r) = 0, \A f \in FilePaths : tree'[f] = tree[f]
        PROVE  Total' + Dues' <= b
    <3>1. Total' = Total
      BY <2>4, TotalSame DEF IInv
    <3>2. Total' <= Total
      BY <2>2, <3>1
    <3> QED
      BY <2>2, <2>4, <3>2, FitsBegun
  <2>5. ASSUME NEW c \in Callers, TruncateRootDirectory(c) PROVE Total' + Dues' <= b
    <3> DEFINE r == [Idle EXCEPT !.at = "swap", !.kind = "truncate", !.path = Root]
    <3>1. Start(c, r) /\ \A f \in FilePaths : tree'[f] = None
      BY <2>5 DEF TruncateRootDirectory, Paths
    <3>2. Due(r) = 0
      BY DEF Due, Idle
    <3> HIDE DEF r
    <3> QED
      BY <2>2, <3>1, <3>2, Emptied, FitsBegun
  <2>6. ASSUME NEW c \in Callers, NEW p \in FilePaths, NEW size \in Sizes, BeginWrite(c, p, size)
        PROVE  Total' + Dues' <= b
    <3> DEFINE r == [Idle EXCEPT !.at = "check", !.kind = "write", !.path = p, !.old = SizeOf(p), !.new = size]
    <3>1. Start(c, r) /\ \A f \in FilePaths : tree'[f] = tree[f]
      BY <2>6 DEF BeginWrite
    <3>2. Due(r) = 0
      BY DEF Due, Idle
    <3> HIDE DEF r
    <3> QED
      BY <2>4, <3>1, <3>2
  <2>7. ASSUME NEW c \in Callers, NEW p \in FilePaths, NEW size \in Sizes, BeginGunzip(c, p, size)
        PROVE  Total' + Dues' <= b
    <3> DEFINE r == [Idle EXCEPT !.at = "create", !.kind = "gunzip", !.path = p, !.new = size]
    <3>1. Start(c, r) /\ \A f \in FilePaths : tree'[f] = tree[f]
      BY <2>7 DEF BeginGunzip
    <3>2. Due(r) = 0
      BY DEF Due, Idle
    <3> HIDE DEF r
    <3> QED
      BY <2>4, <3>1, <3>2
  <2>8. ASSUME NEW c \in Callers, NEW p \in FilePaths, BeginCopy(c, p) PROVE Total' + Dues' <= b
    <3> DEFINE r == [Idle EXCEPT !.at = "check", !.kind = "copy", !.path = p, !.entry = p, !.new = tree[p]]
    <3>1. Start(c, r) /\ \A f \in FilePaths : tree'[f] = tree[f]
      BY <2>8 DEF BeginCopy
    <3>2. Due(r) = 0
      BY DEF Due, Idle
    <3> HIDE DEF r
    <3> QED
      BY <2>4, <3>1, <3>2
  <2>9. ASSUME NEW c \in Callers, NEW p \in FilePaths, CompressFiles(c, p) PROVE Total' + Dues' <= b
    <3> DEFINE r == [Idle EXCEPT !.at = "panic", !.kind = "compress", !.path = p]
    <3>1. Start(c, r) /\ tree' = Created(p)
      BY <2>9 DEF CompressFiles
    <3>2. Due(r) = 0
      BY DEF Due, Idle
    <3> HIDE DEF r
    <3>3. Total' = Total
      BY <3>1, MadeFile DEF IInv
    <3>4. Total' <= Total
      BY <2>2, <3>3
    <3> QED
      BY <2>2, <3>1, <3>2, <3>4, FitsBegun
  <2>10. ASSUME NEW c \in Callers, NEW p \in FilePaths, NEW q \in FilePaths, BeginRename(c, p, q)
         PROVE  Total' + Dues' <= b
    <3> DEFINE r == [Idle EXCEPT !.at = "rename", !.kind = "rename", !.path = q, !.entry = p]
    <3>1. Start(c, r)
      BY <2>10 DEF BeginRename
    <3>2. Parent[q] = Root \/ Parent[q] \in DirPaths
      BY PathsAssumption DEF Paths
    <3>3. \A f \in FilePaths : tree'[f] = tree[f]
      BY <2>10, <3>2, DirOnly DEF BeginRename
    <3>4. Due(r) = 0
      BY DEF Due, Idle
    <3> HIDE DEF r
    <3> QED
      BY <2>4, <3>1, <3>3, <3>4
  <2>11. ASSUME NEW c \in Callers, NEW p \in Paths, BeginDelete(c, p) PROVE Total' + Dues' <= b
    <3> DEFINE r == [Idle EXCEPT !.at = "remove", !.kind = "delete", !.path = p, !.old = SizeOf(p)]
    <3>1. Start(c, r) /\ \A f \in FilePaths : tree'[f] = tree[f]
      BY <2>11 DEF BeginDelete
    <3>2. Due(r) = 0
      BY DEF Due, Idle
    <3> HIDE DEF r
    <3> QED
      BY <2>4, <3>1, <3>2
  <2>12. ASSUME NEW c \in Callers, NEW d \in DirPaths, CreateDirectory(c, d) PROVE Total' + Dues' <= b
    <3>1. Start(c, Idle) /\ \A f \in FilePaths : tree'[f] = tree[f]
      BY <2>12, DirOnly DEF CreateDirectory
    <3>2. Due(Idle) = 0
      BY DEF Due, Idle
    <3> QED
      BY <2>4, <3>1, <3>2
  <2>13. ASSUME Expire PROVE Total' + Dues' <= b
    BY <1>2, <2>1, <2>13 DEF Expire
  <2>14. ASSUME NEW c \in Callers, NEW p \in FilePaths, NEW size \in Sizes PROVE ~BeginWritefile(c, p, size)
    BY DEF BeginWritefile
  <2>15. ASSUME NEW c \in Callers, BeginLookup(c) PROVE Total' + Dues' <= b
    BY <2>2, <2>15, FitsLookup
  <2> QED
    BY <1>4, <2>3, <2>5, <2>6, <2>7, <2>8, <2>9, <2>10, <2>11, <2>12, <2>13, <2>14, <2>15, Zenon DEF Next
<1> QED
  BY <1>3, <1>4

\* The limit when the volume is opened.
LEMMA FitStarts == Init => FitInv
<1> SUFFICES ASSUME Init, Limit > 0 PROVE Total + Dues <= Limit + Cardinality(Callers) * MaxSize
  BY DEF FitInv
<1>1. IInv
  BY Starts
<1>2. \A c \in Callers : Due(call[c]) = 0
  BY DEF Init, Idle, Due
<1>3. Dues = 0
  <2> DEFINE f == [c \in Callers |-> Due(call[c])]
  <2>1. f \in [Callers -> Int] /\ \A c \in Callers : f[c] = 0
    BY <1>2
  <2>2. Dues = SumFunctionOnSet(f, Callers)
    BY DEF Dues
  <2> HIDE DEF f
  <2> QED
    BY <2>1, <2>2, SumZero, Finite
<1>4. Total <= Limit /\ Total \in Int
  BY <1>1, Sized DEF Init, IInv
<1> QED
  BY <1>3, <1>4, BoundType

\* Fits: while everything on the volume was checked against a counter that was right,
\* the volume exceeds its quota by no more than one largest file per goroutine, however
\* the checks and the writes are interleaved.
THEOREM LimitKept == Spec => []Fits
<1>1. AInv /\ FitInv /\ IInv' /\ [Next]_vars => FitInv'
  BY FitStep DEF AInv
<1>2. Spec => []FitInv
  BY FitStarts, AccountKept, Invariance, <1>1, PTL DEF Spec
<1>3. IInv /\ FitInv => Fits
  <2> SUFFICES ASSUME IInv, FitInv, ~blind, Limit > 0 PROVE Total <= Limit + Cardinality(Callers) * MaxSize
    BY DEF Fits
  <2>1. Total + Dues <= Limit + Cardinality(Callers) * MaxSize
    BY DEF FitInv
  <2>2. Dues \in Int /\ Dues >= 0 /\ Total \in Int
    BY DueTypes, Sized DEF IInv
  <2> QED
    BY <2>1, <2>2, BoundType
<1> QED
  BY <1>2, <1>3, Invariance, PTL
=============================================================================
