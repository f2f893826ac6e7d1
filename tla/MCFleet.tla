------------------------------- MODULE MCFleet -------------------------------
EXTENDS Fleet, TLC

CONSTANTS d1

\* One node id; every object is an incarnation of it.
MCIdOf == [n \in Nodes |-> d1]

Sym == Permutations(Nodes) \cup Permutations(Allocs)
         \cup Permutations(Servers) \cup Permutations(Discs) \cup Permutations(Cleaners)

\* States that differ only in objects nothing refers to are one state.
View == <<nodes, lb, reg, disc, create, clean, managed, stored, restarts, raced,
          [n \in Nodes |-> IF n \in NodeRefs THEN allocOf[n] ELSE None],
          [a \in Allocs |-> IF a \in AllocRefs THEN used[a] ELSE {}],
          [s \in Servers |-> IF s \in Live THEN srv[s] ELSE NoServer]>>

\* What a race leads to is not followed.
Orderly == ~raced
=============================================================================
