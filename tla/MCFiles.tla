------------------------------- MODULE MCFiles -------------------------------
EXTENDS Files, TLC
CONSTANTS f, g, k, d
MCParent == [p \in {f, g, k, d} |-> IF p \in {f, k} THEN d ELSE Root]
MCCopyNames == [p \in {f} |-> <<k>>]
Symmetry == Permutations(Callers)
=============================================================================
