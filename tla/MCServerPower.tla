---- MODULE MCServerPower ----
EXTENDS ServerPower, TLC
Sym == Permutations(Procs) \cup Permutations(Slots)
====
