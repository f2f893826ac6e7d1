------------------------------ MODULE MCApiGate ------------------------------
EXTENDS ApiGate, TLC
Sym == Permutations(Requests) \cup Permutations(Limiters)
=============================================================================
