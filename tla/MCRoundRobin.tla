---------------------------- MODULE MCRoundRobin ----------------------------
EXTENDS RoundRobin

CONSTANTS a, b, c, a1, a2, b1, c1

\* Node a registers twice: a1 and a2 are its two objects.
MCIdOf == [n \in Nodes |-> IF n \in {a1, a2} THEN a ELSE IF n = b1 THEN b ELSE c]
=============================================================================
