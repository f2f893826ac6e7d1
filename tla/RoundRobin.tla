----------------------------- MODULE RoundRobin -----------------------------
(***************************************************************************)
(* The load balancer of protocube: a slice of nodes, the index of every    *)
(* node by its id, and the position of the next node to try.               *)
(*                                                                         *)
(*   protocube/balancer/round_robin.go                                     *)
(*   protocube/node/node.go             Drained, SetDrained                *)
(*                                                                         *)
(* AddNode and RemoveNode hold the balancer's mutex and are one step each. *)
(* PickNode holds it too, but the drained flags it reads have another      *)
(* mutex, so each turn of its loop is a step.  A node that registers again *)
(* is another object with the same id.                                     *)
(***************************************************************************)
EXTENDS Naturals, Sequences

CONSTANTS Ids,      \* node ids
          Nodes,    \* node objects
          IdOf,     \* IdOf[n]: the id of node n
          None      \* PickNode returns nil

ASSUME BalancerAssumption ==
    /\ IdOf \in [Nodes -> Ids]
    /\ None \notin Nodes

VARIABLES
    nodes,      \* the slice; positions count from 1 here and from 0 in index
    nodeMap,    \* nodeMap[id]: the position of the node with this id, 0 if there is none
    index,      \* the position to try next, counting from 0
    drained,    \* drained[n]
    picking,    \* a PickNode holds the mutex
    i,          \* its loop counter
    picked,     \* what the last PickNode returned
    seen,       \* the positions the present PickNode has tried
    round       \* the positions tried since the list changed or the round began

list == <<nodes, nodeMap, index>>
loop == <<picking, i, picked, seen>>
vars == <<list, drained, loop, round>>

TypeOK ==
    /\ nodes \in Seq(Nodes)
    /\ nodeMap \in [Ids -> Nat]
    /\ index \in Nat
    /\ drained \in [Nodes -> BOOLEAN]
    /\ picking \in BOOLEAN
    /\ i \in Nat
    /\ picked \in Nodes \cup {None}
    /\ seen \subseteq Nat
    /\ round \subseteq Nat

\* NewRoundRobin.  A node's flag comes from the database.
Init ==
    /\ nodes = << >>
    /\ nodeMap = [d \in Ids |-> 0]
    /\ index = 0
    /\ drained \in [Nodes -> BOOLEAN]
    /\ picking = FALSE
    /\ i = 0
    /\ picked = None
    /\ seen = {}
    /\ round = {}

-----------------------------------------------------------------------------
\* A node whose id is known takes the place of the old object.
AddNode(n) ==
    /\ ~picking
    /\ IF nodeMap[IdOf[n]] # 0
         THEN /\ nodes' = [nodes EXCEPT ![nodeMap[IdOf[n]]] = n]
              /\ UNCHANGED nodeMap
         ELSE /\ nodes' = Append(nodes, n)
              /\ nodeMap' = [nodeMap EXCEPT ![IdOf[n]] = Len(nodes) + 1]
    /\ round' = {}
    /\ UNCHANGED <<index, drained, loop>>

\* The slice without its position k, which the last node takes.
MoveLast(k) == SubSeq([nodes EXCEPT ![k] = nodes[Len(nodes)]], 1, Len(nodes) - 1)

\* Mutants of RemoveNode: the index of the moved node is not updated; the
\* position to try next is not moved back into the shorter slice.
RemoveNodeNoMap(n) ==
    /\ ~picking
    /\ nodeMap[IdOf[n]] # 0
    /\ nodes' = MoveLast(nodeMap[IdOf[n]])
    /\ nodeMap' = [nodeMap EXCEPT ![IdOf[n]] = 0]
    /\ index' = IF index >= Len(nodes') THEN 0 ELSE index
    /\ round' = {}
    /\ UNCHANGED <<drained, loop>>
RemoveNodeNoReset(n) ==
    /\ ~picking
    /\ nodeMap[IdOf[n]] # 0
    /\ nodes' = MoveLast(nodeMap[IdOf[n]])
    /\ nodeMap' = [d \in Ids |-> IF d = IdOf[n] THEN 0
                                 ELSE IF d = IdOf[nodes[Len(nodes)]] THEN nodeMap[IdOf[n]]
                                 ELSE nodeMap[d]]
    /\ round' = {}
    /\ UNCHANGED <<index, drained, loop>>

\* By the node's id, whichever object has it.  The entry of the last node is
\* set before the entry of the id is deleted: they may be the same.
RemoveNode(n) ==
    /\ ~picking
    /\ nodeMap[IdOf[n]] # 0
    /\ nodes' = MoveLast(nodeMap[IdOf[n]])
    /\ nodeMap' = [d \in Ids |-> IF d = IdOf[n] THEN 0
                                 ELSE IF d = IdOf[nodes[Len(nodes)]] THEN nodeMap[IdOf[n]]
                                 ELSE nodeMap[d]]
    /\ index' = IF index >= Len(nodes') /\ Len(nodes') > 0 THEN 0 ELSE index
    /\ round' = {}
    /\ UNCHANGED <<drained, loop>>

\* SetDrained does nothing to the flag when the database fails.
SetDrained(n) ==
    /\ \E b \in BOOLEAN : drained' = [drained EXCEPT ![n] = b]
    /\ UNCHANGED <<list, loop, round>>

-----------------------------------------------------------------------------
(* PickNode.                                                                 *)

BeginPick ==
    /\ ~picking
    /\ \/ nodes = << >> /\ picked' = None /\ UNCHANGED <<picking, i, seen>>
       \/ nodes # << >> /\ picking' = TRUE /\ i' = 0 /\ seen' = {} /\ UNCHANGED picked
    /\ UNCHANGED <<list, drained, round>>

\* Mutants of TryNext: it steps over a node; the last turn is missing.
TryNextTwo ==
    /\ picking /\ i < Len(nodes)
    /\ index' = (index + 2) % Len(nodes)
    /\ seen' = seen \cup {index + 1}
    /\ round' = IF index + 1 \in round THEN {index + 1} ELSE round \cup {index + 1}
    /\ IF drained[nodes[index + 1]]
         THEN i' = i + 1 /\ UNCHANGED <<picking, picked>>
         ELSE picking' = FALSE /\ picked' = nodes[index + 1] /\ UNCHANGED i
    /\ UNCHANGED <<nodes, nodeMap, drained>>
EndPickEarly ==
    /\ picking /\ i + 1 >= Len(nodes)
    /\ picking' = FALSE
    /\ picked' = None
    /\ UNCHANGED <<list, drained, i, seen, round>>
TryNextForgets ==
    /\ picking /\ i < Len(nodes)
    /\ index' = (index + 1) % Len(nodes)
    /\ seen' = seen \cup {index + 1}
    /\ round' = IF index + 1 \in round THEN {index + 1} ELSE round \cup {index + 1}
    /\ IF drained[nodes[index + 1]]
         THEN i' = i + 1 /\ UNCHANGED <<picking, picked>>
         ELSE picking' = FALSE /\ picked' = index + 1 /\ UNCHANGED i
    /\ UNCHANGED <<nodes, nodeMap, drained>>

\* One turn of the loop: the node is returned unless it is drained.
TryNext ==
    /\ picking /\ i < Len(nodes)
    /\ index' = (index + 1) % Len(nodes)
    /\ seen' = seen \cup {index + 1}
    /\ round' = IF index + 1 \in round THEN {index + 1} ELSE round \cup {index + 1}
    /\ IF drained[nodes[index + 1]]
         THEN i' = i + 1 /\ UNCHANGED <<picking, picked>>
         ELSE picking' = FALSE /\ picked' = nodes[index + 1] /\ UNCHANGED i
    /\ UNCHANGED <<nodes, nodeMap, drained>>

\* All turns found a drained node.
EndPick ==
    /\ picking /\ i >= Len(nodes)
    /\ picking' = FALSE
    /\ picked' = None
    /\ UNCHANGED <<list, drained, i, seen, round>>

Next ==
    \/ \E n \in Nodes : AddNode(n) \/ RemoveNode(n) \/ SetDrained(n)
    \/ BeginPick \/ TryNext \/ EndPick

Spec == Init /\ [][Next]_vars

-----------------------------------------------------------------------------
\* PickNode never reads past the slice, although RemoveNode shortens it and
\* moves the index back only when nodes are left.
InBounds == nodes # << >> => index < Len(nodes)

\* nodeMap gives the position of every node of the slice and of no other:
\* RemoveNode finds the right one after any sequence of additions, of
\* replacements under the same id and of removals that moved the last node.
MapConsistent ==
    /\ \A k \in 1 .. Len(nodes) : nodeMap[IdOf[nodes[k]]] = k
    /\ \A d \in Ids : nodeMap[d] # 0 => /\ nodeMap[d] \in 1 .. Len(nodes)
                                        /\ IdOf[nodes[nodeMap[d]]] = d

\* What the slice, the map and the index stand for in the abstract balancer.
Members == [d \in Ids |-> IF nodeMap[d] = 0 THEN None ELSE nodes[nodeMap[d]]]
Refused == IF picking THEN {nodes[k] : k \in seen} ELSE {}

Promise == INSTANCE Balancer WITH members <- Members, refused <- Refused

\* RoundRobin keeps the promise of the Balancer interface: AddNode replaces an
\* object of the same id, RemoveNode removes by id and nothing else, PickNode
\* returns a node that is not drained at that moment, and answers that no node
\* is available only after it has found each of them drained, wherever its loop
\* began and whatever flags change meanwhile.
KeepsPromise == Promise!Spec

\* The rotation: no node is tried again before all the others were, from one
\* PickNode to the next, as long as no node comes or goes.
Rotation == [][TryNext /\ index + 1 \in round => round = 1 .. Len(nodes)]_vars
=============================================================================
