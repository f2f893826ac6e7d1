------------------------------ MODULE Balancer ------------------------------
(***************************************************************************)
(* What the load balancer of protocube promises to its callers, without    *)
(* the slice, the index and the map it is made of:                         *)
(*                                                                         *)
(*   protocube/balancer/balancer.go     the interface Balancer             *)
(*                                                                         *)
(* It holds at most one node object per id.  PickNode returns a node that  *)
(* is not drained at that moment, in no particular order, and returns nil  *)
(* only after it has found every node drained.  RoundRobin implements this *)
(* and Fleet is built on it.                                               *)
(***************************************************************************)
CONSTANTS Ids,      \* node ids
          Nodes,    \* node objects
          IdOf,     \* IdOf[n]: the id of node n
          None      \* no node

VARIABLES
    members,    \* members[id]: the object that the balancer holds for this id
    drained,    \* drained[n]
    picking,    \* a PickNode is under way
    refused,    \* the nodes it has found drained
    picked      \* what the last PickNode returned

vars == <<members, drained, picking, refused, picked>>

Held(m) == {n \in Nodes : m[IdOf[n]] = n}

\* AddNode and RemoveNode as functions of the balancer's content.
Put(m, n) == [m EXCEPT ![IdOf[n]] = n]
Drop(m, n) == [m EXCEPT ![IdOf[n]] = None]

Init ==
    /\ members = [d \in Ids |-> None]
    /\ drained \in [Nodes -> BOOLEAN]
    /\ picking = FALSE
    /\ refused = {}
    /\ picked = None

AddNode(n) ==
    /\ ~picking
    /\ members' = Put(members, n)
    /\ UNCHANGED <<drained, picking, refused, picked>>

RemoveNode(n) ==
    /\ ~picking
    /\ members' = Drop(members, n)
    /\ UNCHANGED <<drained, picking, refused, picked>>

SetDrained(n) ==
    /\ \E b \in BOOLEAN : drained' = [drained EXCEPT ![n] = b]
    /\ UNCHANGED <<members, picking, refused, picked>>

\* A pick finds drained nodes until it takes one that is not, or gives up.
BeginPick ==
    /\ ~picking
    /\ picking' = TRUE
    /\ refused' = {}
    /\ UNCHANGED <<members, drained, picked>>

Refuse(n) ==
    /\ picking
    /\ n \in Held(members)
    /\ drained[n]
    /\ refused' = refused \cup {n}
    /\ UNCHANGED <<members, drained, picking, picked>>

Take(n) ==
    /\ picking
    /\ n \in Held(members)
    /\ ~drained[n]
    /\ picking' = FALSE
    /\ picked' = n
    /\ refused' = {}
    /\ UNCHANGED <<members, drained>>

GiveUp ==
    /\ picking
    /\ Held(members) \subseteq refused
    /\ picking' = FALSE
    /\ picked' = None
    /\ refused' = {}
    /\ UNCHANGED <<members, drained>>

\* PickNode of a balancer without nodes.
PickNothing ==
    /\ ~picking
    /\ Held(members) = {}
    /\ picked' = None
    /\ UNCHANGED <<members, drained, picking, refused>>

Next ==
    \/ \E n \in Nodes : AddNode(n) \/ RemoveNode(n) \/ SetDrained(n) \/ Refuse(n) \/ Take(n)
    \/ BeginPick \/ GiveUp \/ PickNothing

Spec == Init /\ [][Next]_vars
=============================================================================
