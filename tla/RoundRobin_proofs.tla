-------------------------- MODULE RoundRobin_proofs --------------------------
(***************************************************************************)
(* The balancer's slice and its map agree and the index stays in range,    *)
(* for any number of nodes.  RemoveNode is right about the node that it    *)
(* moves only because the map was right, and the index that it leaves      *)
(* alone when no node is left has to be the first position already.        *)
(* The positions that were tried are the last ones before the index, going *)
(* round the slice: the balancer rotates, and it implements the abstract   *)
(* one of module Balancer.                                                 *)
(***************************************************************************)
EXTENDS RoundRobin, SequenceTheorems, TLAPS

\* RemoveNode does not touch the index of a slice that becomes empty.
EmptyInv == nodes = << >> => index = 0

IInv == TypeOK /\ InBounds /\ EmptyInv /\ MapConsistent

\* What AddNode and RemoveNode build.
LEMMA ReplaceSeq ==
    ASSUME NEW S, NEW q \in Seq(S), NEW k \in 1 .. Len(q), NEW x \in S
    PROVE  /\ [q EXCEPT ![k] = x] \in Seq(S)
           /\ Len([q EXCEPT ![k] = x]) = Len(q)
           /\ \A j \in 1 .. Len(q) : [q EXCEPT ![k] = x][j] = IF j = k THEN x ELSE q[j]
OBVIOUS

\* Append on the ring.
LEMMA AppendSeq ==
    ASSUME NEW S, NEW q \in Seq(S), NEW x \in S
    PROVE  /\ Append(q, x) \in Seq(S)
           /\ Len(Append(q, x)) = Len(q) + 1
           /\ \A j \in 1 .. Len(q) : Append(q, x)[j] = q[j]
           /\ Append(q, x)[Len(q) + 1] = x
OBVIOUS

\* What is left of the ring without its last entry.
LEMMA FrontSeq ==
    ASSUME NEW S, NEW q \in Seq(S), Len(q) > 0
    PROVE  /\ SubSeq(q, 1, Len(q) - 1) \in Seq(S)
           /\ Len(SubSeq(q, 1, Len(q) - 1)) = Len(q) - 1
           /\ \A j \in 1 .. Len(q) - 1 : SubSeq(q, 1, Len(q) - 1)[j] = q[j]
<1>1. Len(q) \in Nat /\ Len(q) - 1 \in Int /\ 1 \in Int
  OBVIOUS
<1>2. \A j \in 1 .. Len(q) - 1 : q[j] \in S
  BY <1>1
<1> DEFINE m == Len(q) - 1
<1> HIDE DEF m
<1>3. /\ SubSeq(q, 1, m) \in Seq(S)
      /\ Len(SubSeq(q, 1, m)) = IF 1 <= m THEN m - 1 + 1 ELSE 0
      /\ \A j \in 1 .. m - 1 + 1 : SubSeq(q, 1, m)[j] = q[1 + j - 1]
  BY <1>1, <1>2, SubSeqProperties DEF m
<1>4. m \in Nat
  BY <1>1 DEF m
<1>5. Len(SubSeq(q, 1, m)) = m /\ \A j \in 1 .. m : SubSeq(q, 1, m)[j] = q[j]
  BY <1>3, <1>4
<1> QED BY <1>3, <1>5 DEF m

\* The remainder is below the divisor.
LEMMA ModBound ==
    ASSUME NEW x \in Nat, NEW m \in Nat, m > 0
    PROVE  x % m \in Nat /\ x % m < m
OBVIOUS

-----------------------------------------------------------------------------
\* AddNode keeps the invariant.
LEMMA AddInv ==
    ASSUME IInv, NEW n \in Nodes, AddNode(n)
    PROVE  IInv'
<1> DEFINE d == IdOf[n]
<1> USE BalancerAssumption DEF IInv
<1>0. d \in Ids
  OBVIOUS
<1>1. CASE nodeMap[d] # 0
  <2>1. /\ nodes' = [nodes EXCEPT ![nodeMap[d]] = n]
        /\ UNCHANGED <<nodeMap, index>>
    BY <1>1 DEF AddNode
  <2>2. nodeMap[d] \in 1 .. Len(nodes) /\ IdOf[nodes[nodeMap[d]]] = d
    BY <1>0, <1>1 DEF MapConsistent
  <2>3. /\ nodes' \in Seq(Nodes) /\ Len(nodes') = Len(nodes)
        /\ \A j \in 1 .. Len(nodes) : nodes'[j] = IF j = nodeMap[d] THEN n ELSE nodes[j]
    BY <2>1, <2>2, ReplaceSeq DEF TypeOK
  <2>4. TypeOK'
    BY <2>1, <2>3 DEF TypeOK, AddNode, loop
  <2>5. InBounds' /\ EmptyInv'
    BY <2>1, <2>2, <2>3 DEF InBounds, EmptyInv, TypeOK
  <2>6. \A j \in 1 .. Len(nodes) : IdOf[nodes'[j]] = IdOf[nodes[j]]
    BY <2>2, <2>3
  <2>7. MapConsistent'
    BY <2>1, <2>3, <2>6 DEF MapConsistent, TypeOK
  <2> QED BY <2>4, <2>5, <2>7
<1>2. CASE nodeMap[d] = 0
  <2>1. /\ nodes' = Append(nodes, n)
        /\ nodeMap' = [nodeMap EXCEPT ![d] = Len(nodes) + 1]
        /\ UNCHANGED index
    BY <1>2 DEF AddNode
  <2>2. /\ nodes' \in Seq(Nodes) /\ Len(nodes') = Len(nodes) + 1
        /\ \A j \in 1 .. Len(nodes) : nodes'[j] = nodes[j]
        /\ nodes'[Len(nodes) + 1] = n
    BY <2>1, AppendSeq DEF TypeOK
  <2>3. Len(nodes) \in Nat
    BY DEF TypeOK
  <2>4. TypeOK'
    BY <2>1, <2>2, <2>3 DEF TypeOK, AddNode, loop
  <2>5. InBounds' /\ EmptyInv'
    <3>1. nodes' # << >>
      BY <2>2, <2>3
    <3>2. CASE nodes = << >>
      BY <3>1, <3>2, <2>1, <2>2, <2>3 DEF InBounds, EmptyInv
    <3>3. CASE nodes # << >>
      BY <3>1, <3>3, <2>1, <2>2, <2>3 DEF InBounds, EmptyInv, TypeOK
    <3> QED BY <3>2, <3>3
  <2>6. \A j \in 1 .. Len(nodes) : IdOf[nodes[j]] # d
    BY <1>2, <2>3 DEF MapConsistent
  <2>7. \A j \in 1 .. Len(nodes') : nodeMap'[IdOf[nodes'[j]]] = j
    <3> TAKE j \in 1 .. Len(nodes')
    <3>1. CASE j = Len(nodes) + 1
      BY <3>1, <2>1, <2>2, <1>0 DEF TypeOK
    <3>2. CASE j \in 1 .. Len(nodes)
      <4>1. nodes[j] \in Nodes /\ IdOf[nodes[j]] \in Ids
        BY <3>2 DEF TypeOK
      <4> QED BY <4>1, <3>2, <2>1, <2>2, <2>6 DEF MapConsistent, TypeOK
    <3> QED BY <3>1, <3>2, <2>2, <2>3
  <2>8. \A e \in Ids : nodeMap'[e] # 0 => /\ nodeMap'[e] \in 1 .. Len(nodes')
                                          /\ IdOf[nodes'[nodeMap'[e]]] = e
    <3> SUFFICES ASSUME NEW e \in Ids, nodeMap'[e] # 0
                 PROVE  /\ nodeMap'[e] \in 1 .. Len(nodes')
                        /\ IdOf[nodes'[nodeMap'[e]]] = e
      OBVIOUS
    <3>1. CASE e = d
      BY <3>1, <2>1, <2>2, <2>3 DEF TypeOK
    <3>2. CASE e # d
      <4>1. nodeMap'[e] = nodeMap[e]
        BY <3>2, <2>1 DEF TypeOK
      <4> QED BY <4>1, <2>2, <2>3 DEF MapConsistent
    <3> QED BY <3>1, <3>2
  <2> QED BY <2>4, <2>5, <2>7, <2>8 DEF MapConsistent
<1> QED BY <1>1, <1>2

\* RemoveNode keeps it: the last node takes the place of the removed one.
LEMMA RemoveInv ==
    ASSUME IInv, NEW n \in Nodes, RemoveNode(n)
    PROVE  IInv'
<1> DEFINE d == IdOf[n]
           k == nodeMap[d]
           L == Len(nodes)
           e == IdOf[nodes[L]]
           q == [nodes EXCEPT ![k] = nodes[L]]
<1> USE BalancerAssumption DEF IInv
<1>1. d \in Ids /\ L \in Nat
  BY DEF TypeOK
<1>2. k \in 1 .. L /\ IdOf[nodes[k]] = d
  BY <1>1 DEF RemoveNode, MapConsistent
<1>3. L \in 1 .. L /\ nodes[L] \in Nodes /\ e \in Ids /\ nodeMap[e] = L
  <2>1. L \in 1 .. L
    BY <1>1, <1>2
  <2>2. nodes[L] \in Nodes
    BY <2>1 DEF TypeOK
  <2> QED BY <2>1, <2>2 DEF MapConsistent
<1>4. /\ q \in Seq(Nodes) /\ Len(q) = L
      /\ \A j \in 1 .. L : q[j] = IF j = k THEN nodes[L] ELSE nodes[j]
  BY <1>2, <1>3, ReplaceSeq DEF TypeOK
<1>5. nodes' = SubSeq(q, 1, L - 1)
  BY DEF RemoveNode, MoveLast
<1>6. /\ nodes' \in Seq(Nodes) /\ Len(nodes') = L - 1
      /\ \A j \in 1 .. L - 1 : nodes'[j] = q[j]
  <2>1. L > 0
    BY <1>1, <1>3
  <2> HIDE DEF q, L
  <2>2. Len(q) > 0 /\ nodes' = SubSeq(q, 1, Len(q) - 1)
    BY <2>1, <1>4, <1>5
  <2> QED BY <2>2, <1>4, FrontSeq
<1>7. nodeMap' = [f \in Ids |-> IF f = d THEN 0 ELSE IF f = e THEN k ELSE nodeMap[f]]
  BY DEF RemoveNode
<1>8. index' = IF index >= Len(nodes') /\ Len(nodes') > 0 THEN 0 ELSE index
  BY DEF RemoveNode
<1>9. TypeOK'
  <2>1. nodeMap' \in [Ids -> Nat]
    BY <1>1, <1>2, <1>7 DEF TypeOK
  <2>2. index' \in Nat
    BY <1>8 DEF TypeOK
  <2> QED BY <2>1, <2>2, <1>6 DEF TypeOK, RemoveNode, loop
<1>10. InBounds' /\ EmptyInv'
  <2>0. nodes # << >> /\ index \in Nat /\ index < L
    <3>1. nodes # << >>
      BY <1>3
    <3> QED BY <3>1 DEF InBounds, TypeOK
  <2>1. CASE L = 1
    <3>1. Len(nodes') = 0 /\ index' = 0
      BY <2>0, <2>1, <1>6, <1>8
    <3>2. nodes' = << >>
      BY <3>1, <1>6, EmptySeq
    <3> QED BY <3>1, <3>2 DEF InBounds, EmptyInv
  <2>2. CASE L > 1
    <3>1. nodes' # << >>
      BY <2>2, <1>1, <1>6
    <3>2. index' < Len(nodes')
      BY <2>0, <2>2, <1>1, <1>6, <1>8
    <3> QED BY <3>1, <3>2 DEF InBounds, EmptyInv
  <2>3. L = 1 \/ L > 1
    <3> HIDE DEF L, e
    <3> QED BY <1>1, <1>3
  <2> QED BY <2>1, <2>2, <2>3
<1>11. \A j \in 1 .. Len(nodes') : nodeMap'[IdOf[nodes'[j]]] = j
  <2> SUFFICES ASSUME NEW j \in 1 .. L - 1
               PROVE  nodeMap'[IdOf[nodes'[j]]] = j
    BY <1>6
  <2>0. j \in 1 .. L /\ j # L
    BY <1>1
  <2>1. CASE j = k
    <3>1. nodes'[j] = nodes[L]
      BY <2>1, <2>0, <1>4, <1>6
    <3>2. e # d
      BY <2>0, <2>1, <1>3
    <3> QED BY <3>1, <3>2, <2>1, <1>3, <1>7
  <2>2. CASE j # k
    <3>1. nodes'[j] = nodes[j] /\ nodes[j] \in Nodes
      BY <2>2, <2>0, <1>4, <1>6 DEF TypeOK
    <3>2. nodeMap[IdOf[nodes[j]]] = j /\ IdOf[nodes[j]] \in Ids
      BY <2>0, <3>1 DEF MapConsistent
    <3>3. IdOf[nodes[j]] # d /\ IdOf[nodes[j]] # e
      BY <3>2, <2>0, <2>2, <1>3
    <3> QED BY <3>1, <3>2, <3>3, <1>7
  <2> QED BY <2>1, <2>2
<1>12. \A f \in Ids : nodeMap'[f] # 0 => /\ nodeMap'[f] \in 1 .. Len(nodes')
                                         /\ IdOf[nodes'[nodeMap'[f]]] = f
  <2> SUFFICES ASSUME NEW f \in Ids, nodeMap'[f] # 0
               PROVE  nodeMap'[f] \in 1 .. L - 1 /\ IdOf[nodes'[nodeMap'[f]]] = f
    BY <1>6
  <2>1. f # d
    BY <1>7
  <2>2. CASE f = e
    <3>1. nodeMap'[f] = k
      BY <2>1, <2>2, <1>7
    <3>2. k \in 1 .. L - 1
      BY <2>1, <2>2, <1>1, <1>2, <1>3
    <3> QED BY <3>1, <3>2, <2>2, <1>4, <1>6, <1>2
  <2>3. CASE f # e
    <3>1. nodeMap'[f] = nodeMap[f]
      BY <2>1, <2>3, <1>7
    <3>2. nodeMap[f] \in 1 .. L /\ IdOf[nodes[nodeMap[f]]] = f
      BY <3>1 DEF MapConsistent
    <3>3. nodeMap[f] # L /\ nodeMap[f] # k
      BY <3>2, <2>1, <2>3, <1>2
    <3>4. nodeMap[f] \in 1 .. L - 1
      BY <3>2, <3>3, <1>1
    <3> QED BY <3>1, <3>2, <3>3, <3>4, <1>4, <1>6
  <2> QED BY <2>2, <2>3
<1> QED BY <1>9, <1>10, <1>11, <1>12 DEF MapConsistent

\* So do SetDrained and the steps of PickNode.
LEMMA PickInv ==
    ASSUME IInv, (\E n \in Nodes : SetDrained(n)) \/ BeginPick \/ TryNext \/ EndPick
    PROVE  IInv'
<1> USE DEF IInv
<1>1. CASE \E n \in Nodes : SetDrained(n)
  BY <1>1 DEF TypeOK, InBounds, EmptyInv, MapConsistent, SetDrained, list, loop
<1>2. CASE BeginPick
  <2>1. UNCHANGED <<nodes, nodeMap, index, drained, round>>
    BY <1>2 DEF BeginPick, list
  <2>2. picking' \in BOOLEAN
    BY <1>2, Zenon DEF BeginPick, TypeOK
  <2>3. i' \in Nat /\ picked' \in Nodes \cup {None} /\ seen' \subseteq Nat
    <3>1. i \in Nat /\ picked \in Nodes \cup {None} /\ seen \subseteq Nat
      BY DEF TypeOK
    <3>2. i' = i \/ i' = 0
      BY <1>2, Zenon DEF BeginPick
    <3>3. picked' = None \/ picked' = picked
      BY <1>2, Zenon DEF BeginPick
    <3>4. seen' = seen \/ seen' = {}
      BY <1>2, Zenon DEF BeginPick
    <3>5. i' \in Nat
      BY <3>1, <3>2
    <3>6. picked' \in Nodes \cup {None}
      BY <3>1, <3>3
    <3>7. seen' \subseteq Nat
      BY <3>1, <3>4, Zenon
    <3> QED BY <3>5, <3>6, <3>7
  <2> QED BY <2>1, <2>2, <2>3 DEF TypeOK, InBounds, EmptyInv, MapConsistent
<1>3. CASE TryNext
  <2>1. Len(nodes) \in Nat /\ i \in Nat /\ i < Len(nodes)
    BY <1>3 DEF TypeOK, TryNext
  <2>2. Len(nodes) > 0 /\ index + 1 \in Nat /\ nodes # << >>
    BY <2>1 DEF TypeOK
  <2>3. index + 1 \in 1 .. Len(nodes)
    BY <2>1, <2>2 DEF InBounds, TypeOK
  <2>4. nodes[index + 1] \in Nodes
    BY <2>3 DEF TypeOK
  <2>5. index' \in Nat /\ index' < Len(nodes)
    BY <1>3, <2>1, <2>2, ModBound DEF TryNext
  <2>6. /\ nodes' = nodes /\ nodeMap' = nodeMap /\ drained' = drained
        /\ seen' = seen \cup {index + 1}
        /\ round' = IF index + 1 \in round THEN {index + 1} ELSE round \cup {index + 1}
    BY <1>3 DEF TryNext
  <2>7. picking' \in BOOLEAN /\ i' \in Nat /\ picked' \in Nodes \cup {None}
    <3>1. picking' \in BOOLEAN
      BY <1>3, Zenon DEF TryNext, TypeOK
    <3>2. \/ i' = i + 1 /\ picked' = picked
          \/ i' = i /\ picked' = nodes[index + 1]
      BY <1>3, Zenon DEF TryNext
    <3>3. i' \in Nat /\ picked' \in Nodes \cup {None}
      BY <3>2, <2>1, <2>4 DEF TypeOK
    <3> QED BY <3>1, <3>3
  <2>8. seen' \subseteq Nat /\ round' \subseteq Nat
    <3>1. index + 1 \in Nat /\ seen \subseteq Nat /\ round \subseteq Nat
      BY <2>2 DEF TypeOK
    <3> QED BY <3>1, <2>6
  <2>9. TypeOK'
    BY <2>5, <2>6, <2>7, <2>8 DEF TypeOK
  <2> QED BY <2>2, <2>5, <2>6, <2>9 DEF InBounds, EmptyInv, MapConsistent
<1>4. CASE EndPick
  BY <1>4 DEF TypeOK, InBounds, EmptyInv, MapConsistent, EndPick, list
<1> QED BY <1>1, <1>2, <1>3, <1>4

-----------------------------------------------------------------------------
\* The invariant holds in every reachable state.
LEMMA Invariance == Spec => []IInv
<1>1. Init => IInv
  <2> SUFFICES ASSUME Init
               PROVE  IInv
    OBVIOUS
  <2>1. nodes \in Seq(Nodes) /\ nodeMap \in [Ids -> Nat] /\ seen \subseteq Nat /\ round \subseteq Nat
    BY DEF Init
  <2>2. TypeOK
    BY <2>1 DEF Init, TypeOK
  <2>3. InBounds /\ EmptyInv
    BY DEF Init, InBounds, EmptyInv
  <2>4. MapConsistent
    BY DEF Init, MapConsistent
  <2> QED BY <2>2, <2>3, <2>4 DEF IInv
<1>2. IInv /\ [Next]_vars => IInv'
  <2> SUFFICES ASSUME IInv, [Next]_vars
               PROVE  IInv'
    OBVIOUS
  <2>1. CASE UNCHANGED vars
    BY <2>1 DEF IInv, TypeOK, InBounds, EmptyInv, MapConsistent, vars, list, loop
  <2>2. CASE Next
    BY <2>2, AddInv, RemoveInv, PickInv DEF Next
  <2> QED BY <2>1, <2>2
<1> QED BY <1>1, <1>2, PTL DEF Spec

\* Every variable keeps its type.
THEOREM BalancerTyping == Spec => []TypeOK
BY Invariance, PTL DEF IInv

\* PickNode's read of b.nodes[b.index] is in range, whatever was added, removed
\* and picked before, for any number of nodes.
THEOREM IndexInRange == Spec => []InBounds
BY Invariance, PTL DEF IInv

\* nodeMap and the slice agree after any sequence of additions and removals.
THEOREM MapAgrees == Spec => []MapConsistent
BY Invariance, PTL DEF IInv

-----------------------------------------------------------------------------
(* The rotation.  A position was tried as many turns ago as the index has    *)
(* moved since; what a pick has seen and what a round has tried are the last  *)
(* so many turns, going backwards around the slice.                          *)

\* How many turns ago position k was tried when x is the position to try next,
\* in a slice of m positions, and the positions of the last r turns.
Ago(k, x, m) == IF k <= x THEN x - k + 1 ELSE x - k + 1 + m
LastTurns(r, x, m) == {k \in 1 .. m : Ago(k, x, m) <= r}

SeenInv == picking => /\ nodes # << >> /\ i <= Len(nodes)
                      /\ seen = LastTurns(i, index, Len(nodes))
RoundInv == \E r \in 0 .. Len(nodes) : round = LastTurns(r, index, Len(nodes))
RInv == IInv /\ SeenInv /\ RoundInv

\* One step forward around a slice of m positions.
LEMMA ModStep ==
    ASSUME NEW m \in Nat, NEW x \in 0 .. m - 1
    PROVE  (x + 1) % m = IF x + 1 = m THEN 0 ELSE x + 1
OBVIOUS

\* Before the first turn nothing has been tried; all of the slice has been
\* after as many turns as there are positions, the next one longest ago.
LEMMA TurnBounds ==
    ASSUME NEW m \in Nat, NEW x \in 0 .. m - 1
    PROVE  /\ LastTurns(0, x, m) = {}
           /\ LastTurns(m, x, m) = 1 .. m
           /\ Ago(x + 1, x, m) = m
           /\ x + 1 \in 1 .. m
           /\ \A k \in 1 .. m : Ago(k, x, m) \in 1 .. m
<1>1. \A k \in 1 .. m : Ago(k, x, m) \in 1 .. m
  BY DEF Ago
<1> QED BY <1>1 DEF LastTurns, Ago

\* A turn adds the position it tries to the last turns.
LEMMA OneTurn ==
    ASSUME NEW m \in Nat, NEW x \in 0 .. m - 1, NEW r \in 0 .. m - 1
    PROVE  LastTurns(r + 1, (x + 1) % m, m) = LastTurns(r, x, m) \cup {x + 1}
<1> DEFINE y == (x + 1) % m
<1>1. y = IF x + 1 = m THEN 0 ELSE x + 1
  BY ModStep
<1>2. \A k \in 1 .. m : Ago(k, y, m) = IF k = x + 1 THEN 1 ELSE Ago(k, x, m) + 1
  BY <1>1 DEF Ago
<1>3. \A k \in 1 .. m : Ago(k, y, m) <= r + 1 <=> Ago(k, x, m) <= r \/ k = x + 1
  BY <1>2, TurnBounds
<1>4. x + 1 \in 1 .. m
  BY TurnBounds
<1> HIDE DEF y
<1>5. LastTurns(r + 1, y, m) = LastTurns(r, x, m) \cup {x + 1}
  BY <1>3, <1>4 DEF LastTurns
<1> QED BY <1>5 DEF y

\* Every step keeps what is known of the last turns.
LEMMA TurnsInv ==
    ASSUME RInv, Next, IInv'
    PROVE  SeenInv' /\ RoundInv'
<1> USE DEF RInv
<1>0. Len(nodes) \in Nat /\ (nodes # << >> => index \in 0 .. Len(nodes) - 1)
  BY DEF IInv, TypeOK, InBounds
<1>1. CASE \E n \in Nodes : AddNode(n) \/ RemoveNode(n)
  <2>1. picking' = FALSE /\ round' = {}
    BY <1>1 DEF AddNode, RemoveNode, loop
  <2>2. Len(nodes') \in Nat /\ (nodes' # << >> => index' \in 0 .. Len(nodes') - 1)
    BY DEF IInv, TypeOK, InBounds
  <2>3. LastTurns(0, index', Len(nodes')) = {}
    <3>1. CASE nodes' = << >>
      BY <3>1 DEF LastTurns
    <3>2. CASE nodes' # << >>
      BY <3>2, <2>2, TurnBounds
    <3> QED BY <3>1, <3>2
  <2> QED BY <2>1, <2>2, <2>3 DEF SeenInv, RoundInv
<1>2. CASE (\E n \in Nodes : SetDrained(n)) \/ EndPick
  BY <1>2 DEF SetDrained, EndPick, list, loop, SeenInv, RoundInv
<1>3. CASE BeginPick
  <2>1. UNCHANGED <<nodes, index, round>>
    BY <1>3 DEF BeginPick, list
  <2>2. picking' => nodes # << >> /\ i' = 0 /\ seen' = {}
    BY <1>3, Zenon DEF BeginPick
  <2>3. picking' => LastTurns(0, index, Len(nodes)) = {}
    BY <1>0, <2>2, TurnBounds
  <2> QED BY <1>0, <2>1, <2>2, <2>3 DEF SeenInv, RoundInv
<1>4. CASE TryNext
  <2>1. /\ nodes # << >> /\ nodes' = nodes
        /\ i \in 0 .. Len(nodes) - 1 /\ seen = LastTurns(i, index, Len(nodes))
    BY <1>4 DEF TryNext, SeenInv, IInv, TypeOK
  <2>2. index \in 0 .. Len(nodes) - 1 /\ index' = (index + 1) % Len(nodes)
    BY <1>0, <1>4, <2>1 DEF TryNext
  <2>3. \A r \in 0 .. Len(nodes) - 1 :
          LastTurns(r + 1, index', Len(nodes)) = LastTurns(r, index, Len(nodes)) \cup {index + 1}
    BY <1>0, <2>2, OneTurn
  <2>4. SeenInv'
    <3>1. seen' = seen \cup {index + 1} /\ (picking' => i' = i + 1)
      BY <1>4, Zenon DEF TryNext
    <3> QED BY <1>0, <2>1, <2>3, <3>1 DEF SeenInv
  <2>5. RoundInv'
    <3>1. PICK r \in 0 .. Len(nodes) : round = LastTurns(r, index, Len(nodes))
      BY DEF RoundInv
    <3>2. CASE index + 1 \in round
      <4>1. round' = {index + 1}
        BY <3>2, <1>4 DEF TryNext
      <4>2. LastTurns(0 + 1, index', Len(nodes)) = LastTurns(0, index, Len(nodes)) \cup {index + 1}
        BY <1>0, <2>2, <2>3
      <4>3. round' = LastTurns(1, index', Len(nodes))
        <5>1. LastTurns(0, index, Len(nodes)) = {} /\ 0 + 1 = 1
          BY <1>0, <2>2, TurnBounds
        <5> QED BY <5>1, <4>1, <4>2
      <4> QED BY <4>3, <1>0, <2>1, <2>2 DEF RoundInv
    <3>3. CASE index + 1 \notin round
      <4>1. round' = round \cup {index + 1}
        BY <3>3, <1>4 DEF TryNext
      <4>2. r \in 0 .. Len(nodes) - 1
        <5>1. index + 1 \in 1 .. Len(nodes) /\ Ago(index + 1, index, Len(nodes)) = Len(nodes)
          BY <1>0, <2>2, TurnBounds
        <5>2. ~(Len(nodes) <= r)
          BY <5>1, <3>1, <3>3 DEF LastTurns
        <5> QED BY <5>2, <1>0
      <4>3. round' = LastTurns(r + 1, index', Len(nodes))
        BY <4>1, <4>2, <3>1, <2>3
      <4> QED BY <4>2, <4>3, <1>0, <2>1 DEF RoundInv
    <3> QED BY <3>2, <3>3
  <2> QED BY <2>4, <2>5
<1> QED BY <1>1, <1>2, <1>3, <1>4 DEF Next

\* The strengthened invariant holds in every reachable state.
LEMMA RotationInvariance == Spec => []RInv
<1>1. Init => SeenInv /\ RoundInv
  <2> SUFFICES ASSUME Init
               PROVE  SeenInv /\ RoundInv
    OBVIOUS
  <2>1. nodes = << >> /\ Len(nodes) = 0 /\ round = {} /\ picking = FALSE
    BY DEF Init
  <2>2. LastTurns(0, index, 0) = {}
    BY DEF LastTurns
  <2> QED BY <2>1, <2>2 DEF SeenInv, RoundInv
<1>2. RInv /\ IInv' /\ [Next]_vars => SeenInv' /\ RoundInv'
  <2> SUFFICES ASSUME RInv, IInv', [Next]_vars
               PROVE  SeenInv' /\ RoundInv'
    OBVIOUS
  <2>1. CASE UNCHANGED vars
    BY <2>1 DEF RInv, SeenInv, RoundInv, vars, list, loop
  <2> QED BY <2>1, TurnsInv
<1> QED BY <1>1, <1>2, Invariance, PTL DEF Spec, RInv

\* PickNode rotates: a position is tried again only after all the others, from
\* one PickNode to the next, for any number of nodes.
THEOREM Rotates == Spec => Rotation
<1>1. RInv /\ [Next]_vars => [TryNext /\ index + 1 \in round => round = 1 .. Len(nodes)]_vars
  <2> SUFFICES ASSUME RInv, TryNext, index + 1 \in round
               PROVE  round = 1 .. Len(nodes)
    OBVIOUS
  <2>1. Len(nodes) \in Nat /\ index \in 0 .. Len(nodes) - 1
    BY DEF RInv, SeenInv, IInv, TypeOK, InBounds, TryNext
  <2>2. PICK r \in 0 .. Len(nodes) : round = LastTurns(r, index, Len(nodes))
    BY DEF RInv, RoundInv
  <2>3. r = Len(nodes)
    BY <2>1, <2>2, TurnBounds DEF LastTurns
  <2> QED BY <2>1, <2>2, <2>3, TurnBounds
<1> QED BY <1>1, RotationInvariance, PTL DEF Spec, Rotation

-----------------------------------------------------------------------------
(* The refinement.  The members of the abstract balancer are read through    *)
(* the map from ids to positions, so that an exact map is what makes AddNode  *)
(* and RemoveNode implement theirs; the last turns are what makes the end of  *)
(* a pick that found nobody one that has refused every node.                  *)

\* The nodes of the slice are the nodes the abstract balancer holds.
LEMMA HeldNodes ==
    ASSUME IInv
    PROVE  Promise!Held(Members) = {nodes[k] : k \in 1 .. Len(nodes)}
<1> USE BalancerAssumption DEF IInv
<1>1. ASSUME NEW n \in Promise!Held(Members)
      PROVE  n \in {nodes[k] : k \in 1 .. Len(nodes)}
  <2>1. n \in Nodes /\ Members[IdOf[n]] = n /\ IdOf[n] \in Ids
    BY <1>1 DEF Promise!Held
  <2>2. nodeMap[IdOf[n]] # 0 /\ n = nodes[nodeMap[IdOf[n]]]
    BY <2>1 DEF Members
  <2> QED BY <2>1, <2>2 DEF MapConsistent
<1>2. ASSUME NEW k \in 1 .. Len(nodes)
      PROVE  nodes[k] \in Promise!Held(Members)
  <2>1. nodes[k] \in Nodes /\ IdOf[nodes[k]] \in Ids /\ nodeMap[IdOf[nodes[k]]] = k
    BY DEF TypeOK, MapConsistent
  <2>2. k # 0
    BY DEF TypeOK
  <2>3. Members[IdOf[nodes[k]]] = nodes[k]
    BY <2>1, <2>2 DEF Members
  <2> QED BY <2>1, <2>3 DEF Promise!Held
<1> QED BY <1>1, <1>2

\* AddNode and RemoveNode of the slice are those of the set.
LEMMA AddRefines ==
    ASSUME IInv, NEW n \in Nodes, AddNode(n)
    PROVE  Promise!AddNode(n)
<1> DEFINE d == IdOf[n]
<1> USE BalancerAssumption DEF IInv
<1>0. d \in Ids /\ Len(nodes) \in Nat
  BY DEF TypeOK
<1>1. ~picking /\ UNCHANGED <<drained, picking, picked, seen>>
  BY DEF AddNode, loop
<1>2. Refused = {} /\ Refused' = {}
  BY <1>1 DEF Refused
<1>3. \A e \in Ids : Members'[e] = IF e = d THEN n ELSE Members[e]
  <2> SUFFICES ASSUME NEW e \in Ids
               PROVE  Members'[e] = IF e = d THEN n ELSE Members[e]
    OBVIOUS
  <2>0. nodeMap[e] # 0 => nodeMap[e] \in 1 .. Len(nodes) /\ IdOf[nodes[nodeMap[e]]] = e
    BY DEF MapConsistent
  <2>1. CASE nodeMap[d] # 0
    <3>1. nodes' = [nodes EXCEPT ![nodeMap[d]] = n] /\ nodeMap' = nodeMap
      BY <2>1 DEF AddNode
    <3>2. nodeMap[d] \in 1 .. Len(nodes) /\ IdOf[nodes[nodeMap[d]]] = d
      BY <1>0, <2>1 DEF MapConsistent
    <3>3. \A j \in 1 .. Len(nodes) : nodes'[j] = IF j = nodeMap[d] THEN n ELSE nodes[j]
      BY <3>1, <3>2, ReplaceSeq DEF TypeOK
    <3> QED BY <3>1, <3>2, <3>3, <2>0, <2>1 DEF Members
  <2>2. CASE nodeMap[d] = 0
    <3>1. nodes' = Append(nodes, n) /\ nodeMap' = [nodeMap EXCEPT ![d] = Len(nodes) + 1]
      BY <2>2 DEF AddNode
    <3>2. /\ \A j \in 1 .. Len(nodes) : nodes'[j] = nodes[j]
          /\ nodes'[Len(nodes) + 1] = n
      BY <3>1, AppendSeq DEF TypeOK
    <3>3. nodeMap'[e] = IF e = d THEN Len(nodes) + 1 ELSE nodeMap[e]
      BY <3>1 DEF TypeOK
    <3> QED BY <3>2, <3>3, <2>0, <1>0 DEF Members
  <2> QED BY <2>1, <2>2
<1>4. Members' = [Members EXCEPT ![d] = n]
  BY <1>3, <1>0 DEF Members
<1> QED BY <1>1, <1>2, <1>4 DEF Promise!AddNode, Promise!Put

\* Remove is Drop of the abstract balancer.
LEMMA RemoveRefines ==
    ASSUME IInv, NEW n \in Nodes, RemoveNode(n)
    PROVE  Promise!RemoveNode(n)
<1> DEFINE d == IdOf[n]
           k == nodeMap[d]
           L == Len(nodes)
           e == IdOf[nodes[L]]
           q == [nodes EXCEPT ![k] = nodes[L]]
<1> USE BalancerAssumption DEF IInv
<1>0. d \in Ids /\ L \in Nat
  BY DEF TypeOK
<1>1. ~picking /\ UNCHANGED <<drained, picking, picked, seen>>
  BY DEF RemoveNode, loop
<1>2. Refused = {} /\ Refused' = {}
  BY <1>1 DEF Refused
<1>3. k \in 1 .. L /\ IdOf[nodes[k]] = d
  BY <1>0 DEF RemoveNode, MapConsistent
<1>4. L \in 1 .. L /\ nodes[L] \in Nodes /\ e \in Ids /\ nodeMap[e] = L
  <2>1. L \in 1 .. L
    BY <1>0, <1>3
  <2>2. nodes[L] \in Nodes
    BY <2>1 DEF TypeOK
  <2> QED BY <2>1, <2>2 DEF MapConsistent
<1>5. /\ q \in Seq(Nodes) /\ Len(q) = L
      /\ \A j \in 1 .. L : q[j] = IF j = k THEN nodes[L] ELSE nodes[j]
  BY <1>3, <1>4, ReplaceSeq DEF TypeOK
<1>6. \A j \in 1 .. L - 1 : nodes'[j] = q[j]
  <2>1. nodes' = SubSeq(q, 1, L - 1) /\ L > 0
    BY <1>0, <1>4 DEF RemoveNode, MoveLast
  <2> HIDE DEF q, L
  <2>2. Len(q) > 0 /\ nodes' = SubSeq(q, 1, Len(q) - 1)
    BY <2>1, <1>5
  <2> QED BY <2>2, <1>5, FrontSeq
<1>7. nodeMap' = [f \in Ids |-> IF f = d THEN 0 ELSE IF f = e THEN k ELSE nodeMap[f]]
  BY DEF RemoveNode
<1>8. \A f \in Ids : Members'[f] = IF f = d THEN None ELSE Members[f]
  <2> SUFFICES ASSUME NEW f \in Ids
               PROVE  Members'[f] = IF f = d THEN None ELSE Members[f]
    OBVIOUS
  <2>1. CASE f = d
    BY <2>1, <1>7 DEF Members
  <2>2. CASE f # d /\ f = e
    <3>1. nodeMap'[f] = k /\ Members[f] = nodes[L]
      BY <2>2, <1>0, <1>4, <1>7 DEF Members
    <3>2. k \in 1 .. L - 1
      BY <2>2, <1>0, <1>3, <1>4
    <3>3. nodes'[k] = nodes[L]
      BY <3>2, <1>3, <1>5, <1>6
    <3>4. k # 0
      BY <3>2, <1>0
    <3> QED BY <3>1, <3>3, <3>4, <2>2 DEF Members
  <2>3. CASE f # d /\ f # e
    <3>1. nodeMap'[f] = nodeMap[f]
      BY <2>3, <1>7
    <3>2. CASE nodeMap[f] = 0
      BY <3>1, <3>2, <2>3 DEF Members
    <3>3. CASE nodeMap[f] # 0
      <4>1. nodeMap[f] \in 1 .. L /\ IdOf[nodes[nodeMap[f]]] = f
        BY <3>3 DEF MapConsistent
      <4>2. nodeMap[f] # L /\ nodeMap[f] # k
        BY <4>1, <2>3, <1>3
      <4>3. nodeMap[f] \in 1 .. L - 1
        BY <4>1, <4>2, <1>0
      <4>4. nodes'[nodeMap[f]] = nodes[nodeMap[f]]
        BY <4>1, <4>2, <4>3, <1>5, <1>6
      <4> QED BY <3>1, <3>3, <4>4, <2>3 DEF Members
    <3> QED BY <3>2, <3>3
  <2> QED BY <2>1, <2>2, <2>3
<1>9. Members' = [Members EXCEPT ![d] = None]
  <2> HIDE DEF d
  <2> QED BY <1>8, <1>0 DEF Members
<1> QED BY <1>1, <1>2, <1>9 DEF Promise!RemoveNode, Promise!Drop

\* The turns of PickNode: a drained node is refused, another one taken, and a
\* loop that ends has refused them all.
LEMMA PickRefines ==
    ASSUME RInv, BeginPick \/ TryNext \/ EndPick
    PROVE  Promise!Next
<1> USE BalancerAssumption DEF RInv
<1>0. /\ Len(nodes) \in Nat /\ nodes \in Seq(Nodes)
      /\ (nodes # << >> => index \in 0 .. Len(nodes) - 1)
  BY DEF IInv, TypeOK, InBounds
<1>1. UNCHANGED <<nodes, nodeMap, drained>>
  BY DEF BeginPick, TryNext, EndPick, list
<1>2. Members' = Members
  BY <1>1 DEF Members
<1>3. CASE BeginPick /\ nodes = << >>
  <2>1. ~picking /\ picked' = None /\ UNCHANGED <<picking, seen>>
    BY <1>3 DEF BeginPick
  <2>2. Promise!Held(Members) = {}
    <3>1. Len(nodes) = 0
      BY <1>3
    <3> QED BY <3>1, HeldNodes
  <2>3. Refused' = Refused
    BY <2>1 DEF Refused
  <2> QED BY <1>1, <1>2, <2>1, <2>2, <2>3 DEF Promise!PickNothing, Promise!Next
<1>4. CASE BeginPick /\ nodes # << >>
  <2>1. ~picking /\ picking' = TRUE /\ seen' = {} /\ picked' = picked
    BY <1>4 DEF BeginPick
  <2>2. Refused' = {}
    BY <2>1 DEF Refused
  <2> QED BY <1>1, <1>2, <2>1, <2>2 DEF Promise!BeginPick, Promise!Next
<1>5. CASE TryNext
  <2> DEFINE n == nodes[index + 1]
  <2>1. picking /\ nodes # << >> /\ index + 1 \in 1 .. Len(nodes)
    <3>1. picking /\ nodes # << >>
      BY <1>5 DEF TryNext, SeenInv
    <3> QED BY <3>1, <1>0
  <2>2. n \in Nodes /\ n \in Promise!Held(Members)
    BY <2>1, <1>0, HeldNodes
  <2>3. seen' = seen \cup {index + 1}
    BY <1>5 DEF TryNext
  <2>4. CASE drained[n]
    <3>1. picking' = picking /\ picked' = picked
      BY <1>5, <2>4 DEF TryNext
    <3>2. Refused' = Refused \cup {n}
      BY <3>1, <2>1, <2>3, <1>1 DEF Refused
    <3>3. Promise!Refuse(n)
      BY <1>1, <1>2, <2>1, <2>2, <2>4, <3>1, <3>2 DEF Promise!Refuse
    <3> QED BY <2>2, <3>3 DEF Promise!Next
  <2>5. CASE ~drained[n]
    <3>1. picking' = FALSE /\ picked' = n
      BY <1>5, <2>5 DEF TryNext
    <3>2. Refused' = {}
      BY <3>1 DEF Refused
    <3>3. Promise!Take(n)
      BY <1>1, <1>2, <2>1, <2>2, <2>5, <3>1, <3>2 DEF Promise!Take
    <3> QED BY <2>2, <3>3 DEF Promise!Next
  <2> QED BY <2>4, <2>5
<1>6. CASE EndPick
  <2>1. picking /\ picking' = FALSE /\ picked' = None /\ i >= Len(nodes)
    BY <1>6 DEF EndPick
  <2>2. i = Len(nodes) /\ nodes # << >> /\ seen = LastTurns(i, index, Len(nodes))
    BY <2>1, <1>0 DEF SeenInv, IInv, TypeOK
  <2>3. seen = 1 .. Len(nodes)
    BY <2>2, <1>0, TurnBounds
  <2>4. Promise!Held(Members) = Refused
    BY <2>1, <2>3, HeldNodes DEF Refused
  <2>5. Refused' = {}
    BY <2>1 DEF Refused
  <2> QED BY <1>1, <1>2, <2>1, <2>4, <2>5 DEF Promise!GiveUp, Promise!Next
<1> QED BY <1>3, <1>4, <1>5, <1>6

\* RoundRobin implements the Balancer interface, for any number of nodes and of
\* objects per id: whatever was added, replaced, removed and drained, PickNode
\* returns a node that is held and not drained, or nil after it has found every
\* node that it holds drained.
THEOREM ImplementsBalancer == Spec => KeepsPromise
<1>1. Init => Promise!Init
  <2> SUFFICES ASSUME Init
               PROVE  Promise!Init
    OBVIOUS
  <2>1. Members = [d \in Ids |-> None] /\ Refused = {}
    BY DEF Init, Members, Refused
  <2> QED BY <2>1 DEF Init, Promise!Init
<1>2. RInv /\ [Next]_vars => [Promise!Next]_(Promise!vars)
  <2> SUFFICES ASSUME RInv, [Next]_vars
               PROVE  Promise!Next \/ UNCHANGED Promise!vars
    OBVIOUS
  <2>1. CASE UNCHANGED vars
    BY <2>1 DEF vars, list, loop, Promise!vars, Members, Refused
  <2>2. ASSUME NEW n \in Nodes, AddNode(n)
        PROVE  Promise!Next
    BY <2>2, AddRefines DEF RInv, Promise!Next
  <2>3. ASSUME NEW n \in Nodes, RemoveNode(n)
        PROVE  Promise!Next
    BY <2>3, RemoveRefines DEF RInv, Promise!Next
  <2>4. ASSUME NEW n \in Nodes, SetDrained(n)
        PROVE  Promise!Next
    <3>1. Promise!SetDrained(n)
      BY <2>4 DEF SetDrained, list, loop, Promise!SetDrained, Members, Refused
    <3> QED BY <3>1 DEF Promise!Next
  <2>5. CASE BeginPick \/ TryNext \/ EndPick
    BY <2>5, PickRefines
  <2> QED BY <2>1, <2>2, <2>3, <2>4, <2>5 DEF Next
<1> QED BY <1>1, <1>2, RotationInvariance, PTL DEF Spec, KeepsPromise, Promise!Spec

=============================================================================
