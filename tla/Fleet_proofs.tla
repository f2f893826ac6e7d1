---------------------------- MODULE Fleet_proofs ----------------------------
(***************************************************************************)
(* Proofs about Fleet.tla, for all sets of node ids, node objects,          *)
(* allocators, servers and goroutines, every finite port range and every    *)
(* number of restarts.                                                      *)
(*                                                                         *)
(* The type invariant holds in every behaviour.  The two properties of the  *)
(* ports and the clients are about behaviours without the races that the    *)
(* history variable raced records; what they need is that such a behaviour  *)
(* is orderly (Order), that an allocator belongs to one node and is asked   *)
(* to release only what it has handed out (PortInv), and how far a          *)
(* registration or a disconnection has come (ClientInv).                    *)
(***************************************************************************)
EXTENDS Fleet, WellFoundedInduction, TLAPS

-----------------------------------------------------------------------------
(* In every behaviour.                                                       *)

\* A server that is on some list has a node and a port, and one that is on its
\* way to its first list is on none.
OnList(s) ==
    \/ s \in managed \/ s \in stored \/ s \in reg.todo
    \/ \E p \in Discs : s \in disc[p].todo
    \/ \E c \in Cleaners : clean[c].srv = s
Placed ==
    /\ reg.pc # "idle" => reg.node \in Nodes
    /\ \A p \in Discs : disc[p].pc # "idle" => disc[p].node \in Nodes
    /\ \A c \in Cleaners : clean[c].pc # "idle" <=> clean[c].srv # None
    /\ \A d \in Ids : nodes[d] # None => IdOf[nodes[d]] = d
    /\ \A s \in Servers :
         /\ create[s].pc # "no" => create[s].node \in Nodes /\ srv[s].home \in Ids
         /\ create[s].pc \in {"alloc", "build"} => ~OnList(s)
         /\ create[s].pc \in {"build", "store", "send"} \/ OnList(s) =>
              srv[s].port \in Ports /\ srv[s].home \in Ids
    /\ \A s \in reg.todo : srv[s].home = IdOf[reg.node]
    /\ \A p \in Discs : \A s \in disc[p].todo : srv[s].home = IdOf[disc[p].node]
Typed == TypeOK /\ Placed

-----------------------------------------------------------------------------
(* In a behaviour without races.                                             *)

\* Registrations and disconnections come one after the other, and the balancer and
\* the manager know the same nodes but for the one that comes or goes.
MoveOrder ==
    /\ reg.pc # "idle" => \A p \in Discs : disc[p].pc = "idle"
    /\ \A p, q \in Discs : disc[p].pc # "idle" /\ disc[q].pc # "idle" => p = q
    /\ reg.pc \in {"balance", "add"} => nodes[IdOf[reg.node]] = None
    /\ reg.pc = "add" => lb[IdOf[reg.node]] = reg.node
    /\ reg.pc \in {"snapshot", "attach"} => nodes[IdOf[reg.node]] = reg.node
    /\ \A p \in Discs : disc[p].pc \in {"snapshot", "detach"} => lb[IdOf[disc[p].node]] = None
    /\ \A d \in Ids : \/ lb[d] = nodes[d]
                      \/ reg.pc = "add" /\ d = IdOf[reg.node]
                      \/ \E p \in Discs : disc[p].pc \in {"snapshot", "detach"} /\ d = IdOf[disc[p].node]

\* A creation that nobody can see yet keeps them out and has the node that the
\* manager has; what is stored is also in the manager.
CreateOrder ==
    /\ \A s \in Servers : create[s].pc \in {"alloc", "build"} =>
         /\ ~Moving
         /\ srv[s].home = IdOf[create[s].node]
         /\ nodes[IdOf[create[s].node]] = create[s].node
    /\ stored \subseteq managed
    /\ \A s \in Servers : create[s].pc \in {"store", "send"} => s \in managed

\* A server is cleaned up once, and not while it is being created.
CleanOrder ==
    \A c \in Cleaners : clean[c].pc # "idle" =>
      /\ clean[c].srv \in managed /\ create[clean[c].srv].pc = "no"
      /\ \A e \in Cleaners : clean[e].srv = clean[c].srv => e = c

Order == MoveOrder /\ CreateOrder /\ CleanOrder

\* The node objects whose allocators hand out ports, and the servers that have
\* one: those that a clean-up has not released yet.
Current(n) == n = reg.node \/ nodes[IdOf[n]] = n
Kept(s) == s \in managed \/ create[s].pc = "build"
Holding(s) == Kept(s) /\ \A c \in Cleaners : ~(clean[c].srv = s /\ clean[c].pc = "remove")

\* What a registration has yet to claim and to attach.
Unattached(s) ==
    /\ reg.pc = "snapshot" \/ (reg.pc = "attach" /\ s \in reg.todo)
    /\ srv[s].home = IdOf[reg.node]

\* An allocator belongs to one node, also the one that a server would give its
\* port back to.
OwnInv ==
    \A n, m \in Nodes :
      Current(n) /\ Current(m) /\ allocOf[n] # None /\ allocOf[n] = allocOf[m] => IdOf[n] = IdOf[m]
ReleaseInv ==
    \A s \in Servers : Kept(s) =>
      /\ srv[s].release \in Nodes => IdOf[srv[s].release] = srv[s].home
      /\ \A n \in Nodes : Current(n) /\ allocOf[n] # None /\ allocOf[n] = AllocatorOf(srv[s].release)
                            => IdOf[n] = srv[s].home

\* The allocator of a node knows the ports of the servers of the node, and no two
\* of these share one.
KnownInv ==
    \A s \in Servers : Holding(s) /\ ~Unattached(s) =>
      LET n == nodes[srv[s].home] IN
        n # None /\ allocOf[n] # None => srv[s].port \in used[allocOf[n]]
DistinctInv ==
    \A s, t \in Servers :
      Holding(s) /\ Holding(t) /\ s # t /\ srv[s].home = srv[t].home => srv[s].port # srv[t].port

\* A server has the client of its node, or none while the node is going.
ClientInv ==
    \A s \in Servers : s \in managed \/ create[s].pc \in {"alloc", "build"} =>
      /\ \/ srv[s].client = nodes[srv[s].home]
         \/ Unattached(s)
         \/ \E p \in Discs : disc[p].pc = "detach" /\ srv[s].home = IdOf[disc[p].node]
      /\ \A p \in Discs : disc[p].pc = "detach" /\ srv[s].home = IdOf[disc[p].node] =>
           s \in disc[p].todo \/ srv[s].client = None

PortInv == OwnInv /\ ReleaseInv /\ KnownInv /\ DistinctInv
OrderlyInv == ~raced => Order /\ PortInv /\ ClientInv

-----------------------------------------------------------------------------
(* Types, in parts.                                                          *)

RegRec == [pc : {"idle", "balance", "add", "snapshot", "attach"},
           node : Nodes \cup {None}, todo : SUBSET Servers]
DiscRec == [pc : {"idle", "remove", "snapshot", "detach"},
            node : Nodes \cup {None}, todo : SUBSET Servers]
CreateRec == [pc : {"no", "alloc", "build", "store", "send"}, node : Nodes \cup {None}]
CleanRec == [pc : {"idle", "release", "remove"}, srv : Servers \cup {None}]
SrvRec == [home : Ids \cup {None}, port : Ports \cup {None},
           release : Nodes \cup Allocs \cup {None}, client : Nodes \cup {None}]

RegistryTyped == /\ nodes \in [Ids -> Nodes \cup {None}] /\ lb \in [Ids -> Nodes \cup {None}]
                 /\ allocOf \in [Nodes -> Allocs \cup {None}] /\ used \in [Allocs -> SUBSET Ports]
RegTyped == reg \in RegRec
DiscTyped == disc \in [Discs -> DiscRec]
CreateTyped == create \in [Servers -> CreateRec]
CleanTyped == clean \in [Cleaners -> CleanRec]
SrvTyped == srv \in [Servers -> SrvRec]
RestTyped == /\ managed \subseteq Servers /\ stored \subseteq Servers
             /\ restarts \in 0 .. MaxRestarts /\ raced \in BOOLEAN

\* TypeOK is the conjunction of these.
LEMMA Parts ==
    TypeOK <=> /\ RegistryTyped /\ RegTyped /\ DiscTyped /\ CreateTyped /\ CleanTyped
               /\ SrvTyped /\ RestTyped
BY Zenon DEF TypeOK, RegistryTyped, RegTyped, RegRec, DiscTyped, DiscRec, CreateTyped, CreateRec,
   CleanTyped,
   CleanRec, SrvTyped, SrvRec, RestTyped

\* The empty records.
LEMMA Empty == /\ NoReg \in RegRec /\ NoDisc \in DiscRec /\ NoCreate \in CreateRec
               /\ NoClean \in CleanRec /\ NoServer \in SrvRec
BY DEF NoReg, RegRec, NoDisc, DiscRec, NoCreate, CreateRec, NoClean, CleanRec, NoServer, SrvRec

\* NewAllocation returns a port that is free.
LEMMA MinIsIn == ASSUME NEW S \in SUBSET Nat, S # {} PROVE Min(S) \in S
<1> DEFINE R == {ss \in Nat \X Nat : ss[1] < ss[2]}
<1>1. IsWellFoundedOn(R, Nat)
  BY NatLessThanWellFounded, Zenon DEF OpToRel
<1>2. PICK x \in S : \A y \in S : ~(<<y, x>> \in R)
  <2> HIDE DEF R
  <2> QED
    BY <1>1, WFMin
<1>3. ASSUME NEW y \in S PROVE x <= y
  <2>1. <<y, x>> \in Nat \X Nat /\ x \in Nat /\ y \in Nat
    OBVIOUS
  <2>2. y < x => <<y, x>> \in R
    BY <2>1
  <2>3. ~(y < x)
    BY <1>2, <2>2
  <2> QED
    BY <2>1, <2>3
<1> QED
  BY <1>2, <1>3 DEF Min

\* What CreateAlloc does, with the port it takes.
LEMMA Allocated ==
    ASSUME RegistryTyped, CreateTyped, Placed, NEW s \in Servers, CreateAlloc(s)
    PROVE  /\ create[s].pc = "alloc" /\ create[s].node \in Nodes
           /\ \/ \E a \in Allocs, p \in Ports :
                   /\ a = allocOf[create[s].node] /\ p \notin used[a]
                   /\ used' = [used EXCEPT ![a] = @ \cup {p}]
                   /\ srv' = [srv EXCEPT ![s].port = p, ![s].release = a]
                   /\ create' = [create EXCEPT ![s].pc = "build"]
              \/ /\ create' = [create EXCEPT ![s] = NoCreate]
                 /\ srv' = [srv EXCEPT ![s] = NoServer]
                 /\ UNCHANGED used
<1> DEFINE a == allocOf[create[s].node]
           free == IF a = None THEN {} ELSE Ports \ used[a]
<1>1. create[s].pc = "alloc" /\ create[s].node \in Nodes
  BY DEF CreateAlloc, Placed
<1>2. CASE free # {}
  <2>1. a \in Allocs /\ free = Ports \ used[a]
    BY <1>1, <1>2 DEF RegistryTyped
  <2>2. Min(free) \in Ports \ used[a]
    BY <1>2, <2>1, MinIsIn, FleetAssumption
  <2>3. /\ used' = [used EXCEPT ![a] = @ \cup {Min(free)}]
        /\ srv' = [srv EXCEPT ![s].port = Min(free), ![s].release = a]
        /\ create' = [create EXCEPT ![s].pc = "build"]
    BY <1>2 DEF CreateAlloc
  <2> QED
    BY <1>1, <2>1, <2>2, <2>3
<1>3. CASE free = {}
  BY <1>1, <1>3 DEF CreateAlloc
<1> QED
  BY <1>2, <1>3

\* The nodes, the balancer, the allocators and their ports.
LEMMA RegistryTypedStep ==
    ASSUME Typed, [Next]_vars
    PROVE  RegistryTyped'
<1>0. RegistryTyped /\ reg \in RegRec /\ DiscTyped /\ CreateTyped /\ CleanTyped /\ SrvTyped /\ Placed
  BY Parts DEF Typed, RegTyped
<1> USE FleetAssumption DEF RegistryTyped
<1>1. ASSUME NEW d \in Ids, RegisterAgain(d) \/ RegisterNew(d) PROVE RegistryTyped'
  BY <1>0, <1>1 DEF RegisterAgain, RegisterNew, NewAllocator
<1>2. CASE RegisterBalance \/ RegisterAdd
  BY <1>0, <1>2 DEF RegisterBalance, RegisterAdd, Placed, LB!Put
<1>3. ASSUME NEW s \in Servers, Attach(s) PROVE RegistryTyped'
  <2>1. srv[s].port \in Ports
    BY <1>0, <1>3 DEF Attach, Placed, OnList
  <2> QED
    BY <1>0, <1>3, <2>1 DEF Attach
<1>4. ASSUME NEW p \in Discs, DisconnectBalance(p) \/ DisconnectEnd(p) PROVE RegistryTyped'
  BY <1>0, <1>4 DEF DisconnectBalance, DisconnectEnd, Placed, LB!Drop
<1>5. ASSUME NEW s \in Servers, CreateAlloc(s) PROVE RegistryTyped'
  <2>1. \/ UNCHANGED used
        \/ \E a \in Allocs, p \in Ports : used' = [used EXCEPT ![a] = @ \cup {p}]
    BY <1>0, <1>5, Allocated
  <2> QED
    BY <1>0, <1>5, <2>1 DEF CreateAlloc
<1>6. ASSUME NEW c \in Cleaners, CleanRelease(c) PROVE RegistryTyped'
  BY <1>0, <1>6 DEF CleanRelease
<1>7. CASE Restart
  BY <1>0, <1>7 DEF Restart
<1>8. ASSUME UNCHANGED registry PROVE RegistryTyped'
  BY <1>0, <1>8 DEF registry
<1> QED
  BY <1>1, <1>2, <1>3, <1>4, <1>5, <1>6, <1>7, <1>8 DEF Next, vars, AttachBegin, AttachEnd,
     CreatePick,
     CreateAdd, CreateStore, CreateSend, DetachBegin, StartDisconnect, Detach, CleanRemove, BeginClean

\* The registration.
LEMMA RegTypedStep ==
    ASSUME Typed, [Next]_vars
    PROVE  RegTyped'
<1> USE DEF RegTyped
<1>0. RegistryTyped /\ reg \in RegRec /\ RestTyped
  BY Parts DEF Typed, RegTyped
<1>1. ASSUME NEW d \in Ids, RegisterAgain(d) PROVE RegTyped'
  <2>1. reg' = reg \/ (nodes[d] \in Nodes /\ reg' = [pc |-> "snapshot", node |-> nodes[d], todo |-> {}])
    BY <1>0, <1>1 DEF RegisterAgain, RegistryTyped
  <2> QED
    BY <1>0, <2>1 DEF RegRec
<1>2. ASSUME NEW d \in Ids, RegisterNew(d) PROVE RegTyped'
  <2>1. \E n \in Nodes : reg' = [pc |-> "balance", node |-> n, todo |-> {}]
    BY <1>2 DEF RegisterNew
  <2> QED
    BY <2>1 DEF RegRec
<1>3. CASE RegisterBalance \/ RegisterAdd
  BY <1>0, <1>3 DEF RegisterBalance, RegisterAdd, RegRec
<1>4. CASE AttachBegin
  <2>1. ServersByNode(IdOf[reg.node]) \in SUBSET Servers
    BY <1>0 DEF ServersByNode, RestTyped
  <2> QED
    BY <1>0, <1>4, <2>1 DEF AttachBegin, RegRec
<1>5. ASSUME NEW s \in Servers, Attach(s) PROVE RegTyped'
  BY <1>0, <1>5 DEF Attach, RegRec
<1>6. CASE AttachEnd \/ Restart
  BY <1>6, Empty DEF AttachEnd, Restart
<1>7. ASSUME UNCHANGED reg PROVE RegTyped'
  BY <1>0, <1>7
<1> QED
  BY <1>1, <1>2, <1>3, <1>4, <1>5, <1>6, <1>7 DEF Next, vars, CreatePick, CreateAlloc, CreateAdd,
     CreateStore, CreateSend, StartDisconnect, DisconnectBalance, DetachBegin, Detach,
     DisconnectEnd,
     CleanRelease, CleanRemove, BeginClean

\* The disconnections.
LEMMA DiscTypedStep ==
    ASSUME Typed, [Next]_vars
    PROVE  DiscTyped'
<1>0. RegistryTyped /\ DiscTyped /\ RestTyped
  BY Parts DEF Typed
<1>1. ASSUME NEW p \in Discs, NEW d \in Ids, StartDisconnect(p, d) PROVE DiscTyped'
  <2>1. [pc |-> "remove", node |-> nodes[d], todo |-> {}] \in DiscRec
    BY <1>0 DEF DiscRec, RegistryTyped
  <2> QED
    BY <1>0, <1>1, <2>1 DEF StartDisconnect, DiscTyped
<1>2. ASSUME NEW p \in Discs, DisconnectBalance(p) PROVE DiscTyped'
  BY <1>0, <1>2 DEF DisconnectBalance, DiscTyped, DiscRec
<1>3. ASSUME NEW p \in Discs, DetachBegin(p) PROVE DiscTyped'
  <2>1. ServersByNode(IdOf[disc[p].node]) \in SUBSET Servers
    BY <1>0 DEF ServersByNode, RestTyped
  <2> QED
    BY <1>0, <1>3, <2>1 DEF DetachBegin, DiscTyped, DiscRec
<1>4. ASSUME NEW p \in Discs, NEW s \in Servers, Detach(p, s) PROVE DiscTyped'
  BY <1>0, <1>4 DEF Detach, DiscTyped, DiscRec
<1>5. ASSUME NEW p \in Discs, DisconnectEnd(p) PROVE DiscTyped'
  BY <1>0, <1>5, Empty DEF DisconnectEnd, DiscTyped
<1>6. CASE Restart
  BY <1>6, Empty DEF Restart, DiscTyped
<1>7. ASSUME UNCHANGED disc PROVE DiscTyped'
  BY <1>0, <1>7 DEF DiscTyped
<1> QED
  BY <1>1, <1>2, <1>3, <1>4, <1>5, <1>6, <1>7 DEF Next, vars, RegisterAgain, RegisterNew,
     RegisterBalance, RegisterAdd, AttachBegin, Attach, AttachEnd, CreatePick, CreateAlloc,
     CreateAdd,
     CreateStore, CreateSend, CleanRelease, CleanRemove, BeginClean

\* The creations.
LEMMA CreateTypedStep ==
    ASSUME Typed, [Next]_vars
    PROVE  CreateTyped'
<1>0. CreateTyped
  BY Parts DEF Typed
<1>1. ASSUME NEW s \in Servers, CreatePick(s) PROVE CreateTyped'
  <2>1. \E n \in Nodes : create' = [create EXCEPT ![s] = [pc |-> "alloc", node |-> n]]
    BY <1>1 DEF CreatePick, LB!Held
  <2> QED
    BY <1>0, <2>1 DEF CreateTyped, CreateRec
<1>2. ASSUME NEW s \in Servers, CreateAlloc(s) \/ CreateAdd(s) \/ CreateStore(s) \/ CreateSend(s)
      PROVE  CreateTyped'
  <2>1. \/ create' = [create EXCEPT ![s] = NoCreate]
        \/ \E l \in {"build", "store", "send"} : create' = [create EXCEPT ![s].pc = l]
    BY <1>2 DEF CreateAlloc, CreateAdd, CreateStore, CreateSend, Abandon
  <2>2. CASE create' = [create EXCEPT ![s] = NoCreate]
    BY <1>0, <2>2, Empty DEF CreateTyped
  <2>3. CASE \E l \in {"build", "store", "send"} : create' = [create EXCEPT ![s].pc = l]
    BY <1>0, <2>3 DEF CreateTyped, CreateRec
  <2> QED
    BY <2>1, <2>2, <2>3
<1>3. CASE Restart
  BY <1>3, Empty DEF Restart, CreateTyped
<1>4. ASSUME UNCHANGED create PROVE CreateTyped'
  BY <1>0, <1>4 DEF CreateTyped
<1> QED
  BY <1>1, <1>2, <1>3, <1>4 DEF Next, vars, RegisterAgain, RegisterNew, RegisterBalance,
     RegisterAdd,
     AttachBegin, Attach, AttachEnd, StartDisconnect, DisconnectBalance, DetachBegin, Detach,
     DisconnectEnd, CleanRelease, CleanRemove, BeginClean

\* The clean-ups.
LEMMA CleanTypedStep ==
    ASSUME Typed, [Next]_vars
    PROVE  CleanTyped'
<1>0. CleanTyped
  BY Parts DEF Typed
<1>1. ASSUME NEW c \in Cleaners, NEW s \in Servers, BeginClean(c, s) PROVE CleanTyped'
  <2>1. [pc |-> "release", srv |-> s] \in CleanRec
    BY DEF CleanRec
  <2> QED
    BY <1>0, <1>1, <2>1 DEF BeginClean, CleanTyped
<1>2. ASSUME NEW c \in Cleaners, CleanRelease(c) \/ CleanRemove(c) PROVE CleanTyped'
  <2>1. \/ clean' = [clean EXCEPT ![c] = NoClean]
        \/ clean' = [clean EXCEPT ![c].pc = "remove"]
    BY <1>2 DEF CleanRelease, CleanRemove
  <2>2. CASE clean' = [clean EXCEPT ![c] = NoClean]
    BY <1>0, <2>2, Empty DEF CleanTyped
  <2>3. CASE clean' = [clean EXCEPT ![c].pc = "remove"]
    BY <1>0, <2>3 DEF CleanTyped, CleanRec
  <2> QED
    BY <2>1, <2>2, <2>3
<1>3. CASE Restart
  BY <1>3, Empty DEF Restart, CleanTyped
<1>4. ASSUME UNCHANGED clean PROVE CleanTyped'
  BY <1>0, <1>4 DEF CleanTyped
<1> QED
  BY <1>1, <1>2, <1>3, <1>4 DEF Next, vars, RegisterAgain, RegisterNew, RegisterBalance,
     RegisterAdd,
     AttachBegin, Attach, AttachEnd, StartDisconnect, DisconnectBalance, DetachBegin, Detach,
     DisconnectEnd, CreatePick, CreateAlloc, CreateAdd, CreateStore, CreateSend

\* The servers.
LEMMA SrvTypedStep ==
    ASSUME Typed, [Next]_vars
    PROVE  SrvTyped'
<1>0. RegistryTyped /\ reg \in RegRec /\ CreateTyped /\ SrvTyped /\ Placed
  BY Parts DEF Typed, RegTyped
<1>1. ASSUME NEW s \in Servers, Attach(s) PROVE SrvTyped'
  <2>1. reg.node \in Nodes /\ srv' = [srv EXCEPT ![s].client = reg.node, ![s].release = reg.node]
    BY <1>0, <1>1 DEF Attach, Placed
  <2> QED
    BY <1>0, <2>1 DEF SrvTyped, SrvRec
<1>2. ASSUME NEW p \in Discs, NEW s \in Servers, Detach(p, s) PROVE SrvTyped'
  BY <1>0, <1>2 DEF Detach, SrvTyped, SrvRec
<1>3. ASSUME NEW s \in Servers, CreatePick(s) PROVE SrvTyped'
  <2>1. PICK n \in Nodes : srv' = [srv EXCEPT ![s] = [NoServer EXCEPT !.home = IdOf[n], !.client = n]]
    BY <1>3 DEF CreatePick, LB!Held
  <2>2. [NoServer EXCEPT !.home = IdOf[n], !.client = n] \in SrvRec
    BY FleetAssumption DEF NoServer, SrvRec
  <2> QED
    BY <1>0, <2>1, <2>2 DEF SrvTyped
<1>4. ASSUME NEW s \in Servers, CreateAlloc(s) PROVE SrvTyped'
  <2>1. \/ \E a \in Allocs, p \in Ports : srv' = [srv EXCEPT ![s].port = p, ![s].release = a]
        \/ srv' = [srv EXCEPT ![s] = NoServer]
    BY <1>0, <1>4, Allocated
  <2>2. CASE \E a \in Allocs, p \in Ports : srv' = [srv EXCEPT ![s].port = p, ![s].release = a]
    BY <1>0, <2>2 DEF SrvTyped, SrvRec
  <2>3. CASE srv' = [srv EXCEPT ![s] = NoServer]
    BY <1>0, <2>3, Empty DEF SrvTyped
  <2> QED
    BY <2>1, <2>2, <2>3
<1>5. ASSUME NEW s \in Servers, CreateAdd(s) PROVE SrvTyped'
  BY <1>0, <1>5, Empty DEF CreateAdd, SrvTyped
<1>6. CASE Restart
  <2>1. ASSUME NEW s \in Servers PROVE [srv[s] EXCEPT !.release = None, !.client = None] \in SrvRec
    BY <1>0 DEF SrvTyped, SrvRec
  <2> QED
    BY <1>6, <2>1, Empty DEF Restart, SrvTyped
<1>7. ASSUME UNCHANGED srv PROVE SrvTyped'
  BY <1>0, <1>7 DEF SrvTyped
<1> QED
  BY <1>1, <1>2, <1>3, <1>4, <1>5, <1>6, <1>7 DEF Next, vars, servers, RegisterAgain, RegisterNew,
     RegisterBalance, RegisterAdd, AttachBegin, AttachEnd, StartDisconnect, DisconnectBalance,
     DetachBegin, DisconnectEnd, CreateStore, CreateSend, CleanRelease, CleanRemove, BeginClean

\* The manager, the database and the counters.
LEMMA RestTypedStep ==
    ASSUME RestTyped, [Next]_vars
    PROVE  RestTyped'
<1>1. managed' \subseteq Servers /\ stored' \subseteq Servers
  BY DEF RestTyped, Next, vars, servers, RegisterAgain, RegisterNew, RegisterBalance, RegisterAdd,
     AttachBegin, Attach, AttachEnd, StartDisconnect, DisconnectBalance, DetachBegin, Detach,
     DisconnectEnd, CreatePick, CreateAlloc, CreateAdd, CreateStore, CreateSend, Abandon, CleanRelease,
     CleanRemove, BeginClean, Restart
<1>2. raced' \in BOOLEAN
  BY Zenon DEF RestTyped, Next, vars, servers, RegisterAgain, RegisterNew, RegisterBalance,
     RegisterAdd,
     AttachBegin, Attach, AttachEnd, StartDisconnect, DisconnectBalance, DetachBegin, Detach,
     DisconnectEnd, CreatePick, CreateAlloc, CreateAdd, CreateStore, CreateSend, Abandon, CleanRelease,
     CleanRemove, BeginClean, Restart
<1>3. restarts' \in 0 .. MaxRestarts
  <2>1. UNCHANGED restarts \/ Restart
    BY DEF Next, vars, RegisterAgain, RegisterNew, RegisterBalance, RegisterAdd, AttachBegin,
       Attach,
       AttachEnd, StartDisconnect, DisconnectBalance, DetachBegin, Detach, DisconnectEnd, CreatePick,
       CreateAlloc, CreateAdd, CreateStore, CreateSend, CleanRelease, CleanRemove, BeginClean
  <2>2. Restart => restarts < MaxRestarts /\ restarts' = restarts + 1
    BY DEF Restart
  <2> QED
    BY <2>1, <2>2, FleetAssumption DEF RestTyped
<1> QED
  BY <1>1, <1>2, <1>3 DEF RestTyped

\* Typed in one step.
LEMMA TypeStep == Typed /\ [Next]_vars => TypeOK'
<1>1. TypeOK' <=> /\ RegistryTyped' /\ RegTyped' /\ DiscTyped' /\ CreateTyped' /\ CleanTyped'
                  /\ SrvTyped' /\ RestTyped'
  BY Parts, PTL
<1> QED
  BY <1>1, Parts, RegistryTypedStep, RegTypedStep, DiscTypedStep, CreateTypedStep, CleanTypedStep,
     SrvTypedStep, RestTypedStep DEF Typed

\* Every step keeps servers, nodes and goroutines in their places.
LEMMA PlacedStep == Typed /\ [Next]_vars => Placed'
<1> SUFFICES ASSUME Typed, [Next]_vars PROVE Placed'
  OBVIOUS
<1>0. /\ RegistryTyped /\ reg \in RegRec /\ DiscTyped /\ CreateTyped /\ CleanTyped
      /\ SrvTyped /\ RestTyped /\ Placed
  BY Parts DEF Typed, RegTyped
<1> USE <1>0, FleetAssumption
<1>1. ASSUME NEW d \in Ids, RegisterAgain(d) \/ RegisterNew(d) PROVE Placed'
  BY <1>1 DEF RegisterAgain, RegisterNew, Placed, OnList, servers, RegistryTyped
<1>2. CASE RegisterBalance
  BY <1>2 DEF RegisterBalance, Placed, OnList, servers, RegRec
<1>3. CASE RegisterAdd
  BY <1>3 DEF RegisterAdd, Placed, OnList, servers, RegRec, RegistryTyped
<1>4. CASE AttachBegin
  BY <1>4 DEF AttachBegin, Placed, OnList, servers, registry, RegRec, RestTyped, ServersByNode
<1>5. ASSUME NEW s \in Servers, Attach(s) PROVE Placed'
  <2>1. /\ \A t \in Servers : srv'[t].home = srv[t].home /\ srv'[t].port = srv[t].port
        /\ UNCHANGED <<nodes, disc, create, clean, managed, stored>>
    BY <1>5 DEF Attach, SrvTyped, SrvRec
  <2>2. reg'.pc = reg.pc /\ reg'.node = reg.node /\ reg'.todo \subseteq reg.todo
    BY <1>5 DEF Attach, RegRec
  <2>3. reg.todo \subseteq Servers /\ \A p \in Discs : disc[p].todo \subseteq Servers
    BY DEF RegRec, DiscTyped, DiscRec
  <2> QED
    BY <2>1, <2>2, <2>3 DEF Placed, OnList
<1>6. CASE AttachEnd
  BY <1>6 DEF AttachEnd, Placed, OnList, servers, registry, NoReg
<1>7. ASSUME NEW p \in Discs, NEW d \in Ids, StartDisconnect(p, d) PROVE Placed'
  BY <1>7 DEF StartDisconnect, Placed, OnList, servers, registry, RegistryTyped, DiscTyped
<1>8. ASSUME NEW p \in Discs, DisconnectBalance(p) PROVE Placed'
  BY <1>8 DEF DisconnectBalance, Placed, OnList, servers, DiscTyped, DiscRec
<1>9. ASSUME NEW p \in Discs, DetachBegin(p) PROVE Placed'
  BY <1>9 DEF DetachBegin, Placed, OnList, servers, registry, DiscTyped, DiscRec, ServersByNode
<1>10. ASSUME NEW p \in Discs, NEW s \in Servers, Detach(p, s) PROVE Placed'
  <2>1. /\ \A t \in Servers : srv'[t].home = srv[t].home /\ srv'[t].port = srv[t].port
        /\ UNCHANGED <<registry, reg, create, clean, managed, stored>>
    BY <1>10 DEF Detach, SrvTyped, SrvRec
  <2>2. \A q \in Discs : /\ disc'[q].pc = disc[q].pc /\ disc'[q].node = disc[q].node
                         /\ disc'[q].todo \subseteq disc[q].todo
    BY <1>10 DEF Detach, DiscTyped, DiscRec
  <2>3. reg.todo \subseteq Servers /\ \A q \in Discs : disc[q].todo \subseteq Servers
    BY DEF RegRec, DiscTyped, DiscRec
  <2> QED
    BY <2>1, <2>2, <2>3 DEF Placed, OnList, registry
<1>11. ASSUME NEW p \in Discs, DisconnectEnd(p) PROVE Placed'
  BY <1>11 DEF DisconnectEnd, Placed, OnList, servers, DiscTyped, NoDisc, RegistryTyped
<1>12. ASSUME NEW s \in Servers, CreatePick(s) PROVE Placed'
  BY <1>12 DEF CreatePick, Placed, OnList, Live, registry, CreateTyped, SrvTyped, NoServer, LB!Held
<1>13. ASSUME NEW s \in Servers, CreateAlloc(s) PROVE Placed'
  <2>1. /\ create[s].pc = "alloc" /\ create[s].node \in Nodes /\ ~OnList(s)
        /\ UNCHANGED <<nodes, reg, disc, clean, managed, stored>>
    BY <1>13 DEF CreateAlloc, Placed
  <2>2. \A t \in Servers : t # s => srv'[t] = srv[t] /\ create'[t] = create[t]
    BY <1>13 DEF CreateAlloc, CreateTyped, SrvTyped
  <2>3. \/ /\ create'[s].pc = "build" /\ create'[s].node = create[s].node
           /\ srv'[s].port \in Ports /\ srv'[s].home = srv[s].home
        \/ create'[s].pc = "no"
    <3>1. \/ \E p \in Ports, a \in Allocs : /\ srv' = [srv EXCEPT ![s].port = p, ![s].release = a]
                                            /\ create' = [create EXCEPT ![s].pc = "build"]
          \/ create' = [create EXCEPT ![s] = NoCreate]
      BY <1>13, Allocated
    <3>2. CASE create' = [create EXCEPT ![s] = NoCreate]
      BY <3>2 DEF CreateTyped, NoCreate
    <3>3. ASSUME NEW p \in Ports, NEW a \in Allocs, create' = [create EXCEPT ![s].pc = "build"],
                 srv' = [srv EXCEPT ![s].port = p, ![s].release = a]
          PROVE  /\ create'[s].pc = "build" /\ create'[s].node = create[s].node
                 /\ srv'[s].port \in Ports /\ srv'[s].home = srv[s].home
      BY <3>3 DEF CreateTyped, CreateRec, SrvTyped, SrvRec
    <3> QED
      BY <3>1, <3>2, <3>3
  <2>4. srv[s].home \in Ids /\ s \notin reg.todo /\ \A p \in Discs : s \notin disc[p].todo
    BY <2>1 DEF Placed, OnList
  <2>5. ASSUME NEW t \in Servers
        PROVE  /\ create'[t].pc # "no" => create'[t].node \in Nodes /\ srv'[t].home \in Ids
               /\ create'[t].pc \in {"alloc", "build"} => ~OnList(t)
               /\ create'[t].pc \in {"build", "store", "send"} \/ OnList(t) =>
                    srv'[t].port \in Ports /\ srv'[t].home \in Ids
    <3>1. CASE t = s
      BY <2>1, <2>3, <2>4, <3>1
    <3>2. CASE t # s
      BY <2>2, <3>2 DEF Placed
    <3> QED
      BY <3>1, <3>2
  <2>6. /\ \A t \in reg.todo : srv'[t].home = IdOf[reg.node]
        /\ \A p \in Discs : \A t \in disc[p].todo : srv'[t].home = IdOf[disc[p].node]
    BY <2>2, <2>4 DEF Placed, RegRec, DiscTyped, DiscRec
  <2>7. \A t \in Servers : OnList(t)' <=> OnList(t)
    BY <2>1 DEF OnList
  <2> QED
    BY <2>1, <2>5, <2>6, <2>7 DEF Placed
<1>14. ASSUME NEW s \in Servers, CreateAdd(s) PROVE Placed'
  <2>1. /\ create[s].pc = "build" /\ create[s].node \in Nodes /\ ~OnList(s)
        /\ srv[s].port \in Ports /\ srv[s].home \in Ids
        /\ UNCHANGED <<nodes, reg, disc, clean>>
    BY <1>14 DEF CreateAdd, Placed, registry
  <2>2. \A t \in Servers : t # s => srv'[t] = srv[t] /\ create'[t] = create[t]
    BY <1>14 DEF CreateAdd, Abandon, CreateTyped, SrvTyped
  <2>3. \/ /\ create'[s].pc = "store" /\ create'[s].node = create[s].node
           /\ srv' = srv /\ managed' = managed \cup {s} /\ stored' = stored
        \/ create'[s].pc = "no" /\ managed' = managed \ {s} /\ stored' = stored \ {s}
    <3>1. s \notin stored
      BY <2>1 DEF OnList
    <3> QED
      BY <1>14, <3>1 DEF CreateAdd, Abandon, CreateTyped, CreateRec, NoCreate
  <2>4. s \notin reg.todo /\ \A p \in Discs : s \notin disc[p].todo
    BY <2>1 DEF OnList
  <2>5. \A t \in Servers : t # s => (OnList(t)' <=> OnList(t))
    BY <2>1, <2>3 DEF OnList
  <2>6. create'[s].pc = "no" => ~OnList(s)'
    BY <2>1, <2>3 DEF OnList
  <2>7. ASSUME NEW t \in Servers
        PROVE  /\ create'[t].pc # "no" => create'[t].node \in Nodes /\ srv'[t].home \in Ids
               /\ create'[t].pc \in {"alloc", "build"} => ~OnList(t)'
               /\ create'[t].pc \in {"build", "store", "send"} \/ OnList(t)' =>
                    srv'[t].port \in Ports /\ srv'[t].home \in Ids
    <3>1. CASE t = s
      BY <2>1, <2>3, <2>6, <3>1
    <3>2. CASE t # s
      BY <2>2, <2>5, <3>2 DEF Placed
    <3> QED
      BY <3>1, <3>2
  <2>8. /\ \A t \in reg.todo : srv'[t].home = IdOf[reg.node]
        /\ \A p \in Discs : \A t \in disc[p].todo : srv'[t].home = IdOf[disc[p].node]
    BY <2>2, <2>4 DEF Placed, RegRec, DiscTyped, DiscRec
  <2> QED
    BY <2>1, <2>7, <2>8 DEF Placed
<1>15. ASSUME NEW s \in Servers, CreateStore(s) PROVE Placed'
  BY <1>15 DEF CreateStore, Abandon, Placed, OnList, registry, CreateTyped, CreateRec, NoCreate
<1>16. ASSUME NEW s \in Servers, CreateSend(s) PROVE Placed'
  BY <1>16 DEF CreateSend, Abandon, Placed, OnList, registry, CreateTyped, CreateRec, NoCreate
<1>17. ASSUME NEW c \in Cleaners, NEW s \in Servers, BeginClean(c, s) PROVE Placed'
  BY <1>17 DEF BeginClean, Placed, OnList, registry, servers, CleanTyped
<1>18. ASSUME NEW c \in Cleaners, CleanRelease(c) PROVE Placed'
  BY <1>18 DEF CleanRelease, Placed, OnList, servers, CleanTyped, CleanRec, NoClean
<1>19. ASSUME NEW c \in Cleaners, CleanRemove(c) PROVE Placed'
  BY <1>19 DEF CleanRemove, Placed, OnList, registry, CleanTyped, NoClean
<1>20. CASE Restart
  <2>1. /\ reg'.pc = "idle" /\ reg'.todo = {} /\ managed' = stored /\ stored' = stored
        /\ \A d \in Ids : nodes'[d] = None
        /\ \A p \in Discs : disc'[p].pc = "idle" /\ disc'[p].todo = {}
        /\ \A c \in Cleaners : clean'[c].pc = "idle" /\ clean'[c].srv = None
        /\ \A s \in Servers : create'[s].pc = "no"
    BY <1>20 DEF Restart, NoReg, NoDisc, NoCreate, NoClean
  <2>2. \A s \in stored : srv'[s].port = srv[s].port /\ srv'[s].home = srv[s].home
    BY <1>20 DEF Restart, SrvTyped, SrvRec, RestTyped
  <2>3. None \notin Servers
    OBVIOUS
  <2> QED
    BY <2>1, <2>2, <2>3 DEF Placed, OnList
<1>21. CASE UNCHANGED vars
  BY <1>21 DEF vars, Placed, OnList, registry, servers
<1> QED
  BY <1>1, <1>2, <1>3, <1>4, <1>5, <1>6, <1>7, <1>8, <1>9, <1>10, <1>11, <1>12, <1>13, <1>14, <1>15,
     <1>16, <1>17, <1>18, <1>19, <1>20, <1>21 DEF Next

\* Every variable has the type that TypeOK gives it, and a server that somebody
\* holds has a node and a port.
THEOREM Places == Spec => []Typed
<1>1. Init => Typed
  <2> SUFFICES ASSUME Init PROVE Typed
    OBVIOUS
  <2>1. RegistryTyped /\ RegTyped /\ DiscTyped /\ CreateTyped /\ CleanTyped /\ SrvTyped
    BY Empty, FleetAssumption
       DEF Init, RegistryTyped, RegTyped, DiscTyped, CreateTyped, CleanTyped, SrvTyped
  <2>2. RestTyped
    <3>1. restarts \in 0 .. MaxRestarts
      BY FleetAssumption DEF Init
    <3> QED
      BY <3>1, Zenon DEF Init, RestTyped
  <2>3. Placed
    BY FleetAssumption DEF Init, Placed, OnList, NoReg, NoDisc, NoCreate, NoClean, NoServer
  <2> QED
    BY <2>1, <2>2, <2>3, Parts DEF Typed
<1>2. Typed /\ [Next]_vars => Typed'
  BY TypeStep, PlacedStep DEF Typed
<1> QED
  BY <1>1, <1>2, PTL DEF Spec

\* TypeOK holds in every reachable state.
THEOREM TypeCorrect == Spec => []TypeOK
<1>1. Typed => TypeOK
  BY DEF Typed
<1> QED
  BY <1>1, Places, PTL

-----------------------------------------------------------------------------
(* A behaviour without races.                                                *)

\* A step after which there has been no race starts in a state without one, and
\* what would have been a race has not happened.
LEMMA Quiet ==
    ASSUME RestTyped, [Next]_vars, ~raced'
    PROVE  /\ ~raced
           /\ \A d \in Ids : RegisterAgain(d) \/ RegisterNew(d) => Unlisted = {} /\ ~Moving
           /\ \A p \in Discs, d \in Ids : StartDisconnect(p, d) => Unlisted = {} /\ ~Moving
           /\ \A s \in Servers : CreatePick(s) => ~Moving
           /\ \A s \in Servers : Abandon(s) => stored' = stored \ {s}
           /\ \A c \in Cleaners, s \in Servers : BeginClean(c, s) =>
                create[s].pc = "no" /\ \A k \in Cleaners : clean[k].srv # s
           /\ \A c \in Cleaners : CleanRemove(c) => stored' = stored \ {clean[c].srv}
           /\ Restart => \A c \in Cleaners : clean[c].pc # "remove"
<1>1. ~raced
  BY Zenon DEF RestTyped, Next, vars, servers, RegisterAgain, RegisterNew, RegisterBalance,
     RegisterAdd,
     AttachBegin, Attach, AttachEnd, StartDisconnect, DisconnectBalance, DetachBegin, Detach,
     DisconnectEnd, CreatePick, CreateAlloc, CreateAdd, CreateStore, CreateSend, Abandon, CleanRelease,
     CleanRemove, BeginClean, Restart
<1>2. \A d \in Ids : RegisterAgain(d) \/ RegisterNew(d) => Unlisted = {} /\ ~Moving
  BY Zenon DEF RegisterAgain, RegisterNew
<1>3. \A p \in Discs, d \in Ids : StartDisconnect(p, d) => Unlisted = {} /\ ~Moving
  BY Zenon DEF StartDisconnect
<1>4. \A s \in Servers : CreatePick(s) => ~Moving
  BY Zenon DEF CreatePick
<1>5. \A s \in Servers : Abandon(s) => stored' = stored \ {s}
  BY Zenon DEF Abandon
<1>6. \A c \in Cleaners, s \in Servers : BeginClean(c, s) =>
        create[s].pc = "no" /\ \A k \in Cleaners : clean[k].srv # s
  BY Zenon DEF BeginClean
<1>7. \A c \in Cleaners : CleanRemove(c) => stored' = stored \ {clean[c].srv}
  BY Zenon DEF CleanRemove
<1>8. Restart => \A c \in Cleaners : clean[c].pc # "remove"
  BY Zenon DEF Restart
<1> QED
  BY <1>1, <1>2, <1>3, <1>4, <1>5, <1>6, <1>7, <1>8

\* What CreateAlloc leaves of the fields of servers and creations.
LEMMA AllocatedFields ==
    ASSUME Typed, NEW s \in Servers, CreateAlloc(s)
    PROVE  /\ create[s].pc = "alloc" /\ create[s].node \in Nodes
           /\ UNCHANGED <<nodes, lb, allocOf, reg, disc, clean, managed, stored>>
           /\ \A t \in Servers : t # s => create'[t] = create[t] /\ srv'[t] = srv[t]
           /\ \/ \E a \in Allocs, p \in Ports :
                   /\ a = allocOf[create[s].node] /\ p \notin used[a]
                   /\ used' = [used EXCEPT ![a] = @ \cup {p}]
                   /\ srv'[s].port = p /\ srv'[s].release = a
                   /\ srv'[s].home = srv[s].home /\ srv'[s].client = srv[s].client
                   /\ create'[s].pc = "build" /\ create'[s].node = create[s].node
              \/ create'[s].pc = "no" /\ srv'[s] = NoServer /\ used' = used
<1>0. RegistryTyped /\ CreateTyped /\ SrvTyped /\ Placed
  BY Parts DEF Typed
<1>1. create[s].pc = "alloc" /\ create[s].node \in Nodes
  BY <1>0, Allocated
<1>2. /\ UNCHANGED <<nodes, lb, allocOf, reg, disc, clean, managed, stored>>
      /\ \A t \in Servers : t # s => create'[t] = create[t] /\ srv'[t] = srv[t]
  BY <1>0 DEF CreateAlloc, CreateTyped, SrvTyped
<1>3. ASSUME NEW a \in Allocs, NEW p \in Ports,
             srv' = [srv EXCEPT ![s].port = p, ![s].release = a],
             create' = [create EXCEPT ![s].pc = "build"]
      PROVE  /\ srv'[s].port = p /\ srv'[s].release = a
             /\ srv'[s].home = srv[s].home /\ srv'[s].client = srv[s].client
             /\ create'[s].pc = "build" /\ create'[s].node = create[s].node
  BY <1>0, <1>3 DEF CreateTyped, CreateRec, SrvTyped, SrvRec
<1>4. ASSUME create' = [create EXCEPT ![s] = NoCreate], srv' = [srv EXCEPT ![s] = NoServer]
      PROVE  create'[s].pc = "no" /\ srv'[s] = NoServer
  BY <1>0, <1>4 DEF CreateTyped, SrvTyped, NoCreate
<1>5. \/ \E a \in Allocs, p \in Ports :
           /\ a = allocOf[create[s].node] /\ p \notin used[a]
           /\ used' = [used EXCEPT ![a] = @ \cup {p}]
           /\ srv' = [srv EXCEPT ![s].port = p, ![s].release = a]
           /\ create' = [create EXCEPT ![s].pc = "build"]
      \/ /\ create' = [create EXCEPT ![s] = NoCreate]
         /\ srv' = [srv EXCEPT ![s] = NoServer]
         /\ UNCHANGED used
  BY <1>0, Allocated
<1>6. CASE \E a \in Allocs, p \in Ports :
             /\ a = allocOf[create[s].node] /\ p \notin used[a]
             /\ used' = [used EXCEPT ![a] = @ \cup {p}]
             /\ srv' = [srv EXCEPT ![s].port = p, ![s].release = a]
             /\ create' = [create EXCEPT ![s].pc = "build"]
  BY <1>1, <1>2, <1>3, <1>6
<1>7. CASE /\ create' = [create EXCEPT ![s] = NoCreate]
           /\ srv' = [srv EXCEPT ![s] = NoServer]
           /\ UNCHANGED used
  BY <1>1, <1>2, <1>4, <1>7
<1> QED
  BY <1>5, <1>6, <1>7

\* An orderly behaviour stays orderly.
LEMMA OrderStep == Typed /\ Order /\ [Next]_vars /\ ~raced' => Order'
<1> SUFFICES ASSUME Typed, Order, [Next]_vars, ~raced' PROVE Order'
  OBVIOUS
<1>0. /\ RegistryTyped /\ reg \in RegRec /\ DiscTyped /\ CreateTyped /\ CleanTyped
      /\ SrvTyped /\ RestTyped /\ Placed
  BY Parts DEF Typed, RegTyped
<1> USE <1>0, FleetAssumption
<1>1. ASSUME NEW d \in Ids, RegisterAgain(d) PROVE Order'
  BY <1>1, Quiet DEF RegisterAgain, Order, MoveOrder, CreateOrder, CleanOrder, Unlisted, Moving,
     servers, RegistryTyped, Placed
<1>2. ASSUME NEW d \in Ids, RegisterNew(d) PROVE Order'
  <2>1. Unlisted = {} /\ ~Moving
    BY <1>2, Quiet
  <2>2. PICK n \in Nodes : IdOf[n] = d /\ reg' = [pc |-> "balance", node |-> n, todo |-> {}]
    BY <1>2 DEF RegisterNew
  <2> QED
    BY <1>2, <2>1, <2>2 DEF RegisterNew, Order, MoveOrder, CreateOrder, CleanOrder, Unlisted,
       Moving, servers
<1>3. CASE RegisterBalance
  BY <1>3 DEF RegisterBalance, Order, MoveOrder, CreateOrder, CleanOrder, Unlisted, Moving, servers,
     RegRec, RegistryTyped, Placed, LB!Put
<1>4. CASE RegisterAdd
  BY <1>4 DEF RegisterAdd, Order, MoveOrder, CreateOrder, CleanOrder, Unlisted, Moving, servers,
     RegRec, RegistryTyped, Placed
<1>5. CASE AttachBegin
  BY <1>5 DEF AttachBegin, Order, MoveOrder, CreateOrder, CleanOrder, Unlisted, Moving, servers,
     registry, RegRec
<1>6. ASSUME NEW s \in Servers, Attach(s) PROVE Order'
  BY <1>6 DEF Attach, Order, MoveOrder, CreateOrder, CleanOrder, Unlisted, Moving, RegRec, SrvTyped,
     SrvRec
<1>7. CASE AttachEnd
  BY <1>7 DEF AttachEnd, Order, MoveOrder, CreateOrder, CleanOrder, Unlisted, Moving, servers,
     registry, NoReg
<1>8. ASSUME NEW p \in Discs, NEW d \in Ids, StartDisconnect(p, d) PROVE Order'
  <2>1. Unlisted = {} /\ ~Moving
    BY <1>8, Quiet
  <2>2. /\ disc'[p].pc = "remove" /\ disc'[p].node = nodes[d]
        /\ \A q \in Discs : q # p => disc'[q] = disc[q]
    BY <1>8 DEF StartDisconnect, DiscTyped
  <2> QED
    BY <1>8, <2>1, <2>2 DEF StartDisconnect, Order, MoveOrder, CreateOrder, CleanOrder, Unlisted,
       Moving, servers, registry
<1>9. ASSUME NEW p \in Discs, DisconnectBalance(p) PROVE Order'
  BY <1>9 DEF DisconnectBalance, Order, MoveOrder, CreateOrder, CleanOrder, Unlisted, Moving,
     servers, DiscTyped, DiscRec, RegistryTyped, Placed, LB!Drop
<1>10. ASSUME NEW p \in Discs, DetachBegin(p) PROVE Order'
  BY <1>10 DEF DetachBegin, Order, MoveOrder, CreateOrder, CleanOrder, Unlisted, Moving, servers,
     registry, DiscTyped, DiscRec
<1>11. ASSUME NEW p \in Discs, NEW s \in Servers, Detach(p, s) PROVE Order'
  <2>1. \A q \in Discs : disc'[q].pc = disc[q].pc /\ disc'[q].node = disc[q].node
    BY <1>11 DEF Detach, DiscTyped, DiscRec
  <2>2. \A t \in Servers : srv'[t].home = srv[t].home
    BY <1>11 DEF Detach, SrvTyped, SrvRec
  <2> QED
    BY <1>11, <2>1, <2>2 DEF Detach, Order, MoveOrder, CreateOrder, CleanOrder, Unlisted, Moving,
       registry
<1>12. ASSUME NEW p \in Discs, DisconnectEnd(p) PROVE Order'
  BY <1>12 DEF DisconnectEnd, Order, MoveOrder, CreateOrder, CleanOrder, Unlisted, Moving, servers,
     DiscTyped, NoDisc, RegistryTyped, Placed
<1>13. ASSUME NEW s \in Servers, CreatePick(s) PROVE Order'
  <2>1. ~Moving /\ s \notin Live
    BY <1>13, Quiet DEF CreatePick
  <2>2. PICK n \in Nodes : /\ n \in LB!Held(lb) \cup LB!Held(nodes)
                           /\ create' = [create EXCEPT ![s] = [pc |-> "alloc", node |-> n]]
                           /\ srv' = [srv EXCEPT ![s] = [NoServer EXCEPT !.home = IdOf[n], !.client = n]]
    BY <1>13 DEF CreatePick, LB!Held
  <2>3. nodes[IdOf[n]] = n
    <3>1. \A d \in Ids : lb[d] = nodes[d]
      BY <2>1 DEF Order, MoveOrder, CreateOrder, CleanOrder, Moving
    <3> QED
      BY <2>2, <3>1 DEF LB!Held, Placed
  <2>4. /\ create'[s].pc = "alloc" /\ create'[s].node = n /\ srv'[s].home = IdOf[n]
        /\ \A t \in Servers : t # s => create'[t] = create[t] /\ srv'[t] = srv[t]
    BY <2>2 DEF CreateTyped, SrvTyped, NoServer
  <2>5. s \notin managed /\ \A c \in Cleaners : clean[c].srv # s
    BY <2>1 DEF Live
  <2> QED
    BY <1>13, <2>1, <2>3, <2>4, <2>5 DEF CreatePick, Order, MoveOrder, CreateOrder, CleanOrder,
       Unlisted, Moving, registry
<1>14. ASSUME NEW s \in Servers, CreateAlloc(s) PROVE Order'
  <2>1. create[s].pc = "alloc" /\ create'[s].pc \in {"build", "no"}
    BY <1>14, AllocatedFields
  <2>2. create'[s].pc = "build" => create'[s].node = create[s].node /\ srv'[s].home = srv[s].home
    BY <1>14, AllocatedFields
  <2>3. /\ UNCHANGED <<nodes, lb, reg, disc, clean, managed, stored>>
        /\ \A t \in Servers : t # s => create'[t] = create[t] /\ srv'[t] = srv[t]
    BY <1>14, AllocatedFields
  <2>4. MoveOrder'
    BY <2>3 DEF Order, MoveOrder
  <2>5. CreateOrder'
    BY <2>1, <2>2, <2>3 DEF Order, CreateOrder, Moving
  <2>6. \A c \in Cleaners : clean[c].pc # "idle" => clean[c].srv \in Servers /\ clean[c].srv # s
    BY <2>1 DEF Order, CleanOrder, RestTyped
  <2>7. CleanOrder'
    BY <2>1, <2>2, <2>3, <2>6 DEF Order, CleanOrder
  <2> QED
    BY <2>4, <2>5, <2>7 DEF Order
<1>15. ASSUME NEW s \in Servers, CreateAdd(s) PROVE Order'
  <2>1. create[s].pc = "build" /\ ~OnList(s)
    BY <1>15 DEF CreateAdd, Placed
  <2>2. s \notin managed /\ \A c \in Cleaners : clean[c].srv # s
    BY <2>1 DEF OnList
  <2>3. \/ create'[s].pc = "store" /\ managed' = managed \cup {s} /\ stored' = stored
        \/ create'[s].pc = "no" /\ managed' = managed \ {s} /\ stored' = stored \ {s}
    BY <1>15, Quiet DEF CreateAdd, Abandon, CreateTyped, CreateRec, NoCreate
  <2>4. \A t \in Servers : t # s => create'[t] = create[t] /\ srv'[t] = srv[t]
    BY <1>15 DEF CreateAdd, Abandon, CreateTyped, SrvTyped
  <2>5. UNCHANGED <<nodes, lb, reg, disc, clean>>
    BY <1>15 DEF CreateAdd, registry
  <2>6. MoveOrder'
    BY <2>5 DEF Order, MoveOrder
  <2>7. CreateOrder'
    BY <2>1, <2>2, <2>3, <2>4, <2>5 DEF Order, CreateOrder, Moving
  <2>8. \A c \in Cleaners : clean[c].pc # "idle" => clean[c].srv \in Servers /\ clean[c].srv # s
    BY <2>1 DEF Order, CleanOrder, RestTyped
  <2>9. CleanOrder'
    BY <2>1, <2>2, <2>3, <2>4, <2>5, <2>8 DEF Order, CleanOrder
  <2> QED
    BY <2>6, <2>7, <2>9 DEF Order
<1>16. ASSUME NEW s \in Servers, CreateStore(s) PROVE Order'
  <2>1. create[s].pc = "store" /\ s \in managed
    BY <1>16 DEF CreateStore, Order, CreateOrder
  <2>2. \/ create'[s].pc = "send" /\ managed' = managed /\ stored' = stored \cup {s}
        \/ create'[s].pc = "no" /\ managed' = managed \ {s} /\ stored' = stored \ {s}
    BY <1>16, Quiet DEF CreateStore, Abandon, CreateTyped, CreateRec, NoCreate
  <2>3. \A t \in Servers : t # s => create'[t] = create[t]
    BY <1>16 DEF CreateStore, Abandon, CreateTyped
  <2>4. UNCHANGED <<nodes, lb, reg, disc, clean, srv>>
    BY <1>16 DEF CreateStore, registry
  <2>5. MoveOrder'
    BY <2>4 DEF Order, MoveOrder
  <2>6. CreateOrder'
    BY <2>1, <2>2, <2>3, <2>4 DEF Order, CreateOrder, Moving
  <2>7. \A c \in Cleaners : clean[c].pc # "idle" => clean[c].srv \in Servers /\ clean[c].srv # s
    BY <2>1 DEF Order, CleanOrder, RestTyped
  <2>8. CleanOrder'
    BY <2>1, <2>2, <2>3, <2>4, <2>7 DEF Order, CleanOrder
  <2> QED
    BY <2>5, <2>6, <2>8 DEF Order
<1>17. ASSUME NEW s \in Servers, CreateSend(s) PROVE Order'
  <2>1. create[s].pc = "send" /\ s \in managed
    BY <1>17 DEF CreateSend, Order, CreateOrder
  <2>2. \/ create'[s].pc = "no" /\ managed' = managed /\ stored' = stored
        \/ create'[s].pc = "no" /\ managed' = managed \ {s} /\ stored' = stored \ {s}
    BY <1>17, Quiet DEF CreateSend, Abandon, CreateTyped, CreateRec, NoCreate
  <2>3. \A t \in Servers : t # s => create'[t] = create[t]
    BY <1>17 DEF CreateSend, Abandon, CreateTyped
  <2>4. UNCHANGED <<nodes, lb, reg, disc, clean, srv>>
    BY <1>17 DEF CreateSend, registry
  <2>5. MoveOrder'
    BY <2>4 DEF Order, MoveOrder
  <2>6. CreateOrder'
    BY <2>1, <2>2, <2>3, <2>4 DEF Order, CreateOrder, Moving
  <2>7. \A c \in Cleaners : clean[c].pc # "idle" => clean[c].srv \in Servers /\ clean[c].srv # s
    BY <2>1 DEF Order, CleanOrder, RestTyped
  <2>8. CleanOrder'
    BY <2>1, <2>2, <2>3, <2>4, <2>7 DEF Order, CleanOrder
  <2> QED
    BY <2>5, <2>6, <2>8 DEF Order
<1>18. ASSUME NEW c \in Cleaners, NEW s \in Servers, BeginClean(c, s) PROVE Order'
  <2>1. s \in managed /\ create[s].pc = "no" /\ \A k \in Cleaners : clean[k].srv # s
    BY <1>18, Quiet DEF BeginClean
  <2>2. /\ clean'[c].pc = "release" /\ clean'[c].srv = s
        /\ \A k \in Cleaners : k # c => clean'[k] = clean[k]
    BY <1>18 DEF BeginClean, CleanTyped
  <2> QED
    BY <1>18, <2>1, <2>2 DEF BeginClean, Order, MoveOrder, CreateOrder, CleanOrder, Unlisted,
       Moving, registry, servers
<1>19. ASSUME NEW c \in Cleaners, CleanRelease(c) PROVE Order'
  BY <1>19 DEF CleanRelease, Order, MoveOrder, CreateOrder, CleanOrder, Unlisted, Moving, servers,
     CleanTyped, CleanRec, NoClean, Placed
<1>20. ASSUME NEW c \in Cleaners, CleanRemove(c) PROVE Order'
  BY <1>20, Quiet DEF CleanRemove, Order, MoveOrder, CreateOrder, CleanOrder, Unlisted, Moving,
     registry, CleanTyped, NoClean, Placed
<1>21. CASE Restart
  BY <1>21 DEF Restart, Order, MoveOrder, CreateOrder, CleanOrder, Unlisted, Moving, NoReg, NoDisc,
     NoClean, NoCreate
<1>22. CASE UNCHANGED vars
  BY <1>22 DEF vars, Order, MoveOrder, CreateOrder, CleanOrder, Unlisted, Moving, registry, servers
<1> QED
  BY <1>1, <1>2, <1>3, <1>4, <1>5, <1>6, <1>7, <1>8, <1>9, <1>10, <1>11, <1>12, <1>13, <1>14, <1>15,
     <1>16, <1>17, <1>18, <1>19, <1>20, <1>21, <1>22 DEF Next

\* What a registration does when it starts: the node gets an allocator that
\* nobody refers to, or none.
LEMMA Registered ==
    ASSUME Typed, NEW d \in Ids, RegisterAgain(d) \/ RegisterNew(d)
    PROVE  /\ reg.pc = "idle" /\ UNCHANGED <<nodes, disc, create, clean, managed, stored, srv>>
           /\ \E n \in Nodes :
                /\ IdOf[n] = d
                /\ \/ \E a \in Allocs :
                        /\ a \notin AllocRefs
                        /\ allocOf' = [allocOf EXCEPT ![n] = a] /\ used' = [used EXCEPT ![a] = {}]
                        /\ reg'.node = n /\ reg'.todo = {}
                        /\ \/ nodes[d] = n /\ reg'.pc = "snapshot"
                           \/ nodes[d] = None /\ reg'.pc = "balance" /\ n \notin NodeRefs
                   \/ nodes[d] = n /\ allocOf' = [allocOf EXCEPT ![n] = None] /\ UNCHANGED <<used, reg>>
<1>0. RegistryTyped /\ Placed
  BY Parts DEF Typed
<1>1. reg.pc = "idle" /\ UNCHANGED <<nodes, disc, create, clean, managed, stored, srv>>
  BY DEF RegisterAgain, RegisterNew, servers
<1>2. CASE RegisterAgain(d)
  <2>1. nodes[d] \in Nodes /\ IdOf[nodes[d]] = d
    BY <1>0, <1>2 DEF RegisterAgain, RegistryTyped, Placed
  <2>2. CASE \E a \in Allocs : /\ NewAllocator(nodes[d], a)
                               /\ reg' = [pc |-> "snapshot", node |-> nodes[d], todo |-> {}]
    <3>1. PICK a \in Allocs : NewAllocator(nodes[d], a)
      BY <2>2
    <3>2. reg'.pc = "snapshot" /\ reg'.node = nodes[d] /\ reg'.todo = {}
      BY <2>2
    <3> HIDE <2>2
    <3> QED
      BY <1>1, <2>1, <3>1, <3>2 DEF NewAllocator
  <2>3. CASE allocOf' = [allocOf EXCEPT ![nodes[d]] = None] /\ UNCHANGED <<used, reg>>
    BY <1>1, <2>1, <2>3
  <2> QED
    BY <1>2, <2>2, <2>3 DEF RegisterAgain
<1>3. CASE RegisterNew(d)
  <2>1. PICK n \in Nodes \ NodeRefs, a \in Allocs :
          /\ IdOf[n] = d
          /\ NewAllocator(n, a)
          /\ reg' = [pc |-> "balance", node |-> n, todo |-> {}]
    BY <1>3 DEF RegisterNew
  <2>2. nodes[d] = None
    BY <1>3 DEF RegisterNew
  <2> QED
    BY <1>1, <2>1, <2>2 DEF NewAllocator
<1> QED
  BY <1>2, <1>3

\* An allocator that nobody refers to is not the one of a current node, and not
\* the one that a server gives its port back to.
LEMMA Fresh ==
    ASSUME Typed
    PROVE  /\ \A n \in Nodes : Current(n) => n \in NodeRefs /\ allocOf[n] \in AllocRefs
           /\ \A s \in Servers : Kept(s) =>
                /\ srv[s].release \in NodeRefs
                /\ AllocatorOf(srv[s].release) \in AllocRefs
<1>0. RegistryTyped
  BY Parts DEF Typed
<1>1. ASSUME NEW n \in Nodes, Current(n) PROVE n \in NodeRefs
  <2>1. n \in {nodes[d] : d \in Ids} \cup {reg.node}
    BY <1>1, FleetAssumption DEF Current
  <2> QED
    BY <2>1 DEF NodeRefs
<1>2. ASSUME NEW s \in Servers, Kept(s) PROVE s \in Live \ {None}
  BY <1>2, FleetAssumption DEF Kept, Live
<1>3. ASSUME NEW s \in Servers, Kept(s) PROVE srv[s].release \in NodeRefs
  BY <1>2, <1>3 DEF NodeRefs
<1>4. ASSUME NEW s \in Servers, Kept(s) PROVE AllocatorOf(srv[s].release) \in AllocRefs
  BY <1>2, <1>3, <1>4 DEF AllocRefs, AllocatorOf
<1>5. ASSUME NEW n \in Nodes, Current(n) PROVE allocOf[n] \in AllocRefs
  BY <1>1, <1>5 DEF AllocRefs
<1> QED
  BY <1>1, <1>3, <1>4, <1>5

\* The clients of the servers in an orderly step.
LEMMA ClientStep == Typed /\ Order /\ ClientInv /\ [Next]_vars /\ ~raced' => ClientInv'
<1> SUFFICES ASSUME Typed, Order, ClientInv, [Next]_vars, ~raced' PROVE ClientInv'
  OBVIOUS
<1>0. /\ RegistryTyped /\ reg \in RegRec /\ DiscTyped /\ CreateTyped /\ CleanTyped
      /\ SrvTyped /\ RestTyped /\ Placed
  BY Parts DEF Typed, RegTyped
<1> USE <1>0, FleetAssumption
<1>1. ASSUME NEW d \in Ids, RegisterAgain(d) \/ RegisterNew(d) PROVE ClientInv'
  <2>1. ~Moving /\ UNCHANGED <<nodes, disc, create, managed, srv>>
    BY <1>1, Registered, Quiet
  <2> QED
    BY <2>1 DEF ClientInv, Unattached, Moving
<1>2. CASE RegisterBalance
  BY <1>2 DEF RegisterBalance, ClientInv, Unattached, servers, RegRec
<1>3. CASE RegisterAdd
  BY <1>3 DEF RegisterAdd, ClientInv, Unattached, servers, RegRec, RegistryTyped, Order, MoveOrder
<1>4. CASE AttachBegin
  BY <1>4 DEF AttachBegin, ClientInv, Unattached, servers, registry, RegRec, ServersByNode, Order,
     CreateOrder, Moving
<1>5. ASSUME NEW s \in Servers, Attach(s) PROVE ClientInv'
  <2>1. /\ \A t \in Servers : srv'[t].home = srv[t].home
        /\ \A t \in Servers : t # s => srv'[t].client = srv[t].client
        /\ srv'[s].client = reg.node
    BY <1>5 DEF Attach, SrvTyped, SrvRec
  <2>2. reg'.pc = "attach" /\ reg'.node = reg.node /\ reg'.todo = reg.todo \ {s}
    BY <1>5 DEF Attach, RegRec
  <2>3. /\ reg.pc = "attach" /\ UNCHANGED <<nodes, disc, create, managed>>
        /\ srv[s].home = IdOf[reg.node] /\ nodes[IdOf[reg.node]] = reg.node
        /\ \A p \in Discs : disc[p].pc = "idle"
    BY <1>5 DEF Attach, Placed, Order, MoveOrder
  <2> QED
    BY <2>1, <2>2, <2>3 DEF ClientInv, Unattached
<1>6. CASE AttachEnd
  BY <1>6 DEF AttachEnd, ClientInv, Unattached, servers, registry, NoReg
<1>7. ASSUME NEW p \in Discs, NEW d \in Ids, StartDisconnect(p, d) PROVE ClientInv'
  <2>1. ~Moving /\ UNCHANGED <<nodes, reg, create, managed, srv>>
    BY <1>7, Quiet DEF StartDisconnect, registry, servers
  <2>2. disc'[p].pc = "remove" /\ \A q \in Discs : q # p => disc'[q] = disc[q]
    BY <1>7 DEF StartDisconnect, DiscTyped
  <2> QED
    BY <2>1, <2>2 DEF ClientInv, Unattached, Moving
<1>8. ASSUME NEW p \in Discs, DisconnectBalance(p) PROVE ClientInv'
  <2>1. /\ disc[p].pc = "remove" /\ disc'[p].pc = "snapshot"
        /\ \A q \in Discs : q # p => disc'[q] = disc[q]
    BY <1>8 DEF DisconnectBalance, DiscTyped, DiscRec
  <2>2. UNCHANGED <<nodes, reg, create, managed, srv>>
    BY <1>8 DEF DisconnectBalance, servers
  <2> QED
    BY <2>1, <2>2 DEF ClientInv, Unattached
<1>9. ASSUME NEW p \in Discs, DetachBegin(p) PROVE ClientInv'
  <2>1. /\ disc[p].pc = "snapshot" /\ disc'[p].pc = "detach" /\ disc'[p].node = disc[p].node
        /\ disc'[p].todo = ServersByNode(IdOf[disc[p].node])
        /\ \A q \in Discs : q # p => disc'[q] = disc[q]
    BY <1>9 DEF DetachBegin, DiscTyped, DiscRec
  <2>2. UNCHANGED <<nodes, reg, create, managed, srv>>
    BY <1>9 DEF DetachBegin, registry, servers
  <2>3. /\ \A q \in Discs : q # p => disc[q].pc = "idle"
        /\ \A t \in Servers : create[t].pc \notin {"alloc", "build"}
    BY <2>1 DEF Order, MoveOrder, CreateOrder, Moving
  <2> QED
    BY <2>1, <2>2, <2>3 DEF ClientInv, Unattached, ServersByNode
<1>10. ASSUME NEW p \in Discs, NEW s \in Servers, Detach(p, s) PROVE ClientInv'
  <2>1. /\ \A t \in Servers : srv'[t].home = srv[t].home
        /\ \A t \in Servers : t # s => srv'[t].client = srv[t].client
        /\ srv'[s].client = None
    BY <1>10 DEF Detach, SrvTyped, SrvRec
  <2>2. /\ disc'[p].pc = "detach" /\ disc'[p].node = disc[p].node /\ disc'[p].todo = disc[p].todo \ {s}
        /\ \A q \in Discs : q # p => disc'[q] = disc[q]
    BY <1>10 DEF Detach, DiscTyped, DiscRec
  <2>3. /\ disc[p].pc = "detach" /\ UNCHANGED <<nodes, reg, create, managed>>
        /\ srv[s].home = IdOf[disc[p].node]
    BY <1>10 DEF Detach, Placed, registry
  <2> QED
    BY <2>1, <2>2, <2>3 DEF ClientInv, Unattached
<1>11. ASSUME NEW p \in Discs, DisconnectEnd(p) PROVE ClientInv'
  <2>1. /\ disc[p].pc = "detach" /\ disc[p].todo = {} /\ disc'[p].pc = "idle"
        /\ \A q \in Discs : q # p => disc'[q] = disc[q]
    BY <1>11 DEF DisconnectEnd, DiscTyped, NoDisc
  <2>2. /\ UNCHANGED <<reg, create, managed, srv>> /\ nodes'[IdOf[disc[p].node]] = None
        /\ \A d \in Ids : d # IdOf[disc[p].node] => nodes'[d] = nodes[d]
    BY <1>11, <2>1 DEF DisconnectEnd, servers, RegistryTyped, Placed
  <2>3. /\ \A q \in Discs : q # p => disc[q].pc = "idle"
        /\ reg.pc = "idle"
    BY <2>1 DEF Order, MoveOrder
  <2>4. \A t \in Servers : t \in managed \/ create[t].pc \in {"alloc", "build"} => srv[t].home \in Ids
    BY DEF Placed, OnList
  <2> QED
    BY <2>1, <2>2, <2>3, <2>4 DEF ClientInv, Unattached
<1>12. ASSUME NEW s \in Servers, CreatePick(s) PROVE ClientInv'
  <2>1. ~Moving /\ UNCHANGED <<nodes, reg, disc, managed>> /\ s \notin managed
    BY <1>12, Quiet DEF CreatePick, registry, Live
  <2>2. PICK n \in Nodes : /\ n \in LB!Held(lb) \cup LB!Held(nodes)
                           /\ create' = [create EXCEPT ![s] = [pc |-> "alloc", node |-> n]]
                           /\ srv' = [srv EXCEPT ![s] = [NoServer EXCEPT !.home = IdOf[n], !.client = n]]
    BY <1>12 DEF CreatePick, LB!Held
  <2>3. nodes[IdOf[n]] = n
    <3>1. \A d \in Ids : lb[d] = nodes[d]
      BY <2>1 DEF Order, MoveOrder, Moving
    <3> QED
      BY <2>2, <3>1 DEF LB!Held, Placed
  <2>4. /\ srv'[s].home = IdOf[n] /\ srv'[s].client = n
        /\ \A t \in Servers : t # s => create'[t] = create[t] /\ srv'[t] = srv[t]
    BY <2>2 DEF CreateTyped, SrvTyped, NoServer
  <2> QED
    BY <2>1, <2>3, <2>4 DEF ClientInv, Unattached, Moving
<1>13. ASSUME NEW s \in Servers, CreateAlloc(s) PROVE ClientInv'
  <2>1. /\ create[s].pc = "alloc" /\ UNCHANGED <<nodes, reg, disc, managed>>
        /\ \A t \in Servers : t # s => create'[t] = create[t] /\ srv'[t] = srv[t]
    BY <1>13, AllocatedFields
  <2>2. \/ srv'[s].home = srv[s].home /\ srv'[s].client = srv[s].client
        \/ create'[s].pc = "no"
    BY <1>13, AllocatedFields
  <2>3. s \notin managed
    BY <2>1 DEF Placed, OnList
  <2> QED
    BY <2>1, <2>2, <2>3 DEF ClientInv, Unattached
<1>14. ASSUME NEW s \in Servers, CreateAdd(s) PROVE ClientInv'
  <2>1. create[s].pc = "build" /\ UNCHANGED <<nodes, reg, disc>>
    BY <1>14 DEF CreateAdd, registry
  <2>2. \/ create'[s].pc = "store" /\ managed' = managed \cup {s} /\ srv' = srv
        \/ create'[s].pc = "no" /\ managed' = managed \ {s}
    BY <1>14 DEF CreateAdd, Abandon, CreateTyped, CreateRec, NoCreate
  <2>3. \A t \in Servers : t # s => create'[t] = create[t] /\ srv'[t] = srv[t]
    BY <1>14 DEF CreateAdd, Abandon, CreateTyped, SrvTyped
  <2> QED
    BY <2>1, <2>2, <2>3 DEF ClientInv, Unattached
<1>15. ASSUME NEW s \in Servers, CreateStore(s) \/ CreateSend(s) PROVE ClientInv'
  <2>1. UNCHANGED <<nodes, reg, disc, srv>> /\ managed' \subseteq managed
    BY <1>15 DEF CreateStore, CreateSend, Abandon, registry
  <2>2. /\ create'[s].pc \in {"send", "no"}
        /\ \A t \in Servers : t # s => create'[t] = create[t]
    BY <1>15 DEF CreateStore, CreateSend, Abandon, CreateTyped, CreateRec, NoCreate
  <2> QED
    BY <2>1, <2>2 DEF ClientInv, Unattached
<1>16. ASSUME NEW c \in Cleaners, \/ CleanRelease(c) \/ CleanRemove(c)
                                  \/ \E s \in Servers : BeginClean(c, s)
       PROVE  ClientInv'
  <2>1. UNCHANGED <<nodes, reg, disc, create, srv>> /\ managed' \subseteq managed
    BY <1>16 DEF CleanRelease, CleanRemove, BeginClean, registry, servers
  <2> QED
    BY <2>1 DEF ClientInv, Unattached
<1>17. CASE Restart
  <2>1. /\ managed' = stored /\ \A t \in Servers : create'[t].pc = "no"
        /\ \A d \in Ids : nodes'[d] = None
        /\ \A p \in Discs : disc'[p].pc = "idle"
    BY <1>17 DEF Restart, NoDisc, NoCreate
  <2>2. \A t \in stored : srv'[t].client = None /\ srv'[t].home = srv[t].home
    BY <1>17 DEF Restart, SrvTyped, SrvRec, RestTyped
  <2>3. \A t \in stored : srv[t].home \in Ids
    BY DEF RestTyped, Placed, OnList
  <2> QED
    BY <2>1, <2>2, <2>3 DEF ClientInv
<1>18. CASE UNCHANGED vars
  BY <1>18 DEF vars, ClientInv, Unattached, registry, servers
<1> QED
  BY <1>1, <1>2, <1>3, <1>4, <1>5, <1>6, <1>7, <1>8, <1>9, <1>10, <1>11, <1>12, <1>13, <1>14, <1>15,
     <1>16, <1>17, <1>18 DEF Next

\* Which node objects are current after a step: those that were, and the one that
\* a registration has made.
LEMMA CurrentStep ==
    ASSUME Typed, Order, [Next]_vars, \A d \in Ids : ~(RegisterAgain(d) \/ RegisterNew(d)),
           NEW n \in Nodes, Current(n)'
    PROVE  Current(n) /\ allocOf' = allocOf
<1>0. RegistryTyped /\ reg \in RegRec /\ Placed
  BY Parts DEF Typed, RegTyped
<1> USE <1>0, FleetAssumption
<1>1. allocOf' = allocOf
  BY DEF Next, vars, registry, RegisterBalance, RegisterAdd, AttachBegin, Attach, AttachEnd,
     StartDisconnect, DisconnectBalance, DetachBegin, Detach, DisconnectEnd, CreatePick,
     CreateAlloc,
     CreateAdd, CreateStore, CreateSend, CleanRelease, CleanRemove, BeginClean, Restart
<1>2. CASE RegisterAdd
  BY <1>1, <1>2 DEF RegisterAdd, Current, RegistryTyped, RegRec
<1>3. CASE \E p \in Discs : DisconnectEnd(p)
  BY <1>1, <1>3 DEF DisconnectEnd, Current, RegistryTyped
<1>4. CASE Restart
  BY <1>1, <1>4 DEF Restart, Current, NoReg
<1>5. CASE nodes' = nodes /\ (reg'.node = reg.node \/ reg'.node = None)
  BY <1>1, <1>5 DEF Current
<1>6. ASSUME RegisterBalance \/ AttachBegin PROVE nodes' = nodes /\ reg'.node = reg.node
  BY <1>6 DEF RegisterBalance, AttachBegin, registry, RegRec
<1>7. ASSUME NEW s \in Servers, Attach(s) PROVE nodes' = nodes /\ reg'.node = reg.node
  BY <1>7 DEF Attach, RegRec
<1>8. ASSUME AttachEnd PROVE nodes' = nodes /\ reg'.node = None
  BY <1>8 DEF AttachEnd, registry, NoReg
<1> QED
  BY <1>2, <1>3, <1>4, <1>5, <1>6, <1>7, <1>8 DEF Next, vars, registry, StartDisconnect,
     DisconnectBalance,
     DetachBegin, Detach, CreatePick, CreateAlloc, CreateAdd, CreateStore, CreateSend, CleanRelease,
     CleanRemove, BeginClean

\* A new allocator belongs to the node that it was made for.
LEMMA OwnStep == Typed /\ Order /\ OwnInv /\ [Next]_vars => OwnInv'
<1> SUFFICES ASSUME Typed, Order, OwnInv, [Next]_vars,
                    NEW n \in Nodes, NEW m \in Nodes, Current(n)', Current(m)',
                    allocOf'[n] # None, allocOf'[n] = allocOf'[m]
             PROVE  IdOf[n] = IdOf[m]
  BY DEF OwnInv
<1>0. RegistryTyped /\ Placed
  BY Parts DEF Typed
<1>1. CASE \A d \in Ids : ~(RegisterAgain(d) \/ RegisterNew(d))
  <2>1. Current(n) /\ Current(m) /\ allocOf' = allocOf
    BY <1>1, CurrentStep
  <2> QED
    BY <2>1 DEF OwnInv
<1>2. ASSUME NEW d \in Ids, RegisterAgain(d) \/ RegisterNew(d) PROVE IdOf[n] = IdOf[m]
  <2>1. PICK k \in Nodes :
          /\ IdOf[k] = d
          /\ \/ \E a \in Allocs :
                  /\ a \notin AllocRefs /\ allocOf' = [allocOf EXCEPT ![k] = a] /\ reg'.node = k
             \/ nodes[d] = k /\ allocOf' = [allocOf EXCEPT ![k] = None] /\ UNCHANGED reg
    BY <1>2, Registered
  <2>2. nodes' = nodes
    BY <1>2, Registered
  <2>3. \A x \in {n, m} : x = k \/ Current(x)
    BY <2>1, <2>2 DEF Current
  <2>4. \A x \in {n, m} : x # k => allocOf'[x] = allocOf[x] /\ allocOf[x] \in AllocRefs
    BY <1>0, <2>1, <2>3, Fresh DEF RegistryTyped
  <2>5. allocOf'[k] = None \/ allocOf'[k] \notin AllocRefs
    BY <1>0, <2>1 DEF RegistryTyped
  <2> QED
    BY <2>3, <2>4, <2>5 DEF OwnInv
<1> QED
  BY <1>1, <1>2

\* A server that has a port after a step had it before, or takes it now, and it
\* gives it back where it would have before but for an attachment, a detachment
\* and a restart.
LEMMA KeptStep ==
    ASSUME Typed, [Next]_vars, NEW s \in Servers, Kept(s)'
    PROVE  \/ Kept(s) /\ srv'[s] = srv[s]
           \/ Attach(s) \/ (\E p \in Discs : Detach(p, s)) \/ CreateAlloc(s) \/ Restart
<1>0. CreateTyped /\ SrvTyped /\ Placed
  BY Parts DEF Typed
<1>1. ASSUME NEW t \in Servers, Attach(t), t # s PROVE Kept(s) /\ srv'[s] = srv[s]
  BY <1>0, <1>1 DEF Attach, Kept, SrvTyped
<1>2. ASSUME NEW p \in Discs, NEW t \in Servers, Detach(p, t), t # s PROVE Kept(s) /\ srv'[s] = srv[s]
  BY <1>0, <1>2 DEF Detach, Kept, SrvTyped
<1>3. ASSUME NEW t \in Servers, CreatePick(t) PROVE Kept(s) /\ srv'[s] = srv[s]
  <2>1. t \notin managed /\ managed' = managed
    BY <1>3 DEF CreatePick, Live
  <2>2. create'[t].pc = "alloc" /\ (t # s => create'[s] = create[s] /\ srv'[s] = srv[s])
    BY <1>0, <1>3 DEF CreatePick, CreateTyped, SrvTyped
  <2> QED
    BY <2>1, <2>2 DEF Kept
<1>4. ASSUME NEW t \in Servers, CreateAlloc(t), t # s PROVE Kept(s) /\ srv'[s] = srv[s]
  BY <1>4, AllocatedFields DEF Kept
<1>5. ASSUME NEW t \in Servers, CreateAdd(t) PROVE Kept(s) /\ srv'[s] = srv[s]
  <2>1. create[t].pc = "build" /\ (t # s => create'[s] = create[s] /\ srv'[s] = srv[s])
    BY <1>0, <1>5 DEF CreateAdd, Abandon, CreateTyped, SrvTyped
  <2>2. \/ managed' = managed \cup {t} /\ srv' = srv
        \/ managed' = managed \ {t} /\ create'[t].pc = "no"
    BY <1>0, <1>5 DEF CreateAdd, Abandon, CreateTyped, NoCreate
  <2> QED
    BY <2>1, <2>2 DEF Kept
<1>6. ASSUME NEW t \in Servers, CreateStore(t) \/ CreateSend(t) PROVE Kept(s) /\ srv'[s] = srv[s]
  <2>1. srv' = srv /\ managed' \subseteq managed
    BY <1>6 DEF CreateStore, CreateSend, Abandon
  <2>2. create'[s] = create[s] \/ create'[s].pc \in {"send", "no"}
    BY <1>0, <1>6 DEF CreateStore, CreateSend, Abandon, CreateTyped, CreateRec, NoCreate
  <2> QED
    BY <2>1, <2>2 DEF Kept
<1>7. ASSUME srv' = srv, create' = create, managed' \subseteq managed PROVE Kept(s) /\ srv'[s] = srv[s]
  BY <1>7 DEF Kept
<1> QED
  BY <1>1, <1>2, <1>3, <1>4, <1>5, <1>6, <1>7 DEF Next, vars, servers, RegisterAgain, RegisterNew,
     RegisterBalance, RegisterAdd, AttachBegin, AttachEnd, StartDisconnect, DisconnectBalance,
     DetachBegin, DisconnectEnd, CleanRelease, CleanRemove, BeginClean

\* The allocator that a server gives its port back to is that of its own node.
LEMMA ReleaseStep ==
    Typed /\ Order /\ OwnInv /\ ReleaseInv /\ [Next]_vars => ReleaseInv'
<1> DEFINE Back(r, al) == IF r \in Nodes THEN al[r] ELSE r
<1> SUFFICES ASSUME Typed, Order, OwnInv, ReleaseInv, [Next]_vars, NEW s \in Servers, Kept(s)'
             PROVE  /\ srv'[s].release \in Nodes => IdOf[srv'[s].release] = srv'[s].home
                    /\ \A n \in Nodes : Current(n)' /\ allocOf'[n] # None
                                          /\ allocOf'[n] = Back(srv'[s].release, allocOf')
                                          => IdOf[n] = srv'[s].home
  BY DEF ReleaseInv, AllocatorOf
<1>0. RegistryTyped /\ reg \in RegRec /\ CreateTyped /\ SrvTyped /\ RestTyped /\ Placed
  BY Parts DEF Typed, RegTyped
<1>a. Kept(s) => /\ srv[s].release \in Nodes => IdOf[srv[s].release] = srv[s].home
                 /\ \A n \in Nodes : Current(n) /\ allocOf[n] # None
                                       /\ allocOf[n] = Back(srv[s].release, allocOf)
                                       => IdOf[n] = srv[s].home
  BY DEF ReleaseInv, AllocatorOf
<1>1. ASSUME NEW d \in Ids, RegisterAgain(d) \/ RegisterNew(d)
      PROVE  /\ srv'[s].release \in Nodes => IdOf[srv'[s].release] = srv'[s].home
             /\ \A n \in Nodes : Current(n)' /\ allocOf'[n] # None
                                   /\ allocOf'[n] = Back(srv'[s].release, allocOf')
                                   => IdOf[n] = srv'[s].home
  <2>1. UNCHANGED <<nodes, create, managed, srv>>
    BY <1>1, Registered
  <2>2. Kept(s)
    BY <2>1 DEF Kept
  <2>3. PICK k \in Nodes :
          /\ IdOf[k] = d
          /\ \/ \E a \in Allocs :
                  /\ a \notin AllocRefs /\ allocOf' = [allocOf EXCEPT ![k] = a] /\ reg'.node = k
                  /\ nodes[d] = k \/ k \notin NodeRefs
             \/ nodes[d] = k /\ allocOf' = [allocOf EXCEPT ![k] = None] /\ UNCHANGED reg
    BY <1>1, Registered
  <2>4. \A n \in Nodes : Current(n)' =>
          n = k \/ (Current(n) /\ allocOf'[n] = allocOf[n] /\ allocOf[n] \in AllocRefs)
    BY <1>0, <2>1, <2>3, Fresh DEF Current, RegistryTyped
  <2>5. allocOf'[k] = None \/ allocOf'[k] \notin AllocRefs
    BY <1>0, <2>3 DEF RegistryTyped
  <2>6. srv[s].release # k => /\ Back(srv[s].release, allocOf') = Back(srv[s].release, allocOf)
                              /\ Back(srv[s].release, allocOf') \in AllocRefs
    BY <1>0, <2>2, <2>3, Fresh DEF RegistryTyped, AllocatorOf
  <2>7. srv[s].release = k => IdOf[k] = srv[s].home /\ Back(srv[s].release, allocOf') = allocOf'[k]
    BY <1>a, <2>2
  <2> HIDE DEF Back
  <2> QED
    BY <1>a, <2>1, <2>2, <2>4, <2>5, <2>6, <2>7
<1>2. CASE \A d \in Ids : ~(RegisterAgain(d) \/ RegisterNew(d))
  <2>1. \A n \in Nodes : Current(n)' => Current(n) /\ allocOf' = allocOf
    BY <1>2, CurrentStep
  <2>2. CASE Kept(s) /\ srv'[s] = srv[s]
    BY <1>a, <2>1, <2>2
  <2>3. CASE Attach(s)
    <3>1. srv'[s].release = reg.node /\ srv'[s].home = IdOf[reg.node] /\ reg.node \in Nodes
      BY <1>0, <2>3 DEF Attach, Placed, SrvTyped, SrvRec
    <3>2. Current(reg.node)
      BY DEF Current
    <3> QED
      BY <2>1, <3>1, <3>2 DEF OwnInv
  <2>4. ASSUME NEW p \in Discs, Detach(p, s) PROVE srv'[s].release = None
    BY <1>0, <2>4 DEF Detach, SrvTyped, SrvRec
  <2>5. CASE CreateAlloc(s)
    <3>1. create[s].pc = "alloc" /\ create[s].node \in Nodes /\ managed' = managed
      BY <2>5, AllocatedFields
    <3>2. s \notin managed
      BY <1>0, <3>1 DEF Placed, OnList
    <3>3. /\ srv'[s].release = allocOf[create[s].node] /\ srv'[s].release \in Allocs
          /\ srv'[s].home = srv[s].home
      BY <2>5, <3>1, <3>2, AllocatedFields DEF Kept
    <3>4. srv[s].home = IdOf[create[s].node] /\ Current(create[s].node)
      BY <3>1 DEF Order, CreateOrder, Current
    <3> QED
      BY <2>1, <3>1, <3>3, <3>4, FleetAssumption DEF OwnInv
  <2>6. CASE Restart
    <3>1. s \in stored
      BY <2>6 DEF Restart, Kept, NoCreate
    <3>2. srv'[s].release = None
      BY <1>0, <2>6, <3>1 DEF Restart, SrvTyped, SrvRec
    <3> QED
      BY <2>1, <3>2, FleetAssumption
  <2> QED
    BY <2>1, <2>2, <2>3, <2>4, <2>5, <2>6, KeptStep, FleetAssumption
<1> QED
  BY <1>1, <1>2

\* A server that nobody has released after a step has the node and the port that
\* it had before, or takes its port now.
LEMMA HoldingStep ==
    ASSUME Typed, Order, [Next]_vars, ~raced', NEW s \in Servers, Holding(s)'
    PROVE  \/ Holding(s) /\ srv'[s].home = srv[s].home /\ srv'[s].port = srv[s].port
           \/ CreateAlloc(s) /\ create'[s].pc = "build" /\ s \notin managed
<1>0. CreateTyped /\ CleanTyped /\ SrvTyped /\ RestTyped /\ Placed
  BY Parts DEF Typed
<1>1. Kept(s)'
  BY DEF Holding
<1>2. CASE Restart
  <2>1. s \in stored
    BY <1>1, <1>2 DEF Restart, Kept, NoCreate
  <2>2. srv'[s].home = srv[s].home /\ srv'[s].port = srv[s].port
    BY <1>0, <1>2, <2>1 DEF Restart, SrvTyped, SrvRec
  <2>3. s \in managed
    BY <2>1 DEF Order, CreateOrder
  <2>4. \A c \in Cleaners : clean[c].pc # "remove"
    BY <1>0, <1>2, Quiet
  <2> QED
    BY <2>2, <2>3, <2>4 DEF Holding, Kept
<1>3. CASE CreateAlloc(s)
  <2>1. create[s].pc = "alloc" /\ managed' = managed
    BY <1>3, AllocatedFields
  <2>2. s \notin managed
    BY <1>0, <2>1 DEF Placed, OnList
  <2> QED
    BY <1>1, <1>3, <2>1, <2>2 DEF Kept
<1>4. CASE ~Restart /\ ~CreateAlloc(s)
  <2>1. Kept(s) /\ srv'[s].home = srv[s].home /\ srv'[s].port = srv[s].port
    <3>1. CASE Kept(s) /\ srv'[s] = srv[s]
      BY <3>1
    <3>2. CASE Attach(s)
      BY <1>0, <1>1, <3>2 DEF Attach, Kept, SrvTyped, SrvRec
    <3>3. ASSUME NEW p \in Discs, Detach(p, s)
          PROVE  Kept(s) /\ srv'[s].home = srv[s].home /\ srv'[s].port = srv[s].port
      BY <1>0, <1>1, <3>3 DEF Detach, Kept, SrvTyped, SrvRec
    <3> QED
      BY <1>1, <1>4, <3>1, <3>2, <3>3, KeptStep
  <2>2. ASSUME NEW c \in Cleaners, clean[c].srv = s, clean[c].pc = "remove" PROVE FALSE
    <3>1. ~(clean'[c].srv = s /\ clean'[c].pc = "remove")
      BY DEF Holding
    <3>2. CASE CleanRemove(c)
      <4>1. managed' = managed \ {s} /\ create' = create
        BY <2>2, <3>2 DEF CleanRemove
      <4>2. create[s].pc = "no"
        BY <2>2 DEF Order, CleanOrder
      <4> QED
        BY <1>1, <4>1, <4>2 DEF Kept
    <3>3. ASSUME NEW e \in Cleaners, CleanRemove(e), e # c PROVE clean'[c] = clean[c]
      BY <1>0, <3>3 DEF CleanRemove, CleanTyped
    <3>4. ASSUME NEW e \in Cleaners, CleanRelease(e) PROVE clean'[c] = clean[c]
      BY <1>0, <2>2, <3>4 DEF CleanRelease, CleanTyped
    <3>5. ASSUME NEW e \in Cleaners, NEW t \in Servers, BeginClean(e, t) PROVE clean'[c] = clean[c]
      BY <1>0, <2>2, <3>5 DEF BeginClean, CleanTyped
    <3>6. CASE clean' = clean
      BY <2>2, <3>1, <3>6
    <3> QED
      BY <1>4, <2>2, <3>1, <3>2, <3>3, <3>4, <3>5, <3>6 DEF Next, vars, RegisterAgain, RegisterNew,
         RegisterBalance, RegisterAdd, AttachBegin, Attach, AttachEnd, StartDisconnect,
         DisconnectBalance, DetachBegin, Detach, DisconnectEnd, CreatePick, CreateAlloc, CreateAdd,
         CreateStore, CreateSend
  <2> QED
    BY <2>1, <2>2 DEF Holding
<1> QED
  BY <1>2, <1>3, <1>4

\* A port that is handed out is not that of another server of the node.
LEMMA DistinctStep ==
    Typed /\ Order /\ KnownInv /\ DistinctInv /\ [Next]_vars /\ ~raced' => DistinctInv'
<1> SUFFICES ASSUME Typed, Order, KnownInv, DistinctInv, [Next]_vars, ~raced',
                    NEW s \in Servers, NEW t \in Servers, Holding(s)', Holding(t)', s # t,
                    srv'[s].home = srv'[t].home
             PROVE  srv'[s].port # srv'[t].port
  BY DEF DistinctInv
<1>0. RegistryTyped /\ CreateTyped /\ SrvTyped /\ Placed
  BY Parts DEF Typed
<1>1. ASSUME NEW x \in Servers, NEW y \in Servers, x # y, Holding(x)', Holding(y)',
             CreateAlloc(x), create'[x].pc = "build", srv'[x].home = srv'[y].home
      PROVE  srv'[x].port # srv'[y].port
  <2>1. /\ create[x].pc = "alloc" /\ create[x].node \in Nodes
        /\ create'[y] = create[y] /\ srv'[y] = srv[y] /\ srv'[x].home = srv[x].home
    BY <1>1, AllocatedFields
  <2>2. PICK a \in Allocs, p \in Ports :
          a = allocOf[create[x].node] /\ p \notin used[a] /\ srv'[x].port = p
    BY <1>1, AllocatedFields
  <2>3. ~Moving /\ srv[x].home = IdOf[create[x].node] /\ nodes[srv[x].home] = create[x].node
    BY <2>1 DEF Order, CreateOrder
  <2>4. Holding(y)
    <3>1. clean' = clean /\ managed' = managed
      BY <1>1, AllocatedFields
    <3> QED
      BY <1>1, <2>1, <3>1 DEF Holding, Kept
  <2>5. ~Unattached(y)
    BY <2>3 DEF Unattached, Moving
  <2>6. srv[y].port \in used[a]
    BY <1>1, <2>1, <2>2, <2>3, <2>4, <2>5, FleetAssumption DEF KnownInv
  <2> QED
    BY <2>1, <2>2, <2>6
<1>2. CASE CreateAlloc(s) /\ create'[s].pc = "build"
  BY <1>1, <1>2
<1>3. CASE CreateAlloc(t) /\ create'[t].pc = "build"
  BY <1>1, <1>3
<1>4. CASE ~(CreateAlloc(s) /\ create'[s].pc = "build") /\ ~(CreateAlloc(t) /\ create'[t].pc = "build")
  BY <1>4, HoldingStep DEF DistinctInv
<1> QED
  BY <1>2, <1>3, <1>4

\* The allocator of a node keeps the ports of the servers that nobody has released.
LEMMA KnownStep ==
    Typed /\ Order /\ PortInv /\ [Next]_vars /\ ~raced' => KnownInv'
<1> SUFFICES ASSUME Typed, Order, PortInv, [Next]_vars, ~raced', NEW s \in Servers,
                    Holding(s)', ~Unattached(s)', nodes'[srv'[s].home] # None,
                    allocOf'[nodes'[srv'[s].home]] # None
             PROVE  srv'[s].port \in used'[allocOf'[nodes'[srv'[s].home]]]
  BY DEF KnownInv
<1>0. RegistryTyped /\ reg \in RegRec /\ CreateTyped /\ CleanTyped /\ SrvTyped /\ RestTyped /\ Placed
  BY Parts DEF Typed, RegTyped
<1> DEFINE h == srv[s].home
           n == nodes[h]
<1>1. CASE CreateAlloc(s) /\ create'[s].pc = "build"
  <2>1. create[s].pc = "alloc" /\ create[s].node \in Nodes /\ nodes' = nodes /\ allocOf' = allocOf
    BY <1>1, AllocatedFields
  <2>2. srv[s].home = IdOf[create[s].node] /\ nodes[srv[s].home] = create[s].node
    BY <2>1 DEF Order, CreateOrder
  <2>3. \E a \in Allocs, p \in Ports :
          /\ a = allocOf[create[s].node] /\ used' = [used EXCEPT ![a] = @ \cup {p}]
          /\ srv'[s].port = p /\ srv'[s].home = srv[s].home
    BY <1>1, AllocatedFields
  <2> QED
    BY <1>0, <2>1, <2>2, <2>3 DEF RegistryTyped
<1>2. CASE Holding(s) /\ srv'[s].home = srv[s].home /\ srv'[s].port = srv[s].port
  <2>1. h \in Ids /\ Kept(s)
    BY <1>0, <1>2 DEF Holding, Kept, Placed, OnList
  <2>2. n # None => n \in Nodes /\ IdOf[n] = h /\ Current(n)
    BY <1>0, <2>1 DEF RegistryTyped, Placed, Current
  <2>3. ~Unattached(s) /\ n # None /\ allocOf[n] # None => srv[s].port \in used[allocOf[n]]
    BY <1>2 DEF PortInv, KnownInv
  <2>4. n # None /\ allocOf[n] # None => allocOf[n] \in Allocs
    BY <1>0, <2>2 DEF RegistryTyped
  <2>5. ASSUME UNCHANGED <<nodes, allocOf>>, Unattached(s) => Unattached(s)',
               n # None /\ allocOf[n] # None => used[allocOf[n]] \subseteq used'[allocOf[n]]
        PROVE  srv'[s].port \in used'[allocOf'[nodes'[srv'[s].home]]]
    BY <1>2, <2>3, <2>5
  <2>6. ASSUME NEW d \in Ids, RegisterAgain(d) \/ RegisterNew(d)
        PROVE  srv'[s].port \in used'[allocOf'[nodes'[srv'[s].home]]]
    <3>1. nodes' = nodes /\ ~Unattached(s) /\ n # None
      BY <1>2, <2>6, Registered DEF Unattached
    <3>2. PICK k \in Nodes :
            /\ IdOf[k] = d
            /\ \/ \E a \in Allocs :
                    /\ a \notin AllocRefs
                    /\ allocOf' = [allocOf EXCEPT ![k] = a] /\ used' = [used EXCEPT ![a] = {}]
                    /\ reg'.node = k
                    /\ \/ nodes[d] = k /\ reg'.pc = "snapshot"
                       \/ nodes[d] = None
               \/ nodes[d] = k /\ allocOf' = [allocOf EXCEPT ![k] = None] /\ UNCHANGED <<used, reg>>
      BY <2>6, Registered
    <3>3. allocOf[n] \in AllocRefs
      BY <2>2, <3>1, Fresh
    <3>4. n # k
      <4>1. ASSUME n = k PROVE h = d /\ nodes[d] = k
        BY <2>2, <3>1, <3>2, <4>1
      <4>2. reg'.pc = "snapshot" /\ reg'.node = k /\ h = d => Unattached(s)'
        BY <1>2, <3>2 DEF Unattached
      <4>3. n = k => ~(nodes[d] = k /\ allocOf' = [allocOf EXCEPT ![k] = None])
        BY <1>0, <1>2, <3>1, <3>2 DEF RegistryTyped
      <4> QED
        BY <3>1, <3>2, <4>1, <4>2, <4>3
    <3>5. allocOf'[n] = allocOf[n]
      BY <1>0, <2>2, <3>1, <3>2, <3>4 DEF RegistryTyped
    <3>6. used'[allocOf[n]] = used[allocOf[n]]
      BY <1>0, <1>2, <2>4, <3>1, <3>2, <3>3, <3>5 DEF RegistryTyped
    <3> QED
      BY <1>2, <2>3, <3>1, <3>5, <3>6
  <2>7. CASE RegisterAdd
    <3>1. reg.pc = "add" /\ reg'.pc = "snapshot" /\ reg'.node = reg.node /\ reg.node \in Nodes
      BY <1>0, <2>7 DEF RegisterAdd, RegRec, Placed
    <3>2. h # IdOf[reg.node]
      BY <1>2, <3>1 DEF Unattached
    <3>3. nodes'[h] = n /\ UNCHANGED <<allocOf, used>>
      BY <1>0, <2>1, <2>7, <3>2 DEF RegisterAdd, RegistryTyped
    <3>4. ~Unattached(s)
      BY <3>1 DEF Unattached
    <3> QED
      BY <1>2, <2>3, <3>3, <3>4
  <2>8. CASE AttachBegin
    <3>1. /\ reg.pc = "snapshot" /\ reg'.pc = "attach" /\ reg'.node = reg.node
          /\ reg'.todo = ServersByNode(IdOf[reg.node]) /\ UNCHANGED <<nodes, allocOf, used, srv>>
      BY <1>0, <2>8 DEF AttachBegin, RegRec, registry, servers
    <3>2. s \in managed
      BY <2>1, <3>1 DEF Kept, Order, CreateOrder, Moving
    <3>3. Unattached(s) => Unattached(s)'
      BY <3>1, <3>2 DEF Unattached, ServersByNode
    <3> QED
      BY <2>5, <3>1, <3>3
  <2>9. ASSUME NEW t \in Servers, Attach(t)
        PROVE  srv'[s].port \in used'[allocOf'[nodes'[srv'[s].home]]]
    <3>1. /\ reg.pc = "attach" /\ reg'.pc = "attach" /\ reg'.node = reg.node /\ reg'.todo = reg.todo \ {t}
          /\ UNCHANGED <<nodes, allocOf>> /\ reg.node \in Nodes
          /\ allocOf[reg.node] \in Allocs
          /\ used' = [used EXCEPT ![allocOf[reg.node]] = @ \cup {srv[t].port}]
      BY <1>0, <2>9 DEF Attach, RegRec, Placed, RegistryTyped
    <3>2. CASE t = s
      <4>1. h = IdOf[reg.node] /\ nodes[h] = reg.node
        BY <1>0, <2>9, <3>2 DEF Attach, Placed, Order, MoveOrder
      <4> QED
        BY <1>0, <1>2, <3>1, <3>2, <4>1 DEF RegistryTyped
    <3>3. CASE t # s
      <4>1. Unattached(s) => Unattached(s)'
        BY <1>2, <3>1, <3>3 DEF Unattached
      <4>2. n # None /\ allocOf[n] # None => used[allocOf[n]] \subseteq used'[allocOf[n]]
        BY <1>0, <2>4, <3>1 DEF RegistryTyped
      <4> QED
        BY <2>5, <3>1, <4>1, <4>2
    <3> QED
      BY <3>2, <3>3
  <2>10. CASE AttachEnd
    <3>1. UNCHANGED <<nodes, allocOf, used>> /\ ~Unattached(s)
      BY <2>10 DEF AttachEnd, registry, Unattached
    <3> QED
      BY <2>5, <3>1
  <2>11. ASSUME NEW p \in Discs, DisconnectEnd(p)
         PROVE  srv'[s].port \in used'[allocOf'[nodes'[srv'[s].home]]]
    <3>1. UNCHANGED <<allocOf, used, reg, srv>> /\ (nodes'[h] = n \/ nodes'[h] = None)
      BY <1>0, <2>1, <2>11 DEF DisconnectEnd, servers, RegistryTyped
    <3>2. Unattached(s) <=> Unattached(s)'
      BY <3>1 DEF Unattached
    <3> QED
      BY <1>2, <2>3, <3>1, <3>2
  <2>12. ASSUME NEW t \in Servers, CreateAlloc(t)
         PROVE  srv'[s].port \in used'[allocOf'[nodes'[srv'[s].home]]]
    <3>1. UNCHANGED <<nodes, allocOf, reg>>
      BY <2>12, AllocatedFields
    <3>2. used' = used \/ \E a \in Allocs, p \in Ports : used' = [used EXCEPT ![a] = @ \cup {p}]
      BY <2>12, AllocatedFields
    <3>3. n # None /\ allocOf[n] # None => used[allocOf[n]] \subseteq used'[allocOf[n]]
      BY <1>0, <2>4, <3>2 DEF RegistryTyped
    <3>4. Unattached(s) => Unattached(s)'
      BY <1>2, <3>1 DEF Unattached
    <3> QED
      BY <2>5, <3>1, <3>3, <3>4
  <2>13. ASSUME NEW c \in Cleaners, CleanRelease(c)
         PROVE  srv'[s].port \in used'[allocOf'[nodes'[srv'[s].home]]]
    <3> DEFINE t == clean[c].srv
               b == AllocatorOf(srv[t].release)
    <3>1. UNCHANGED <<nodes, allocOf, reg, srv, managed, create>> /\ clean[c].pc = "release"
      BY <2>13 DEF CleanRelease, servers
    <3>2. Unattached(s) <=> Unattached(s)'
      BY <3>1 DEF Unattached
    <3>3. CASE used' = used
      BY <2>5, <3>1, <3>2, <3>3
    <3>4. CASE /\ b # None /\ used' = [used EXCEPT ![b] = @ \ {srv[t].port}]
               /\ clean'[c].srv = t /\ clean'[c].pc = "remove"
      <4>1. t \in managed /\ t \in Servers /\ Kept(t)
        BY <1>0, <3>1 DEF Order, CleanOrder, Kept, RestTyped
      <4>2. t # s
        BY <3>4 DEF Holding
      <4>3. Holding(t)
        <5>1. ASSUME NEW e \in Cleaners, clean[e].srv = t PROVE e = c
          BY <3>1, <5>1 DEF Order, CleanOrder
        <5> QED
          BY <3>1, <4>1, <5>1 DEF Holding
      <4>4. ASSUME n # None, allocOf[n] # None, allocOf[n] = b PROVE srv[s].port # srv[t].port
        <5>1. IdOf[n] = srv[t].home
          BY <2>2, <4>1, <4>4 DEF PortInv, ReleaseInv
        <5> QED
          BY <1>2, <2>2, <4>1, <4>2, <4>3, <4>4, <5>1 DEF PortInv, DistinctInv
      <4>5. ~Unattached(s) /\ n # None /\ allocOf[n] # None
        BY <1>2, <3>1, <3>2
      <4>6. srv[s].port \in used[allocOf[n]] /\ allocOf[n] \in Allocs
        BY <2>3, <2>4, <4>5
      <4>7. srv[s].port \in used'[allocOf[n]]
        BY <1>0, <3>4, <4>4, <4>5, <4>6 DEF RegistryTyped
      <4> QED
        BY <1>2, <3>1, <4>7
    <3>5. \/ used' = used
          \/ /\ b # None /\ used' = [used EXCEPT ![b] = @ \ {srv[t].port}]
             /\ clean'[c].srv = t /\ clean'[c].pc = "remove"
      BY <1>0, <2>13 DEF CleanRelease, CleanTyped, CleanRec
    <3> QED
      BY <3>3, <3>4, <3>5
  <2>14. CASE Restart
    BY <1>2, <2>1, <2>14 DEF Restart
  <2>15. CASE RegisterBalance
    <3>1. /\ UNCHANGED <<nodes, allocOf, used>>
          /\ reg.pc = "balance"
      BY <2>15 DEF RegisterBalance
    <3> QED
      BY <2>5, <3>1 DEF Unattached
  <2>16. ASSUME UNCHANGED <<nodes, allocOf, used, reg>>
         PROVE  srv'[s].port \in used'[allocOf'[nodes'[srv'[s].home]]]
    BY <1>2, <2>5, <2>16 DEF Unattached
  <2> HIDE DEF h, n
  <2> QED
    BY <2>6, <2>7, <2>8, <2>9, <2>10, <2>11, <2>12, <2>13, <2>14, <2>15, <2>16 DEF Next, vars,
       registry,
       StartDisconnect, DisconnectBalance, DetachBegin, Detach, CreatePick, CreateAdd, CreateStore,
       CreateSend, CleanRemove, BeginClean
<1> QED
  BY <1>1, <1>2, HoldingStep

-----------------------------------------------------------------------------
(* The results.                                                              *)

\* A behaviour without races is orderly, its ports and its clients are in place.
THEOREM Invariance == Spec => [](Typed /\ OrderlyInv)
<1>1. Init => OrderlyInv
  <2> SUFFICES ASSUME Init PROVE Order /\ PortInv /\ ClientInv
    BY DEF OrderlyInv
  <2>1. Order
    BY DEF Init, Order, MoveOrder, CreateOrder, CleanOrder, Moving, NoReg, NoDisc, NoCreate, NoClean
  <2>2. \A n \in Nodes : ~Current(n)
    BY FleetAssumption DEF Init, Current, NoReg
  <2>3. \A s \in Servers : ~Kept(s)
    BY DEF Init, Kept, NoCreate
  <2>4. PortInv
    BY <2>2, <2>3 DEF PortInv, OwnInv, ReleaseInv, KnownInv, DistinctInv, Holding
  <2>5. ClientInv
    BY DEF Init, ClientInv, NoCreate
  <2> QED
    BY <2>1, <2>4, <2>5
<1>2. Typed /\ OrderlyInv /\ [Next]_vars => OrderlyInv'
  <2> SUFFICES ASSUME Typed, OrderlyInv, [Next]_vars, ~raced' PROVE (Order /\ PortInv /\ ClientInv)'
    BY DEF OrderlyInv
  <2>1. ~raced
    BY Parts, Quiet DEF Typed
  <2>2. Order /\ PortInv /\ ClientInv
    BY <2>1 DEF OrderlyInv
  <2>3. Order' /\ ClientInv'
    BY <2>2, OrderStep, ClientStep
  <2>4. OwnInv' /\ ReleaseInv' /\ KnownInv' /\ DistinctInv'
    BY <2>2, OwnStep, ReleaseStep, KnownStep, DistinctStep DEF PortInv
  <2> QED
    BY <2>3, <2>4 DEF PortInv
<1> QED
  BY <1>1, <1>2, Places, PTL DEF Spec

\* Two servers of a node never share a port in a behaviour without races
\* (PortsDistinct): NewAllocation hands out no port that a registration has
\* claimed, and a clean-up releases no port but its own.
THEOREM PortsAreDistinct == Spec => []PortsDistinct
<1>1. Typed /\ OrderlyInv => PortsDistinct
  <2> SUFFICES ASSUME Typed, OrderlyInv, ~raced, NEW s \in managed \ Leaving, NEW t \in managed \ Leaving,
                      s # t, srv[s].home = srv[t].home
               PROVE  srv[s].port # srv[t].port
    BY DEF PortsDistinct
  <2>1. s \in Servers /\ t \in Servers
    BY Parts DEF Typed, RestTyped
  <2>2. Holding(s) /\ Holding(t)
    BY DEF Holding, Kept, Leaving
  <2> QED
    BY <2>1, <2>2 DEF OrderlyInv, PortInv, DistinctInv
<1> QED
  BY <1>1, Invariance, PTL

\* Between registrations and disconnections of a behaviour without races, a server
\* has the client of its node and the node's allocator knows its port
\* (ServersAttached).
THEOREM ServersAreAttached == Spec => []ServersAttached
<1>1. Typed /\ OrderlyInv => ServersAttached
  <2> SUFFICES ASSUME Typed, OrderlyInv, ~raced, ~Moving, NEW s \in Settled
               PROVE  LET n == nodes[srv[s].home] IN
                        /\ srv[s].client = n
                        /\ n # None /\ allocOf[n] # None => srv[s].port \in used[allocOf[n]]
    BY DEF ServersAttached
  <2>1. s \in Servers /\ s \in managed
    BY Parts DEF Typed, RestTyped, Settled
  <2>2. Holding(s)
    BY <2>1 DEF Holding, Kept, Settled, Leaving
  <2>3. ~Unattached(s)
    BY DEF Unattached, Moving
  <2>4. srv[s].client = nodes[srv[s].home]
    BY <2>1, <2>3 DEF OrderlyInv, ClientInv, Moving
  <2> QED
    BY <2>1, <2>2, <2>3, <2>4 DEF OrderlyInv, PortInv, KnownInv
<1> QED
  BY <1>1, Invariance, PTL
=============================================================================
