-------------------------------- MODULE Fleet --------------------------------
(***************************************************************************)
(* Protocube's view of its nodes and servers: the node manager, the        *)
(* allocator of ports of every node, and the server manager.               *)
(*                                                                         *)
(*   protocube/node/manager.go, health.go        Register, Disconnect      *)
(*   protocube/node/allocator/allocator.go       NewAllocation, Claim      *)
(*   protocube/server/manager.go                 CreateServer, Attach...   *)
(*   protocube/server/server.go                  CleanupForDestroy         *)
(*   protocube/api/router/router_node.go, router_server.go, router_system.go *)
(*                                                                         *)
(* Requests and the health monitor are goroutines; what one mutex protects *)
(* is a step.  The balancer is the abstract one of module Balancer.  Node  *)
(* objects and allocators that nothing refers to any more are used again.  *)
(***************************************************************************)
EXTENDS Naturals, FiniteSets, FiniteSetsExt

CONSTANTS Ids,       \* ids of nodes, one daemon each
          Nodes,     \* node objects
          IdOf,      \* IdOf[n]: the id of node object n
          Allocs,    \* allocator objects
          Servers,   \* server ids
          Ports,     \* the port range of every node, numbers
          Discs,     \* goroutines that run Disconnect
          Cleaners,  \* goroutines that run CleanupForDestroy
          None,
          MaxRestarts  \* restarts of protocube

ASSUME FleetAssumption ==
    /\ IdOf \in [Nodes -> Ids]
    /\ Ports \subseteq Nat
    /\ IsFiniteSet(Ports)
    /\ None \notin Nodes \cup Allocs \cup Ids \cup Servers \cup Ports
    /\ Nodes \cap Allocs = {}
    /\ MaxRestarts \in Nat

VARIABLES
    nodes,      \* Manager.nodes: nodes[id] is an object or None
    lb,         \* what the balancer holds for every id
    allocOf,    \* allocOf[n]: Node.Allocator
    used,       \* used[a]: the ports that allocator a has handed out
    reg,        \* the registration that holds registerMutex
    disc,       \* disc[p]: the disconnection that goroutine p runs
    create,     \* create[s]: the creation of server s
    clean,      \* clean[c]: the clean-up that goroutine c runs
    managed,    \* the servers in the server manager
    stored,     \* the servers in the database
    srv,        \* srv[s]: node, port, release function and client of the server
    restarts,   \* restarts of protocube so far
    raced       \* history: steps of two requests have overlapped, or the database failed

registry == <<nodes, lb, allocOf, used>>
servers == <<managed, stored, srv>>
vars == <<registry, reg, disc, create, clean, servers, restarts, raced>>

LB == INSTANCE Balancer
        WITH members <- lb, drained <- [n \in Nodes |-> FALSE],
             picking <- FALSE, refused <- {}, picked <- None

NoReg == [pc |-> "idle", node |-> None, todo |-> {}]
NoDisc == [pc |-> "idle", node |-> None, todo |-> {}]
NoCreate == [pc |-> "no", node |-> None]
NoClean == [pc |-> "idle", srv |-> None]
NoServer == [home |-> None, port |-> None, release |-> None, client |-> None]

TypeOK ==
    /\ nodes \in [Ids -> Nodes \cup {None}]
    /\ lb \in [Ids -> Nodes \cup {None}]
    /\ allocOf \in [Nodes -> Allocs \cup {None}]
    /\ used \in [Allocs -> SUBSET Ports]
    /\ reg \in [pc : {"idle", "balance", "add", "snapshot", "attach"},
                node : Nodes \cup {None}, todo : SUBSET Servers]
    /\ disc \in [Discs -> [pc : {"idle", "remove", "snapshot", "detach"},
                           node : Nodes \cup {None}, todo : SUBSET Servers]]
    /\ create \in [Servers -> [pc : {"no", "alloc", "build", "store", "send"},
                               node : Nodes \cup {None}]]
    /\ clean \in [Cleaners -> [pc : {"idle", "release", "remove"},
                               srv : Servers \cup {None}]]
    /\ managed \subseteq Servers
    /\ stored \subseteq Servers
    /\ srv \in [Servers -> [home : Ids \cup {None}, port : Ports \cup {None},
                            release : Nodes \cup Allocs \cup {None},
                            client : Nodes \cup {None}]]
    /\ restarts \in 0 .. MaxRestarts
    /\ raced \in BOOLEAN

Init ==
    /\ nodes = [d \in Ids |-> None]
    /\ lb = [d \in Ids |-> None]
    /\ allocOf = [n \in Nodes |-> None]
    /\ used = [a \in Allocs |-> {}]
    /\ reg = NoReg
    /\ disc = [p \in Discs |-> NoDisc]
    /\ create = [s \in Servers |-> NoCreate]
    /\ clean = [c \in Cleaners |-> NoClean]
    /\ managed = {}
    /\ stored = {}
    /\ srv = [s \in Servers |-> NoServer]
    /\ restarts = 0
    /\ raced = FALSE

-----------------------------------------------------------------------------
\* A creation that has chosen its node and is not in the manager yet: nobody
\* who walks the servers of the node finds it.
Unlisted == {s \in Servers : create[s].pc \in {"alloc", "build"}}
Moving == reg.pc # "idle" \/ \E p \in Discs : disc[p].pc # "idle"

\* The servers that somebody still holds, and the objects these refer to.
Live ==
    managed \cup stored \cup {s \in Servers : create[s].pc # "no"}
      \cup {clean[c].srv : c \in Cleaners} \cup reg.todo \cup UNION {disc[p].todo : p \in Discs}
NodeRefs ==
    {nodes[d] : d \in Ids} \cup {lb[d] : d \in Ids} \cup {reg.node}
      \cup {disc[p].node : p \in Discs} \cup {create[s].node : s \in Servers}
      \cup UNION {{srv[s].client, srv[s].release} : s \in Live \ {None}}
AllocRefs == {allocOf[n] : n \in NodeRefs \cap Nodes} \cup {srv[s].release : s \in Live \ {None}}

\* NewAllocator: an allocator that has handed out nothing.
NewAllocator(n, a) ==
    /\ a \notin AllocRefs
    /\ allocOf' = [allocOf EXCEPT ![n] = a]
    /\ used' = [used EXCEPT ![a] = {}]

ServersByNode(d) == {s \in managed : srv[s].home = d}

-----------------------------------------------------------------------------
(* postNodeRegister, one at a time under registerMutex.                      *)

\* The node is known: it gets a new allocator and its servers are attached
\* again.  The allocator of a request with a malformed port range is nil.
RegisterAgain(d) ==
    /\ reg.pc = "idle" /\ nodes[d] # None
    /\ \/ /\ \E a \in Allocs : NewAllocator(nodes[d], a)
          /\ reg' = [pc |-> "snapshot", node |-> nodes[d], todo |-> {}]
       \/ /\ allocOf' = [allocOf EXCEPT ![nodes[d]] = None]
          /\ UNCHANGED <<used, reg>>
    /\ raced' = (raced \/ Unlisted # {} \/ Moving)
    /\ UNCHANGED <<nodes, lb, disc, create, clean, servers, restarts>>

\* Register makes a new node object.
RegisterNew(d) ==
    /\ reg.pc = "idle" /\ nodes[d] = None
    /\ \E n \in Nodes \ NodeRefs, a \in Allocs :
         /\ IdOf[n] = d
         /\ NewAllocator(n, a)
         /\ reg' = [pc |-> "balance", node |-> n, todo |-> {}]
    /\ raced' = (raced \/ Unlisted # {} \/ Moving)
    /\ UNCHANGED <<nodes, lb, disc, create, clean, servers, restarts>>

RegisterBalance ==
    /\ reg.pc = "balance"
    /\ lb' = LB!Put(lb, reg.node)
    /\ reg' = [reg EXCEPT !.pc = "add"]
    /\ UNCHANGED <<nodes, allocOf, used, disc, create, clean, servers, restarts, raced>>

RegisterAdd ==
    /\ reg.pc = "add"
    /\ nodes' = [nodes EXCEPT ![IdOf[reg.node]] = reg.node]
    /\ reg' = [reg EXCEPT !.pc = "snapshot"]
    /\ UNCHANGED <<lb, allocOf, used, disc, create, clean, servers, restarts, raced>>

\* AttachNodeClientToServers.
AttachBegin ==
    /\ reg.pc = "snapshot"
    /\ reg' = [reg EXCEPT !.pc = "attach", !.todo = ServersByNode(IdOf[reg.node])]
    /\ UNCHANGED <<registry, disc, create, clean, servers, restarts, raced>>

\* Mutant: the port is not claimed in the new allocator.
AttachUnclaimed(s) ==
    /\ reg.pc = "attach" /\ s \in reg.todo
    /\ srv' = [srv EXCEPT ![s].client = reg.node, ![s].release = reg.node]
    /\ reg' = [reg EXCEPT !.todo = @ \ {s}]
    /\ UNCHANGED <<registry, disc, create, clean, managed, stored, restarts, raced>>

\* The release function that Attach sets looks the allocator up when it runs.
Attach(s) ==
    /\ reg.pc = "attach" /\ s \in reg.todo
    /\ allocOf[reg.node] # None
    /\ used' = [used EXCEPT ![allocOf[reg.node]] = @ \cup {srv[s].port}]
    /\ srv' = [srv EXCEPT ![s].client = reg.node, ![s].release = reg.node]
    /\ reg' = [reg EXCEPT !.todo = @ \ {s}]
    /\ UNCHANGED <<nodes, lb, allocOf, disc, create, clean, managed, stored, restarts, raced>>

AttachEnd ==
    /\ reg.pc = "attach" /\ reg.todo = {}
    /\ reg' = NoReg
    /\ UNCHANGED <<registry, disc, create, clean, servers, restarts, raced>>

-----------------------------------------------------------------------------
(* Disconnect.                                                               *)

\* The health monitor has seen no heartbeat for longer than the time-out, or the
\* daemon shuts down (postNodeDisconnect).
StartDisconnect(p, d) ==
    /\ disc[p].pc = "idle" /\ nodes[d] # None
    /\ disc' = [disc EXCEPT ![p] = [pc |-> "remove", node |-> nodes[d], todo |-> {}]]
    /\ raced' = (raced \/ Unlisted # {} \/ Moving)
    /\ UNCHANGED <<registry, reg, create, clean, servers, restarts>>

DisconnectBalance(p) ==
    /\ disc[p].pc = "remove"
    /\ lb' = LB!Drop(lb, disc[p].node)
    /\ disc' = [disc EXCEPT ![p].pc = "snapshot"]
    /\ UNCHANGED <<nodes, allocOf, used, reg, create, clean, servers, restarts, raced>>

\* DetachNodeClientFromServers.
DetachBegin(p) ==
    /\ disc[p].pc = "snapshot"
    /\ disc' = [disc EXCEPT ![p].pc = "detach", ![p].todo = ServersByNode(IdOf[disc[p].node])]
    /\ UNCHANGED <<registry, reg, create, clean, servers, restarts, raced>>

\* Mutant: the client of a disconnected node is kept.
DetachKeeps(p, s) ==
    /\ disc[p].pc = "detach" /\ s \in disc[p].todo
    /\ disc' = [disc EXCEPT ![p].todo = @ \ {s}]
    /\ UNCHANGED <<registry, reg, create, clean, servers, restarts, raced>>

Detach(p, s) ==
    /\ disc[p].pc = "detach" /\ s \in disc[p].todo
    /\ srv' = [srv EXCEPT ![s].client = None, ![s].release = None]
    /\ disc' = [disc EXCEPT ![p].todo = @ \ {s}]
    /\ UNCHANGED <<registry, reg, create, clean, managed, stored, restarts, raced>>

\* The last step removes whatever object the map has for the id.
DisconnectEnd(p) ==
    /\ disc[p].pc = "detach" /\ disc[p].todo = {}
    /\ nodes' = [nodes EXCEPT ![IdOf[disc[p].node]] = None]
    /\ disc' = [disc EXCEPT ![p] = NoDisc]
    /\ UNCHANGED <<lb, allocOf, used, reg, create, clean, servers, restarts, raced>>

-----------------------------------------------------------------------------
(* postCreateServer and CreateServer.                                        *)

\* The node is the one the request names or one that the balancer picks.
CreatePick(s) ==
    /\ s \notin Live
    /\ \E n \in LB!Held(lb) \cup LB!Held(nodes) :
         /\ create' = [create EXCEPT ![s] = [pc |-> "alloc", node |-> n]]
         /\ srv' = [srv EXCEPT ![s] = [NoServer EXCEPT !.home = IdOf[n], !.client = n]]
    /\ raced' = (raced \/ Moving)
    /\ UNCHANGED <<registry, reg, disc, clean, managed, stored, restarts>>

\* Nothing of a creation that failed stays in the manager or the database; the
\* port stays with the allocator.
Abandon(s) ==
    /\ create' = [create EXCEPT ![s] = NoCreate]
    /\ managed' = managed \ {s}
    /\ \/ stored' = stored \ {s} /\ UNCHANGED raced
       \/ /\ s \in stored    \* the database fails
          /\ UNCHANGED stored
          /\ raced' = TRUE

\* Mutant: ports in use are handed out again.
CreateAllocBlind(s) ==
    LET a == allocOf[create[s].node] IN
    /\ create[s].pc = "alloc" /\ a # None
    /\ used' = [used EXCEPT ![a] = @ \cup {Min(Ports)}]
    /\ srv' = [srv EXCEPT ![s].port = Min(Ports), ![s].release = a]
    /\ create' = [create EXCEPT ![s].pc = "build"]
    /\ UNCHANGED <<nodes, lb, allocOf, reg, disc, clean, managed, stored, restarts, raced>>

\* Mutant: the port after the highest one in use, past the end of the range.
CreateAllocPast(s) ==
    LET a == allocOf[create[s].node] IN
    /\ create[s].pc = "alloc" /\ a # None
    /\ LET p == Max(used[a] \cup {0}) + 1 IN
         /\ used' = [used EXCEPT ![a] = @ \cup {p}]
         /\ srv' = [srv EXCEPT ![s].port = p, ![s].release = a]
    /\ create' = [create EXCEPT ![s].pc = "build"]
    /\ UNCHANGED <<nodes, lb, allocOf, reg, disc, clean, managed, stored, restarts, raced>>

\* NewAllocation: the lowest port that is free.
CreateAlloc(s) ==
    LET a == allocOf[create[s].node]
        free == IF a = None THEN {} ELSE Ports \ used[a]
    IN  /\ create[s].pc = "alloc"
        /\ \/ /\ free # {}
              /\ used' = [used EXCEPT ![a] = @ \cup {Min(free)}]
              /\ srv' = [srv EXCEPT ![s].port = Min(free), ![s].release = a]
              /\ create' = [create EXCEPT ![s].pc = "build"]
              /\ UNCHANGED <<managed, stored, raced>>
           \/ /\ free = {}
              /\ create' = [create EXCEPT ![s] = NoCreate]
              /\ srv' = [srv EXCEPT ![s] = NoServer]
              /\ UNCHANGED <<used, managed, stored, raced>>
        /\ UNCHANGED <<nodes, lb, allocOf, reg, disc, clean, restarts>>

\* BuildServerConfiguration may fail; then the server joins the manager.
CreateAdd(s) ==
    /\ create[s].pc = "build"
    /\ \/ /\ managed' = managed \cup {s}
          /\ create' = [create EXCEPT ![s].pc = "store"]
          /\ UNCHANGED <<stored, srv, raced>>
       \/ Abandon(s) /\ srv' = [srv EXCEPT ![s] = NoServer]
    /\ UNCHANGED <<registry, reg, disc, clean, restarts>>

CreateStore(s) ==
    /\ create[s].pc = "store"
    /\ \/ /\ stored' = stored \cup {s}
          /\ create' = [create EXCEPT ![s].pc = "send"]
          /\ UNCHANGED <<managed, raced>>
       \/ Abandon(s)
    /\ UNCHANGED <<registry, reg, disc, clean, srv, restarts>>

\* Node.CreateServer: the daemon accepts the server, or an error comes back
\* after all retries.
CreateSend(s) ==
    /\ create[s].pc = "send"
    /\ \/ /\ create' = [create EXCEPT ![s] = NoCreate]
          /\ UNCHANGED <<managed, stored, raced>>
       \/ Abandon(s)
    /\ UNCHANGED <<registry, reg, disc, clean, srv, restarts>>

-----------------------------------------------------------------------------
(* Deletion.                                                                 *)

\* postEventServerDeleted: the daemon has deleted the server, and repeats an
\* event whose answer is lost; or deleteServer with force=true, after the
\* daemon's answer was an error.
BeginClean(c, s) ==
    /\ clean[c].pc = "idle" /\ s \in managed
    /\ clean' = [clean EXCEPT ![c] = [pc |-> "release", srv |-> s]]
    /\ raced' = (raced \/ create[s].pc # "no" \/ \E k \in Cleaners : clean[k].srv = s)
    /\ UNCHANGED <<registry, reg, disc, create, servers, restarts>>

\* The release function of the server: set by NewAllocation for one allocator,
\* by Attach for whatever allocator the node object has, or nil.
AllocatorOf(r) == IF r \in Nodes THEN allocOf[r] ELSE r

\* A node object whose allocator is nil panics; the request ends there.
CleanRelease(c) ==
    LET s == clean[c].srv
        r == srv[s].release
    IN  /\ clean[c].pc = "release"
        /\ \/ /\ r # None /\ AllocatorOf(r) # None
              /\ used' = [used EXCEPT ![AllocatorOf(r)] = @ \ {srv[s].port}]
              /\ clean' = [clean EXCEPT ![c].pc = "remove"]
           \/ /\ r = None
              /\ clean' = [clean EXCEPT ![c].pc = "remove"]
              /\ UNCHANGED used
           \/ /\ r # None /\ AllocatorOf(r) = None
              /\ clean' = [clean EXCEPT ![c] = NoClean]
              /\ UNCHANGED used
        /\ UNCHANGED <<nodes, lb, allocOf, reg, disc, create, servers, restarts, raced>>

\* Out of the manager, then out of the database if that works.
CleanRemove(c) ==
    /\ clean[c].pc = "remove"
    /\ managed' = managed \ {clean[c].srv}
    /\ clean' = [clean EXCEPT ![c] = NoClean]
    /\ \/ stored' = stored \ {clean[c].srv} /\ UNCHANGED raced
       \/ UNCHANGED stored /\ raced' = TRUE
    /\ UNCHANGED <<registry, reg, disc, create, srv, restarts>>

\* Protocube restarts: the servers come from the database, without a node.
Restart ==
    /\ restarts < MaxRestarts
    /\ restarts' = restarts + 1
    /\ nodes' = [d \in Ids |-> None]
    /\ lb' = [d \in Ids |-> None]
    /\ reg' = NoReg
    /\ disc' = [p \in Discs |-> NoDisc]
    /\ create' = [s \in Servers |-> NoCreate]
    /\ clean' = [c \in Cleaners |-> NoClean]
    /\ managed' = stored
    /\ srv' = [s \in Servers |-> IF s \in stored
                                   THEN [srv[s] EXCEPT !.release = None, !.client = None]
                                   ELSE NoServer]
    /\ raced' = (raced \/ \E c \in Cleaners : clean[c].pc = "remove")
    /\ UNCHANGED <<allocOf, used, stored>>

Next ==
    \/ \E d \in Ids : RegisterAgain(d) \/ RegisterNew(d)
    \/ RegisterBalance \/ RegisterAdd \/ AttachBegin \/ AttachEnd \/ Restart
    \/ \E s \in Servers : \/ Attach(s) \/ CreatePick(s) \/ CreateAlloc(s) \/ CreateAdd(s)
                          \/ CreateStore(s) \/ CreateSend(s)
    \/ \E p \in Discs : \/ DisconnectBalance(p) \/ DetachBegin(p) \/ DisconnectEnd(p)
                        \/ \E d \in Ids : StartDisconnect(p, d)
                        \/ \E s \in Servers : Detach(p, s)
    \/ \E c \in Cleaners : \/ CleanRelease(c) \/ CleanRemove(c)
                           \/ \E s \in Servers : BeginClean(c, s)

Spec == Init /\ [][Next]_vars

-----------------------------------------------------------------------------
Leaving == {clean[c].srv : c \in Cleaners}
Settled == managed \ (Leaving \cup {s \in Servers : create[s].pc # "no"})

\* Two servers of a node never share a port, as long as no registration or
\* disconnection of the node overlapped another one or a creation, no server was
\* cleaned up by two requests, and the database did not fail.
PortsDistinct ==
    ~raced =>
      \A s, t \in managed \ Leaving :
        s # t /\ srv[s].home = srv[t].home => srv[s].port # srv[t].port

\* Once a registration is over, the allocator of the node knows the ports of all
\* its servers (allocator.go: "existing allocations are restored by claiming
\* ports for each server on that node") and each server talks to the node object
\* that the manager has; without a node, it has no client.
ServersAttached ==
    ~raced /\ ~Moving =>
      \A s \in Settled :
        LET n == nodes[srv[s].home] IN
          /\ srv[s].client = n
          /\ n # None /\ allocOf[n] # None => srv[s].port \in used[allocOf[n]]

=============================================================================
