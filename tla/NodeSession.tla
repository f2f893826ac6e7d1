----------------------------- MODULE NodeSession -----------------------------
(***************************************************************************)
(* One daemon and its session with protocube: registration, heartbeats,    *)
(* the token that protocube uses for its calls, and the synchronisation of *)
(* the servers that follows a connection.                                  *)
(*                                                                         *)
(*   daemon/remote/requests.go, health.go, client.go, servers.go           *)
(*   daemon/cmd/root.go                     boot, PersistStates, shutdown  *)
(*   daemon/server/manager.go               Sync, LoadServers, states file *)
(*   protocube/api/router/router_node.go    postNodeRegister, ...          *)
(*   protocube/node/manager.go, health.go   Register, Disconnect           *)
(*                                                                         *)
(* A node object of protocube is known by its token, a number.  Lost       *)
(* messages, time-outs and restarts are faults, at most MaxFaults of them. *)
(***************************************************************************)
EXTENDS Naturals, FiniteSets

CONSTANTS Senders,    \* goroutines of the daemon that report server events
          Servers,    \* servers of this node
          PerPage,    \* BootServersPerPage
          MaxFaults

ASSUME SessionAssumption ==
    /\ PerPage \in Nat \ {0}
    /\ {"boot", "heart"} \cap Senders = {}
    /\ MaxFaults \in Nat

Threads == {"boot", "heart"} \cup Senders
MaxToken == MaxFaults + 1

VARIABLES
    node,       \* the node object in Manager.nodes, 0 if there is none
    lb,         \* the node object in the balancer, 0 if there is none
    last,       \* the last token that was generated
    mon,        \* what Disconnect has left to do
    adding,     \* the node object that Register has yet to add to the manager, or 0
    on,         \* the daemon runs
    token,      \* auth.token of the daemon, 0 if it is not set
    connected, hooked,  \* connected, and SetOnConnected was called
    pc, got,    \* per thread: its position, and the token in protocube's answer
    then,       \* where it goes on after Register
    todo,       \* servers that its LoadServers still has to load
    save,       \* save[s]: the server is not ephemeral; never changes
    listed,     \* servers that protocube has for this node
    tracked,    \* state of the server in the manager, "none" if it is not there
    container,  \* its container runs
    file,       \* its state in the states file
    faults,
    lost        \* history: an answer to a registration did not count

registry == <<node, lb, last, mon, adding>>
link == <<token, connected, hooked>>
thread == <<pc, got, then, todo>>
servers == <<save, listed, tracked, container, file>>
vars == <<registry, on, link, thread, servers, faults, lost>>

TypeOK ==
    /\ {node, lb, last, adding, token} \subseteq 0 .. MaxToken
    /\ mon \in {"idle", "balance", "remove"}
    /\ {on, connected, hooked, lost} \subseteq BOOLEAN
    /\ pc \in [Threads -> {"idle", "send", "register", "wait", "answer", "load", "store", "fetch", "servers", "failed"}]
    /\ got \in [Threads -> 0 .. MaxToken]
    /\ then \in [Threads -> {"idle", "send", "fetch"}]
    /\ todo \in [Threads -> SUBSET Servers]
    /\ save \in [Servers -> BOOLEAN]
    /\ listed \subseteq Servers
    /\ tracked \in [Servers -> {"none", "offline", "running"}]
    /\ container \in [Servers -> BOOLEAN]
    /\ file \in [Servers -> {"none", "offline", "running"}]
    /\ faults \in 0 .. MaxFaults

Init ==
    /\ node = 0 /\ lb = 0 /\ last = 0
    /\ mon = "idle" /\ adding = 0
    /\ on = FALSE /\ token = 0 /\ connected = FALSE /\ hooked = FALSE
    /\ pc = [t \in Threads |-> "idle"]
    /\ got = [t \in Threads |-> 0]
    /\ then = [t \in Threads |-> "idle"]
    /\ todo = [t \in Threads |-> {}]
    /\ save \in [Servers -> BOOLEAN]
    /\ listed = Servers
    /\ tracked = [s \in Servers |-> "none"]
    /\ container \in [Servers -> BOOLEAN]
    /\ file \in [Servers -> {"none", "offline", "running"}]
    /\ \A s \in Servers : save[s] \/ file[s] = "none"
    /\ faults = 0
    /\ lost = FALSE

Fault == faults < MaxFaults /\ faults' = faults + 1
Goto(t, l) == pc' = [pc EXCEPT ![t] = l]

-----------------------------------------------------------------------------
(* The life of the daemon.                                                   *)

\* remote.New: the first registration and the heartbeats begin at once.
Boot ==
    /\ ~on
    /\ on' = TRUE
    /\ pc' = [t \in Threads |-> CASE t = "boot" -> "register" [] t = "heart" -> "send" [] OTHER -> "idle"]
    /\ got' = [t \in Threads |-> 0]
    /\ then' = [t \in Threads |-> IF t = "boot" THEN "idle" ELSE "send"]
    /\ todo' = [t \in Threads |-> {}]
    /\ UNCHANGED <<registry, link, servers, faults, lost>>

\* SetOnConnected.
Hook ==
    /\ on /\ ~hooked
    /\ hooked' = TRUE
    /\ UNCHANGED <<registry, on, token, connected, thread, servers, faults, lost>>

\* The process ends: what it had in memory is gone, the containers go on.
Exit ==
    /\ on' = FALSE
    /\ token' = 0 /\ connected' = FALSE /\ hooked' = FALSE
    /\ pc' = [t \in Threads |-> "idle"]
    /\ todo' = [t \in Threads |-> {}]
    /\ tracked' = [s \in Servers |-> "none"]
    /\ UNCHANGED <<got, then, save, listed, file>>

\* The daemon crashes, or the whole machine.
Crash ==
    /\ on /\ Fault
    /\ Exit
    /\ container' \in {container, [s \in Servers |-> FALSE]}
    /\ lost' = (lost \/ \E t \in Threads : pc[t] \in {"wait", "answer"})
    /\ UNCHANGED registry

\* handleShutdown: protocube is told only if connected is set.
Shutdown ==
    /\ on /\ Fault
    /\ Exit
    /\ \/ connected /\ node # 0 /\ mon = "idle" /\ mon' = "balance"
       \/ UNCHANGED mon
    /\ lost' = (lost \/ \E t \in Threads : pc[t] \in {"wait", "answer"})
    /\ UNCHANGED <<node, lb, last, adding, container>>

-----------------------------------------------------------------------------
(* Requests.                                                                 *)

\* The ticker of the heartbeats; an event of a server.
Begin(t) ==
    /\ on /\ t # "boot" /\ pc[t] = "idle"
    /\ Goto(t, "send")
    /\ then' = [then EXCEPT ![t] = "send"]
    /\ UNCHANGED <<registry, on, link, got, todo, servers, faults, lost>>

\* Mutant: a 404 ends the request like any other 4xx answer.
SendNoRegister(t) ==
    /\ on /\ pc[t] = "send"
    /\ Goto(t, "idle")
    /\ UNCHANGED <<registry, on, link, got, then, todo, servers, faults, lost>>

\* NodeExists and ServerExists: 404 for a node that is not registered and for a
\* server that protocube has deleted.
Answers(t) ==
    {a \in {"ok", "not found"} : IF a = "ok" THEN node # 0 ELSE node = 0 \/ t \in Senders}

\* isUnregistered takes every 404 or 412 for "not registered".
IsUnregistered(a) == a = "not found"

\* request: the request reaches protocube and is answered.
Send(t) ==
    /\ on /\ pc[t] = "send"
    /\ \E a \in Answers(t) : Goto(t, IF IsUnregistered(a) THEN "register" ELSE "idle")
    /\ UNCHANGED <<registry, on, link, got, then, todo, servers, faults, lost>>

\* The time of the request is over, or its registration failed: it ends with an
\* error.  A heartbeat then clears connected; a synchronisation ends the daemon.
GiveUp(t) ==
    /\ on
    /\ \/ pc[t] \in {"send", "register", "answer", "fetch"} /\ Fault
       \/ pc[t] = "failed" /\ UNCHANGED faults
    /\ \/ /\ then[t] # "fetch" /\ pc[t] # "fetch"
          /\ Goto(t, "idle")
          /\ connected' = (connected /\ t # "heart")
          /\ UNCHANGED <<on, token, hooked, got, then, todo, servers>>
       \/ /\ then[t] = "fetch" \/ pc[t] = "fetch"
          /\ Exit
          /\ UNCHANGED container
    /\ lost' = (lost \/ \E u \in Threads : pc[u] \in {"wait", "answer"} /\ (u = t \/ ~on'))
    /\ UNCHANGED registry

\* Mutant: every registration makes a new node object.
RegisterAnew(t) ==
    /\ on /\ pc[t] = "register" /\ adding = 0
    /\ last' = last + 1 /\ lb' = last' /\ adding' = last'
    /\ got' = [got EXCEPT ![t] = last']
    /\ Goto(t, "wait")
    /\ UNCHANGED <<node, mon, on, link, then, todo, servers, faults, lost>>

\* postNodeRegister: a node that is known gets the token it has, a new one a
\* new token and is put into the balancer, then into the manager.
Register(t) ==
    /\ on /\ pc[t] = "register" /\ adding = 0
    /\ \/ /\ node # 0
          /\ got' = [got EXCEPT ![t] = node]
          /\ Goto(t, "answer")
          /\ UNCHANGED <<lb, last, adding>>
       \/ /\ node = 0 /\ last < MaxToken
          /\ last' = last + 1 /\ lb' = last'
          /\ got' = [got EXCEPT ![t] = last']
          /\ adding' = last'
          /\ Goto(t, "wait")
    /\ UNCHANGED <<node, mon, on, link, then, todo, servers, faults, lost>>

RegisterAdd ==
    /\ adding # 0
    /\ node' = adding /\ adding' = 0
    /\ pc' = [t \in Threads |-> IF pc[t] = "wait" THEN "answer" ELSE pc[t]]
    /\ UNCHANGED <<lb, last, mon, on, link, got, then, todo, servers, faults, lost>>

\* auth.SetToken.
AuthSetToken(t) == token' = t

\* Mutant: a token that is set is kept.
SetTokenOnce(t) ==
    /\ on /\ pc[t] = "answer"
    /\ token' = IF token = 0 THEN got[t] ELSE token
    /\ Goto(t, "load")
    /\ UNCHANGED <<registry, on, connected, hooked, got, then, todo, servers, faults, lost>>

\* The answer arrives: the token is set, then connected is read, and set in a
\* step of its own.
SetToken(t) ==
    /\ on /\ pc[t] = "answer"
    /\ AuthSetToken(got[t])
    /\ Goto(t, "load")
    /\ UNCHANGED <<registry, on, connected, hooked, got, then, todo, servers, faults, lost>>

LoadConnected(t) ==
    /\ on /\ pc[t] = "load"
    /\ Goto(t, IF connected THEN then[t] ELSE "store")
    /\ UNCHANGED <<registry, on, link, got, then, todo, servers, faults, lost>>

\* The callback runs if it is there already; the request is sent again after it.
StoreConnected(t) ==
    /\ on /\ pc[t] = "store"
    /\ connected' = TRUE
    /\ Goto(t, IF hooked THEN "fetch" ELSE then[t])
    /\ UNCHANGED <<registry, on, token, hooked, got, then, todo, servers, faults, lost>>

-----------------------------------------------------------------------------
(* Manager.Sync.                                                             *)

\* getAllServerConfigurations: a page is a part of an enumeration of a map, in
\* an order that is new for every request.
LastPage(all) == (Cardinality(all) + PerPage - 1) \div PerPage
Pages(all, k) ==
    LET left == Cardinality(all) - (k - 1) * PerPage IN
      {part \in SUBSET all : Cardinality(part) = IF left < PerPage THEN left ELSE PerPage}

\* GetServers: the first page tells how many there are, the others are asked
\* for in parallel, and what they have is put together.
GetServers(all) ==
    {UNION {pages[k] : k \in DOMAIN pages} :
       pages \in {f \in [1 .. LastPage(all) -> SUBSET all] :
                    \A k \in DOMAIN f : f[k] \in Pages(all, k)}}

\* GetServers, then InitServer for every server of the answer: the manager gets
\* a new object for it, in the offline state.
Fetch(t) ==
    /\ on /\ pc[t] = "fetch"
    /\ \/ /\ node # 0
          /\ \E found \in GetServers(listed) :
               tracked' = [s \in Servers |-> IF s \in found THEN "offline" ELSE tracked[s]]
          /\ todo' = [todo EXCEPT ![t] = {s \in Servers : tracked'[s] # "none"}]
          /\ Goto(t, "servers")
          /\ UNCHANGED then
       \/ /\ node = 0
          /\ Goto(t, "register")
          /\ then' = [then EXCEPT ![t] = "fetch"]
          /\ UNCHANGED <<tracked, todo>>
    /\ UNCHANGED <<registry, on, link, got, save, listed, container, file, faults, lost>>

\* Mutant: the states file is believed and Docker is not asked.
LoadServerByFile(t, s) ==
    /\ on /\ pc[t] = "servers" /\ s \in todo[t]
    /\ todo' = [todo EXCEPT ![t] = @ \ {s}]
    /\ tracked' = [tracked EXCEPT ![s] = IF file[s] = "running" THEN "running" ELSE "offline"]
    /\ UNCHANGED <<registry, on, link, pc, got, then, save, listed, container, file, faults, lost>>

\* LoadServers, one server: what becomes of it follows from Docker's answer and
\* from the states file.
LoadServer(t, s) ==
    /\ on /\ pc[t] = "servers" /\ s \in todo[t]
    /\ todo' = [todo EXCEPT ![t] = @ \ {s}]
    /\ \/ /\ container[s]
          /\ tracked' = [tracked EXCEPT ![s] = "running"]
          /\ UNCHANGED <<container, listed>>
       \/ /\ ~container[s] /\ ~save[s]
          /\ tracked' = [tracked EXCEPT ![s] = "none"]
          /\ listed' = listed \ {s}
          /\ UNCHANGED container
       \/ /\ ~container[s] /\ save[s] /\ file[s] = "running"
          /\ tracked' = [tracked EXCEPT ![s] = "running"]
          /\ container' = [container EXCEPT ![s] = TRUE]
          /\ UNCHANGED listed
       \/ /\ ~container[s] /\ save[s] /\ file[s] # "running"
          /\ tracked' = [tracked EXCEPT ![s] = "offline"]
          /\ UNCHANGED <<container, listed>>
    /\ UNCHANGED <<registry, on, link, pc, got, then, save, file, faults, lost>>

SyncDone(t) ==
    /\ on /\ pc[t] = "servers" /\ todo[t] = {}
    /\ Goto(t, IF t = "boot" THEN "idle" ELSE "send")
    /\ then' = [then EXCEPT ![t] = IF t = "boot" THEN "idle" ELSE "send"]
    /\ UNCHANGED <<registry, on, link, got, todo, servers, faults, lost>>

\* PersistStates, every minute: the file gets what the manager has.
PersistStates ==
    /\ on /\ hooked
    /\ file' = [s \in Servers |-> IF ~save[s] THEN "none" ELSE tracked[s]]
    /\ UNCHANGED <<registry, on, link, thread, save, listed, tracked, container, faults, lost>>

\* A start or a stop of a server that has ended well (ServerPower has the rest);
\* an ephemeral server is deleted after its stop.
Power(s) ==
    /\ on /\ tracked[s] # "none"
    /\ \/ /\ tracked[s] = "offline"
          /\ tracked' = [tracked EXCEPT ![s] = "running"]
          /\ container' = [container EXCEPT ![s] = TRUE]
          /\ UNCHANGED listed
       \/ /\ tracked[s] = "running"
          /\ container' = [container EXCEPT ![s] = FALSE]
          /\ tracked' = [tracked EXCEPT ![s] = IF ~save[s] THEN "none" ELSE "offline"]
          /\ listed' = IF ~save[s] THEN listed \ {s} ELSE listed
    /\ UNCHANGED <<registry, on, link, thread, save, file, faults, lost>>

-----------------------------------------------------------------------------
(* Protocube.                                                                *)

\* The health monitor finds the node silent for too long.
TimeOut ==
    /\ mon = "idle" /\ node # 0 /\ Fault
    /\ mon' = "balance"
    /\ lost' = (lost \/ \E t \in Threads : pc[t] = "answer")
    /\ UNCHANGED <<node, lb, last, adding, on, link, thread, servers>>

\* Mutant: the balancer keeps the node.
DisconnectStepKeeps ==
    /\ \/ mon = "balance" /\ mon' = "remove" /\ UNCHANGED node
       \/ mon = "remove" /\ node' = 0 /\ mon' = "idle"
    /\ lost' = (lost \/ \E t \in Threads : pc[t] = "answer")
    /\ UNCHANGED <<lb, last, adding, on, link, thread, servers, faults>>

\* Disconnect.
DisconnectStep ==
    /\ \/ mon = "balance" /\ lb' = 0 /\ mon' = "remove" /\ UNCHANGED node
       \/ mon = "remove" /\ node' = 0 /\ mon' = "idle" /\ UNCHANGED lb
    /\ lost' = (lost \/ \E t \in Threads : pc[t] = "answer")
    /\ UNCHANGED <<last, adding, on, link, thread, servers, faults>>

\* Protocube restarts: a registration it has not answered fails.
Restart ==
    /\ Fault
    /\ node' = 0 /\ lb' = 0 /\ mon' = "idle" /\ adding' = 0
    /\ pc' = [t \in Threads |-> IF pc[t] = "wait" THEN "failed" ELSE pc[t]]
    /\ lost' = (lost \/ \E t \in Threads : pc[t] = "answer")
    /\ UNCHANGED <<last, on, link, got, then, todo, servers>>

Step(t) ==
    \/ Send(t) \/ Register(t) \/ SetToken(t) \/ LoadConnected(t) \/ StoreConnected(t)
    \/ Fetch(t) \/ SyncDone(t) \/ \E s \in Servers : LoadServer(t, s)

Next ==
    \/ Boot \/ Hook \/ Crash \/ Shutdown \/ PersistStates
    \/ RegisterAdd \/ TimeOut \/ DisconnectStep \/ Restart
    \/ \E t \in Threads : Begin(t) \/ Step(t) \/ GiveUp(t)
    \/ \E s \in Servers : Power(s)

Spec == Init /\ [][Next]_vars

\* A service manager restarts the daemon; the goroutines of a daemon that runs
\* and the handlers of protocube go on; the ticker of the heartbeats ticks.
Fairness ==
    /\ WF_vars(Boot) /\ WF_vars(Hook) /\ WF_vars(DisconnectStep) /\ WF_vars(RegisterAdd)
    /\ WF_vars(Begin("heart"))
    /\ \A t \in Threads : WF_vars(Step(t) \/ (pc[t] = "failed" /\ GiveUp(t)))

FairSpec == Spec /\ Fairness

-----------------------------------------------------------------------------
Syncing == \E t \in Threads : pc[t] \in {"fetch", "servers"} \/ then[t] = "fetch"

\* While no registration and no disconnection is under way in protocube, its
\* manager and its balancer have the same node.
Agreement == mon = "idle" /\ adding = 0 => node = lb

\* Whatever was lost, timed out or restarted: once that is over, protocube has
\* the node for ever, in the manager and in the balancer.
Rejoins == <>[](node # 0 /\ lb = node)

\* A daemon whose registrations were all answered, and answered for a node that
\* stayed, accepts the token that protocube uses.
TokenCurrent ==
    ~lost /\ on /\ node # 0 /\ mon = "idle" /\ connected
      /\ (\A t \in Threads : pc[t] \notin {"wait", "answer"})
      => token = node

\* A container that runs belongs to a server that the manager takes to be
\* running, once a synchronisation has been done and none is under way.
TracksRunning ==
    on /\ ~Syncing =>
      \A s \in Servers : container[s] /\ tracked[s] # "none" => tracked[s] = "running"

\* A synchronisation finds every server that protocube has for the node
\* (GetServers: "returns all the servers that are present on the Protocube that
\* are part of this node").
FindsAll ==
    \A t \in Threads : pc[t] = "servers" => \A s \in listed : tracked[s] # "none"
=============================================================================
