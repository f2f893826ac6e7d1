------------------------- MODULE NodeSession_proofs -------------------------
(***************************************************************************)
(* Proofs about NodeSession.tla, for every set of senders and of servers,   *)
(* every page size and every number of faults.                              *)
(*                                                                         *)
(* The registry of protocube, the token of the daemon and the states of the *)
(* servers each need an inductive invariant: Agreement speaks of a quiet    *)
(* registry, TokenCurrent of answers that are not under way, TracksRunning  *)
(* of a daemon that is not synchronising, and the steps lead through        *)
(* everything in between.                                                   *)
(***************************************************************************)
EXTENDS NodeSession, TLAPS

\* What protocube has of the node in the middle of Register and Disconnect.
RegistryInv ==
    /\ adding # 0 => node = 0 /\ lb = adding
    /\ mon # "idle" => node # 0
    /\ mon = "remove" => lb = 0
    /\ mon # "remove" /\ adding = 0 => lb = node

\* A daemon that is down has nothing in memory.
DownInv ==
    ~on => /\ connected = FALSE /\ token = 0
           /\ \A t \in Threads : pc[t] = "idle"
           /\ \A s \in Servers : tracked[s] = "none"

\* A registration that waits in protocube has the node object that is being
\* added.  As long as no answer was lost, an answer has the token of the node,
\* and a node whose token the daemon does not have is one that an answer is under
\* way for, or one the daemon has not registered for since it was started.
TokenInv ==
    /\ \A t \in Threads : pc[t] = "wait" => adding # 0 /\ got[t] = adding
    /\ ~lost =>
         /\ adding # 0 => \E t \in Threads : pc[t] = "wait"
         /\ \A t \in Threads : pc[t] = "answer" => node # 0 /\ got[t] = node
         /\ on /\ node # 0 =>
              \/ token = node
              \/ \E t \in Threads : pc[t] = "answer"
              \/ ~connected /\ \A t \in Threads : pc[t] \notin {"load", "store"}

\* A server that is not taken to be running although its container runs is
\* still to be loaded by a synchronisation.
TrackInv ==
    \A s \in Servers : container[s] /\ tracked[s] = "offline" =>
      \E t \in Threads : pc[t] = "servers" /\ s \in todo[t]

IInv == TypeOK /\ RegistryInv /\ DownInv /\ TokenInv /\ TrackInv

-----------------------------------------------------------------------------
(* Types, in parts.                                                          *)

Positions == {"idle", "send", "register", "wait", "answer", "load", "store", "fetch", "servers", "failed"}
States == {"none", "offline", "running"}

RegistryTyped == /\ node \in 0 .. MaxToken /\ lb \in 0 .. MaxToken /\ last \in 0 .. MaxToken
                 /\ adding \in 0 .. MaxToken /\ mon \in {"idle", "balance", "remove"}
                 /\ token \in 0 .. MaxToken /\ got \in [Threads -> 0 .. MaxToken]
                 /\ faults \in 0 .. MaxFaults
FlagsTyped == on \in BOOLEAN /\ connected \in BOOLEAN /\ hooked \in BOOLEAN /\ lost \in BOOLEAN
ThreadTyped == /\ pc \in [Threads -> Positions] /\ then \in [Threads -> {"idle", "send", "fetch"}]
               /\ todo \in [Threads -> SUBSET Servers]
ServersTyped == /\ save \in [Servers -> BOOLEAN] /\ listed \subseteq Servers
                /\ tracked \in [Servers -> States] /\ container \in [Servers -> BOOLEAN]
                /\ file \in [Servers -> States]

\* TypeOK is the conjunction of these.
LEMMA Parts == TypeOK <=> RegistryTyped /\ FlagsTyped /\ ThreadTyped /\ ServersTyped
<1>1. {node, lb, last, adding, token} \subseteq 0 .. MaxToken <=>
        /\ node \in 0 .. MaxToken /\ lb \in 0 .. MaxToken /\ last \in 0 .. MaxToken
        /\ adding \in 0 .. MaxToken /\ token \in 0 .. MaxToken
  BY Zenon
<1>2. {on, connected, hooked, lost} \subseteq BOOLEAN <=> FlagsTyped
  BY Zenon DEF FlagsTyped
<1> QED
  BY <1>1, <1>2, Zenon DEF TypeOK, RegistryTyped, ThreadTyped, ServersTyped, Positions, States

\* The two threads that every daemon has, and the numbers.
LEMMA Constants == /\ "boot" \in Threads /\ "heart" \in Threads
                   /\ MaxFaults \in Nat /\ MaxToken = MaxFaults + 1 /\ MaxToken \in Nat
BY SessionAssumption DEF Threads, MaxToken

\* All steps of the daemon's threads.
ThreadStep(t) == Begin(t) \/ Step(t) \/ GiveUp(t)

\* GiveUp ends one request, or the daemon.
LEMMA GiveUpCases ==
    ASSUME NEW t \in Threads, GiveUp(t)
    PROVE  /\ on /\ UNCHANGED registry
           /\ UNCHANGED faults \/ Fault
           /\ lost' = (lost \/ \E u \in Threads : pc[u] \in {"wait", "answer"} /\ (u = t \/ ~on'))
           /\ \/ /\ pc[t] \in {"send", "register", "answer", "failed"} /\ Goto(t, "idle")
                 /\ connected' = (connected /\ t # "heart")
                 /\ UNCHANGED <<on, token, hooked, got, then, todo, servers>>
              \/ Exit /\ UNCHANGED container
BY DEF GiveUp

\* Protocube's registry keeps its types.
LEMMA RegistryTypedStep ==
    ASSUME RegistryTyped, [Next]_vars
    PROVE  RegistryTyped'
<1> USE Constants DEF RegistryTyped, registry, link, thread
<1>1. CASE Boot \/ Hook \/ PersistStates
  BY <1>1 DEF Boot, Hook, PersistStates
<1>2. CASE Crash \/ Shutdown
  BY <1>2 DEF Crash, Shutdown, Exit, Fault
<1>3. CASE RegisterAdd \/ TimeOut \/ DisconnectStep \/ Restart
  BY <1>3 DEF RegisterAdd, TimeOut, DisconnectStep, Restart, Fault
<1>4. ASSUME NEW t \in Threads, Begin(t) \/ Send(t) \/ LoadConnected(t) \/ StoreConnected(t)
             \/ Fetch(t) \/ SyncDone(t) \/ (\E s \in Servers : LoadServer(t, s))
      PROVE  RegistryTyped'
  BY <1>4 DEF Begin, Send, LoadConnected, StoreConnected, Fetch, SyncDone, LoadServer
<1>5. ASSUME NEW t \in Threads, SetToken(t) PROVE RegistryTyped'
  BY <1>5 DEF SetToken, AuthSetToken
<1>6. ASSUME NEW t \in Threads, Register(t) PROVE RegistryTyped'
  BY <1>6 DEF Register
<1>7. ASSUME NEW t \in Threads, GiveUp(t) PROVE RegistryTyped'
  <2>1. got' = got /\ (token' = token \/ token' = 0) /\ (faults' = faults \/ Fault) /\ UNCHANGED registry
    BY <1>7, GiveUpCases DEF Exit
  <2> QED
    BY <2>1 DEF Fault
<1>8. ASSUME NEW s \in Servers, Power(s) PROVE RegistryTyped'
  BY <1>8 DEF Power
<1>9. CASE UNCHANGED vars
  BY <1>9 DEF vars
<1> QED
  BY <1>1, <1>2, <1>3, <1>4, <1>5, <1>6, <1>7, <1>8, <1>9 DEF Next, Step

\* The daemon's flags keep their types.
LEMMA FlagsTypedStep ==
    ASSUME FlagsTyped, [Next]_vars
    PROVE  FlagsTyped'
<1> USE DEF FlagsTyped, registry, link
<1>1. CASE Boot \/ Hook \/ PersistStates \/ Crash \/ Shutdown
  BY <1>1, Zenon DEF Boot, Hook, PersistStates, Crash, Shutdown, Exit
<1>2. CASE RegisterAdd \/ TimeOut \/ DisconnectStep \/ Restart
  BY <1>2, Zenon DEF RegisterAdd, TimeOut, DisconnectStep, Restart
<1>3. ASSUME NEW t \in Threads, ThreadStep(t) PROVE FlagsTyped'
  BY <1>3, Zenon DEF ThreadStep, Step, Begin, Send, Register, SetToken, LoadConnected,
     StoreConnected,
     Fetch, SyncDone, LoadServer, GiveUp, Exit
<1>4. ASSUME NEW s \in Servers, Power(s) PROVE FlagsTyped'
  BY <1>4, Zenon DEF Power
<1>5. CASE UNCHANGED vars
  BY <1>5 DEF vars
<1> QED
  BY <1>1, <1>2, <1>3, <1>4, <1>5, Zenon DEF Next, ThreadStep

\* The goroutines keep their types.
LEMMA ThreadTypedStep ==
    ASSUME ThreadTyped, [Next]_vars
    PROVE  ThreadTyped'
<1> USE DEF ThreadTyped, Positions, thread, Goto
<1>1. CASE Boot \/ Hook \/ PersistStates
  BY <1>1 DEF Boot, Hook, PersistStates
<1>2. CASE Crash \/ Shutdown
  BY <1>2 DEF Crash, Shutdown, Exit
<1>3. CASE RegisterAdd \/ TimeOut \/ DisconnectStep \/ Restart
  BY <1>3 DEF RegisterAdd, TimeOut, DisconnectStep, Restart
<1>4. ASSUME NEW t \in Threads, Begin(t) \/ Send(t) \/ Register(t) \/ SetToken(t)
      PROVE  ThreadTyped'
  BY <1>4 DEF Begin, Send, Register, SetToken
<1>5. ASSUME NEW t \in Threads, LoadConnected(t) \/ StoreConnected(t) \/ SyncDone(t)
      PROVE  ThreadTyped'
  BY <1>5 DEF LoadConnected, StoreConnected, SyncDone
<1>6. ASSUME NEW t \in Threads, Fetch(t) PROVE ThreadTyped'
  BY <1>6 DEF Fetch
<1>7. ASSUME NEW t \in Threads, NEW s \in Servers, LoadServer(t, s) PROVE ThreadTyped'
  BY <1>7 DEF LoadServer
<1>8. ASSUME NEW t \in Threads, GiveUp(t) PROVE ThreadTyped'
  <2>1. CASE Goto(t, "idle") /\ UNCHANGED <<then, todo>>
    BY <2>1
  <2>2. CASE Exit
    BY <2>2 DEF Exit
  <2> QED
    BY <1>8, <2>1, <2>2, GiveUpCases
<1>9. ASSUME UNCHANGED thread PROVE ThreadTyped'
  BY <1>9
<1> QED
  BY <1>1, <1>2, <1>3, <1>4, <1>5, <1>6, <1>7, <1>8, <1>9 DEF Next, Step, vars, Power

\* The servers keep their types.
LEMMA ServersTypedStep ==
    ASSUME ServersTyped, [Next]_vars
    PROVE  ServersTyped'
<1> USE DEF ServersTyped, States, servers
<1>1. CASE Crash \/ Shutdown
  BY <1>1 DEF Crash, Shutdown, Exit
<1>2. ASSUME NEW t \in Threads, Fetch(t) PROVE ServersTyped'
  BY <1>2 DEF Fetch
<1>3. ASSUME NEW t \in Threads, NEW s \in Servers, LoadServer(t, s) PROVE ServersTyped'
  BY <1>3 DEF LoadServer
<1>4. ASSUME NEW t \in Threads, GiveUp(t) PROVE ServersTyped'
  BY <1>4 DEF GiveUp, Exit
<1>5. ASSUME NEW s \in Servers, Power(s) PROVE ServersTyped'
  BY <1>5 DEF Power
<1>6. CASE PersistStates
  BY <1>6 DEF PersistStates
<1>7. ASSUME UNCHANGED servers PROVE ServersTyped'
  BY <1>7
<1> QED
  BY <1>1, <1>2, <1>3, <1>4, <1>5, <1>6, <1>7 DEF Next, Step, vars, Boot, Hook, RegisterAdd,
     TimeOut,
     DisconnectStep, Restart, Begin, Send, Register, SetToken, LoadConnected, StoreConnected, SyncDone

\* Every variable keeps its type.
LEMMA TypeStep == TypeOK /\ [Next]_vars => TypeOK'
<1>1. TypeOK' <=> RegistryTyped' /\ FlagsTyped' /\ ThreadTyped' /\ ServersTyped'
  BY Parts, PTL
<1> QED
  BY <1>1, Parts, RegistryTypedStep, FlagsTypedStep, ThreadTypedStep, ServersTypedStep

-----------------------------------------------------------------------------
(* The registry.                                                             *)

\* RegistryInv in one step.
LEMMA RegistryStep == TypeOK /\ RegistryInv /\ [Next]_vars => RegistryInv'
<1> SUFFICES ASSUME TypeOK, RegistryInv, [Next]_vars PROVE RegistryInv'
  OBVIOUS
<1> USE DEF RegistryInv
<1>0. RegistryTyped
  BY Parts
<1>1. ASSUME NEW t \in Threads, Register(t) PROVE RegistryInv'
  BY <1>0, <1>1, Constants DEF Register, RegistryTyped
<1>2. CASE RegisterAdd
  BY <1>2 DEF RegisterAdd
<1>3. CASE TimeOut
  BY <1>3 DEF TimeOut
<1>4. CASE DisconnectStep
  BY <1>0, <1>4 DEF DisconnectStep, RegistryTyped
<1>5. CASE Restart
  BY <1>5 DEF Restart
<1>6. CASE Shutdown
  BY <1>6 DEF Shutdown
<1>7. ASSUME UNCHANGED registry PROVE RegistryInv'
  BY <1>7 DEF registry
<1>8. ASSUME NEW t \in Threads, GiveUp(t) PROVE RegistryInv'
  BY <1>7, <1>8, GiveUpCases
<1> QED
  BY <1>1, <1>2, <1>3, <1>4, <1>5, <1>6, <1>7, <1>8 DEF Next, Step, vars, Boot, Hook, Crash,
     PersistStates, Begin, Send, SetToken, LoadConnected, StoreConnected, Fetch, SyncDone,
     LoadServer, Power

-----------------------------------------------------------------------------
(* A daemon that is down.                                                    *)

\* DownInv in one step.
LEMMA DownStep == TypeOK /\ DownInv /\ [Next]_vars => DownInv'
<1> SUFFICES ASSUME TypeOK, DownInv, [Next]_vars PROVE DownInv'
  OBVIOUS
<1>1. ASSUME Exit PROVE DownInv'
  BY <1>1 DEF Exit, DownInv
<1>2. ASSUME on, UNCHANGED on PROVE DownInv'
  BY <1>2 DEF DownInv
<1>3. ASSUME NEW t \in Threads, GiveUp(t) PROVE DownInv'
  BY <1>1, <1>2, <1>3, GiveUpCases
<1>4. CASE Boot
  BY <1>4 DEF Boot, DownInv
<1>5. CASE RegisterAdd \/ Restart
  BY <1>5, Parts DEF RegisterAdd, Restart, DownInv, link, servers, ThreadTyped
<1>6. CASE TimeOut \/ DisconnectStep \/ UNCHANGED vars
  BY <1>6 DEF TimeOut, DisconnectStep, vars, DownInv, link, servers, thread
<1> QED
  BY <1>1, <1>2, <1>3, <1>4, <1>5, <1>6 DEF Next, Step, Hook, Crash, Shutdown, PersistStates, Begin,
     Send, Register, SetToken, LoadConnected, StoreConnected, Fetch, SyncDone, LoadServer, Power

-----------------------------------------------------------------------------
(* The servers.                                                              *)

\* A step of a thread that is not loading servers disturbs no synchronisation.
LEMMA TrackOther ==
    ASSUME ThreadTyped, TrackInv, NEW t \in Threads, pc[t] # "servers" \/ todo[t] = {},
           \A u \in Threads : u # t => pc'[u] = pc[u],
           UNCHANGED <<todo, tracked, container>>
    PROVE  TrackInv'
BY DEF TrackInv, ThreadTyped

\* TrackInv in one step.
LEMMA TrackStep == TypeOK /\ DownInv /\ TrackInv /\ [Next]_vars => TrackInv'
<1> SUFFICES ASSUME TypeOK, DownInv, TrackInv, [Next]_vars PROVE TrackInv'
  OBVIOUS
<1>0. ThreadTyped /\ ServersTyped
  BY Parts
<1>1. ASSUME Exit PROVE TrackInv'
  BY <1>1 DEF Exit, TrackInv
<1>2. ASSUME UNCHANGED <<pc, todo, tracked, container>> PROVE TrackInv'
  BY <1>2 DEF TrackInv
<1>3. CASE Boot
  BY <1>3 DEF Boot, DownInv, TrackInv, servers
<1>4. ASSUME NEW t \in Threads, \/ Begin(t) \/ Send(t) \/ Register(t) \/ SetToken(t)
                                \/ LoadConnected(t) \/ StoreConnected(t) \/ SyncDone(t)
      PROVE  TrackInv'
  <2>1. /\ pc[t] # "servers" \/ todo[t] = {}
        /\ \A u \in Threads : u # t => pc'[u] = pc[u]
        /\ UNCHANGED <<todo, tracked, container>>
    BY <1>0, <1>4 DEF Begin, Send, Register, SetToken, LoadConnected, StoreConnected, SyncDone,
       Goto,
       servers, ThreadTyped
  <2> QED
    BY <1>0, <2>1, TrackOther
<1>5. ASSUME NEW t \in Threads, GiveUp(t) PROVE TrackInv'
  <2>1. CASE Exit
    BY <1>1, <2>1
  <2>2. CASE /\ pc[t] \in {"send", "register", "answer", "failed"} /\ Goto(t, "idle")
             /\ UNCHANGED <<todo, servers>>
    BY <1>0, <2>2, TrackOther DEF Goto, servers, ThreadTyped
  <2> QED
    BY <1>5, <2>1, <2>2, GiveUpCases
<1>6. ASSUME NEW t \in Threads, Fetch(t) PROVE TrackInv'
  <2>1. CASE node = 0
    BY <1>0, <1>6, <2>1, TrackOther DEF Fetch, Goto, ThreadTyped
  <2>2. CASE node # 0
    <3>1. /\ pc[t] = "fetch" /\ UNCHANGED container
          /\ todo' = [todo EXCEPT ![t] = {s \in Servers : tracked'[s] # "none"}]
          /\ pc' = [pc EXCEPT ![t] = "servers"]
      BY <1>6, <2>2 DEF Fetch, Goto
    <3>2. \A s \in Servers : tracked'[s] # "none" => pc'[t] = "servers" /\ s \in todo'[t]
      BY <1>0, <3>1 DEF ThreadTyped
    <3> QED
      BY <3>2 DEF TrackInv
  <2> QED
    BY <2>1, <2>2
<1>7. ASSUME NEW t \in Threads, NEW s \in Servers, LoadServer(t, s) PROVE TrackInv'
  <2>1. /\ UNCHANGED pc
        /\ \A u \in Threads, r \in Servers : r # s => (r \in todo'[u] <=> r \in todo[u])
        /\ \A r \in Servers : r # s => tracked'[r] = tracked[r] /\ container'[r] = container[r]
    BY <1>0, <1>7 DEF LoadServer, ThreadTyped, ServersTyped
  <2>2. ~(container'[s] /\ tracked'[s] = "offline")
    BY <1>0, <1>7 DEF LoadServer, ServersTyped, States
  <2> QED
    BY <2>1, <2>2 DEF TrackInv
<1>8. ASSUME NEW s \in Servers, Power(s) PROVE TrackInv'
  <2>1. /\ UNCHANGED <<pc, todo>>
        /\ \A r \in Servers : r # s => tracked'[r] = tracked[r] /\ container'[r] = container[r]
    BY <1>0, <1>8 DEF Power, thread, ServersTyped
  <2>2. ~(container'[s] /\ tracked'[s] = "offline")
    BY <1>0, <1>8 DEF Power, ServersTyped, States
  <2> QED
    BY <2>1, <2>2 DEF TrackInv
<1>9. CASE RegisterAdd \/ Restart
  <2>1. /\ \A u \in Threads : pc[u] = "servers" => pc'[u] = "servers"
        /\ UNCHANGED <<todo, tracked, container>>
    BY <1>0, <1>9 DEF RegisterAdd, Restart, servers, ThreadTyped
  <2> QED
    BY <2>1 DEF TrackInv
<1> QED
  BY <1>1, <1>2, <1>3, <1>4, <1>5, <1>6, <1>7, <1>8, <1>9 DEF Next, Step, vars, thread, servers,
     Hook,
     Crash, Shutdown, PersistStates, TimeOut, DisconnectStep

-----------------------------------------------------------------------------
(* The token.                                                                *)

\* A token that counts is lost only with the flag.
Pending == {"wait", "answer"}

\* A thread that has nothing to do with the registration moves on.
LEMMA TokenOther ==
    ASSUME ThreadTyped, TokenInv, NEW t \in Threads, NEW l \in Positions \ Pending,
           pc[t] \notin Pending, Goto(t, l), l \in {"load", "store"} => pc[t] \in {"load", "store"},
           UNCHANGED <<node, adding, token, got, lost>>, on' => on,
           connected' => connected \/ pc[t] \in {"load", "store"}
    PROVE  TokenInv'
<1>1. \A u \in Threads : /\ pc'[u] \in Pending <=> pc[u] \in Pending
                         /\ pc[u] \in Pending => pc'[u] = pc[u]
                         /\ pc'[u] \in {"load", "store"} => pc[u] \in {"load", "store"}
  BY DEF Goto, ThreadTyped, Pending
<1> QED
  BY <1>1 DEF TokenInv, Pending

\* TokenInv in one step; it needs the other parts.
LEMMA TokenStep == IInv /\ [Next]_vars => TokenInv'
<1> SUFFICES ASSUME IInv, [Next]_vars PROVE TokenInv'
  OBVIOUS
<1> USE DEF IInv
<1>0. ThreadTyped /\ RegistryTyped /\ FlagsTyped
  BY Parts
<1>1. CASE Boot
  <2>1. /\ \A t \in Threads : pc'[t] \notin {"wait", "answer", "load", "store"}
        /\ UNCHANGED <<node, adding, lost, connected>> /\ connected = FALSE
    BY <1>1 DEF Boot, DownInv, registry, link
  <2>2. lost \/ adding = 0
    BY <1>1 DEF Boot, DownInv, TokenInv
  <2> QED
    BY <2>1, <2>2 DEF TokenInv
<1>2. CASE Hook \/ PersistStates \/ UNCHANGED vars
  BY <1>2 DEF Hook, PersistStates, vars, registry, thread, link, TokenInv
<1>3. ASSUME Exit, UNCHANGED <<node, adding>>,
             lost' = (lost \/ \E t \in Threads : pc[t] \in {"wait", "answer"})
      PROVE  TokenInv'
  <2>1. /\ \A t \in Threads : pc'[t] = "idle"
        /\ on' = FALSE
    BY <1>3 DEF Exit
  <2>2. ~lost' => ~lost /\ \A t \in Threads : pc[t] \notin {"wait", "answer"}
    BY <1>3
  <2>3. ~lost' => adding' = 0
    BY <1>3, <2>2 DEF TokenInv
  <2> QED
    BY <2>1, <2>3 DEF TokenInv
<1>4. CASE Crash \/ Shutdown
  BY <1>3, <1>4 DEF Crash, Shutdown, registry
<1>5. ASSUME NEW t \in Threads, GiveUp(t) PROVE TokenInv'
  <2>0. UNCHANGED <<node, adding>>
    BY <1>5, GiveUpCases DEF registry
  <2>1. CASE Exit
    <3>1. on' = FALSE
      BY <2>1 DEF Exit
    <3>2. lost' = (lost \/ \E u \in Threads : pc[u] \in {"wait", "answer"})
      BY <1>5, <3>1, GiveUpCases
    <3> QED
      BY <1>3, <2>0, <2>1, <3>2
  <2>2. CASE /\ pc[t] \in {"send", "register", "answer", "failed"} /\ Goto(t, "idle")
             /\ connected' = (connected /\ t # "heart")
             /\ UNCHANGED <<on, token, hooked, got, then, todo, servers>>
    <3>1. ~lost' => ~lost /\ pc[t] # "answer"
      BY <1>5, GiveUpCases
    <3>2. \A u \in Threads : u # t => pc'[u] = pc[u]
      BY <1>0, <2>2 DEF Goto, ThreadTyped
    <3>3. pc'[t] = "idle"
      BY <1>0, <2>2 DEF Goto, ThreadTyped
    <3> QED
      BY <2>0, <2>2, <3>1, <3>2, <3>3 DEF TokenInv
  <2> QED
    BY <1>5, <2>1, <2>2, GiveUpCases
<1>6. CASE RegisterAdd
  <2>1. /\ adding # 0 /\ node' = adding /\ adding' = 0 /\ UNCHANGED <<on, token, connected, got, lost>>
        /\ \A t \in Threads : pc'[t] = IF pc[t] = "wait" THEN "answer" ELSE pc[t]
    BY <1>6 DEF RegisterAdd, link
  <2>2. node = 0
    BY <2>1 DEF RegistryInv
  <2> QED
    BY <2>1, <2>2 DEF TokenInv
<1>7. CASE TimeOut
  BY <1>7 DEF TimeOut, thread, link, TokenInv
<1>8. CASE DisconnectStep
  BY <1>8 DEF DisconnectStep, thread, link, TokenInv
<1>9. CASE Restart
  <2>1. /\ node' = 0 /\ adding' = 0
        /\ \A t \in Threads : pc'[t] = IF pc[t] = "wait" THEN "failed" ELSE pc[t]
        /\ ~lost' => \A t \in Threads : pc[t] # "answer"
    BY <1>9 DEF Restart
  <2> QED
    BY <2>1 DEF TokenInv
<1>10. ASSUME NEW t \in Threads, Register(t) PROVE TokenInv'
  <2>1. /\ pc[t] = "register" /\ adding = 0 /\ UNCHANGED <<node, on, token, connected, lost>>
        /\ \A u \in Threads : u # t => pc'[u] = pc[u] /\ got'[u] = got[u]
    BY <1>0, <1>10 DEF Register, Goto, link, ThreadTyped, RegistryTyped
  <2>2. CASE node # 0
    <3>1. pc'[t] = "answer" /\ got'[t] = node /\ UNCHANGED adding
      BY <1>0, <1>10, <2>2 DEF Register, Goto, ThreadTyped, RegistryTyped
    <3> QED
      BY <2>1, <2>2, <3>1 DEF TokenInv
  <2>3. CASE node = 0
    <3>1. pc'[t] = "wait" /\ got'[t] = last + 1 /\ adding' = last + 1 /\ last + 1 # 0
      BY <1>0, <1>10, <2>3, Constants DEF Register, Goto, ThreadTyped, RegistryTyped
    <3>2. \A u \in Threads : pc[u] # "wait"
      BY <2>1 DEF TokenInv
    <3> QED
      BY <2>1, <2>3, <3>1, <3>2 DEF TokenInv
  <2> QED
    BY <2>2, <2>3
<1>11. ASSUME NEW t \in Threads, SetToken(t) PROVE TokenInv'
  <2>1. /\ pc[t] = "answer" /\ token' = got[t] /\ pc'[t] = "load"
        /\ UNCHANGED <<node, adding, got, lost, on, connected>>
        /\ \A u \in Threads : u # t => pc'[u] = pc[u]
    BY <1>0, <1>11 DEF SetToken, AuthSetToken, Goto, registry, ThreadTyped
  <2> QED
    BY <2>1 DEF TokenInv
<1>12. ASSUME NEW t \in Threads, Begin(t) \/ Send(t) \/ SyncDone(t) PROVE TokenInv'
  <2>1. /\ pc[t] \notin Pending /\ UNCHANGED <<node, adding, token, got, lost, on, connected>>
        /\ \E l \in {"idle", "send", "register"} : Goto(t, l)
    BY <1>12 DEF Begin, Send, SyncDone, registry, link, Pending
  <2> QED
    BY <1>0, <2>1, TokenOther DEF Positions, Pending
<1>13. ASSUME NEW t \in Threads, LoadConnected(t) \/ StoreConnected(t) PROVE TokenInv'
  <2>1. /\ pc[t] \in {"load", "store"} /\ UNCHANGED <<node, adding, token, got, lost, on>>
        /\ \E l \in {"idle", "send", "fetch", "store"} : Goto(t, l)
    BY <1>0, <1>13 DEF LoadConnected, StoreConnected, registry, link, ThreadTyped
  <2> QED
    BY <1>0, <2>1, TokenOther DEF Positions, Pending
<1>14. ASSUME NEW t \in Threads, Fetch(t) PROVE TokenInv'
  <2>1. /\ pc[t] = "fetch" /\ UNCHANGED <<node, adding, token, got, lost, on, connected>>
        /\ \E l \in {"register", "servers"} : Goto(t, l)
    BY <1>14 DEF Fetch, registry, link
  <2> QED
    BY <1>0, <2>1, TokenOther DEF Positions, Pending
<1>15. ASSUME UNCHANGED <<registry, on, link, pc, got, lost>> PROVE TokenInv'
  BY <1>15 DEF registry, link, TokenInv
<1>16. ASSUME NEW t \in Threads, NEW s \in Servers, LoadServer(t, s) PROVE TokenInv'
  BY <1>15, <1>16 DEF LoadServer
<1>17. ASSUME NEW s \in Servers, Power(s) PROVE TokenInv'
  BY <1>15, <1>17 DEF Power, thread
<1> QED
  BY <1>1, <1>2, <1>4, <1>5, <1>6, <1>7, <1>8, <1>9, <1>10, <1>11, <1>12, <1>13, <1>14, <1>16, <1>17
     DEF Next, Step

-----------------------------------------------------------------------------
(* The invariants.                                                           *)

\* IInv is inductive.
THEOREM Invariance == Spec => []IInv
<1>1. Init => IInv
  <2> SUFFICES ASSUME Init PROVE IInv
    OBVIOUS
  <2>1. RegistryTyped
    BY Constants DEF Init, RegistryTyped
  <2>2. FlagsTyped
    BY DEF Init, FlagsTyped
  <2>3. ThreadTyped
    BY DEF Init, ThreadTyped, Positions
  <2>4. ServersTyped
    BY DEF Init, ServersTyped, States
  <2>5. TypeOK
    BY <2>1, <2>2, <2>3, <2>4, Parts
  <2>6. RegistryInv /\ DownInv /\ TokenInv /\ TrackInv
    BY DEF Init, RegistryInv, DownInv, TokenInv, TrackInv
  <2> QED
    BY <2>5, <2>6 DEF IInv
<1>2. IInv /\ [Next]_vars => IInv'
  BY TypeStep, RegistryStep, DownStep, TokenStep, TrackStep DEF IInv
<1> QED
  BY <1>1, <1>2, PTL DEF Spec

\* The type invariant.
THEOREM TypeCorrect == Spec => []TypeOK
<1>1. IInv => TypeOK
  BY DEF IInv
<1> QED
  BY <1>1, Invariance, PTL

\* The node manager and the balancer of protocube agree on the node whenever
\* neither Register nor Disconnect is in the middle of its two updates, whatever
\* the daemon does and however often protocube restarts.
THEOREM RegistryAgrees == Spec => []Agreement
<1>1. IInv => Agreement
  BY DEF IInv, RegistryInv, Agreement
<1> QED
  BY <1>1, Invariance, PTL

\* The token that auth.SetToken has set last is the one protocube sends, as long
\* as no answer to a registration was lost or overtaken by a disconnection: the
\* registrations of several goroutines at once do not mix up the tokens.
THEOREM TokenIsCurrent == Spec => []TokenCurrent
<1>1. IInv => TokenCurrent
  BY DEF IInv, TokenInv, TokenCurrent
<1> QED
  BY <1>1, Invariance, PTL

\* After Manager.Sync a server whose container runs is never taken to be offline,
\* although synchronisations of several goroutines may overlap and each of them
\* sets the servers it finds to offline first.
THEOREM RunningIsTracked == Spec => []TracksRunning
<1>1. IInv => TracksRunning
  <2> SUFFICES ASSUME IInv PROVE TracksRunning
    OBVIOUS
  <2>1. ServersTyped
    BY Parts DEF IInv
  <2> QED
    BY <2>1 DEF IInv, ServersTyped, States, TrackInv, TracksRunning, Syncing
<1> QED
  BY <1>1, Invariance, PTL
=============================================================================
