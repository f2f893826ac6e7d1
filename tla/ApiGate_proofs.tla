--------------------------- MODULE ApiGate_proofs ---------------------------
(***************************************************************************)
(* Proofs about ApiGate.tla, for all sets of keys, scopes, requests and     *)
(* limiters, every bucket size and every time to live of the cache.         *)
(*                                                                         *)
(* The keys and the limiter do not share variables other than the requests, *)
(* and each has an inductive invariant of its own over the typed states.    *)
(***************************************************************************)
EXTENDS ApiGate, FiniteSetTheorems, TLAPS

\* A request that has arrived has a key and a scope; it has a limiter exactly
\* between getLimiter and Allow.
Placed ==
    \A w \in Requests :
      /\ req[w].pc # "idle" => req[w].key \in Keys /\ req[w].need \in Scopes
      /\ req[w].pc = "allow" <=> req[w].limiter # None
Typed == TypeOK /\ Placed

\* The uses that were recorded prolong the time for which a dead key is believed.
Believed(t) == Ttl * (1 + t)

\* A copy of a live key has the scopes of the key: they never change after
\* CreateKey.
Genuine(k, d) == d.state = "live" => db[k].state # "none" /\ d.scopes = db[k].scopes

\* A copy in the cache ends in time; what a request has read, it uses before the
\* next tick.
KeyOK(k) ==
    /\ db[k].state \in {"none", "live"} => age[k] = 0
    /\ Genuine(k, cache[k].data)
    /\ cache[k].data.state = "live" /\ cache[k].left > 0 =>
         age[k] + cache[k].left <= Believed(touch[k])
ReqOK(w) == LET k == req[w].key IN
    /\ req[w].pc \in {"fill", "check"} => Genuine(k, req[w].data)
    /\ req[w].pc = "fill" /\ req[w].data.state = "live" => age[k] = 0
    /\ req[w].pc = "check" /\ req[w].data.state = "live" => age[k] <= Believed(touch[k])
    /\ req[w].pc = "granted" =>
         /\ db[k].state # "none" /\ req[w].need \in db[k].scopes
         /\ age[k] <= Believed(touch[k])
KeyInv == (\A k \in Keys : KeyOK(k)) /\ (\A w \in Requests : ReqOK(w))

\* The limiters that can still let a request through, and their tokens, one
\* element for each: their number is the sum of the buckets.
Live(c, r) == {l \in Limiters : l = c \/ \E w \in Requests : r[w].limiter = l}
Left(L, t) == {x \in L \X (1 .. Burst) : x[2] <= t[x[1]]}
Making(r) == {w \in Requests : r[w].pc = "new"}

\* Before the clean-up takes the limiter away there is one bucket; afterwards
\* every request that found none makes one.
Budget(a, L, t, M) == a + Cardinality(Left(L, t)) + Burst * Cardinality(M)
LimitInv ==
    /\ Budget(allowed, Live(cur, req), tokens, Making(req)) <= Limit
    /\ cur = None \/ stale \/ sweep => Budget(allowed, Live(cur, req), tokens, {}) <= Burst
    /\ cur # None /\ (stale \/ sweep) => Making(req) = {}
    /\ cur = None => ~sweep

-----------------------------------------------------------------------------
(* Types.                                                                    *)

Positions == {"idle", "load", "new", "allow", "lookup", "read", "fill", "check", "granted"}
Request == [pc : Positions, key : Keys \cup {None}, need : Scopes \cup {None},
            limiter : Limiters \cup {None}, data : Data]
Cached == [data : Data, left : 0 .. Ttl]

ReqTyped == req \in [Requests -> Request] /\ Placed
KeyTyped == /\ db \in [Keys -> Data] /\ cache \in [Keys -> Cached]
            /\ age \in [Keys -> 0 .. MaxAge] /\ touch \in [Keys -> 0 .. MaxTouch]
LimitTyped == /\ cur \in Limiters \cup {None} /\ stale \in BOOLEAN /\ sweep \in BOOLEAN
              /\ tokens \in [Limiters -> 0 .. Burst] /\ allowed \in Nat

\* Typed in three parts.
LEMMA Parts == Typed <=> ReqTyped /\ KeyTyped /\ LimitTyped
BY Zenon DEF Typed, TypeOK, ReqTyped, KeyTyped, LimitTyped, Request, Positions, Cached

\* NoReq and NoData are values of their types.
LEMMA Nothing == NoData \in Data /\ NoReq \in Request
BY DEF NoData, Data, NoReq, Request, Positions

\* A request that is answered, and one that goes on behind the limiter.
LEMMA Answered ==
    ASSUME ReqTyped, NEW w \in Requests, Answer(w)
    PROVE  ReqTyped'
BY Nothing DEF ReqTyped, Placed, Answer, NoReq

\* A request that goes on to its next step keeps its type.
LEMMA GoesOn ==
    ASSUME ReqTyped, NEW w \in Requests, req[w].pc \notin {"idle", "allow"},
           NEW l \in Positions \ {"idle", "allow"}, Goto(w, l)
    PROVE  ReqTyped'
BY DEF ReqTyped, Placed, Goto, Request, Positions

\* The request of a step stays in its type.
LEMMA ReqStep ==
    ASSUME ReqTyped, KeyTyped, LimitTyped, NEW w \in Requests,
           \/ Arrive(w) \/ LoadLimiter(w) \/ NewLimiter(w) \/ Allow(w)
           \/ Lookup(w) \/ ReadKey(w) \/ FillCache(w) \/ Check(w) \/ Finish(w)
    PROVE  ReqTyped'
<1>1. CASE Arrive(w)
  <2>1. PICK k \in Keys, n \in Scopes :
          req' = [req EXCEPT ![w] = [NoReq EXCEPT !.pc = "load", !.key = k, !.need = n]]
    BY <1>1 DEF Arrive
  <2> DEFINE r == [NoReq EXCEPT !.pc = "load", !.key = k, !.need = n]
  <2>2. r \in Request /\ r.pc = "load" /\ r.key = k /\ r.need = n /\ r.limiter = None
    BY Nothing DEF NoReq, Request, Positions
  <2> HIDE DEF r
  <2> QED
    BY <2>1, <2>2 DEF ReqTyped, Placed, r
<1>2. CASE LoadLimiter(w)
  <2>1. CASE cur # None
    BY <1>2, <2>1 DEF LoadLimiter, ReqTyped, LimitTyped, Placed, Request, Positions
  <2>2. CASE cur = None
    BY <1>2, <2>2, GoesOn DEF LoadLimiter, Positions
  <2> QED
    BY <2>1, <2>2
<1>3. CASE NewLimiter(w)
  <2>1. PICK l \in Limiters : req' = [req EXCEPT ![w].pc = "allow", ![w].limiter = l]
    BY <1>3 DEF NewLimiter
  <2>2. l # None /\ req[w].pc = "new"
    BY <1>3, GateAssumption DEF NewLimiter
  <2> QED
    BY <2>1, <2>2 DEF ReqTyped, Placed, Request, Positions
<1>4. CASE Allow(w)
  <2>1. CASE tokens[req[w].limiter] > 0
    BY <1>4, <2>1 DEF Allow, ReqTyped, Placed, Request, Positions, Answer
  <2>2. CASE tokens[req[w].limiter] = 0
    BY <1>4, <2>2, Answered DEF Allow
  <2> QED
    BY <1>4, <2>1, <2>2 DEF Allow
<1>5. CASE Lookup(w)
  <2>1. req[w].key \in Keys
    BY <1>5 DEF Lookup, ReqTyped, Placed
  <2>2. CASE cache[req[w].key].left > 0
    <3>1. PICK d \in Data : req' = [req EXCEPT ![w].pc = "check", ![w].data = d]
      BY <1>5, <2>1, <2>2 DEF Lookup, KeyTyped, Cached
    <3> QED
      BY <1>5, <3>1 DEF Lookup, ReqTyped, Placed, Request, Positions
  <2>3. CASE cache[req[w].key].left = 0
    BY <1>5, <2>3, GoesOn DEF Lookup, Positions
  <2> QED
    BY <1>5, <2>2, <2>3 DEF Lookup
<1>6. CASE ReadKey(w)
  <2>1. req[w].key \in Keys
    BY <1>6 DEF ReadKey, ReqTyped, Placed
  <2>2. CASE db[req[w].key].state \in {"live", "revoked"}
    BY <1>6, <2>1, <2>2 DEF ReadKey, ReqTyped, KeyTyped, Placed, Request, Positions
  <2>3. CASE db[req[w].key].state \in {"none", "deleted"}
    BY <1>6, <2>3, Answered DEF ReadKey
  <2> QED
    BY <1>6, <2>2, <2>3 DEF ReadKey
<1>7. CASE FillCache(w)
  BY <1>7, GoesOn DEF FillCache, Positions
<1>8. CASE Check(w)
  BY <1>8, GoesOn, Answered DEF Check, Positions
<1>9. CASE Finish(w)
  BY <1>9, Answered DEF Finish
<1> QED
  BY <1>1, <1>2, <1>3, <1>4, <1>5, <1>6, <1>7, <1>8, <1>9

\* The other variables stay in theirs.
LEMMA KeyTypedStep ==
    ASSUME ReqTyped, KeyTyped, [Next]_vars
    PROVE  KeyTyped'
<1> USE GateAssumption DEF keyVars, limitVars
<1>1. ASSUME NEW w \in Requests, FillCache(w) PROVE KeyTyped'
  <2>1. req[w].data \in Data
    BY DEF ReqTyped, Request
  <2>2. [data |-> req[w].data, left |-> Ttl] \in Cached
    BY <2>1 DEF Cached
  <2> QED
    BY <1>1, <2>2 DEF FillCache, KeyTyped
<1>2. ASSUME NEW w \in Requests, Finish(w) PROVE KeyTyped'
  <2>1. cache' \in [Keys -> Cached]
    BY <1>2 DEF Finish, KeyTyped, Cached
  <2>2. touch' \in [Keys -> 0 .. MaxTouch]
    BY <1>2 DEF Finish, KeyTyped
  <2> QED
    BY <1>2, <2>1, <2>2 DEF Finish, KeyTyped
<1>3. CASE Tick
  <2>1. age' \in [Keys -> 0 .. MaxAge]
    BY <1>3 DEF Tick, KeyTyped, MaxAge
  <2>2. cache' \in [Keys -> Cached]
    BY <1>3 DEF Tick, KeyTyped, Cached
  <2> QED
    BY <1>3, <2>1, <2>2 DEF Tick, KeyTyped
<1>4. ASSUME NEW k \in Keys, CreateKey(k) \/ RevokeKey(k) \/ DeleteKey(k) PROVE KeyTyped'
  BY <1>4 DEF CreateKey, RevokeKey, DeleteKey, StoreKey, UpdateKey, DeleteRow, KeyTyped, Data
<1>5. ASSUME UNCHANGED keyVars PROVE KeyTyped'
  BY <1>5 DEF KeyTyped
<1> QED
  BY <1>1, <1>2, <1>3, <1>4, <1>5 DEF Next, vars, Arrive, LoadLimiter, NewLimiter, Allow, Lookup,
     ReadKey, Check, Idle, SweepLook, SweepDelete

\* The buckets and the caches keep their types.
LEMMA LimitTypedStep ==
    ASSUME LimitTyped, [Next]_vars
    PROVE  LimitTyped'
<1> USE GateAssumption DEF keyVars, limitVars, LimitTyped
<1>1. ASSUME NEW w \in Requests, LoadLimiter(w) \/ NewLimiter(w) PROVE LimitTyped'
  <2>1. tokens' \in [Limiters -> 0 .. Burst] /\ cur' \in Limiters \cup {None} /\ UNCHANGED allowed
    BY <1>1 DEF LoadLimiter, NewLimiter
  <2>2. stale' \in BOOLEAN /\ UNCHANGED sweep
    BY <1>1, Zenon DEF LoadLimiter, NewLimiter
  <2> QED
    BY <2>1, <2>2
<1>2. ASSUME NEW w \in Requests, Allow(w) PROVE LimitTyped'
  BY <1>2 DEF Allow
<1>3. CASE Idle \/ SweepLook \/ SweepDelete
  <2>1. tokens' \in [Limiters -> 0 .. Burst] /\ cur' \in Limiters \cup {None} /\ allowed' \in Nat
    BY <1>3 DEF Idle, SweepLook, SweepDelete
  <2>2. stale' \in BOOLEAN /\ sweep' \in BOOLEAN
    BY <1>3, Zenon DEF Idle, SweepLook, SweepDelete
  <2> QED
    BY <2>1, <2>2
<1>4. ASSUME UNCHANGED limitVars PROVE LimitTyped'
  BY <1>4
<1> QED
  BY <1>1, <1>2, <1>3, <1>4, Zenon DEF Next, vars, Arrive, Lookup, ReadKey, Check, FillCache,
     Finish,
     Tick, CreateKey, RevokeKey, DeleteKey

\* Every variable keeps its type.
LEMMA TypedStep == Typed /\ [Next]_vars => Typed'
<1> SUFFICES ASSUME Typed, [Next]_vars PROVE Typed'
  OBVIOUS
<1>1. ReqTyped /\ KeyTyped /\ LimitTyped
  BY Parts
<1>2. KeyTyped' /\ LimitTyped'
  BY <1>1, KeyTypedStep, LimitTypedStep
<1>3. ReqTyped'
  <2>1. ASSUME UNCHANGED req PROVE ReqTyped'
    BY <1>1, <2>1 DEF ReqTyped, Placed
  <2> QED
    BY <1>1, <2>1, ReqStep DEF Next, vars, Idle, SweepLook, SweepDelete, Tick, CreateKey,
       RevokeKey, DeleteKey
<1>4. Typed' <=> ReqTyped' /\ KeyTyped' /\ LimitTyped'
  BY Parts, PTL
<1> QED
  BY <1>2, <1>3, <1>4

-----------------------------------------------------------------------------
(* Keys.                                                                     *)

\* One more recorded use is one more Ttl.
LEMMA OneMoreUse ==
    ASSUME NEW t \in Nat
    PROVE  /\ Ttl * (1 + t) \in Nat /\ Ttl <= Ttl * (1 + t)
           /\ Ttl * (1 + (t + 1)) = Ttl * (1 + t) + Ttl
<1>1. Ttl \in Nat
  BY GateAssumption
<1>2. Ttl * (1 + t) = Ttl + Ttl * t /\ Ttl * t \in Nat
  BY <1>1
<1>3. Ttl * (1 + (t + 1)) = Ttl + Ttl * t + Ttl
  BY <1>1
<1> QED
  BY <1>1, <1>2, <1>3

\* A request that is idle or before its lookup holds no copy of a key.
Copying == {"fill", "check", "granted"}

\* A step of a request that leaves the keys alone.
LEMMA ReqOnly ==
    ASSUME KeyInv, UNCHANGED keyVars, NEW w \in Requests, ReqTyped,
           \A v \in Requests : v # w => req'[v] = req[v],
           ReqOK(w)'
    PROVE  KeyInv'
<1>1. \A k \in Keys : KeyOK(k)'
  BY DEF KeyInv, KeyOK, Genuine, Believed, keyVars
<1>2. ASSUME NEW v \in Requests PROVE ReqOK(v)'
  <2>1. CASE v = w
    BY <2>1
  <2>2. CASE v # w
    BY <2>2 DEF KeyInv, ReqOK, Genuine, Believed, keyVars
  <2> QED
    BY <2>1, <2>2
<1> QED
  BY <1>1, <1>2 DEF KeyInv

\* The steps of a request.
LEMMA KeyReqStep ==
    ASSUME ReqTyped, KeyTyped, KeyInv, NEW w \in Requests,
           \/ Arrive(w) \/ LoadLimiter(w) \/ NewLimiter(w) \/ Allow(w)
           \/ Lookup(w) \/ ReadKey(w) \/ Check(w)
    PROVE  KeyInv'
<1>1. UNCHANGED keyVars /\ \A v \in Requests : v # w => req'[v] = req[v]
  BY DEF Arrive, LoadLimiter, NewLimiter, Allow, Lookup, ReadKey, Check, Goto, Answer, ReqTyped
<1>2. req[w].key \in Keys \/ Arrive(w)
  BY DEF LoadLimiter, NewLimiter, Allow, Lookup, ReadKey, Check, ReqTyped, Placed
<1>3. ASSUME req'[w].pc \notin Copying PROVE ReqOK(w)'
  BY <1>3 DEF ReqOK, Copying
<1>4. CASE Arrive(w) \/ LoadLimiter(w) \/ NewLimiter(w) \/ Allow(w)
  <2>1. Arrive(w) => req'[w].pc = "load"
    BY DEF Arrive, NoReq, ReqTyped
  <2>2. LoadLimiter(w) => req'[w].pc \in {"allow", "new"}
    BY DEF LoadLimiter, Goto, ReqTyped, Request
  <2>3. NewLimiter(w) => req'[w].pc = "allow"
    BY DEF NewLimiter, ReqTyped, Request
  <2>4. Allow(w) => req'[w].pc \in {"lookup", "idle"}
    BY DEF Allow, Answer, NoReq, ReqTyped, Request
  <2> QED
    BY <1>1, <1>3, <1>4, <2>1, <2>2, <2>3, <2>4, ReqOnly DEF Copying
<1>5. CASE Lookup(w)
  <2> DEFINE k == req[w].key
  <2>1. k \in Keys /\ req[w].pc = "lookup" /\ KeyOK(k)
    BY <1>5 DEF Lookup, ReqTyped, Placed, KeyInv
  <2>2. CASE cache[k].left > 0
    <3>1. req'[w].pc = "check" /\ req'[w].data = cache[k].data /\ req'[w].key = k
      BY <1>5, <2>2 DEF Lookup, ReqTyped, Request
    <3>2. age[k] \in Nat /\ cache[k].left \in Nat /\ Believed(touch[k]) \in Nat
      BY <2>1, GateAssumption, OneMoreUse DEF KeyTyped, Cached, Believed, MaxAge
    <3>3. cache[k].data.state = "live" => age[k] <= Believed(touch[k])
      BY <2>1, <2>2, <3>2 DEF KeyOK
    <3>4. ReqOK(w)'
      BY <1>1, <2>1, <3>1, <3>3 DEF ReqOK, KeyOK, Genuine, Believed, keyVars
    <3> QED
      BY <1>1, <3>4, ReqOnly
  <2>3. CASE cache[k].left = 0
    <3>1. req'[w].pc = "read"
      BY <1>5, <2>3 DEF Lookup, Goto, ReqTyped, Request
    <3> QED
      BY <1>1, <1>3, <3>1, ReqOnly DEF Copying
  <2> QED
    BY <1>5, <2>2, <2>3 DEF Lookup
<1>6. CASE ReadKey(w)
  <2> DEFINE k == req[w].key
  <2>1. k \in Keys /\ KeyOK(k)
    BY <1>6 DEF ReadKey, ReqTyped, Placed, KeyInv
  <2>2. CASE db[k].state \in {"live", "revoked"}
    <3>1. req'[w].pc = "fill" /\ req'[w].data = db[k] /\ req'[w].key = k
      BY <1>6, <2>2 DEF ReadKey, ReqTyped, Request
    <3>2. ReqOK(w)'
      BY <1>1, <2>1, <2>2, <3>1 DEF ReqOK, KeyOK, Genuine, keyVars
    <3> QED
      BY <1>1, <3>2, ReqOnly
  <2>3. CASE db[k].state \in {"none", "deleted"}
    <3>1. req'[w].pc = "idle"
      BY <1>6, <2>3 DEF ReadKey, Answer, NoReq, ReqTyped
    <3> QED
      BY <1>1, <1>3, <3>1, ReqOnly DEF Copying
  <2> QED
    BY <1>6, <2>2, <2>3 DEF ReadKey
<1>7. CASE Check(w)
  <2> DEFINE k == req[w].key
  <2>1. k \in Keys /\ req[w].pc = "check" /\ ReqOK(w)
    BY <1>7 DEF Check, ReqTyped, Placed, KeyInv
  <2>2. CASE req[w].data.state = "live" /\ req[w].need \in req[w].data.scopes
    <3>1. req'[w].pc = "granted" /\ req'[w].need = req[w].need /\ req'[w].key = k
      BY <1>7, <2>2 DEF Check, Goto, ReqTyped, Request
    <3>2. ReqOK(w)'
      BY <1>1, <2>1, <2>2, <3>1 DEF ReqOK, Genuine, Believed, keyVars
    <3> QED
      BY <1>1, <3>2, ReqOnly
  <2>3. CASE ~(req[w].data.state = "live" /\ req[w].need \in req[w].data.scopes)
    <3>1. req'[w].pc = "idle"
      BY <1>7, <2>3 DEF Check, Answer, NoReq, ReqTyped
    <3> QED
      BY <1>1, <1>3, <3>1, ReqOnly DEF Copying
  <2> QED
    BY <2>2, <2>3
<1> QED
  BY <1>4, <1>5, <1>6, <1>7

\* The cache is filled: the copy was read in this tick.
LEMMA KeyFill ==
    ASSUME ReqTyped, KeyTyped, KeyInv, NEW w \in Requests, FillCache(w)
    PROVE  KeyInv'
<1> DEFINE k == req[w].key
<1>1. /\ k \in Keys /\ req[w].pc = "fill" /\ ReqOK(w) /\ UNCHANGED <<db, age, touch>>
      /\ cache' = [cache EXCEPT ![k] = [data |-> req[w].data, left |-> Ttl]]
      /\ req' = [req EXCEPT ![w].pc = "check"]
  BY DEF FillCache, Goto, ReqTyped, Placed, KeyInv
<1>2. touch[k] \in Nat /\ Ttl <= Believed(touch[k]) /\ Believed(touch[k]) \in Nat /\ Ttl \in Nat
  BY <1>1, GateAssumption, OneMoreUse DEF KeyTyped, Believed
<1>3. ASSUME NEW j \in Keys PROVE KeyOK(j)'
  <2>1. CASE j = k
    <3>1. cache'[j].data = req[w].data /\ cache'[j].left = Ttl
      BY <1>1, <2>1 DEF KeyTyped
    <3> QED
      BY <1>1, <1>2, <2>1, <3>1 DEF KeyOK, ReqOK, KeyInv, Genuine, Believed
  <2>2. CASE j # k
    <3>1. cache'[j] = cache[j]
      BY <1>1, <2>2 DEF KeyTyped
    <3> QED
      BY <1>1, <3>1 DEF KeyInv, KeyOK, Genuine, Believed
  <2> QED
    BY <2>1, <2>2
<1>4. ASSUME NEW v \in Requests PROVE ReqOK(v)'
  <2>1. CASE v = w
    <3>1. req'[v].pc = "check" /\ req'[v].key = k /\ req'[v].data = req[v].data
      BY <1>1, <2>1 DEF ReqTyped, Request
    <3> QED
      BY <1>1, <1>2, <2>1, <3>1 DEF ReqOK, Genuine, Believed
  <2>2. CASE v # w
    BY <1>1, <2>2 DEF ReqTyped, KeyInv, ReqOK, Genuine, Believed
  <2> QED
    BY <2>1, <2>2
<1> QED
  BY <1>3, <1>4 DEF KeyInv

\* A use is recorded: the copy is believed for one more Ttl.
LEMMA KeyFinish ==
    ASSUME ReqTyped, KeyTyped, KeyInv, NEW w \in Requests, Finish(w)
    PROVE  KeyInv'
<1> DEFINE k == req[w].key
<1>1. /\ k \in Keys /\ req[w].pc = "granted" /\ ReqOK(w) /\ UNCHANGED <<db, age>>
      /\ req' = [req EXCEPT ![w] = NoReq]
  BY DEF Finish, Answer, ReqTyped, Placed, KeyInv
<1>2. \A j \in Keys : touch[j] \in Nat /\ age[j] \in Nat
  BY GateAssumption DEF KeyTyped, MaxAge
<1>3. /\ \A j \in Keys : j # k => cache'[j] = cache[j] /\ touch'[j] = touch[j]
      /\ cache'[k].data = cache[k].data
      /\ \/ cache'[k].left = cache[k].left /\ touch'[k] \in {touch[k], touch[k] + 1}
         \/ cache'[k].left = Ttl /\ db[k].state = "live" /\ touch'[k] = touch[k]
         \/ cache'[k].left = Ttl /\ touch'[k] = touch[k] + 1
  BY <1>1 DEF Finish, KeyTyped, Cached
<1>4. /\ \A j \in Keys : Believed(touch[j]) \in Nat /\ Believed(touch'[j]) \in Nat /\ Believed(touch[j]) <= Believed(touch'[j])
      /\ touch'[k] = touch[k] + 1 => Believed(touch'[k]) = Believed(touch[k]) + Ttl
      /\ Ttl <= Believed(touch'[k])
  <2>1. ASSUME NEW j \in Keys
        PROVE  /\ Ttl * (1 + touch[j]) \in Nat
               /\ touch'[j] = touch[j] \/ touch'[j] = touch[j] + 1
               /\ Ttl * (1 + (touch[j] + 1)) = Ttl * (1 + touch[j]) + Ttl
               /\ Ttl <= Ttl * (1 + touch[j])
    BY <1>1, <1>2, <1>3, OneMoreUse
  <2> QED
    BY <1>1, <2>1, GateAssumption DEF Believed
<1>5. ASSUME NEW j \in Keys PROVE KeyOK(j)'
  <2>0. KeyOK(j) /\ cache[j].left \in Nat /\ Ttl \in Nat
    BY GateAssumption DEF KeyInv, KeyTyped, Cached
  <2>1. CASE j # k
    BY <1>1, <1>3, <2>0, <2>1 DEF KeyOK, Genuine, Believed
  <2>2. CASE j = k
    <3>1. Genuine(j, cache[j].data)' /\ (db[j].state \in {"none", "live"} => age[j] = 0)'
      BY <1>1, <1>3, <2>0, <2>2 DEF KeyOK, Genuine
    <3>2. ASSUME cache'[j].data.state = "live", cache'[j].left > 0
          PROVE  age'[j] + cache'[j].left <= Believed(touch'[j])
      <4>1. CASE cache'[k].left = cache[k].left
        BY <1>1, <1>2, <1>3, <1>4, <2>0, <2>2, <3>2, <4>1 DEF KeyOK
      <4>2. CASE cache'[k].left = Ttl /\ db[k].state = "live"
        <5>1. age[k] = 0
          BY <2>0, <2>2, <4>2 DEF KeyOK
        <5> QED
          BY <1>1, <1>4, <2>0, <2>2, <4>2, <5>1
      <4>3. CASE cache'[k].left = Ttl /\ touch'[k] = touch[k] + 1
        <5>1. age[k] <= Believed(touch[k])
          BY <1>1 DEF ReqOK
        <5> QED
          BY <1>1, <1>2, <1>4, <2>0, <2>2, <4>3, <5>1
      <4> QED
        BY <1>3, <4>1, <4>2, <4>3
    <3> QED
      BY <3>1, <3>2 DEF KeyOK
  <2> QED
    BY <2>1, <2>2
<1>6. ASSUME NEW v \in Requests PROVE ReqOK(v)'
  <2>1. CASE v = w
    <3>1. req'[v].pc = "idle"
      BY <1>1, <2>1 DEF NoReq, ReqTyped
    <3> QED
      BY <3>1 DEF ReqOK
  <2>2. CASE v # w
    <3>1. req'[v] = req[v] /\ ReqOK(v)
      BY <1>1, <2>2 DEF ReqTyped, KeyInv
    <3>2. CASE req[v].pc \notin Copying
      BY <3>1, <3>2 DEF ReqOK, Copying
    <3>3. CASE req[v].pc \in Copying
      <4>1. req[v].key \in Keys
        BY <3>3 DEF ReqTyped, Placed, Copying
      <4>2. age[req[v].key] <= Believed(touch[req[v].key]) => age[req[v].key] <= Believed(touch'[req[v].key])
        BY <1>2, <1>4, <4>1
      <4> HIDE DEF k
      <4> QED
        BY <1>1, <3>1, <4>1, <4>2 DEF ReqOK, Genuine, Believed
    <3> QED
      BY <3>2, <3>3
  <2> QED
    BY <2>1, <2>2
<1> QED
  BY <1>5, <1>6 DEF KeyInv

\* Time passes: no request holds a copy, and what the cache has loses what the
\* age of the key gains.
LEMMA KeyTick ==
    ASSUME ReqTyped, KeyTyped, KeyInv, Tick
    PROVE  KeyInv'
<1>1. ASSUME NEW k \in Keys PROVE KeyOK(k)'
  <2>1. /\ KeyOK(k) /\ cache[k].left \in Nat /\ age[k] \in Nat /\ touch[k] \in Nat
        /\ UNCHANGED <<db, touch>>
    BY GateAssumption DEF KeyInv, KeyTyped, Cached, Tick, MaxAge
  <2>2. /\ cache'[k].data = cache[k].data
        /\ cache[k].left = 0 => cache'[k].left = 0
        /\ cache[k].left > 0 => cache'[k].left = cache[k].left - 1
        /\ \/ age'[k] = age[k]
           \/ age'[k] = age[k] + 1 /\ db[k].state \in {"revoked", "deleted"}
    BY <2>1 DEF Tick, KeyTyped, Cached
  <2>3. Believed(touch[k]) \in Nat /\ Believed(touch'[k]) = Believed(touch[k])
    BY <2>1, OneMoreUse DEF Believed
  <2> QED
    BY <2>1, <2>2, <2>3 DEF KeyOK, Genuine
<1>2. \A w \in Requests : ReqOK(w)'
  BY DEF Tick, ReqOK
<1> QED
  BY <1>1, <1>2 DEF KeyInv

\* The commands: scopes are given once, and a key that dies has age 0.
LEMMA KeyCommand ==
    ASSUME ReqTyped, KeyTyped, KeyInv, NEW c \in Keys,
           CreateKey(c) \/ RevokeKey(c) \/ DeleteKey(c)
    PROVE  KeyInv'
<1>1. /\ UNCHANGED <<cache, age, touch, req>>
      /\ \A k \in Keys : k # c => db'[k] = db[k]
      /\ \/ db[c].state = "none" /\ db'[c].state = "live"
         \/ /\ db[c].state \in {"live", "revoked"} /\ db'[c].state \in {"revoked", "deleted"}
            /\ db'[c].scopes = db[c].scopes
  BY DEF CreateKey, RevokeKey, DeleteKey, StoreKey, UpdateKey, DeleteRow, KeyTyped, Data
<1>2. ASSUME NEW k \in Keys PROVE KeyOK(k)'
  BY <1>1 DEF KeyInv, KeyOK, Genuine, Believed
<1>3. ASSUME NEW w \in Requests PROVE ReqOK(w)'
  <2>1. CASE req[w].pc \notin Copying
    BY <1>1, <2>1 DEF ReqOK, Copying
  <2>2. CASE req[w].pc \in Copying
    <3>1. req[w].key \in Keys /\ ReqOK(w)
      BY <2>2 DEF ReqTyped, Placed, KeyInv, Copying
    <3> QED
      BY <1>1, <3>1 DEF ReqOK, Genuine, Believed
  <2> QED
    BY <2>1, <2>2
<1> QED
  BY <1>2, <1>3 DEF KeyInv

\* KeyInv in one step.
LEMMA KeyStep == Typed /\ KeyInv /\ [Next]_vars => KeyInv'
<1> SUFFICES ASSUME Typed, KeyInv, [Next]_vars PROVE KeyInv'
  OBVIOUS
<1>1. ReqTyped /\ KeyTyped
  BY Parts
<1>2. ASSUME UNCHANGED <<keyVars, req>> PROVE KeyInv'
  BY <1>2 DEF keyVars, KeyInv, KeyOK, ReqOK, Genuine, Believed
<1> QED
  BY <1>1, <1>2, KeyReqStep, KeyFill, KeyFinish, KeyTick, KeyCommand
     DEF Next, vars, keyVars, Idle, SweepLook, SweepDelete

-----------------------------------------------------------------------------
(* The limiter.  Facts about the tokens of a set of limiters come first.     *)

\* The tokens that are left are finitely many.
LEMMA LeftFinite ==
    ASSUME NEW L \in SUBSET Limiters, NEW t
    PROVE  IsFiniteSet(Left(L, t)) /\ Cardinality(Left(L, t)) \in Nat
<1>1. IsFiniteSet(L) /\ IsFiniteSet(1 .. Burst)
  BY GateAssumption, FS_Subset, FS_Interval
<1>2. IsFiniteSet(L \X (1 .. Burst))
  BY <1>1, FS_Product
<1>3. Left(L, t) \in SUBSET (L \X (1 .. Burst))
  BY DEF Left
<1>4. IsFiniteSet(Left(L, t))
  BY <1>2, <1>3, FS_Subset
<1> QED
  BY <1>4, FS_CardinalityType

\* Fewer limiters have fewer tokens.
LEMMA LeftFewer ==
    ASSUME NEW M \in SUBSET Limiters, NEW L \in SUBSET M, NEW t, NEW u,
           \A l \in L : u[l] = t[l]
    PROVE  Cardinality(Left(L, u)) <= Cardinality(Left(M, t))
<1>1. Left(L, u) \in SUBSET Left(M, t)
  BY DEF Left
<1> QED
  BY <1>1, LeftFinite, FS_Subset

\* A token is taken.
LEMMA LeftTaken ==
    ASSUME NEW L \in SUBSET Limiters, NEW t \in [Limiters -> 0 .. Burst], NEW l \in L, t[l] > 0
    PROVE  Cardinality(Left(L, [t EXCEPT ![l] = @ - 1])) = Cardinality(Left(L, t)) - 1
<1> DEFINE u == [t EXCEPT ![l] = @ - 1]
<1>0. l \in Limiters /\ t[l] \in 1 .. Burst
  OBVIOUS
<1>1. \A k \in L, i \in 1 .. Burst : i <= u[k] <=> i <= t[k] /\ <<k, i>> # <<l, t[l]>>
  <2> SUFFICES ASSUME NEW k \in L, NEW i \in 1 .. Burst
               PROVE  i <= u[k] <=> i <= t[k] /\ <<k, i>> # <<l, t[l]>>
    OBVIOUS
  <2>1. t[k] \in Nat /\ i \in Nat /\ k \in Limiters
    OBVIOUS
  <2>2. CASE k = l
    BY <1>0, <2>1, <2>2
  <2>3. CASE k # l
    BY <1>0, <2>1, <2>3
  <2> QED
    BY <2>2, <2>3
<1>2. Left(L, u) = Left(L, t) \ {<<l, t[l]>>}
  <2> HIDE DEF u
  <2> QED
    BY <1>1 DEF Left
<1>3. <<l, t[l]>> \in Left(L, t)
  BY <1>0 DEF Left
<1>4. IsFiniteSet(Left(L, t))
  BY LeftFinite
<1>5. ASSUME NEW S, IsFiniteSet(S), NEW x \in S PROVE Cardinality(S \ {x}) = Cardinality(S) - 1
  BY <1>5, FS_RemoveElement
<1>6. Cardinality(Left(L, u)) = Cardinality(Left(L, t)) - 1
  <2> HIDE DEF u
  <2> QED
    BY <1>2, <1>3, <1>4, <1>5
<1> QED
  BY <1>6

\* The tokens of one limiter.
LEMMA LeftOne ==
    ASSUME NEW l \in Limiters, NEW t
    PROVE  Cardinality(Left({l}, t)) <= Burst
<1>1. IsFiniteSet({l}) /\ Cardinality({l}) = 1
  BY FS_Singleton
<1>2. IsFiniteSet(1 .. Burst) /\ Cardinality(1 .. Burst) = Burst
  BY GateAssumption, FS_Interval
<1>3. IsFiniteSet({l} \X (1 .. Burst)) /\ Cardinality({l} \X (1 .. Burst)) = Burst
  <2>1. /\ IsFiniteSet({l} \X (1 .. Burst))
        /\ Cardinality({l} \X (1 .. Burst)) = Cardinality({l}) * Cardinality(1 .. Burst)
    BY <1>1, <1>2, FS_Product
  <2> QED
    BY <1>1, <1>2, <2>1, GateAssumption
<1>4. Left({l}, t) \in SUBSET ({l} \X (1 .. Burst))
  BY DEF Left
<1> QED
  BY <1>3, <1>4, FS_Subset

\* A new limiter has at most a full bucket.
LEMMA LeftNew ==
    ASSUME NEW L \in SUBSET Limiters, NEW l \in Limiters \ L, NEW t \in [Limiters -> 0 .. Burst],
           NEW M \in SUBSET (L \cup {l})
    PROVE  Cardinality(Left(M, [t EXCEPT ![l] = Burst])) <= Cardinality(Left(L, t)) + Burst
<1> DEFINE u == [t EXCEPT ![l] = Burst]
<1>1. \A k \in L : u[k] = t[k]
  OBVIOUS
<1> HIDE DEF u
<1>2. Left(M, u) \in SUBSET (Left(L, t) \cup Left({l}, u))
  BY <1>1 DEF Left
<1>3. /\ IsFiniteSet(Left(L, t)) /\ IsFiniteSet(Left({l}, u))
      /\ Cardinality(Left(L, t)) \in Nat /\ Cardinality(Left({l}, u)) \in Nat
  BY LeftFinite
<1>4. /\ IsFiniteSet(Left(L, t) \cup Left({l}, u))
      /\ Cardinality(Left(L, t) \cup Left({l}, u)) <= Cardinality(Left(L, t)) + Cardinality(Left({l}, u))
  <2>1. Cardinality(Left(L, t) \cap Left({l}, u)) \in Nat
    BY <1>3, FS_Intersection, FS_CardinalityType
  <2>2. /\ IsFiniteSet(Left(L, t) \cup Left({l}, u))
        /\ Cardinality(Left(L, t) \cup Left({l}, u)) =
             Cardinality(Left(L, t)) + Cardinality(Left({l}, u)) - Cardinality(Left(L, t) \cap Left({l}, u))
    BY <1>3, FS_Union
  <2> QED
    BY <1>3, <2>1, <2>2
<1>5. /\ Cardinality(Left(M, u)) <= Cardinality(Left(L, t) \cup Left({l}, u))
      /\ Cardinality(Left(L, t) \cup Left({l}, u)) \in Nat
  BY <1>2, <1>4, FS_Subset, FS_CardinalityType
<1>6. Cardinality(Left({l}, u)) <= Burst /\ Burst \in Nat /\ Cardinality(Left(M, u)) \in Nat
  BY LeftOne, LeftFinite, GateAssumption
<1> QED
  BY <1>3, <1>4, <1>5, <1>6 DEF u

\* The requests that are making a limiter.
LEMMA MakingFinite ==
    ASSUME NEW r
    PROVE  /\ IsFiniteSet(Making(r)) /\ Cardinality(Making(r)) \in Nat
           /\ Cardinality(Requests) \in Nat
           /\ Cardinality(Making(r)) <= Cardinality(Requests)
<1>1. Making(r) \in SUBSET Requests
  BY DEF Making
<1> QED
  BY <1>1, GateAssumption, FS_Subset, FS_CardinalityType

\* Arithmetic of the budget.
LEMMA BudgetNat ==
    /\ Burst \in Nat /\ Cardinality({}) = 0
    /\ \A m \in Nat : Burst * m \in Nat
    /\ \A m \in Nat, n \in Nat : m <= n => Burst * m <= Burst * n
    /\ \A m \in Nat : Burst * (m + 1) = Burst * m + Burst
<1>1. Burst \in Nat /\ Cardinality({}) = 0
  BY GateAssumption, FS_EmptySet
<1>2. \A m \in Nat : Burst * m \in Nat
  BY <1>1
<1>3. ASSUME NEW m \in Nat, NEW n \in Nat, m <= n PROVE Burst * m <= Burst * n
  BY <1>1, <1>3
<1>4. ASSUME NEW m \in Nat PROVE Burst * (m + 1) = Burst * m + Burst
  BY <1>1
<1> QED
  BY <1>1, <1>2, <1>3, <1>4

\* A step after which no limiter that could not be used before can be, and no
\* more requests are making one, keeps what the budget says.
LEMMA LimitKept ==
    ASSUME LimitTyped, LimitInv, UNCHANGED <<tokens, allowed, cur, stale, sweep>>,
           Live(cur, req') \subseteq Live(cur, req), Making(req') \subseteq Making(req)
    PROVE  LimitInv'
<1> DEFINE c == Cardinality(Left(Live(cur, req), tokens))
           d == Cardinality(Left(Live(cur, req'), tokens))
           m == Cardinality(Making(req))
           n == Cardinality(Making(req'))
<1>1. c \in Nat /\ d \in Nat /\ m \in Nat /\ n \in Nat /\ d <= c /\ n <= m
  BY LeftFinite, LeftFewer, MakingFinite, FS_Subset DEF Live
<1>2. Burst * n <= Burst * m /\ Burst * n \in Nat /\ Burst * m \in Nat /\ Limit \in Nat /\ allowed \in Nat
  BY <1>1, BudgetNat, MakingFinite DEF LimitTyped, Limit
<1> QED
  BY <1>1, <1>2, BudgetNat DEF LimitInv, Budget, LimitTyped

\* Behind the limiter a request changes nothing of this.
LEMMA LimitBehind ==
    ASSUME ReqTyped, LimitTyped, LimitInv, NEW w \in Requests,
           \/ Arrive(w) \/ Lookup(w) \/ ReadKey(w) \/ FillCache(w) \/ Check(w) \/ Finish(w)
    PROVE  LimitInv'
<1>1. UNCHANGED <<tokens, allowed, cur, stale, sweep>>
  BY DEF Arrive, Lookup, ReadKey, FillCache, Check, Finish, limitVars
<1>2. \A v \in Requests : v # w => req'[v] = req[v]
  BY DEF Arrive, Lookup, ReadKey, FillCache, Check, Finish, Goto, Answer, ReqTyped
<1>3. req'[w].pc # "new" /\ req'[w].limiter = None
  <2>1. req[w].limiter = None
    BY DEF Arrive, Lookup, ReadKey, FillCache, Check, Finish, ReqTyped, Placed
  <2>2. Arrive(w) => req'[w].pc # "new" /\ req'[w].limiter = None
    BY DEF Arrive, NoReq, ReqTyped
  <2>3. Answer(w) => req'[w].pc # "new" /\ req'[w].limiter = None
    BY DEF Answer, NoReq, ReqTyped
  <2>4. ASSUME NEW l, Goto(w, l), l # "new" PROVE req'[w].pc # "new" /\ req'[w].limiter = None
    BY <2>1, <2>4 DEF Goto, ReqTyped, Request
  <2>5. Lookup(w) => req'[w].pc # "new" /\ req'[w].limiter = None
    BY <2>1, <2>4 DEF Lookup, ReqTyped, Request
  <2>6. ReadKey(w) => req'[w].pc # "new" /\ req'[w].limiter = None
    BY <2>1, <2>3 DEF ReadKey, ReqTyped, Request
  <2> QED
    BY <2>2, <2>3, <2>4, <2>5, <2>6 DEF FillCache, Check, Finish
<1>4. Live(cur, req') \subseteq Live(cur, req) /\ Making(req') \subseteq Making(req)
  BY <1>2, <1>3, GateAssumption DEF Live, Making
<1> QED
  BY <1>1, <1>4, LimitKept

\* getLimiter.
LEMMA LimitLoad ==
    ASSUME ReqTyped, LimitTyped, LimitInv, NEW w \in Requests, LoadLimiter(w)
    PROVE  LimitInv'
<1>1. /\ UNCHANGED <<tokens, allowed, cur, sweep>> /\ req[w].pc = "load" /\ req[w].limiter = None
      /\ \A v \in Requests : v # w => req'[v] = req[v]
  BY DEF LoadLimiter, Goto, ReqTyped, Placed
<1>2. CASE cur # None
  <2>1. req'[w].pc = "allow" /\ req'[w].limiter = cur /\ stale' = FALSE
    BY <1>2 DEF LoadLimiter, ReqTyped, Request
  <2>2. Live(cur, req') = Live(cur, req) /\ Making(req') = Making(req)
    BY <1>1, <2>1, GateAssumption DEF Live, Making
  <2> QED
    BY <1>1, <2>1, <2>2 DEF LimitInv
<1>3. CASE cur = None
  <2>1. req'[w].pc = "new" /\ req'[w].limiter = None /\ UNCHANGED stale
    BY <1>1, <1>3 DEF LoadLimiter, Goto, ReqTyped, Request
  <2>2. Live(cur, req') = Live(cur, req)
    BY <1>1, <2>1, GateAssumption DEF Live
  <2> DEFINE c == Cardinality(Left(Live(cur, req), tokens))
             m == Cardinality(Making(req'))
             q == Cardinality(Requests)
  <2>3. c \in Nat /\ m \in Nat /\ q \in Nat /\ m <= q /\ allowed \in Nat
    BY LeftFinite, MakingFinite DEF Live, LimitTyped
  <2>4. allowed + c <= Burst
    BY <1>3, <2>3, BudgetNat DEF LimitInv, Budget
  <2>5. /\ Burst * m \in Nat /\ Burst * q \in Nat /\ Burst * m <= Burst * q
        /\ Limit = Burst * q + Burst /\ Burst \in Nat
    BY <2>3, BudgetNat DEF Limit
  <2>6. allowed + c + Burst * m <= Limit
    BY <2>3, <2>4, <2>5
  <2> QED
    BY <1>1, <1>3, <2>1, <2>2, <2>6 DEF LimitInv, Budget
<1> QED
  BY <1>2, <1>3

\* A request makes the limiter that it was counted for.
LEMMA LimitNew ==
    ASSUME ReqTyped, LimitTyped, LimitInv, NEW w \in Requests, NewLimiter(w)
    PROVE  LimitInv'
<1>1. PICK l \in Limiters \ ({cur} \cup {req[v].limiter : v \in Requests}) :
        /\ req' = [req EXCEPT ![w].pc = "allow", ![w].limiter = l]
        /\ tokens' = [tokens EXCEPT ![l] = Burst]
        /\ cur' = l
  BY DEF NewLimiter
<1>2. /\ req[w].pc = "new" /\ stale' = FALSE /\ UNCHANGED <<sweep, allowed>>
      /\ \A v \in Requests : v # w => req'[v] = req[v]
      /\ req'[w].pc = "allow" /\ req'[w].limiter = l /\ l # None
  BY <1>1, GateAssumption DEF NewLimiter, ReqTyped, Request
<1>3. w \in Making(req) /\ Making(req') = Making(req) \ {w}
  BY <1>2 DEF Making
<1>4. ~sweep
  BY <1>3 DEF LimitInv, LimitTyped
<1>5. Live(cur', req') \subseteq Live(cur, req) \cup {l} /\ l \notin Live(cur, req)
  BY <1>1, <1>2 DEF Live
<1> DEFINE c == Cardinality(Left(Live(cur, req), tokens))
           d == Cardinality(Left(Live(cur', req'), tokens'))
           m == Cardinality(Making(req))
           n == Cardinality(Making(req'))
<1>6. c \in Nat /\ d \in Nat /\ d <= c + Burst
  <2>1. Live(cur, req) \in SUBSET Limiters /\ Live(cur', req') \in SUBSET Limiters
    BY DEF Live
  <2>2. d <= c + Burst
    BY <1>1, <1>5, <2>1, LeftNew DEF LimitTyped
  <2> QED
    BY <2>1, <2>2, LeftFinite
<1>7. m \in Nat /\ n \in Nat /\ m = n + 1
  <2>1. IsFiniteSet(Making(req)) /\ m \in Nat /\ n \in Nat
    BY MakingFinite
  <2>2. ASSUME NEW S, IsFiniteSet(S), NEW x \in S PROVE Cardinality(S \ {x}) = Cardinality(S) - 1
    BY <2>2, FS_RemoveElement
  <2>3. n = m - 1
    BY <1>3, <2>1, <2>2
  <2> QED
    BY <2>1, <2>3
<1>8. Burst * m = Burst * n + Burst /\ Burst * n \in Nat /\ Limit \in Nat /\ allowed \in Nat /\ Burst \in Nat
  BY <1>7, BudgetNat, MakingFinite DEF Limit, LimitTyped
<1>9. allowed + c + Burst * m <= Limit
  BY DEF LimitInv, Budget
<1>10. allowed + d + Burst * n <= Limit
  BY <1>6, <1>8, <1>9
<1> QED
  BY <1>1, <1>2, <1>4, <1>10 DEF LimitInv, Budget

\* A token is taken, or there is none.
LEMMA LimitAllow ==
    ASSUME ReqTyped, LimitTyped, LimitInv, NEW w \in Requests, Allow(w)
    PROVE  LimitInv'
<1> DEFINE l == req[w].limiter
<1>1. /\ req[w].pc = "allow" /\ UNCHANGED <<cur, stale, sweep>>
      /\ \A v \in Requests : v # w => req'[v] = req[v]
      /\ l \in Limiters
  BY DEF Allow, Answer, ReqTyped, Placed, Request
<1>2. req'[w].pc # "new" /\ req'[w].limiter = None
  <2>1. Answer(w) => req'[w].pc # "new" /\ req'[w].limiter = None
    BY DEF Answer, NoReq, ReqTyped
  <2> QED
    BY <2>1 DEF Allow, ReqTyped, Request
<1>3. /\ l \in Live(cur, req) /\ Live(cur, req') \subseteq Live(cur, req)
      /\ Making(req') = Making(req)
  BY <1>1, <1>2, GateAssumption DEF Live, Making
<1>4. CASE tokens[l] = 0
  <2>1. UNCHANGED <<tokens, allowed>>
    BY <1>4 DEF Allow
  <2> QED
    BY <1>1, <1>3, <2>1, LimitKept
<1>5. CASE tokens[l] > 0
  <2>1. tokens' = [tokens EXCEPT ![l] = @ - 1] /\ allowed' = allowed + 1
    BY <1>5 DEF Allow
  <2> DEFINE c == Cardinality(Left(Live(cur, req), tokens))
             d == Cardinality(Left(Live(cur, req'), tokens'))
             e == Cardinality(Left(Live(cur, req), tokens'))
             m == Burst * Cardinality(Making(req))
  <2>2. c \in Nat /\ d \in Nat /\ e \in Nat /\ e = c - 1 /\ d <= e
    <3>1. Live(cur, req) \in SUBSET Limiters /\ Live(cur, req') \in SUBSET Limiters
      BY DEF Live
    <3>2. e = c - 1
      BY <1>3, <1>5, <2>1, <3>1, LeftTaken DEF LimitTyped
    <3>3. d <= e
      BY <1>3, <3>1, LeftFewer
    <3> QED
      BY <3>1, <3>2, <3>3, LeftFinite
  <2>3. m \in Nat /\ Limit \in Nat /\ allowed \in Nat /\ Burst \in Nat
    BY BudgetNat, MakingFinite DEF Limit, LimitTyped
  <2>4. /\ allowed + c + m <= Limit
        /\ cur = None \/ stale \/ sweep => allowed + c + Burst * Cardinality({}) <= Burst
    BY DEF LimitInv, Budget
  <2>5. Burst * Cardinality({}) = 0
    BY BudgetNat
  <2>6. /\ allowed' + d + m <= Limit
        /\ cur = None \/ stale \/ sweep => allowed' + d + Burst * Cardinality({}) <= Burst
    BY <2>1, <2>2, <2>3, <2>4, <2>5
  <2> QED
    BY <1>1, <1>3, <2>6 DEF LimitInv, Budget
<1> QED
  BY <1>4, <1>5 DEF Allow

\* A client that is idle has one bucket, and nobody uses it.
LEMMA LimitIdle ==
    ASSUME ReqTyped, LimitTyped, LimitInv, Idle
    PROVE  LimitInv'
<1>1. /\ UNCHANGED <<req, cur, sweep>> /\ allowed' = 0 /\ cur # None /\ cur \in Limiters
      /\ \A w \in Requests : req[w].pc = "idle" /\ req[w].limiter = None
  BY DEF Idle, ReqTyped, Placed, LimitTyped
<1>2. Live(cur, req) = {cur} /\ Making(req) = {}
  BY <1>1, GateAssumption DEF Live, Making
<1> DEFINE d == Cardinality(Left({cur}, tokens'))
<1>3. d \in Nat /\ d <= Burst
  BY <1>1, LeftOne, LeftFinite
<1>4. Burst * Cardinality({}) = 0 /\ Burst \in Nat /\ Burst <= Limit /\ Limit \in Nat
  <2> DEFINE q == Cardinality(Requests)
  <2>1. q \in Nat /\ Limit = Burst * q + Burst /\ Burst * q \in Nat /\ Burst \in Nat
    BY BudgetNat, MakingFinite DEF Limit
  <2> QED
    BY <2>1, BudgetNat
<1>5. 0 + d + Burst * Cardinality({}) <= Burst /\ 0 + d + Burst * Cardinality({}) <= Limit
  BY <1>3, <1>4
<1> QED
  BY <1>1, <1>2, <1>5 DEF LimitInv, Budget

\* The clean-up.
LEMMA LimitSweep ==
    ASSUME ReqTyped, LimitTyped, LimitInv, SweepLook \/ SweepDelete
    PROVE  LimitInv'
<1>1. UNCHANGED <<req, tokens, allowed, stale>>
  BY DEF SweepLook, SweepDelete
<1>2. CASE SweepLook
  BY <1>1, <1>2 DEF SweepLook, LimitInv
<1>3. CASE SweepDelete
  <2>1. sweep /\ sweep' = FALSE /\ cur' = None
    BY <1>3 DEF SweepDelete
  <2> DEFINE c == Cardinality(Left(Live(cur, req), tokens))
             d == Cardinality(Left(Live(None, req), tokens))
             m == Burst * Cardinality(Making(req))
  <2>2. Live(None, req) \subseteq Live(cur, req)
    BY GateAssumption DEF Live
  <2>3. c \in Nat /\ d \in Nat /\ d <= c
    BY <2>2, LeftFinite, LeftFewer DEF Live
  <2>4. m \in Nat /\ Limit \in Nat /\ allowed \in Nat /\ Burst \in Nat /\ Burst * Cardinality({}) = 0
    BY BudgetNat, MakingFinite DEF Limit, LimitTyped
  <2>5. /\ allowed + c + m <= Limit
        /\ allowed + c + Burst * Cardinality({}) <= Burst
    BY <2>1 DEF LimitInv, Budget
  <2>6. /\ allowed + d + m <= Limit
        /\ allowed + d + Burst * Cardinality({}) <= Burst
    BY <2>3, <2>4, <2>5
  <2> QED
    BY <1>1, <2>1, <2>6 DEF LimitInv, Budget
<1> QED
  BY <1>2, <1>3

\* LimitInv in one step.
LEMMA LimitStep == Typed /\ LimitInv /\ [Next]_vars => LimitInv'
<1> SUFFICES ASSUME Typed, LimitInv, [Next]_vars PROVE LimitInv'
  OBVIOUS
<1>1. ReqTyped /\ LimitTyped
  BY Parts
<1>2. ASSUME UNCHANGED <<req, limitVars>> PROVE LimitInv'
  BY <1>2 DEF limitVars, LimitInv
<1> QED
  BY <1>1, <1>2, LimitBehind, LimitLoad, LimitNew, LimitAllow, LimitIdle, LimitSweep
     DEF Next, vars, limitVars, Tick, CreateKey, RevokeKey, DeleteKey

-----------------------------------------------------------------------------
(* The invariants.                                                           *)

\* The three parts are inductive together.
THEOREM Invariance == Spec => [](Typed /\ KeyInv /\ LimitInv)
<1>1. Init => Typed
  <2> SUFFICES ASSUME Init PROVE Typed
    OBVIOUS
  <2>1. ReqTyped
    BY Nothing DEF Init, ReqTyped, Placed, NoReq
  <2>2. KeyTyped
    <3>1. [data |-> NoData, left |-> 0] \in Cached
      BY Nothing, GateAssumption DEF Cached
    <3>2. 0 \in 0 .. MaxAge /\ 0 \in 0 .. MaxTouch
      BY GateAssumption DEF MaxAge
    <3> QED
      BY <3>1, <3>2, Nothing DEF Init, KeyTyped
  <2>3. LimitTyped
    <3>1. tokens \in [Limiters -> 0 .. Burst] /\ allowed \in Nat
      BY GateAssumption DEF Init
    <3> QED
      BY <3>1 DEF Init, LimitTyped
  <2> QED
    BY <2>1, <2>2, <2>3, Parts
<1>2. Init => KeyInv
  BY DEF Init, KeyInv, KeyOK, ReqOK, Genuine, NoData, NoReq
<1>3. Init => LimitInv
  <2> SUFFICES ASSUME Init PROVE LimitInv
    OBVIOUS
  <2>1. Live(cur, req) = {} /\ Making(req) = {}
    BY GateAssumption DEF Init, Live, Making, NoReq
  <2>2. Left({}, tokens) = {}
    BY DEF Left
  <2>3. allowed + Cardinality({}) + Burst * Cardinality({}) = 0 /\ Burst \in Nat
    BY BudgetNat DEF Init
  <2>4. Limit \in Nat
    BY BudgetNat, MakingFinite DEF Limit
  <2> QED
    BY <2>1, <2>2, <2>3, <2>4 DEF Init, LimitInv, Budget
<1> QED
  BY <1>1, <1>2, <1>3, TypedStep, KeyStep, LimitStep, PTL DEF Spec

\* The type invariant.
THEOREM TypeCorrect == Spec => []TypeOK
<1>1. Typed => TypeOK
  BY DEF Typed
<1> QED
  BY <1>1, Invariance, PTL

\* RequireAuthorization: a key that was revoked or deleted in the database is
\* accepted for at most one Ttl of the cache, and one more for every use that
\* UpdateLastUsed recorded meanwhile.
THEOREM RevocationIsBounded == Spec => []RevocationBounded
<1>1. KeyInv => RevocationBounded
  BY DEF KeyInv, ReqOK, Believed, RevocationBounded
<1> QED
  BY <1>1, Invariance, PTL

\* HasScope: no request is let through with a key that does not have the scope
\* of the route in the database, however old the copy was that it was checked with.
THEOREM ScopeIsGranted == Spec => []GrantedScope
<1>1. KeyInv => GrantedScope
  BY DEF KeyInv, ReqOK, GrantedScope
<1> QED
  BY <1>1, Invariance, PTL

\* RateLimiter: between two idle periods a client gets at most one bucket for
\* every request that is served at a time and one more, although getLimiter and
\* the clean-up take no lock together.
THEOREM RateIsLimited == Spec => []Limited
<1>1. Typed /\ LimitInv => Limited
  <2> SUFFICES ASSUME Typed, LimitInv PROVE Limited
    OBVIOUS
  <2>1. LimitTyped
    BY Parts
  <2> DEFINE c == Cardinality(Left(Live(cur, req), tokens))
             m == Burst * Cardinality(Making(req))
  <2>2. c \in Nat /\ m \in Nat /\ allowed \in Nat /\ Limit \in Nat
    BY <2>1, BudgetNat, MakingFinite, LeftFinite DEF Live, LimitTyped, Limit
  <2>3. allowed + c + m <= Limit
    BY DEF LimitInv, Budget
  <2> QED
    BY <2>2, <2>3 DEF Limited
<1> QED
  BY <1>1, Invariance, PTL
=============================================================================
