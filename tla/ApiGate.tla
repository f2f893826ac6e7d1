------------------------------- MODULE ApiGate -------------------------------
(***************************************************************************)
(* What a request to protocube's API passes before its handler runs: the   *)
(* rate limiter of its client and the check of its API key, which goes     *)
(* through a cache.  Keys are created, revoked and deleted by commands     *)
(* that run in processes of their own and share only the database.         *)
(*                                                                         *)
(*   protocube/api/router/middleware/rate_limiter.go, middleware.go        *)
(*   protocube/auth/store.go, repository.go, models/key.go                 *)
(*   protocube/cmd/api_key_commands.go                                     *)
(*                                                                         *)
(* All requests come from one client.  The service that validates a key    *)
(* and the token bucket are libraries.  Time is counted in ticks; a tick   *)
(* is longer than the database read of a lookup.                           *)
(***************************************************************************)
EXTENDS Naturals, FiniteSets

CONSTANTS Keys, Scopes,
          Requests,  \* requests that are served at a time
          Limiters,  \* limiter objects
          Burst,     \* tokens of a full bucket
          Ttl,       \* ticks for which a cached key is believed
          MaxTouch,  \* uses of a key that are recorded after it was revoked
          None

ASSUME GateAssumption ==
    /\ IsFiniteSet(Requests) /\ Requests # {} /\ IsFiniteSet(Limiters)
    /\ Burst \in Nat \ {0} /\ Ttl \in Nat \ {0} /\ MaxTouch \in Nat
    /\ None \notin Keys \cup Limiters \cup Scopes
    /\ Cardinality(Limiters) > Cardinality(Requests)

VARIABLES
    db,       \* db[k]: what the database has for key k
    cache,    \* cache[k]: what CachedStore has, and for how many ticks it is believed
    age,      \* age[k]: ticks since k was revoked or deleted
    touch,    \* touch[k]: uses of k that were recorded since then
    req,      \* req[w]: position, key, scope it needs, limiter, key data it got
    cur,      \* the limiter in the map clients
    stale,    \* its lastSeen is older than clientTTL
    sweep,    \* the clean-up has found it stale and has yet to delete it
    tokens,   \* tokens[l]: what is left in the bucket
    allowed   \* history: requests let through since the client was last idle

vars == <<db, cache, age, touch, req, cur, stale, sweep, tokens, allowed>>
keyVars == <<db, cache, age, touch>>
limitVars == <<cur, stale, sweep, tokens, allowed>>

MaxAge == Ttl * (MaxTouch + 1) + 1
NoData == [state |-> "none", scopes |-> {}]
Data == [state : {"none", "live", "revoked", "deleted"}, scopes : SUBSET Scopes]
NoReq == [pc |-> "idle", key |-> None, need |-> None, limiter |-> None, data |-> NoData]
Limit == Burst * (Cardinality(Requests) + 1)

TypeOK ==
    /\ db \in [Keys -> Data]
    /\ cache \in [Keys -> [data : Data, left : 0 .. Ttl]]
    /\ age \in [Keys -> 0 .. MaxAge]
    /\ touch \in [Keys -> 0 .. MaxTouch]
    /\ req \in [Requests -> [pc : {"idle", "load", "new", "allow", "lookup", "read", "fill", "check", "granted"},
                             key : Keys \cup {None}, need : Scopes \cup {None},
                             limiter : Limiters \cup {None}, data : Data]]
    /\ cur \in Limiters \cup {None}
    /\ stale \in BOOLEAN
    /\ sweep \in BOOLEAN
    /\ tokens \in [Limiters -> 0 .. Burst]
    /\ allowed \in Nat

Init ==
    /\ db = [k \in Keys |-> NoData]
    /\ cache = [k \in Keys |-> [data |-> NoData, left |-> 0]]
    /\ age = [k \in Keys |-> 0]
    /\ touch = [k \in Keys |-> 0]
    /\ req = [w \in Requests |-> NoReq]
    /\ cur = None /\ stale = FALSE /\ sweep = FALSE
    /\ tokens = [l \in Limiters |-> Burst]
    /\ allowed = 0

Goto(w, l) == req' = [req EXCEPT ![w].pc = l]
Answer(w) == req' = [req EXCEPT ![w] = NoReq]

-----------------------------------------------------------------------------
(* RateLimiter.                                                              *)

Arrive(w) ==
    /\ req[w].pc = "idle"
    /\ \E k \in Keys, n \in Scopes :
         req' = [req EXCEPT ![w] = [NoReq EXCEPT !.pc = "load", !.key = k, !.need = n]]
    /\ UNCHANGED <<keyVars, limitVars>>

\* getLimiter: the entry of the client, whose lastSeen is renewed.
LoadLimiter(w) ==
    /\ req[w].pc = "load"
    /\ \/ /\ cur # None
          /\ req' = [req EXCEPT ![w].pc = "allow", ![w].limiter = cur]
          /\ stale' = FALSE
       \/ /\ cur = None
          /\ Goto(w, "new")
          /\ UNCHANGED stale
    /\ UNCHANGED <<keyVars, cur, sweep, tokens, allowed>>

\* Mutant: the new limiter is not stored.
NewLimiterUnstored(w) ==
    /\ req[w].pc = "new"
    /\ \E l \in Limiters \ ({cur} \cup {req[v].limiter : v \in Requests}) :
         /\ req' = [req EXCEPT ![w].pc = "allow", ![w].limiter = l]
         /\ tokens' = [tokens EXCEPT ![l] = Burst]
    /\ UNCHANGED <<keyVars, cur, stale, sweep, allowed>>

\* There was none: a new limiter replaces whatever the map has by now.
NewLimiter(w) ==
    /\ req[w].pc = "new"
    /\ \E l \in Limiters \ ({cur} \cup {req[v].limiter : v \in Requests}) :
         /\ req' = [req EXCEPT ![w].pc = "allow", ![w].limiter = l]
         /\ tokens' = [tokens EXCEPT ![l] = Burst]
         /\ cur' = l
    /\ stale' = FALSE
    /\ UNCHANGED <<keyVars, sweep, allowed>>

\* Mutant: an empty bucket is not noticed.
AllowAlways(w) ==
    LET l == req[w].limiter IN
    /\ req[w].pc = "allow"
    /\ tokens' = [tokens EXCEPT ![l] = @ - 1]
    /\ allowed' = allowed + 1
    /\ req' = [req EXCEPT ![w].pc = "lookup", ![w].limiter = None]
    /\ UNCHANGED <<keyVars, cur, stale, sweep>>

\* A token is taken, or the answer is 429.
Allow(w) ==
    LET l == req[w].limiter IN
    /\ req[w].pc = "allow"
    /\ \/ /\ tokens[l] > 0
          /\ tokens' = [tokens EXCEPT ![l] = @ - 1]
          /\ allowed' = allowed + 1
          /\ req' = [req EXCEPT ![w].pc = "lookup", ![w].limiter = None]
       \/ /\ tokens[l] = 0
          /\ Answer(w)
          /\ UNCHANGED <<tokens, allowed>>
    /\ UNCHANGED <<keyVars, cur, stale, sweep>>

\* The client sends nothing for longer than clientTTL; its bucket is full again.
Idle ==
    /\ \A w \in Requests : req[w].pc = "idle"
    /\ cur # None
    /\ stale' = TRUE
    /\ tokens' = [l \in Limiters |-> Burst]
    /\ allowed' = 0
    /\ UNCHANGED <<keyVars, req, cur, sweep>>

\* ClientRateLimiterCleanUp reads lastSeen, then deletes the client.
SweepLook ==
    /\ cur # None /\ stale /\ ~sweep
    /\ sweep' = TRUE
    /\ UNCHANGED <<keyVars, req, cur, stale, tokens, allowed>>

SweepDelete ==
    /\ sweep
    /\ sweep' = FALSE
    /\ cur' = None
    /\ UNCHANGED <<keyVars, req, stale, tokens, allowed>>

-----------------------------------------------------------------------------
(* RequireAuthorization and the cache of keys.                               *)

\* Mutant: what is in the cache is believed for ever.
LookupForever(w) ==
    LET k == req[w].key IN
    /\ req[w].pc = "lookup"
    /\ \/ /\ cache[k].data # NoData
          /\ req' = [req EXCEPT ![w].pc = "check", ![w].data = cache[k].data]
       \/ /\ cache[k].data = NoData
          /\ Goto(w, "read")
    /\ UNCHANGED <<keyVars, limitVars>>

\* GetByPrefix: the cache, then the database.
Lookup(w) ==
    LET k == req[w].key IN
    /\ req[w].pc = "lookup"
    /\ \/ /\ cache[k].left > 0
          /\ req' = [req EXCEPT ![w].pc = "check", ![w].data = cache[k].data]
       \/ /\ cache[k].left = 0
          /\ Goto(w, "read")
    /\ UNCHANGED <<keyVars, limitVars>>

ReadKey(w) ==
    LET d == db[req[w].key] IN
    /\ req[w].pc = "read"
    /\ \/ d.state \in {"live", "revoked"} /\ req' = [req EXCEPT ![w].pc = "fill", ![w].data = d]
       \/ d.state \in {"none", "deleted"} /\ Answer(w)
    /\ UNCHANGED <<keyVars, limitVars>>

\* Whatever happened to the key since it was read, it is cached for a full Ttl.
FillCache(w) ==
    /\ req[w].pc = "fill"
    /\ cache' = [cache EXCEPT ![req[w].key] = [data |-> req[w].data, left |-> Ttl]]
    /\ Goto(w, "check")
    /\ UNCHANGED <<db, age, touch, limitVars>>

\* Mutant: the scope is not looked at.
CheckAnyScope(w) ==
    /\ req[w].pc = "check"
    /\ \/ req[w].data.state = "live" /\ Goto(w, "granted")
       \/ req[w].data.state # "live" /\ Answer(w)
    /\ UNCHANGED <<keyVars, limitVars>>

\* Validate, then HasScope.
Check(w) ==
    /\ req[w].pc = "check"
    /\ LET good == req[w].data.state = "live" /\ req[w].need \in req[w].data.scopes IN
         \/ good /\ Goto(w, "granted")
         \/ ~good /\ Answer(w)
    /\ UNCHANGED <<keyVars, limitVars>>

\* The handler runs and the request ends; UpdateLastUsed renews the entry of the
\* cache, also one that has expired.
Finish(w) ==
    LET k == req[w].key IN
    /\ req[w].pc = "granted"
    /\ Answer(w)
    /\ \/ UNCHANGED <<cache, touch>>
       \/ /\ db[k].state = "live" \/ touch[k] < MaxTouch
          /\ cache' = IF cache[k].data = NoData THEN cache ELSE [cache EXCEPT ![k].left = Ttl]
          /\ touch' = IF db[k].state = "live" THEN touch ELSE [touch EXCEPT ![k] = @ + 1]
    /\ UNCHANGED <<db, age, limitVars>>

-----------------------------------------------------------------------------
(* Commands, and time.                                                       *)

\* The rows of the database.
StoreKey(k, scopes) == db' = [db EXCEPT ![k] = [state |-> "live", scopes |-> scopes]]
UpdateKey(k, state) == db' = [db EXCEPT ![k].state = state]
DeleteRow(k) == db' = [db EXCEPT ![k].state = "deleted"]

\* create-api-key: any scopes, when asked for one of the two kinds at least one.
CreateKey(k) ==
    /\ db[k].state = "none"
    /\ \E s \in SUBSET Scopes : StoreKey(k, s)
    /\ UNCHANGED <<cache, age, touch, req, limitVars>>

\* revoke-api-key: Get, then Update of the row.
RevokeKey(k) ==
    /\ db[k].state = "live"
    /\ UpdateKey(k, "revoked")
    /\ UNCHANGED <<cache, age, touch, req, limitVars>>

\* delete-api-key.
DeleteKey(k) ==
    /\ db[k].state \in {"live", "revoked"}
    /\ DeleteRow(k)
    /\ UNCHANGED <<cache, age, touch, req, limitVars>>

Tick ==
    /\ \A w \in Requests : req[w].pc \notin {"fill", "check", "granted"}
    /\ cache' = [k \in Keys |-> [cache[k] EXCEPT !.left = IF @ = 0 THEN 0 ELSE @ - 1]]
    /\ age' = [k \in Keys |-> IF db[k].state \in {"revoked", "deleted"} /\ age[k] < MaxAge
                                THEN age[k] + 1 ELSE age[k]]
    /\ UNCHANGED <<db, touch, req, limitVars>>

Next ==
    \/ \E w \in Requests :
         \/ Arrive(w) \/ LoadLimiter(w) \/ NewLimiter(w) \/ Allow(w)
         \/ Lookup(w) \/ ReadKey(w) \/ FillCache(w) \/ Check(w) \/ Finish(w)
    \/ Idle \/ SweepLook \/ SweepDelete \/ Tick
    \/ \E k \in Keys : CreateKey(k) \/ RevokeKey(k) \/ DeleteKey(k)

Spec == Init /\ [][Next]_vars

-----------------------------------------------------------------------------
\* A request whose key was revoked or deleted is let through for at most Ttl
\* ticks after that, and for Ttl ticks more for every use of the key that was
\* recorded meanwhile (CachedStore: "how long the key can be cached before
\* checking the database again").
RevocationBounded ==
    \A w \in Requests : LET k == req[w].key IN
      req[w].pc = "granted" /\ db[k].state # "live" => age[k] <= Ttl * (1 + touch[k])

\* A request is only let through with a key that the database has had with the
\* scope that the route requires.
GrantedScope ==
    \A w \in Requests :
      req[w].pc = "granted" => req[w].need \in db[req[w].key].scopes

\* Between two idle periods a client gets no more through than one bucket, one
\* more if the clean-up has taken the first away, and one for every other request
\* that was making a limiter at the same time.
Limited == allowed <= Limit
=============================================================================
