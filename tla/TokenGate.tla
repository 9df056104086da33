------------------------------- MODULE TokenGate -------------------------------
(***************************************************************************)
(* Who may call an MCP server over HTTP: the middleware that tries a       *)
(* bearer token, an API key, or one after the other                        *)
(* (talk-libs/mcpserver/auth.go), and the cache of the public keys of the  *)
(* authorization server that tokens are verified with (jwks.go).           *)
(*                                                                         *)
(* Requests run concurrently and share the cache, which one of them        *)
(* refreshes, under a lock, while the others wait; the authorization       *)
(* server replaces its keys and fails when it likes.                       *)
(*                                                                         *)
(* What is abstracted: a token is the key that signed it and what else is  *)
(* wrong with it; the library's own part of the verification is external.  *)
(* Time is kept as ages that stop counting where nothing depends on them   *)
(* any more, so that it has no bound. A fetch takes up to FetchTime, a     *)
(* step of a goroutine less than one unit: at most one tick falls into it. *)
(***************************************************************************)
EXTENDS Naturals

CONSTANTS
  Requests,        \* the goroutines that handle requests, one after another
  Keys,            \* ids of keys of the authorization server
  Rotating,        \* those it publishes and withdraws
  Credentials,     \* what a request may carry
  Configurations,  \* what a server may accept
  Ttl,             \* CacheTTL (1 hour)
  FetchTime,       \* the HTTP client's timeout (10 s)
  None             \* no bearer token; nobody

(* token: "good", or "bad" (expired, wrong audience, forged), or "narrow"  *)
(* (good, without the scopes the server requires).                         *)
Credential == [key : Keys \cup {None}, token : {"good", "bad", "narrow"},
               apiKey : {"none", "right", "wrong"}]

ASSUME GateAssumption ==
  /\ None \notin Keys \cup Requests
  /\ Rotating \subseteq Keys /\ Rotating # Keys
  /\ Credentials \subseteq Credential
  /\ Configurations \subseteq SUBSET {"oauth", "apiKey"}
  /\ Ttl \in Nat \ {0}
  /\ FetchTime \in Nat \ {0}

VARIABLES
  accepts,    \* the methods the server is configured with
  published,  \* keys at the authorization server
  changed,    \* history variable: time since each key was published or withdrawn
  keys,       \* jwksCache.keys: the ids
  age,        \* of these: time since jwksCache.fetchedAt
  lock,       \* the request that holds jwksCache.mu for writing
  first,      \* those waiting to read, whom RWMutex lets in before a writer
  carries,    \* the credentials of each request, or none before the first
  pc,         \* where each request is
  spent,      \* the time it has been there
  answer      \* what the authorization server answered its fetch

server == <<published, changed>>
cache  == <<keys, age>>
mutex  == <<lock, first>>
vars   == <<accepts, server, cache, mutex, carries, pc, spent, answer>>

Answers  == {"served", "refused", "forbidden"}
Reading  == {"read", "reread"}
Fetching == {"fetching", "answered"}
LongAgo  == Ttl + 2 * FetchTime + 1

TypeOK ==
  /\ accepts \in Configurations
  /\ published \in SUBSET Keys
  /\ changed \in [Keys -> 0..LongAgo]
  /\ keys \in SUBSET Keys
  /\ age \in 0..Ttl
  /\ lock \in Requests \cup {None} /\ (lock # None => pc[lock] \in Fetching)
  /\ first \in SUBSET Requests
  /\ carries \in [Requests -> Credential]
  /\ pc \in [Requests -> {"none", "lock"} \cup Reading \cup Fetching \cup Answers]
  /\ spent \in [Requests -> 0..FetchTime]
  /\ answer \in [Requests -> SUBSET Keys]

Nothing == [key |-> None, token |-> "bad", apiKey |-> "none"]

Init ==
  /\ accepts \in Configurations
  /\ published = Keys
  /\ changed = [k \in Keys |-> LongAgo]
  /\ keys = {}
  /\ age = Ttl
  /\ lock = None
  /\ first = {}
  /\ carries = [r \in Requests |-> Nothing]
  /\ pc = [r \in Requests |-> "none"]
  /\ spent = [r \in Requests |-> 0]
  /\ answer = [r \in Requests |-> {}]

Fresh == age < Ttl
-----------------------------------------------------------------------------
Goto(r, place) ==
  /\ pc' = [pc EXCEPT ![r] = place]
  /\ spent' = [spent EXCEPT ![r] = 0]

ByApiKey(credential) == IF credential.apiKey = "right" THEN "served" ELSE "refused"

(* The first check of each configuration: buildAuthMiddleware, and         *)
(* eitherAuthMiddleware where both methods are accepted.                   *)
FirstCheck(credential) ==
  CASE accepts = {}          -> "served"
    [] accepts = {"apiKey"} -> ByApiKey(credential)
    [] accepts = {"oauth"}   -> IF credential.key = None THEN "refused" ELSE "read"
    [] OTHER                 -> IF credential.key = None THEN ByApiKey(credential) ELSE "read"

Arrive(r, credential) ==
  /\ pc[r] \in {"none"} \cup Answers
  /\ carries' = [carries EXCEPT ![r] = credential]
  /\ Goto(r, FirstCheck(credential))
  /\ UNCHANGED <<accepts, server, cache, mutex, answer>>

(* A token that fails with 401 leaves the request its API key.             *)
Unauthorized(r) ==
  IF accepts = {"oauth", "apiKey"} THEN ByApiKey(carries[r]) ELSE "refused"

(* The rest of the verification, with the key of the token.                *)
Verdict(r) ==
  CASE carries[r].token = "good"   -> "served"
    [] carries[r].token = "narrow" -> "forbidden"
    [] carries[r].token = "bad"    -> Unauthorized(r)

MayRead(r) == pc[r] \in Reading /\ lock = None

(* getKey: a read of the cache, under the lock for reading.                *)
ReadCache(r) ==
  /\ pc[r] = "read"
  /\ MayRead(r)
  /\ first' = first \ {r}
  /\ Goto(r, IF Fresh /\ carries[r].key \in keys THEN Verdict(r) ELSE "lock")
  /\ UNCHANGED <<accepts, server, cache, lock, carries, answer>>

MayWrite(r) == pc[r] = "lock" /\ lock = None /\ first = {}

(* refresh: asks the authorization server, holding the lock.               *)
BeginFetch(r) ==
  /\ lock' = r
  /\ Goto(r, "fetching")
  /\ UNCHANGED <<accepts, server, cache, first, carries, answer>>

(* refresh: another request has refreshed the cache in the meantime.       *)
FoundFresh(r) ==
  /\ Goto(r, "reread")
  /\ UNCHANGED <<accepts, server, cache, mutex, carries, answer>>

(* Faulty: the double check forgets the age of the keys.                   *)
RefreshOnce(r) ==
  /\ MayWrite(r)
  /\ IF keys # {} THEN FoundFresh(r) ELSE BeginFetch(r)

(* refresh: takes the lock and checks again.                               *)
Refresh(r) ==
  /\ MayWrite(r)
  /\ IF Fresh /\ keys # {} THEN FoundFresh(r) ELSE BeginFetch(r)

(* The authorization server answers; the answer takes a while to arrive.   *)
ServerAnswers(r) ==
  /\ pc[r] = "fetching"
  /\ pc' = [pc EXCEPT ![r] = "answered"]
  /\ answer' = [answer EXCEPT ![r] = published]
  /\ UNCHANGED <<accepts, server, cache, mutex, carries, spent>>

(* The end of a fetch: those that have waited to read go first.            *)
EndFetch(r, place) ==
  /\ pc[r] \in Fetching
  /\ lock' = None
  /\ first' = {q \in Requests : pc[q] \in Reading /\ spent[q] > 0}
  /\ answer' = [answer EXCEPT ![r] = {}]
  /\ Goto(r, place)

(* Faulty: what is fetched is added to what is there.                      *)
AddKeys(r) ==
  /\ pc[r] = "answered"
  /\ keys' = keys \cup answer[r]
  /\ age' = 0
  /\ EndFetch(r, "reread")
  /\ UNCHANGED <<accepts, server, carries>>

StoreKeys(r) ==
  /\ pc[r] = "answered"
  /\ keys' = answer[r]
  /\ age' = 0
  /\ EndFetch(r, "reread")
  /\ UNCHANGED <<accepts, server, carries>>

(* Faulty: the lock is not given back on an error.                         *)
FetchFailsLocked(r) ==
  /\ pc[r] \in Fetching
  /\ answer' = [answer EXCEPT ![r] = {}]
  /\ Goto(r, Unauthorized(r))
  /\ UNCHANGED <<accepts, server, cache, mutex, carries>>

(* Faulty: the error is not wrapped as that of an invalid token.           *)
FetchFailsOtherwise(r) ==
  /\ EndFetch(r, "refused")
  /\ UNCHANGED <<accepts, server, cache, carries>>

(* The fetch fails, or its answer is of no use, or the client is gone. The *)
(* verifier reports any of these as an invalid token.                      *)
FetchFails(r) ==
  /\ EndFetch(r, Unauthorized(r))
  /\ UNCHANGED <<accepts, server, cache, carries>>

(* getKey, after refresh: whatever the age of the keys.                    *)
ReadAgain(r) ==
  /\ pc[r] = "reread"
  /\ MayRead(r)
  /\ first' = first \ {r}
  /\ Goto(r, IF carries[r].key \in keys THEN Verdict(r) ELSE Unauthorized(r))
  /\ UNCHANGED <<accepts, server, cache, lock, carries, answer>>
-----------------------------------------------------------------------------
(* The authorization server publishes a key, or withdraws it.              *)
Rotate(k) ==
  /\ published' = IF k \in published THEN published \ {k} ELSE published \cup {k}
  /\ changed' = [changed EXCEPT ![k] = 0]
  /\ UNCHANGED <<accepts, cache, mutex, carries, pc, spent, answer>>

Upto(bound, n) == IF n < bound THEN n + 1 ELSE bound

(* How long a request may stay where it is.                                *)
MayStay(r) ==
  CASE pc[r] \in Fetching                -> spent[r] < FetchTime
    [] pc[r] \in Reading \cup {"lock"}   -> spent[r] = 0 \/ lock # None
    [] OTHER                             -> TRUE

Waits(r) == pc[r] \in Reading \cup Fetching \cup {"lock"}

Tick ==
  /\ \A r \in Requests : MayStay(r)
  /\ age' = Upto(Ttl, age)
  /\ changed' = [k \in Keys |-> Upto(LongAgo, changed[k])]
  /\ spent' = [r \in Requests |-> IF Waits(r) THEN Upto(FetchTime, spent[r]) ELSE 0]
  /\ UNCHANGED <<accepts, published, keys, mutex, carries, pc, answer>>

Step(r) ==
  \/ ReadCache(r) \/ Refresh(r) \/ ServerAnswers(r) \/ StoreKeys(r)
  \/ FetchFails(r) \/ ReadAgain(r)

Next ==
  \/ \E r \in Requests : (\E credential \in Credentials : Arrive(r, credential)) \/ Step(r)
  \/ \E k \in Rotating : Rotate(k)
  \/ Tick

(* Requests go on; a fetch ends (the client has a timeout); the mutex is   *)
(* fair to those that wait for it.                                         *)
Spec ==
  /\ Init
  /\ [][Next]_vars
  /\ \A r \in Requests : SF_vars(ReadCache(r) \/ Refresh(r) \/ ReadAgain(r))
  /\ \A r \in Requests : WF_vars(ServerAnswers(r) \/ StoreKeys(r) \/ FetchFails(r))
-----------------------------------------------------------------------------
(* No key is accepted much longer than it was published, whatever other    *)
(* requests do with the cache meanwhile: getKey reads it a second time     *)
(* without looking at its age, possibly after the fetch of another request *)
(* has failed (jwks.go:156-167), hence two fetch times and not one.        *)
TrustsKey(r) ==
  /\ pc[r] \in Reading
  /\ \/ pc'[r] = "forbidden"
     \/ pc'[r] = "served" /\ carries[r].token = "good" /\ carries[r].apiKey # "right"

StaleKeysExpire ==
  [][\A r \in Requests :
       TrustsKey(r) =>
         carries[r].key \in published \/ changed[carries[r].key] <= Ttl + 2 * FetchTime]_vars

(* A good token that was looked up is refused only if its key is withdrawn *)
(* or so new that the keys known before had not expired when it was: a key *)
(* the cache misses is not fetched before (jwks.go:175).                   *)
RefusalsAreExplained ==
  [][\A r \in Requests :
       pc[r] = "reread" /\ carries[r].token = "good" /\ pc'[r] = "refused" =>
         \/ carries[r].key \notin published
         \/ changed[carries[r].key] <= Ttl + 2 * FetchTime]_vars

(* Where an API key is accepted, the right one is enough: not even an      *)
(* unreachable authorization server makes the token beside it do harm,     *)
(* unless the token is good and lacks a scope (auth.go:138-171).           *)
ApiKeySuffices ==
  \A r \in Requests : pc[r] = "refused" /\ "apiKey" \in accepts => carries[r].apiKey # "right"

(* Every request is answered, also those that wait for the refresh of      *)
(* another, whose fetch fails.                                             *)
EveryRequestAnswered == \A r \in Requests : Waits(r) ~> pc[r] \in Answers
=============================================================================
