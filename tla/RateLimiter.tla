------------------------------- MODULE RateLimiter -------------------------------
(***************************************************************************)
(* The way of a request to the handlers of an MCP server: who the client   *)
(* is (trustedClientIP), its rate limiter (ipRateLimiter, rateLimitMiddle- *)
(* ware) and the path filter (restrictPathMiddleware), in                  *)
(* talk-libs/mcpserver/security.go. Module TokenGate goes on from there.   *)
(*                                                                         *)
(* One goroutine per request and one that cleans up share the entries of   *)
(* the limiter. A request fetches its limiter under the lock and asks it   *)
(* for a token outside it, so that the entry may be gone by then.          *)
(*                                                                         *)
(* What is abstracted: addresses are model values, time passes in units of *)
(* which the limiter's ttl and its cleaning period are multiples, and the  *)
(* headers the middleware sets are left out. The token bucket itself is    *)
(* golang.org/x/time/rate, as this code uses it.                           *)
(***************************************************************************)
EXTENDS Naturals

CONSTANTS
  Peers,      \* remote addresses: a host and a port
  Hosts,
  HostOf,     \* the host of each peer
  Forwarding, \* the requests there are: the peer and the client it names
  ProxyLists, \* settings of HTTP_TRUSTED_PROXIES to consider
  Requests,   \* request slots, used again and again
  Limiters,   \* limiter objects, used again when nobody refers to them
  None,
  Burst, Rate,
  Ttl,        \* idle time after which an entry may go (10 min)
  Period,     \* time between two cleanups (5 min)
  MaxHold     \* how long a request may keep a limiter before asking it

Keys == Peers \cup Hosts   \* what entries are filed under

ASSUME LimiterAssumption ==
  /\ HostOf \in [Peers -> Hosts]
  /\ Forwarding \subseteq [peer : Peers, forwarded : Hosts \cup {None}]
  /\ ProxyLists \subseteq SUBSET Hosts
  /\ None \notin Keys \cup Limiters
  /\ Burst \in Nat /\ Rate \in Nat
  /\ Ttl \in Nat /\ Period \in Nat \ {0} /\ MaxHold \in Nat

(* A request is on its way for less than the ttl, and a bucket is full     *)
(* again before the ttl of its entry has passed (the defaults need one     *)
(* second of 600).                                                         *)
ASSUME RefillAssumption ==
  /\ MaxHold <= Ttl
  /\ Burst <= Rate * (Ttl + 1 - MaxHold)

VARIABLES
  proxies,  \* TrustedProxies: empty means all are trusted
  entries,  \* the limiter of each key, or None
  idle,     \* time since lastSeen of each entry
  tokens,   \* what each limiter holds
  since,    \* time since the last cleanup
  request   \* where each request is, with its limiter

shared == <<entries, idle, tokens>>
vars   == <<proxies, shared, since, request>>

Oldest    == Ttl + Period
Answers   == {"limited", "not found", "handled"}
Place     == {"none", "held"} \cup Answers
Slot      == [place : Place, key : Keys \cup {None},
              limiter : Limiters \cup {None}, held : 0..MaxHold]

At(place) == [place |-> place, key |-> None, limiter |-> None, held |-> 0]
Held(r)   == request[r].place = "held"

TypeOK ==
  /\ proxies \in SUBSET Hosts
  /\ entries \in [Keys -> Limiters \cup {None}]
  /\ idle \in [Keys -> 0..(Oldest + 1)]
  /\ tokens \in [Limiters -> 0..Burst]
  /\ since \in 0..Period
  /\ request \in [Requests -> Slot]

Init ==
  /\ proxies \in ProxyLists
  /\ entries = [k \in Keys |-> None]
  /\ idle = [k \in Keys |-> 0]
  /\ tokens = [n \in Limiters |-> Burst]
  /\ since = 0
  /\ request = [r \in Requests |-> At("none")]
-----------------------------------------------------------------------------
(* clientIP: the client a header names, else the address of the connection,*)
(* its port included.                                                      *)
ClientIP(from) == IF from.forwarded = None THEN from.peer ELSE from.forwarded

(* trustedClientIP, for a list of trusted proxies.                         *)
ClientOf(trusted, from) ==
  IF trusted = {} \/ HostOf[from.peer] \in trusted
    THEN ClientIP(from)
    ELSE HostOf[from.peer]

Present == {k \in Keys : entries[k] # None}

InUse == {entries[k] : k \in Present} \cup {request[r].limiter : r \in Requests}

(* get, under the lock: the limiter of a key, a new one if it has none.    *)
Get(r, k) ==
  /\ \/ /\ entries[k] # None
        /\ request' = [request EXCEPT ![r] =
             [place |-> "held", key |-> k, limiter |-> entries[k], held |-> 0]]
        /\ UNCHANGED <<entries, tokens>>
     \/ /\ entries[k] = None
        /\ Limiters \ InUse # {}
        /\ LET new == CHOOSE n \in Limiters : n \notin InUse
           IN  /\ entries' = [entries EXCEPT ![k] = new]
               /\ tokens' = [tokens EXCEPT ![new] = Burst]
               /\ request' = [request EXCEPT ![r] =
                    [place |-> "held", key |-> k, limiter |-> new, held |-> 0]]
  /\ idle' = [idle EXCEPT ![k] = 0]

Arrive(r) ==
  /\ ~Held(r)
  /\ \E from \in Forwarding : Get(r, ClientOf(proxies, from))
  /\ UNCHANGED <<proxies, since>>

(* Faulty: the limiter is never empty.                                     *)
AnyToken(n) == TRUE

(* Allow: is there a token?                                                *)
HasToken(n) == tokens[n] > 0

(* Allow takes a token, and the path decides what the request is for.      *)
PassOn(r) ==
  /\ Held(r)
  /\ HasToken(request[r].limiter)
  /\ tokens' = [tokens EXCEPT ![request[r].limiter] = @ - 1]
  /\ \E place \in {"handled", "not found"} : request' = [request EXCEPT ![r] = At(place)]
  /\ UNCHANGED <<proxies, entries, idle, since>>

(* Without a token: 429 Too Many Requests.                                 *)
Refuse(r) ==
  /\ Held(r)
  /\ ~HasToken(request[r].limiter)
  /\ request' = [request EXCEPT ![r] = At("limited")]
  /\ UNCHANGED <<proxies, shared, since>>
-----------------------------------------------------------------------------
(* Faulty: one unit too early.                                             *)
StaleEarly(k) == entries[k] # None /\ idle[k] >= Ttl

(* Faulty: nothing is stale the first time round.                          *)
StaleLate(k) == entries[k] # None /\ idle[k] > Ttl + Period

Stale(k) == entries[k] # None /\ idle[k] > Ttl

(* cleanup, under the lock, once per Period.                               *)
Cleanup ==
  /\ since = Period
  /\ since' = 0
  /\ entries' = [k \in Keys |-> IF Stale(k) THEN None ELSE entries[k]]
  /\ idle' = [k \in Keys |-> IF Stale(k) THEN 0 ELSE idle[k]]
  /\ UNCHANGED <<proxies, tokens, request>>

Upto(bound, n) == IF n < bound THEN n ELSE bound

(* Time passes: limiters fill up. Cleanups are punctual, and no request    *)
(* keeps its limiter longer than MaxHold.                                  *)
Tick ==
  /\ since < Period
  /\ \A r \in Requests : Held(r) => request[r].held < MaxHold
  /\ since' = since + 1
  /\ idle' = [k \in Keys |-> IF entries[k] = None THEN 0 ELSE Upto(Oldest + 1, idle[k] + 1)]
  /\ tokens' = [n \in Limiters |-> Upto(Burst, tokens[n] + Rate)]
  /\ request' = [r \in Requests |->
       IF Held(r) THEN [request[r] EXCEPT !.held = @ + 1] ELSE request[r]]
  /\ UNCHANGED <<proxies, entries>>

Next ==
  \/ \E r \in Requests : Arrive(r) \/ PassOn(r) \/ Refuse(r)
  \/ Cleanup
  \/ Tick

Spec == Init /\ [][Next]_vars
-----------------------------------------------------------------------------
(* The limiter a request is about to ask is the one its client's next      *)
(* request will get: no cleanup comes between get and Allow, though Allow  *)
(* runs outside the lock (security.go:139).                                *)
HeldLimiterIsCurrent ==
  \A r \in Requests : Held(r) => entries[request[r].key] = request[r].limiter

(* An entry unused for the ttl is gone after one period more, so that the  *)
(* entries are those of the clients of the last fifteen minutes            *)
(* (docs/mcp-server-secured.md:65).                                        *)
EntriesExpire == \A k \in Keys : idle[k] <= Oldest

BucketOf(k) == IF entries[k] = None THEN Burst ELSE tokens[entries[k]]

VerdictOf(r) ==
  CASE request[r].place \in {"handled", "not found"} -> "passed"
    [] request[r].place = "limited" -> "limited"
    [] OTHER -> "none"

Buckets ==
  INSTANCE ClientBuckets
    WITH Clients <- Hosts,
         Others <- Keys \ Hosts,
         Nobody <- None,
         bucket <- [h \in Hosts |-> BucketOf(h)],
         asker <- [r \in Requests |-> request[r].key],
         verdict <- [r \in Requests |-> VerdictOf(r)]

(* Forgetting idle clients, making new limiters and asking them outside    *)
(* the lock do not show: every IP that is known to the limiter has one     *)
(* bucket that is never forgotten, whatever connections bring its          *)
(* requests, and a request for an unknown path costs a token like any      *)
(* other. A request that nobody names a client for is filed under its      *)
(* connection's address and port (http.go:180): no promise is made of it   *)
(* here, though docs/mcp-server-secured.md:59 and security.go:16 speak of  *)
(* the client IP without exception.                                        *)
ClientsKeepTheirBucket == Buckets!Spec
=============================================================================
