---------------------------- MODULE RateLimiterProofs ----------------------------
(***************************************************************************)
(* Theorems about RateLimiter, for any peers, hosts, requests, bucket      *)
(* sizes and times that meet its assumptions.                              *)
(***************************************************************************)
EXTENDS RateLimiter, TLAPS

Gain(n) == Rate * n

(* No two keys share a limiter.                                            *)
OwnLimiters == \A j, k \in Keys : entries[j] # None /\ entries[j] = entries[k] => j = k

(* The entry of a request that holds a limiter was seen when it got it.    *)
HeldIsFresh ==
  \A r \in Requests : Held(r) =>
    /\ request[r].key \in Keys
    /\ request[r].limiter \in Limiters
    /\ entries[request[r].key] = request[r].limiter
    /\ idle[request[r].key] <= request[r].held

(* Cleanups leave no entry older than the ttl.                             *)
AgesAreBounded ==
  \A k \in Keys : idle[k] <= Ttl + since /\ (entries[k] = None => idle[k] = 0)

(* A limiter nobody has asked for longer than a request may hold it has    *)
(* been filling up since.                                                  *)
IdleFillUp ==
  \A k \in Keys : entries[k] # None /\ idle[k] > MaxHold =>
    tokens[entries[k]] >= Upto(Burst, Gain(idle[k] - MaxHold))

IInv == TypeOK /\ OwnLimiters /\ HeldIsFresh /\ AgesAreBounded /\ IdleFillUp
-----------------------------------------------------------------------------
(* What a bucket gains with time.                                          *)
LEMMA GainIsSteady ==
  ASSUME NEW n \in Nat
  PROVE  Gain(n) \in Nat /\ Gain(n + 1) = Gain(n) + Rate
  BY LimiterAssumption DEF Gain

LEMMA GainGrows ==
  ASSUME NEW m \in Nat, NEW n \in Nat, m <= n
  PROVE  Gain(m) <= Gain(n)
  <1>1. PICK d \in Nat : n = m + d
    <2>1. n - m \in Nat /\ n = m + (n - m)
      OBVIOUS
    <2> QED BY <2>1
  <1>2. Gain(n) = Gain(m) + Gain(d)
    BY <1>1, LimiterAssumption DEF Gain
  <1> QED BY <1>2, GainIsSteady

LEMMA InitInv == Init => IInv
  BY LimiterAssumption DEF Init, IInv, TypeOK, OwnLimiters, HeldIsFresh, AgesAreBounded,
     IdleFillUp, At, Held, Slot, Place, Answers, Oldest
-----------------------------------------------------------------------------
(* get gives a request the limiter its key is filed with, known or new.    *)
LEMMA GetKeepsInv ==
  ASSUME IInv, NEW r \in Requests, NEW k \in Keys, ~Held(r), Get(r, k),
         UNCHANGED <<proxies, since>>
  PROVE  IInv'
  <1> USE LimiterAssumption DEF IInv
  <1>k. None \notin Keys /\ None \notin Limiters
    OBVIOUS
  <1>1. CASE entries[k] # None
    <2>1. /\ UNCHANGED <<entries, tokens, proxies, since>>
          /\ idle' = [idle EXCEPT ![k] = 0]
          /\ request' = [request EXCEPT ![r] =
               [place |-> "held", key |-> k, limiter |-> entries[k], held |-> 0]]
      BY <1>1 DEF Get
    <2>2. entries[k] \in Limiters
      BY <1>1 DEF TypeOK
    <2>3. TypeOK'
      BY <2>1, <2>2 DEF TypeOK, Slot, Place, Oldest
    <2>4. OwnLimiters'
      BY <2>1 DEF OwnLimiters
    <2>5. HeldIsFresh'
      BY <2>1, <2>2 DEF HeldIsFresh, Held, TypeOK, Slot, Oldest
    <2>6. AgesAreBounded'
      BY <2>1 DEF AgesAreBounded, TypeOK
    <2>7. IdleFillUp'
      BY <2>1 DEF IdleFillUp, TypeOK
    <2> QED BY <2>3, <2>4, <2>5, <2>6, <2>7
  <1>2. CASE entries[k] = None
    <2> DEFINE new == CHOOSE n \in Limiters : n \notin InUse
    <2>0. \E n \in Limiters : n \notin InUse
      BY <1>2 DEF Get
    <2>1. new \in Limiters /\ new \notin InUse
      BY <2>0
    <2>2. /\ UNCHANGED <<proxies, since>>
          /\ entries' = [entries EXCEPT ![k] = new]
          /\ tokens' = [tokens EXCEPT ![new] = Burst]
          /\ idle' = [idle EXCEPT ![k] = 0]
          /\ request' = [request EXCEPT ![r] =
               [place |-> "held", key |-> k, limiter |-> new, held |-> 0]]
      BY <1>2 DEF Get
    <2> HIDE DEF new
    <2>3. \A j \in Keys : entries[j] # new
      BY <2>1, <1>k DEF InUse, Present
    <2>4. TypeOK'
      BY <2>1, <2>2 DEF TypeOK, Slot, Place, Oldest
    <2>5. OwnLimiters'
      BY <2>2, <2>3 DEF OwnLimiters, TypeOK
    <2>6. HeldIsFresh'
      <3> SUFFICES ASSUME NEW q \in Requests, Held(q)'
                   PROVE  /\ request'[q].key \in Keys
                          /\ request'[q].limiter \in Limiters
                          /\ entries'[request'[q].key] = request'[q].limiter
                          /\ idle'[request'[q].key] <= request'[q].held
        BY DEF HeldIsFresh
      <3>1. CASE q = r
        BY <3>1, <2>1, <2>2 DEF TypeOK
      <3>2. CASE q # r
        <4>1. Held(q) /\ request'[q] = request[q]
          BY <3>2, <2>2 DEF Held, TypeOK
        <4>2. request[q].key # k
          BY <4>1, <1>2, <1>k DEF HeldIsFresh
        <4> QED BY <4>1, <4>2, <2>2 DEF HeldIsFresh, TypeOK
      <3> QED BY <3>1, <3>2
    <2>7. AgesAreBounded'
      BY <2>2 DEF AgesAreBounded, TypeOK
    <2>8. IdleFillUp'
      BY <2>2, <2>3 DEF IdleFillUp, TypeOK
    <2> QED BY <2>4, <2>5, <2>6, <2>7, <2>8
  <1> QED BY <1>1, <1>2

LEMMA AgesAreNumbers == ASSUME TypeOK, NEW k \in Keys PROVE idle[k] \in Nat
  BY LimiterAssumption DEF TypeOK, Oldest

LEMMA ClientIsKey == \A from \in Forwarding : ClientOf(proxies, from) \in Keys
  BY LimiterAssumption DEF ClientOf, ClientIP, Keys

LEMMA AtIsSlot == \A place \in Place : At(place) \in Slot
  BY LimiterAssumption DEF At, Slot

LEMMA HeldNow ==
  ASSUME TypeOK, HeldIsFresh, NEW r \in Requests, Held(r)
  PROVE  /\ request[r].key \in Keys
         /\ request[r].limiter \in Limiters
         /\ entries[request[r].key] = request[r].limiter
         /\ idle[request[r].key] \in Nat
         /\ idle[request[r].key] <= MaxHold
  <1>1. request[r] \in Slot /\ request[r].held \in 0..MaxHold
    BY DEF TypeOK, Slot
  <1>2. /\ request[r].key \in Keys
        /\ request[r].limiter \in Limiters
        /\ entries[request[r].key] = request[r].limiter
        /\ idle[request[r].key] <= request[r].held
    BY DEF HeldIsFresh
  <1>3. idle[request[r].key] \in 0..(Oldest + 1)
    BY <1>2 DEF TypeOK
  <1> QED BY <1>1, <1>2, <1>3, LimiterAssumption DEF Oldest

LEMMA Apart ==
  ASSUME NEW m \in Nat, NEW n \in Nat, m > MaxHold, n <= MaxHold
  PROVE  m # n
  BY LimiterAssumption

LEMMA OneLess == ASSUME NEW t \in 0..Burst, t > 0 PROVE t - 1 \in 0..Burst
  BY LimiterAssumption

(* A token is taken only from the limiter of an entry seen a moment ago.   *)
LEMMA PassKeepsInv == ASSUME IInv, NEW r \in Requests, PassOn(r) PROVE IInv'
  <1> USE LimiterAssumption DEF IInv
  <1>h. PICK k \in Keys, n \in Limiters :
          /\ k = request[r].key /\ n = request[r].limiter
          /\ entries[k] = n /\ idle[k] <= MaxHold
    BY HeldNow DEF PassOn
  <1>0. PICK place \in {"handled", "not found"} : request' = [request EXCEPT ![r] = At(place)]
    BY DEF PassOn
  <1>1. /\ UNCHANGED <<proxies, entries, idle, since>>
        /\ tokens' = [tokens EXCEPT ![n] = @ - 1]
        /\ Held(r) /\ tokens[n] > 0
    BY <1>h DEF PassOn, HasToken
  <1>2. entries[k] = n /\ idle[k] <= MaxHold
    BY <1>h
  <1>3. TypeOK'
    <2>1. request' \in [Requests -> Slot]
      BY <1>0, AtIsSlot DEF TypeOK, Place, Answers
    <2>2. tokens' \in [Limiters -> 0..Burst]
      <3>1. tokens[n] \in 0..Burst
        BY <1>2 DEF TypeOK
      <3>2. tokens[n] > 0
        BY <1>1
      <3>3. tokens[n] - 1 \in 0..Burst
        BY <3>1, <3>2, OneLess
      <3> QED BY <3>3, <1>1 DEF TypeOK
    <2> QED BY <2>1, <2>2, <1>1 DEF TypeOK
  <1>4. OwnLimiters' /\ AgesAreBounded'
    BY <1>1 DEF OwnLimiters, AgesAreBounded
  <1>5. HeldIsFresh'
    BY <1>0, <1>1 DEF HeldIsFresh, Held, At, TypeOK
  <1>6. IdleFillUp'
    <2> SUFFICES ASSUME NEW j \in Keys, entries[j] # None, idle[j] > MaxHold
                 PROVE  tokens'[entries[j]] >= Upto(Burst, Gain(idle[j] - MaxHold))
      BY <1>1 DEF IdleFillUp
    <2>1. j # k
      <3>1. idle[j] \in Nat /\ idle[k] \in Nat
        BY <1>2, AgesAreNumbers
      <3>2. idle[k] <= MaxHold
        BY <1>2
      <3>3. idle[j] # idle[k]
        BY <3>1, <3>2, Apart
      <3> QED BY <3>3
    <2>2. entries[j] # n
      BY <2>1, <1>2 DEF OwnLimiters
    <2>3. tokens'[entries[j]] = tokens[entries[j]]
      <3>1. entries[j] \in Limiters
        BY DEF TypeOK
      <3> QED BY <3>1, <2>2, <1>1 DEF TypeOK
    <2> QED BY <2>3 DEF IdleFillUp
  <1> QED BY <1>3, <1>4, <1>5, <1>6

LEMMA RefuseKeepsInv == ASSUME IInv, NEW r \in Requests, Refuse(r) PROVE IInv'
  <1> USE LimiterAssumption DEF IInv
  <1>1. /\ UNCHANGED <<proxies, entries, idle, tokens, since>>
        /\ request' = [request EXCEPT ![r] = At("limited")]
    BY DEF Refuse, shared
  <1>2. TypeOK'
    BY <1>1, AtIsSlot DEF TypeOK, Place, Answers
  <1>3. OwnLimiters' /\ AgesAreBounded' /\ IdleFillUp'
    BY <1>1 DEF OwnLimiters, AgesAreBounded, IdleFillUp
  <1>4. HeldIsFresh'
    BY <1>1 DEF HeldIsFresh, Held, At, TypeOK
  <1> QED BY <1>2, <1>3, <1>4

(* Cleanup takes the entries of clients that are not being served.         *)
LEMMA CleanupKeepsInv == ASSUME IInv, Cleanup PROVE IInv'
  <1> USE LimiterAssumption DEF IInv
  <1>1. /\ UNCHANGED <<proxies, tokens, request>>
        /\ since = Period /\ since' = 0
        /\ entries' = [k \in Keys |-> IF Stale(k) THEN None ELSE entries[k]]
        /\ idle' = [k \in Keys |-> IF Stale(k) THEN 0 ELSE idle[k]]
    BY DEF Cleanup
  <1>2. \A k \in Keys : idle[k] \in 0..(Oldest + 1) /\ entries[k] \in Limiters \cup {None}
    BY DEF TypeOK
  <1>3. TypeOK'
    BY <1>1, <1>2 DEF TypeOK, Oldest
  <1>4. OwnLimiters'
    BY <1>1 DEF OwnLimiters
  <1>5. HeldIsFresh'
    <2> SUFFICES ASSUME NEW r \in Requests, Held(r)
                 PROVE  ~Stale(request[r].key)
      BY <1>1 DEF HeldIsFresh, Held
    <2> QED BY HeldNow, RefillAssumption DEF Stale
  <1>6. AgesAreBounded'
    <2> SUFFICES ASSUME NEW k \in Keys
                 PROVE  idle'[k] <= Ttl + since' /\ (entries'[k] = None => idle'[k] = 0)
      BY DEF AgesAreBounded
    <2>1. CASE entries[k] = None
      <3>1. idle[k] = 0 /\ ~Stale(k)
        BY <2>1 DEF AgesAreBounded, Stale
      <3> QED BY <3>1, <1>1
    <2>2. CASE entries[k] # None
      <3>1. CASE Stale(k)
        BY <3>1, <1>1
      <3>2. CASE ~Stale(k)
        BY <2>2, <3>2, <1>1, <1>2 DEF Stale, Oldest
      <3> QED BY <3>1, <3>2
    <2> QED BY <2>1, <2>2
  <1>7. IdleFillUp'
    BY <1>1, <1>2 DEF IdleFillUp
  <1> QED BY <1>3, <1>4, <1>5, <1>6, <1>7

(* Time passes.                                                            *)
LEMMA TickKeepsInv == ASSUME IInv, Tick PROVE IInv'
  <1> USE LimiterAssumption DEF IInv
  <1>1. /\ UNCHANGED <<proxies, entries>>
        /\ since < Period /\ since' = since + 1
        /\ idle' = [k \in Keys |-> IF entries[k] = None THEN 0 ELSE Upto(Oldest + 1, idle[k] + 1)]
        /\ tokens' = [n \in Limiters |-> Upto(Burst, tokens[n] + Rate)]
        /\ request' = [r \in Requests |->
             IF Held(r) THEN [request[r] EXCEPT !.held = @ + 1] ELSE request[r]]
        /\ \A r \in Requests : Held(r) => request[r].held < MaxHold
    BY DEF Tick
  <1>2. \A k \in Keys : idle[k] \in 0..(Oldest + 1) /\ entries[k] \in Limiters \cup {None}
    BY DEF TypeOK
  <1>3. \A n \in Limiters : tokens[n] \in 0..Burst
    BY DEF TypeOK
  <1>4. TypeOK'
    <2>1. request' \in [Requests -> Slot]
      <3> SUFFICES ASSUME NEW r \in Requests
                   PROVE  (IF Held(r) THEN [request[r] EXCEPT !.held = @ + 1] ELSE request[r]) \in Slot
        BY <1>1
      <3>1. request[r] \in Slot
        BY DEF TypeOK
      <3> QED BY <3>1, <1>1 DEF Slot
    <2>2. idle' \in [Keys -> 0..(Oldest + 1)] /\ tokens' \in [Limiters -> 0..Burst]
      BY <1>1, <1>2, <1>3 DEF Upto, Oldest
    <2>3. since' \in 0..Period
      BY <1>1 DEF TypeOK
    <2> QED BY <2>1, <2>2, <2>3, <1>1 DEF TypeOK
  <1>5. OwnLimiters'
    BY <1>1 DEF OwnLimiters
  <1>6. HeldIsFresh'
    <2> SUFFICES ASSUME NEW r \in Requests, Held(r)'
                 PROVE  /\ request'[r].key \in Keys
                        /\ request'[r].limiter \in Limiters
                        /\ entries'[request'[r].key] = request'[r].limiter
                        /\ idle'[request'[r].key] <= request'[r].held
      BY DEF HeldIsFresh
    <2>1. request[r] \in Slot
      BY DEF TypeOK
    <2>2. Held(r)
      BY <1>1, <2>1 DEF Held, Slot
    <2>3. /\ request'[r].key = request[r].key
          /\ request'[r].limiter = request[r].limiter
          /\ request'[r].held = request[r].held + 1
      BY <1>1, <2>1, <2>2 DEF Slot
    <2>4. /\ request[r].key \in Keys
          /\ request[r].limiter \in Limiters
          /\ entries[request[r].key] = request[r].limiter
          /\ idle[request[r].key] <= request[r].held
      BY <2>2 DEF HeldIsFresh
    <2>5. idle'[request[r].key] <= idle[request[r].key] + 1
      BY <1>1, <1>2, <2>4 DEF Upto, Oldest
    <2>6. request[r].held \in Nat /\ idle[request[r].key] \in Nat /\ idle'[request[r].key] \in Nat
      BY <2>1, <2>4, <1>2, <1>4 DEF Slot, TypeOK, Oldest
    <2> QED BY <1>1, <2>3, <2>4, <2>5, <2>6
  <1>7. AgesAreBounded'
    <2> SUFFICES ASSUME NEW k \in Keys
                 PROVE  idle'[k] <= Ttl + since' /\ (entries'[k] = None => idle'[k] = 0)
      BY DEF AgesAreBounded
    <2>1. idle[k] <= Ttl + since /\ (entries[k] = None => idle[k] = 0)
      BY DEF AgesAreBounded
    <2>2. since \in Nat
      BY DEF TypeOK
    <2> QED BY <1>1, <1>2, <2>1, <2>2 DEF Upto, Oldest
  <1>8. IdleFillUp'
    <2> SUFFICES ASSUME NEW k \in Keys, entries[k] # None, idle'[k] > MaxHold
                 PROVE  tokens'[entries[k]] >= Upto(Burst, Gain(idle'[k] - MaxHold))
      BY <1>1 DEF IdleFillUp
    <2> DEFINE n == entries[k]
               i == idle[k]
    <2>1. /\ n \in Limiters /\ i \in Nat /\ tokens[n] \in Nat /\ tokens[n] <= Burst
          /\ i <= Ttl + since /\ since \in Nat /\ since < Period
      BY <1>1, <1>2, <1>3 DEF AgesAreBounded, TypeOK
    <2>2. idle'[k] = i + 1
      BY <1>1, <2>1 DEF Upto, Oldest
    <2>3. tokens'[n] = Upto(Burst, tokens[n] + Rate)
      BY <1>1, <2>1
    <2> HIDE DEF n, i
    <2>4. i - MaxHold \in Nat
      BY <2>1, <2>2
    <2>5. /\ Gain(i - MaxHold) \in Nat
          /\ Gain((i - MaxHold) + 1) = Gain(i - MaxHold) + Rate
      BY <2>4, GainIsSteady
    <2>6. (i + 1) - MaxHold = (i - MaxHold) + 1
      BY <2>1
    <2>7. tokens[n] >= Upto(Burst, Gain(i - MaxHold))
      <3>1. CASE i > MaxHold
        BY <3>1 DEF IdleFillUp, n, i
      <3>2. CASE i = MaxHold
        <4>1. Gain(i - MaxHold) = 0
          BY <3>2 DEF Gain
        <4> QED BY <4>1, <2>1 DEF Upto
      <3> QED BY <3>1, <3>2, <2>1, <2>4
    <2>8. tokens'[n] >= Upto(Burst, Gain(i - MaxHold) + Rate)
      BY <2>1, <2>3, <2>5, <2>7 DEF Upto
    <2> QED BY <2>2, <2>5, <2>6, <2>8 DEF n
  <1> QED BY <1>4, <1>5, <1>6, <1>7, <1>8
-----------------------------------------------------------------------------
LEMMA StepKeepsInv == IInv /\ [Next]_vars => IInv'
  <1> SUFFICES ASSUME IInv, [Next]_vars PROVE IInv'
    OBVIOUS
  <1>1. ASSUME NEW r \in Requests, Arrive(r) PROVE IInv'
    <2>1. ~Held(r) /\ UNCHANGED <<proxies, since>>
      BY <1>1 DEF Arrive
    <2>2. PICK from \in Forwarding : Get(r, ClientOf(proxies, from))
      BY <1>1 DEF Arrive
    <2>3. ClientOf(proxies, from) \in Keys
      BY ClientIsKey
    <2> QED BY <2>1, <2>2, <2>3, GetKeepsInv
  <1>2. ASSUME NEW r \in Requests, PassOn(r) PROVE IInv'
    BY <1>2, PassKeepsInv
  <1>3. ASSUME NEW r \in Requests, Refuse(r) PROVE IInv'
    BY <1>3, RefuseKeepsInv
  <1>4. CASE Cleanup
    BY <1>4, CleanupKeepsInv
  <1>5. CASE Tick
    BY <1>5, TickKeepsInv
  <1>6. CASE UNCHANGED vars
    BY <1>6 DEF vars, shared, IInv, TypeOK, OwnLimiters, HeldIsFresh, Held, AgesAreBounded, IdleFillUp
  <1> QED BY <1>1, <1>2, <1>3, <1>4, <1>5, <1>6 DEF Next

(* The limiters of RateLimiter keep their inductive invariant.             *)
THEOREM LimiterInvariant == Spec => []IInv
  BY InitInv, StepKeepsInv, PTL DEF Spec

(* Whatever is in the entries, the requests and the limiters has its type  *)
(* (ipRateLimiter).                                                        *)
THEOREM LimiterTypes == Spec => []TypeOK
  <1>1. IInv => TypeOK
    BY DEF IInv
  <1> QED BY <1>1, LimiterInvariant, PTL

(* The limiter a request asks, outside the lock, is still the one of its   *)
(* client, however requests and cleanups interleave (security.go:139).     *)
THEOREM HeldLimiterStaysCurrent == Spec => []HeldLimiterIsCurrent
  <1>1. IInv => HeldLimiterIsCurrent
    BY DEF IInv, HeldIsFresh, HeldLimiterIsCurrent
  <1> QED BY <1>1, LimiterInvariant, PTL

(* No entry is kept longer than the ttl and one period (cleanup), so that  *)
(* the table does not grow with the clients ever seen.                     *)
THEOREM EntriesGoAway == Spec => []EntriesExpire
  <1>1. IInv => EntriesExpire
    <2> SUFFICES ASSUME IInv, NEW k \in Keys PROVE idle[k] <= Oldest
      BY DEF EntriesExpire
    <2>1. idle[k] <= Ttl + since /\ since \in 0..Period /\ idle[k] \in Nat
      BY AgesAreNumbers DEF IInv, AgesAreBounded, TypeOK
    <2> QED BY <2>1, LimiterAssumption DEF Oldest
  <1> QED BY <1>1, LimiterInvariant, PTL
-----------------------------------------------------------------------------
BucketMap  == [h \in Hosts |-> BucketOf(h)]
AskerMap   == [r \in Requests |-> request[r].key]
VerdictMap == [r \in Requests |-> VerdictOf(r)]

(* A request that holds a limiter has a key, and no other request has.     *)
KeysAreKnown ==
  \A r \in Requests : IF Held(r) THEN request[r].key \in Keys ELSE request[r].key = None

LEMMA HostsAreKeys == Hosts \subseteq Keys /\ None \notin Keys
  BY LimiterAssumption DEF Keys

LEMMA KeysAreKnownInit == Init => KeysAreKnown
  BY DEF Init, KeysAreKnown, Held, At

LEMMA KeysAreKnownKept ==
  ASSUME TypeOK, KeysAreKnown, [Next]_vars
  PROVE  KeysAreKnown'
  <1> USE DEF KeysAreKnown
  <1>1. ASSUME NEW r \in Requests, Arrive(r) PROVE KeysAreKnown'
    <2>1. PICK from \in Forwarding : Get(r, ClientOf(proxies, from))
      BY <1>1 DEF Arrive
    <2> DEFINE k == ClientOf(proxies, from)
    <2>2. k \in Keys
      BY ClientIsKey
    <2> HIDE DEF k
    <2>3. \E n : request' = [request EXCEPT ![r] = [place |-> "held", key |-> k, limiter |-> n, held |-> 0]]
      BY <2>1 DEF Get, k
    <2> QED BY <2>2, <2>3 DEF TypeOK, Held
  <1>2. ASSUME NEW r \in Requests, PassOn(r) \/ Refuse(r) PROVE KeysAreKnown'
    <2>1. PICK place \in Answers : request' = [request EXCEPT ![r] = At(place)]
      BY <1>2 DEF PassOn, Refuse, Answers
    <2> QED BY <2>1 DEF TypeOK, Held, At, Answers
  <1>3. CASE Cleanup
    BY <1>3 DEF Cleanup, Held
  <1>4. CASE Tick
    <2>1. request' = [r \in Requests |->
            IF Held(r) THEN [request[r] EXCEPT !.held = @ + 1] ELSE request[r]]
      BY <1>4 DEF Tick
    <2>2. \A r \in Requests : request[r] \in Slot
      BY DEF TypeOK
    <2>3. \A r \in Requests : request'[r].key = request[r].key /\ request'[r].place = request[r].place
      BY <2>1, <2>2 DEF Slot
    <2> QED BY <2>1, <2>3 DEF Held
  <1>5. CASE UNCHANGED vars
    BY <1>5 DEF vars, Held
  <1> QED BY <1>1, <1>2, <1>3, <1>4, <1>5 DEF Next

LEMMA VerdictIsPlace ==
  ASSUME NEW r \in Requests, NEW place \in Answers, TypeOK,
         request' = [request EXCEPT ![r] = At(place)]
  PROVE  /\ VerdictMap' = [VerdictMap EXCEPT
              ![r] = IF place = "limited" THEN "limited" ELSE "passed"]
         /\ AskerMap' = [AskerMap EXCEPT ![r] = None]
  <1>1. \A q \in Requests : q # r => VerdictOf(q)' = VerdictOf(q)
    BY DEF VerdictOf, TypeOK
  <1>2. VerdictOf(r)' = IF place = "limited" THEN "limited" ELSE "passed"
    <2>1. request'[r].place = place
      BY DEF TypeOK, At
    <2> QED BY <2>1 DEF VerdictOf, Answers
  <1>3. AskerMap' = [AskerMap EXCEPT ![r] = None]
    BY DEF AskerMap, TypeOK, At
  <1> QED BY <1>1, <1>2, <1>3 DEF VerdictMap

(* Fetching a limiter fills nobody's bucket: a new one stands for an entry *)
(* whose bucket was full.                                                  *)
LEMMA GetIsAsk ==
  ASSUME IInv, KeysAreKnown, NEW r \in Requests, NEW k \in Keys, ~Held(r), Get(r, k)
  PROVE  Buckets!Ask(r, k)
  <1> USE DEF IInv
  <1>0. None \notin Limiters /\ k \in Hosts \cup (Keys \ Hosts)
    BY LimiterAssumption, HostsAreKeys
  <1>1. BucketMap' = BucketMap
    <2> SUFFICES ASSUME NEW j \in Keys PROVE BucketOf(j)' = BucketOf(j)
      BY HostsAreKeys DEF BucketMap
    <2>1. CASE entries[k] # None
      BY <2>1 DEF Get, BucketOf
    <2>2. CASE entries[k] = None
      <3> DEFINE new == CHOOSE n \in Limiters : n \notin InUse
      <3>0. \E n \in Limiters : n \notin InUse
        BY <2>2 DEF Get
      <3>1. new \in Limiters /\ new \notin InUse
        BY <3>0
      <3>2. entries' = [entries EXCEPT ![k] = new] /\ tokens' = [tokens EXCEPT ![new] = Burst]
        BY <2>2 DEF Get
      <3> HIDE DEF new
      <3>3. entries[j] # new
        BY <3>1, <1>0 DEF InUse, Present
      <3>4. CASE j = k
        BY <3>4, <2>2, <3>1, <3>2, <1>0 DEF BucketOf, TypeOK
      <3>5. CASE j # k
        <4>1. entries'[j] = entries[j] /\ (entries[j] # None => entries[j] \in Limiters)
          BY <3>5, <3>2 DEF TypeOK
        <4> QED BY <4>1, <3>2, <3>3 DEF BucketOf, TypeOK
      <3> QED BY <3>4, <3>5
    <2> QED BY <2>1, <2>2
  <1>2. VerdictMap' = [VerdictMap EXCEPT ![r] = "none"]
    <2>1. request' = [request EXCEPT ![r] = request'[r]] /\ request'[r].place = "held"
      BY DEF Get, TypeOK
    <2>2. \A q \in Requests : q # r => VerdictOf(q)' = VerdictOf(q)
      BY <2>1 DEF VerdictOf, TypeOK
    <2>3. VerdictOf(r)' = "none"
      BY <2>1 DEF VerdictOf
    <2> QED BY <2>2, <2>3 DEF VerdictMap
  <1>3. AskerMap[r] = None /\ AskerMap' = [AskerMap EXCEPT ![r] = k]
    <2>1. request' = [request EXCEPT ![r] = request'[r]] /\ request'[r].key = k
      BY DEF Get, TypeOK
    <2> QED BY <2>1 DEF AskerMap, KeysAreKnown, TypeOK
  <1> QED BY <1>1, <1>2, <1>3 DEF Buckets!Ask, BucketMap, AskerMap, VerdictMap

LEMMA PassOnIsPass ==
  ASSUME IInv, KeysAreKnown, NEW r \in Requests, PassOn(r)
  PROVE  Buckets!Pass(r)
  <1> USE DEF IInv
  <1>h. PICK k \in Keys, n \in Limiters :
          k = request[r].key /\ n = request[r].limiter /\ entries[k] = n
    BY HeldNow DEF PassOn
  <1>0. PICK place \in {"handled", "not found"} : request' = [request EXCEPT ![r] = At(place)]
    BY DEF PassOn
  <1>1. /\ UNCHANGED entries
        /\ tokens' = [tokens EXCEPT ![n] = @ - 1]
        /\ Held(r) /\ tokens[n] > 0
    BY <1>h DEF PassOn, HasToken
  <1>2. entries[k] = n /\ AskerMap[r] = k /\ k # None
    BY <1>h, <1>1, HostsAreKeys DEF KeysAreKnown, AskerMap
  <1>3. n # None
    BY LimiterAssumption
  <1>4. BucketOf(k) = tokens[n]
    BY <1>2, <1>3 DEF BucketOf
  <1>5. BucketMap' = [h \in Hosts |-> IF h = k THEN BucketMap[h] - 1 ELSE BucketMap[h]]
    <2>1. BucketOf(k)' = BucketOf(k) - 1
      BY <1>1, <1>2, <1>3, <1>4 DEF BucketOf, TypeOK
    <2>2. ASSUME NEW j \in Keys, j # k PROVE BucketOf(j)' = BucketOf(j)
      <3>1. entries[j] # n
        BY <2>2, <1>2, <1>3 DEF OwnLimiters
      <3>2. entries[j] # None => entries[j] \in Limiters
        BY DEF TypeOK
      <3> QED BY <3>1, <3>2, <1>1 DEF BucketOf, TypeOK
    <2> QED BY <2>1, <2>2, <1>2, HostsAreKeys DEF BucketMap
  <1>6. VerdictMap' = [VerdictMap EXCEPT ![r] = "passed"] /\ AskerMap' = [AskerMap EXCEPT ![r] = None]
    <2>1. place \in Answers /\ place # "limited"
      BY DEF Answers
    <2> QED BY <1>0, <2>1, VerdictIsPlace
  <1>7. k \in Hosts => BucketMap[k] > 0
    BY <1>1, <1>2, <1>4 DEF BucketMap
  <1> QED BY <1>2, <1>5, <1>6, <1>7 DEF Buckets!Pass, Buckets!Answer, BucketMap, AskerMap, VerdictMap

LEMMA RefuseIsLimit ==
  ASSUME IInv, KeysAreKnown, NEW r \in Requests, Refuse(r)
  PROVE  Buckets!Limit(r)
  <1> USE DEF IInv
  <1> DEFINE k == request[r].key
             n == request[r].limiter
  <1>1. /\ UNCHANGED <<entries, tokens>> /\ Held(r) /\ ~(tokens[n] > 0)
        /\ request' = [request EXCEPT ![r] = At("limited")]
    BY DEF Refuse, HasToken, shared
  <1>2. /\ k \in Keys /\ n \in Limiters /\ entries[k] = n
        /\ AskerMap[r] = k /\ k # None
    BY <1>1, HeldNow, HostsAreKeys DEF KeysAreKnown, AskerMap
  <1> HIDE DEF k, n
  <1>3. tokens[n] \in 0..Burst
    BY <1>2 DEF TypeOK
  <1>4. tokens[n] = 0
    BY <1>3, <1>1, LimiterAssumption
  <1>5. (k \in Hosts => BucketMap[k] = 0) /\ BucketMap' = BucketMap
    BY <1>1, <1>2, <1>4, LimiterAssumption DEF BucketMap, BucketOf
  <1>6. VerdictMap' = [VerdictMap EXCEPT ![r] = "limited"] /\ AskerMap' = [AskerMap EXCEPT ![r] = None]
    BY <1>1, VerdictIsPlace DEF Answers
  <1> QED BY <1>2, <1>5, <1>6 DEF Buckets!Limit, Buckets!Answer, BucketMap, AskerMap, VerdictMap

(* What cleanup forgets is a full bucket.                                  *)
LEMMA StaleIsFull ==
  ASSUME IInv, NEW k \in Keys, Stale(k)
  PROVE  tokens[entries[k]] = Burst
  <1> USE LimiterAssumption, RefillAssumption DEF IInv
  <1>1. entries[k] \in Limiters /\ entries[k] # None /\ idle[k] > Ttl /\ idle[k] \in Nat
    BY AgesAreNumbers DEF Stale, TypeOK
  <1>2. tokens[entries[k]] \in 0..Burst
    BY <1>1 DEF TypeOK
  <1>3. idle[k] > MaxHold
    BY <1>1
  <1>4. tokens[entries[k]] >= Upto(Burst, Gain(idle[k] - MaxHold))
    BY <1>1, <1>3 DEF IdleFillUp
  <1>5. Ttl + 1 - MaxHold \in Nat /\ idle[k] - MaxHold \in Nat
        /\ Ttl + 1 - MaxHold <= idle[k] - MaxHold
    BY <1>1
  <1>6. Gain(Ttl + 1 - MaxHold) <= Gain(idle[k] - MaxHold)
    BY <1>5, GainGrows
  <1>7. Burst <= Gain(Ttl + 1 - MaxHold)
    BY DEF Gain
  <1>8. Gain(Ttl + 1 - MaxHold) \in Nat /\ Gain(idle[k] - MaxHold) \in Nat
    BY <1>5, GainIsSteady
  <1>9. Upto(Burst, Gain(idle[k] - MaxHold)) = Burst
    BY <1>6, <1>7, <1>8 DEF Upto
  <1> QED BY <1>2, <1>4, <1>9

LEMMA CleanupIsStutter ==
  ASSUME IInv, Cleanup
  PROVE  BucketMap' = BucketMap /\ AskerMap' = AskerMap /\ VerdictMap' = VerdictMap
  <1>1. UNCHANGED <<tokens, request>>
        /\ entries' = [k \in Keys |-> IF Stale(k) THEN None ELSE entries[k]]
    BY DEF Cleanup
  <1>2. VerdictMap' = VerdictMap /\ AskerMap' = AskerMap
    BY <1>1 DEF VerdictMap, VerdictOf, AskerMap
  <1>3. ASSUME NEW k \in Keys PROVE BucketOf(k)' = BucketOf(k)
    <2>1. CASE Stale(k)
      <3>1. tokens[entries[k]] = Burst /\ entries[k] # None
        BY <2>1, StaleIsFull DEF Stale
      <3> QED BY <3>1, <2>1, <1>1 DEF BucketOf
    <2>2. CASE ~Stale(k)
      BY <2>2, <1>1 DEF BucketOf
    <2> QED BY <2>1, <2>2
  <1> QED BY <1>2, <1>3, HostsAreKeys DEF BucketMap

LEMMA TickIsRefill == ASSUME IInv, Tick PROVE Buckets!Refill
  <1>1. /\ UNCHANGED entries
        /\ tokens' = [n \in Limiters |-> Upto(Burst, tokens[n] + Rate)]
        /\ request' = [r \in Requests |->
             IF Held(r) THEN [request[r] EXCEPT !.held = @ + 1] ELSE request[r]]
    BY DEF Tick
  <1>2. ASSUME NEW r \in Requests
        PROVE  VerdictOf(r)' = VerdictOf(r) /\ request'[r].key = request[r].key
    <2>1. request[r] \in Slot
      BY DEF IInv, TypeOK
    <2>2. request'[r].place = request[r].place /\ request'[r].key = request[r].key
      BY <1>1, <2>1 DEF Slot
    <2> QED BY <2>2 DEF VerdictOf
  <1>3. ASSUME NEW k \in Keys PROVE BucketOf(k)' = Buckets!Upto(Burst, BucketOf(k) + Rate)
    <2>1. CASE entries[k] = None
      BY <2>1, <1>1, LimiterAssumption DEF BucketOf, Buckets!Upto
    <2>2. CASE entries[k] # None
      <3>1. entries[k] \in Limiters
        BY <2>2 DEF IInv, TypeOK
      <3>2. BucketOf(k) = tokens[entries[k]] /\ BucketOf(k)' = tokens'[entries[k]]
        BY <2>2, <1>1 DEF BucketOf
      <3>3. tokens'[entries[k]] = Upto(Burst, tokens[entries[k]] + Rate)
        BY <3>1, <1>1
      <3> QED BY <3>2, <3>3 DEF Upto, Buckets!Upto
    <2> QED BY <2>1, <2>2
  <1>4. VerdictMap' = VerdictMap /\ AskerMap' = AskerMap
    BY <1>2 DEF VerdictMap, AskerMap
  <1>5. BucketMap' = [h \in Hosts |-> Buckets!Upto(Burst, BucketMap[h] + Rate)]
    BY <1>3, HostsAreKeys DEF BucketMap
  <1> QED BY <1>4, <1>5 DEF Buckets!Refill, BucketMap, AskerMap, VerdictMap

LEMMA StepIsBucketStep ==
  ASSUME IInv, KeysAreKnown, [Next]_vars
  PROVE  Buckets!Next \/ UNCHANGED <<BucketMap, AskerMap, VerdictMap>>
  <1>1. ASSUME NEW r \in Requests, Arrive(r) PROVE Buckets!Next
    <2>1. PICK from \in Forwarding : ~Held(r) /\ Get(r, ClientOf(proxies, from))
      BY <1>1 DEF Arrive
    <2>2. ClientOf(proxies, from) \in Keys
      BY ClientIsKey
    <2>3. PICK k \in Keys : ~Held(r) /\ Get(r, k)
      BY <2>1, <2>2
    <2>4. Buckets!Ask(r, k)
      BY <2>3, GetIsAsk
    <2> QED BY <2>3, <2>4 DEF Buckets!Next
  <1>2. ASSUME NEW r \in Requests, PassOn(r) PROVE Buckets!Next
    BY <1>2, PassOnIsPass DEF Buckets!Next
  <1>3. ASSUME NEW r \in Requests, Refuse(r) PROVE Buckets!Next
    BY <1>3, RefuseIsLimit DEF Buckets!Next
  <1>4. CASE Cleanup
    BY <1>4, CleanupIsStutter
  <1>5. CASE Tick
    BY <1>5, TickIsRefill DEF Buckets!Next
  <1>6. CASE UNCHANGED vars
    BY <1>6 DEF vars, shared, BucketMap, AskerMap, VerdictMap, BucketOf, VerdictOf
  <1> QED BY <1>1, <1>2, <1>3, <1>4, <1>5, <1>6 DEF Next

(* The middleware implements one bucket, never forgotten, per client IP it *)
(* knows, although entries are forgotten, made anew and used outside the   *)
(* lock: what is forgotten is full. Requests filed under a connection      *)
(* (http.go:180) take nothing from these buckets and are promised nothing. *)
THEOREM BucketsAreKept == Spec => ClientsKeepTheirBucket
  <1>1. Init => Buckets!Init
    BY HostsAreKeys DEF Init, Buckets!Init, BucketOf, VerdictOf, At
  <1>2. TypeOK /\ KeysAreKnown /\ [Next]_vars => KeysAreKnown'
    BY KeysAreKnownKept
  <1>3. IInv => TypeOK
    BY DEF IInv
  <1>4. IInv /\ KeysAreKnown /\ [Next]_vars
        => [Buckets!Next]_<<[h \in Hosts |-> BucketOf(h)], [r \in Requests |-> request[r].key],
                            [r \in Requests |-> VerdictOf(r)]>>
    BY StepIsBucketStep DEF BucketMap, AskerMap, VerdictMap
  <1>5. Spec => []KeysAreKnown
    BY <1>2, <1>3, KeysAreKnownInit, LimiterInvariant, PTL DEF Spec
  <1> QED BY <1>1, <1>4, <1>5, LimiterInvariant, PTL DEF Spec, ClientsKeepTheirBucket, Buckets!Spec
=============================================================================
