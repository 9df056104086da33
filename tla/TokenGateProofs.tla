----------------------------- MODULE TokenGateProofs -----------------------------
(***************************************************************************)
(* Theorems about TokenGate, for any keys, requests, credentials, cache    *)
(* and fetch times that meet its assumption.                               *)
(***************************************************************************)
EXTENDS TokenGate, TLAPS

(* Whoever fetches has the lock; readers that go before a writer wait      *)
(* while nobody has it, and have waited for some time.                     *)
LockInv ==
  /\ \A r \in Requests : pc[r] \in Fetching => lock = r
  /\ lock # None => first = {}
  /\ \A r \in first : pc[r] \in Reading /\ spent[r] > 0

(* Tokens are looked at only where they are accepted.                      *)
MethodInv == \A r \in Requests : Waits(r) => "oauth" \in accepts

(* The keys in which a set differs from those published have changed in    *)
(* the last n units.                                                       *)
Within(n, known) ==
  \A k \in Keys : ~(k \in published <=> k \in known) => changed[k] <= n

CacheIsClose == age < Ttl => Within(age + FetchTime, keys)

AnswersAreClose ==
  \A r \in Requests : pc[r] = "answered" => Within(spent[r], answer[r])

(* How old the keys may be that a request reads again. It found them fresh *)
(* or stored them, and waits for one fetch at most.                        *)
Limit(r) ==
  IF spent[r] = 0 THEN Ttl + FetchTime - 1
    ELSE IF lock # None THEN Ttl + FetchTime + spent[lock]
    ELSE IF r \in first THEN Ttl + FetchTime + FetchTime
    ELSE Ttl + FetchTime

RereadIsClose ==
  \A r \in Requests : pc[r] = "reread" => Within(Limit(r), keys)

IInv ==
  /\ TypeOK /\ LockInv /\ MethodInv /\ ApiKeySuffices
  /\ CacheIsClose /\ AnswersAreClose /\ RereadIsClose
-----------------------------------------------------------------------------
LEMMA Numbers ==
  ASSUME TypeOK
  PROVE  /\ age \in Nat /\ age <= Ttl
         /\ \A r \in Requests : spent[r] \in Nat /\ spent[r] <= FetchTime
         /\ \A k \in Keys : changed[k] \in Nat
         /\ Ttl \in Nat /\ Ttl >= 1 /\ FetchTime \in Nat /\ FetchTime >= 1
         /\ lock # None => lock \in Requests
  <1>1. Ttl \in Nat /\ Ttl >= 1 /\ FetchTime \in Nat /\ FetchTime >= 1
    BY GateAssumption
  <1>2. age \in Nat /\ age <= Ttl
    BY <1>1 DEF TypeOK
  <1>3. \A r \in Requests : spent[r] \in Nat /\ spent[r] <= FetchTime
    BY <1>1 DEF TypeOK
  <1>4. \A k \in Keys : changed[k] \in Nat
    BY <1>1 DEF TypeOK
  <1>5. lock # None => lock \in Requests
    BY DEF TypeOK
  <1> QED BY <1>1, <1>2, <1>3, <1>4, <1>5

LEMMA CappedCount ==
  ASSUME NEW bound \in Nat, NEW n \in 0..bound
  PROVE  /\ Upto(bound, n) \in 0..bound
         /\ Upto(bound, n) <= n + 1
         /\ n < bound => Upto(bound, n) = n + 1
         /\ n = bound => Upto(bound, n) = bound
  BY DEF Upto

(* The limit is a number, at least that of one fetch and at most that of   *)
(* two.                                                                    *)
LEMMA LimitBounds ==
  ASSUME TypeOK, NEW r \in Requests
  PROVE  Limit(r) \in Nat /\ FetchTime <= Limit(r) /\ Limit(r) <= Ttl + FetchTime + FetchTime
  BY Numbers DEF Limit

LEMMA WithinMore ==
  ASSUME TypeOK, NEW m \in Nat, NEW n \in Nat, m <= n, NEW known, Within(m, known)
  PROVE  Within(n, known)
  <1> SUFFICES ASSUME NEW k \in Keys, ~(k \in published <=> k \in known)
               PROVE  changed[k] <= n
    BY DEF Within
  <1>1. changed[k] <= m /\ changed[k] \in Nat
    BY Numbers DEF Within
  <1> QED BY <1>1

(* Where requests go next: to an answer or a place to wait at.             *)
LEMMA VerdictIsAnswer ==
  ASSUME TypeOK, NEW r \in Requests
  PROVE  Verdict(r) \in Answers /\ Unauthorized(r) \in Answers
  <1>1. carries[r] \in Credential
    BY DEF TypeOK
  <1> QED BY <1>1 DEF Verdict, Unauthorized, ByApiKey, Answers, Credential

LEMMA FirstCheckLeads ==
  ASSUME NEW credential \in Credential, accepts \in SUBSET {"oauth", "apiKey"}
  PROVE  /\ FirstCheck(credential) \in Answers \cup {"read"}
         /\ FirstCheck(credential) = "read" => "oauth" \in accepts
         /\ FirstCheck(credential) = "refused" /\ "apiKey" \in accepts => credential.apiKey # "right"
  <1>1. \/ accepts = {} \/ accepts = {"apiKey"} \/ accepts = {"oauth"}
        \/ accepts = {"oauth", "apiKey"}
    OBVIOUS
  <1>2. CASE accepts = {}
    BY <1>2 DEF FirstCheck, Answers
  <1>3. CASE accepts = {"apiKey"}
    BY <1>3 DEF FirstCheck, ByApiKey, Answers
  <1>4. CASE accepts = {"oauth"}
    BY <1>4 DEF FirstCheck, Answers
  <1>5. CASE accepts = {"oauth", "apiKey"}
    BY <1>5 DEF FirstCheck, ByApiKey, Answers
  <1> QED BY <1>1, <1>2, <1>3, <1>4, <1>5

(* A token that leads to a refusal where API keys are accepted: theirs is  *)
(* wrong.                                                                  *)
LEMMA UnauthorizedIsRight ==
  ASSUME TypeOK, NEW r \in Requests, "oauth" \in accepts, "apiKey" \in accepts,
         \/ Unauthorized(r) = "refused"
         \/ Verdict(r) = "refused"
  PROVE  carries[r].apiKey # "right"
  <1>1. accepts \in SUBSET {"oauth", "apiKey"} /\ carries[r] \in Credential
    BY GateAssumption DEF TypeOK
  <1>2. accepts = {"oauth", "apiKey"}
    BY <1>1
  <1> QED BY <1>1, <1>2 DEF Verdict, Unauthorized, ByApiKey, Credential

LEMMA InitInv == Init => IInv
  <1> SUFFICES ASSUME Init PROVE IInv
    OBVIOUS
  <1> USE GateAssumption
  <1>1. TypeOK
    BY DEF Init, TypeOK, Nothing, Credential, LongAgo
  <1>2. LockInv /\ MethodInv /\ ApiKeySuffices
    BY DEF Init, LockInv, MethodInv, ApiKeySuffices, Waits, Fetching, Reading
  <1>3. CacheIsClose /\ AnswersAreClose /\ RereadIsClose
    BY DEF Init, CacheIsClose, AnswersAreClose, RereadIsClose
  <1> QED BY <1>1, <1>2, <1>3 DEF IInv
-----------------------------------------------------------------------------
LEMMA ArriveKeepsInv ==
  ASSUME IInv, NEW r \in Requests, NEW credential \in Credentials, Arrive(r, credential)
  PROVE  IInv'
  <1> USE GateAssumption DEF IInv
  <1>0. credential \in Credential /\ accepts \in SUBSET {"oauth", "apiKey"}
    BY DEF TypeOK
  <1>1. /\ FirstCheck(credential) \in Answers \cup {"read"}
        /\ FirstCheck(credential) = "read" => "oauth" \in accepts
        /\ FirstCheck(credential) = "refused" /\ "apiKey" \in accepts => credential.apiKey # "right"
    BY <1>0, FirstCheckLeads
  <1>2. /\ pc[r] \in {"none"} \cup Answers
        /\ carries' = [carries EXCEPT ![r] = credential]
        /\ pc' = [pc EXCEPT ![r] = FirstCheck(credential)]
        /\ spent' = [spent EXCEPT ![r] = 0]
        /\ UNCHANGED <<accepts, published, changed, keys, age, lock, first, answer>>
    BY DEF Arrive, Goto, server, cache, mutex
  <1> HIDE DEF IInv
  <1>3. lock # r /\ r \notin first
    BY <1>2 DEF IInv, LockInv, TypeOK, Fetching, Reading, Answers
  <1>4. TypeOK'
    BY <1>0, <1>1, <1>2, <1>3 DEF IInv, TypeOK, Reading, Fetching, Answers
  <1>5. LockInv'
    BY <1>1, <1>2, <1>3 DEF IInv, LockInv, TypeOK, Fetching, Reading, Answers
  <1>6. MethodInv' /\ ApiKeySuffices'
    BY <1>1, <1>2 DEF IInv, MethodInv, ApiKeySuffices, TypeOK, Waits, Fetching, Reading, Answers
  <1>7. CacheIsClose' /\ AnswersAreClose'
    BY <1>1, <1>2 DEF IInv, CacheIsClose, AnswersAreClose, Within, TypeOK, Answers
  <1>8. RereadIsClose'
    <2> SUFFICES ASSUME NEW q \in Requests, pc'[q] = "reread" PROVE Within(Limit(q), keys)'
      BY DEF RereadIsClose
    <2>1. q # r /\ pc[q] = "reread" /\ spent'[q] = spent[q]
      BY <1>1, <1>2 DEF IInv, TypeOK, Answers
    <2>2. lock # None => spent'[lock] = spent[lock]
      BY <1>2, <1>3, Numbers DEF IInv, TypeOK
    <2>3. Limit(q)' = Limit(q)
      BY <2>1, <2>2, <1>2 DEF Limit
    <2> QED BY <2>1, <2>3, <1>2 DEF IInv, RereadIsClose, Within
  <1> QED BY <1>4, <1>5, <1>6, <1>7, <1>8 DEF IInv

LEMMA LimitStays ==
  ASSUME NEW q \in Requests, lock' = lock, spent'[q] = spent[q],
         lock # None => spent'[lock] = spent[lock], q \in first' <=> q \in first
  PROVE  Limit(q)' = Limit(q)
  BY DEF Limit

(* A request that has read the cache goes on.                              *)
LEMMA ReadKeepsInv ==
  ASSUME IInv, NEW r \in Requests, pc[r] \in Reading, lock = None,
         NEW place \in Answers \cup {"lock"},
         place = "refused" /\ "apiKey" \in accepts => carries[r].apiKey # "right",
         first' = first \ {r}, Goto(r, place),
         UNCHANGED <<accepts, published, changed, keys, age, lock, carries, answer>>
  PROVE  IInv'
  <1>1. /\ pc' = [pc EXCEPT ![r] = place]
        /\ spent' = [spent EXCEPT ![r] = 0]
    BY DEF Goto
  <1>2. TypeOK'
    BY <1>1, Numbers DEF IInv, TypeOK, Reading, Fetching, Answers
  <1>3. LockInv'
    BY <1>1 DEF IInv, LockInv, TypeOK, Fetching, Reading, Answers
  <1>4. MethodInv'
    BY <1>1 DEF IInv, MethodInv, TypeOK, Waits, Fetching, Reading, Answers
  <1>5. ApiKeySuffices'
    BY <1>1 DEF IInv, ApiKeySuffices, TypeOK
  <1>6. CacheIsClose' /\ AnswersAreClose'
    BY <1>1 DEF IInv, CacheIsClose, AnswersAreClose, Within, TypeOK, Answers
  <1>7. RereadIsClose'
    <2> SUFFICES ASSUME NEW q \in Requests, pc'[q] = "reread" PROVE Within(Limit(q), keys)'
      BY DEF RereadIsClose
    <2>1. q # r /\ pc[q] = "reread" /\ spent'[q] = spent[q]
      BY <1>1 DEF IInv, TypeOK, Answers
    <2>2. Limit(q)' = Limit(q)
      BY <2>1, LimitStays
    <2> QED BY <2>1, <2>2 DEF IInv, RereadIsClose, Within
  <1> QED BY <1>2, <1>3, <1>4, <1>5, <1>6, <1>7 DEF IInv

LEMMA BeginFetchKeepsInv ==
  ASSUME IInv, NEW r \in Requests, MayWrite(r), BeginFetch(r)
  PROVE  IInv'
  <1>1. /\ pc[r] = "lock" /\ lock = None /\ first = {}
        /\ lock' = r
        /\ pc' = [pc EXCEPT ![r] = "fetching"]
        /\ spent' = [spent EXCEPT ![r] = 0]
        /\ UNCHANGED <<accepts, published, changed, keys, age, first, carries, answer>>
    BY DEF MayWrite, BeginFetch, Goto, server, cache
  <1>2. TypeOK'
    BY <1>1, Numbers DEF IInv, TypeOK, Fetching
  <1>n. None \notin Requests
    BY GateAssumption
  <1>f. \A q \in Requests : pc[q] \notin Fetching
    BY <1>1, <1>n DEF IInv, LockInv
  <1>l. LockInv'
    BY <1>1, <1>f DEF IInv, LockInv, TypeOK
  <1>3. LockInv' /\ MethodInv' /\ ApiKeySuffices'
    BY <1>1, <1>l DEF IInv, MethodInv, ApiKeySuffices, TypeOK, Waits, Fetching, Reading
  <1>4. CacheIsClose' /\ AnswersAreClose'
    BY <1>1 DEF IInv, CacheIsClose, AnswersAreClose, Within, TypeOK
  <1>5. RereadIsClose'
    <2> SUFFICES ASSUME NEW q \in Requests, pc'[q] = "reread" PROVE Within(Limit(q), keys)'
      BY DEF RereadIsClose
    <2>1. q # r /\ pc[q] = "reread" /\ spent'[q] = spent[q]
      BY <1>1 DEF IInv, TypeOK
    <2>2. r # None /\ spent'[r] = 0
      BY <1>1, GateAssumption DEF IInv, TypeOK
    <2>3. Limit(q)' = Limit(q)
      BY <2>1, <2>2, <1>1, Numbers DEF IInv, Limit
    <2> QED BY <2>1, <2>3, <1>1 DEF IInv, RereadIsClose, Within
  <1> QED BY <1>2, <1>3, <1>4, <1>5 DEF IInv

LEMMA FoundFreshKeepsInv ==
  ASSUME IInv, NEW r \in Requests, MayWrite(r), Fresh, FoundFresh(r)
  PROVE  IInv'
  <1>1. /\ pc[r] = "lock" /\ lock = None /\ age < Ttl
        /\ pc' = [pc EXCEPT ![r] = "reread"]
        /\ spent' = [spent EXCEPT ![r] = 0]
        /\ UNCHANGED <<accepts, published, changed, keys, age, lock, first, carries, answer>>
    BY DEF MayWrite, FoundFresh, Fresh, Goto, server, cache, mutex
  <1>2. TypeOK'
    BY <1>1, Numbers DEF IInv, TypeOK, Reading
  <1>3. LockInv' /\ MethodInv' /\ ApiKeySuffices'
    BY <1>1 DEF IInv, LockInv, MethodInv, ApiKeySuffices, TypeOK, Waits, Fetching, Reading
  <1>4. CacheIsClose' /\ AnswersAreClose'
    BY <1>1 DEF IInv, CacheIsClose, AnswersAreClose, Within, TypeOK
  <1>5. RereadIsClose'
    <2> SUFFICES ASSUME NEW q \in Requests, pc'[q] = "reread" PROVE Within(Limit(q), keys)'
      BY DEF RereadIsClose
    <2>1. CASE q = r
      <3>1. Within(age + FetchTime, keys)
        BY <1>1 DEF IInv, CacheIsClose
      <3>2. Within(Ttl + FetchTime - 1, keys)
        BY <3>1, <1>1, Numbers, WithinMore DEF IInv
      <3>3. Limit(q)' = Ttl + FetchTime - 1
        BY <2>1, <1>1 DEF Limit, IInv, TypeOK
      <3> QED BY <3>2, <3>3, <1>1 DEF Within
    <2>2. CASE q # r
      <3>1. pc[q] = "reread" /\ spent'[q] = spent[q]
        BY <2>2, <1>1 DEF IInv, TypeOK
      <3>2. Limit(q)' = Limit(q)
        BY <3>1, <1>1, LimitStays
      <3> QED BY <3>1, <3>2, <1>1 DEF IInv, RereadIsClose, Within
    <2> QED BY <2>1, <2>2
  <1> QED BY <1>2, <1>3, <1>4, <1>5 DEF IInv

LEMMA ServerAnswersKeepsInv ==
  ASSUME IInv, NEW r \in Requests, ServerAnswers(r)
  PROVE  IInv'
  <1>1. /\ pc[r] = "fetching"
        /\ pc' = [pc EXCEPT ![r] = "answered"]
        /\ answer' = [answer EXCEPT ![r] = published]
        /\ UNCHANGED <<accepts, published, changed, keys, age, lock, first, carries, spent>>
    BY DEF ServerAnswers, server, cache, mutex
  <1>2. TypeOK'
    BY <1>1, Numbers DEF IInv, TypeOK, Fetching
  <1>3. LockInv' /\ MethodInv' /\ ApiKeySuffices'
    BY <1>1 DEF IInv, LockInv, MethodInv, ApiKeySuffices, TypeOK, Waits, Fetching, Reading
  <1>4. CacheIsClose' /\ AnswersAreClose'
    BY <1>1 DEF IInv, CacheIsClose, AnswersAreClose, Within, TypeOK
  <1>5. RereadIsClose'
    BY <1>1 DEF IInv, RereadIsClose, Within, Limit, TypeOK
  <1> QED BY <1>2, <1>3, <1>4, <1>5 DEF IInv

(* The end of a fetch: requests that read again have waited for it.        *)
LEMMA EndFetchKeepsOthers ==
  ASSUME IInv, NEW r \in Requests, pc[r] \in Fetching, EndFetch(r, "reread") \/ EndFetch(r, Unauthorized(r)),
         UNCHANGED <<accepts, published, changed, carries>>,
         keys' \in SUBSET Keys, age' \in 0..Ttl
  PROVE  TypeOK' /\ LockInv' /\ MethodInv' /\ ApiKeySuffices' /\ AnswersAreClose'
  <1>1. PICK place \in Answers \cup {"reread"} :
          /\ pc' = [pc EXCEPT ![r] = place]
          /\ place \in {"reread", Unauthorized(r)}
          /\ lock' = None
          /\ first' = {q \in Requests : pc[q] \in Reading /\ spent[q] > 0}
          /\ answer' = [answer EXCEPT ![r] = {}]
          /\ spent' = [spent EXCEPT ![r] = 0]
    BY VerdictIsAnswer DEF IInv, EndFetch, Goto
  <1>2. lock = r /\ "oauth" \in accepts
    BY DEF IInv, LockInv, MethodInv, Waits
  <1>3. \A q \in Requests : q # r => pc[q] \notin Fetching
    BY <1>2 DEF IInv, LockInv
  <1>4. TypeOK'
    BY <1>1, Numbers DEF IInv, TypeOK, Reading, Answers
  <1>5. LockInv'
    BY <1>1, <1>3 DEF IInv, LockInv, TypeOK, Fetching, Reading, Answers
  <1>6. MethodInv'
    BY <1>1, <1>2 DEF IInv, MethodInv
  <1>7. ApiKeySuffices'
    <2> SUFFICES ASSUME NEW q \in Requests, pc'[q] = "refused", "apiKey" \in accepts
                 PROVE  carries[q].apiKey # "right"
      BY DEF ApiKeySuffices
    <2>1. CASE q = r
      <3>1. Unauthorized(r) = "refused"
        BY <2>1, <1>1 DEF IInv, TypeOK
      <3> QED BY <3>1, <2>1, <1>2, UnauthorizedIsRight DEF IInv
    <2>2. CASE q # r
      BY <2>2, <1>1 DEF IInv, ApiKeySuffices, TypeOK
    <2> QED BY <2>1, <2>2
  <1>8. AnswersAreClose'
    BY <1>1, <1>3 DEF AnswersAreClose, IInv, TypeOK, Fetching, Answers
  <1> QED BY <1>4, <1>5, <1>6, <1>7, <1>8

LEMMA StoreKeysKeepsInv ==
  ASSUME IInv, NEW r \in Requests, StoreKeys(r)
  PROVE  IInv'
  <1>1. /\ pc[r] = "answered" /\ keys' = answer[r] /\ age' = 0
        /\ EndFetch(r, "reread")
        /\ UNCHANGED <<accepts, published, changed, carries>>
    BY DEF StoreKeys, server
  <1>2. /\ keys' \in SUBSET Keys /\ age' \in 0..Ttl /\ pc[r] \in Fetching
    BY <1>1, Numbers DEF IInv, TypeOK, Fetching
  <1>3. TypeOK' /\ LockInv' /\ MethodInv' /\ ApiKeySuffices' /\ AnswersAreClose'
    BY <1>1, <1>2, EndFetchKeepsOthers
  <1>4. Within(spent[r], answer[r]) /\ spent[r] \in Nat /\ spent[r] <= FetchTime
    BY <1>1, Numbers DEF IInv, AnswersAreClose
  <1>5. Within(FetchTime, answer[r])
    BY <1>4, Numbers, WithinMore DEF IInv
  <1>6. Within(FetchTime, keys)'
    BY <1>1, <1>5 DEF Within
  <1>7. CacheIsClose'
    BY <1>1, <1>6, Numbers DEF IInv, CacheIsClose
  <1>8. RereadIsClose'
    <2> SUFFICES ASSUME NEW q \in Requests PROVE Within(Limit(q), keys)'
      BY DEF RereadIsClose
    <2>1. (Limit(q) \in Nat /\ FetchTime <= Limit(q))'
      BY <1>1, Numbers DEF IInv, EndFetch, Limit
    <2>2. FetchTime \in Nat /\ \A k \in Keys : changed'[k] \in Nat
      BY <1>1, Numbers DEF IInv
    <2> QED BY <2>1, <2>2, <1>6 DEF Within
  <1> QED BY <1>3, <1>7, <1>8 DEF IInv

LEMMA FetchFailsKeepsInv ==
  ASSUME IInv, NEW r \in Requests, FetchFails(r)
  PROVE  IInv'
  <1>1. /\ EndFetch(r, Unauthorized(r))
        /\ UNCHANGED <<accepts, published, changed, keys, age, carries>>
    BY DEF FetchFails, server, cache
  <1>2. /\ keys' \in SUBSET Keys /\ age' \in 0..Ttl /\ pc[r] \in Fetching
    BY <1>1 DEF IInv, TypeOK, EndFetch
  <1>3. TypeOK' /\ LockInv' /\ MethodInv' /\ ApiKeySuffices' /\ AnswersAreClose'
    BY <1>1, <1>2, EndFetchKeepsOthers
  <1>4. CacheIsClose'
    BY <1>1 DEF IInv, CacheIsClose, Within
  <1>5. RereadIsClose'
    <2> SUFFICES ASSUME NEW q \in Requests, pc'[q] = "reread" PROVE Within(Limit(q), keys)'
      BY DEF RereadIsClose
    <2>1. /\ pc' = [pc EXCEPT ![r] = Unauthorized(r)]
          /\ spent' = [spent EXCEPT ![r] = 0]
          /\ lock' = None
          /\ first' = {p \in Requests : pc[p] \in Reading /\ spent[p] > 0}
      BY <1>1 DEF EndFetch, Goto
    <2>2. q # r /\ pc[q] = "reread" /\ spent'[q] = spent[q]
      BY <2>1, VerdictIsAnswer DEF IInv, TypeOK, Answers
    <2>3. Within(Limit(q), keys) /\ Limit(q) \in Nat /\ Limit(q) <= Ttl + FetchTime + FetchTime
      BY <2>2, LimitBounds DEF IInv, RereadIsClose
    <2>4. CASE spent[q] = 0
      <3>1. Limit(q)' = Limit(q)
        BY <2>2, <2>4 DEF Limit
      <3> QED BY <3>1, <2>3, <1>1 DEF Within
    <2>5. CASE spent[q] # 0
      <3>1. q \in first'
        BY <2>1, <2>2, <2>5, Numbers DEF IInv, Reading
      <3>2. Limit(q)' = Ttl + FetchTime + FetchTime
        BY <2>1, <2>2, <2>5, <3>1 DEF Limit
      <3>3. Within(Ttl + FetchTime + FetchTime, keys)
        BY <2>3, Numbers, WithinMore DEF IInv
      <3> QED BY <3>2, <3>3, <1>1 DEF Within
    <2> QED BY <2>4, <2>5
  <1> QED BY <1>3, <1>4, <1>5 DEF IInv

LEMMA RotateKeepsInv ==
  ASSUME IInv, NEW k \in Rotating, Rotate(k)
  PROVE  IInv'
  <1>1. /\ published' \in SUBSET Keys
        /\ \A j \in Keys \ {k} : j \in published' <=> j \in published
        /\ changed' = [changed EXCEPT ![k] = 0]
        /\ UNCHANGED <<accepts, keys, age, lock, first, carries, pc, spent, answer>>
    BY GateAssumption DEF Rotate, cache, mutex, IInv, TypeOK
  <1>2. TypeOK'
    BY <1>1, Numbers, GateAssumption DEF IInv, TypeOK, LongAgo
  <1>3. ASSUME NEW n \in Nat, NEW known, Within(n, known)
        PROVE  Within(n, known)'
    BY <1>1, <1>3 DEF Within, IInv, TypeOK
  <1>4. LockInv' /\ MethodInv' /\ ApiKeySuffices'
    BY <1>1 DEF IInv, LockInv, MethodInv, ApiKeySuffices, Waits
  <1>5. CacheIsClose'
    <2> SUFFICES ASSUME age < Ttl PROVE Within(age + FetchTime, keys)'
      BY <1>1 DEF CacheIsClose
    <2>1. Within(age + FetchTime, keys) /\ age + FetchTime \in Nat
      BY Numbers DEF IInv, CacheIsClose
    <2> QED BY <2>1, <1>1 DEF Within, IInv, TypeOK
  <1>6. AnswersAreClose'
    BY <1>1, Numbers DEF IInv, AnswersAreClose, Within, TypeOK
  <1>7. RereadIsClose'
    <2> SUFFICES ASSUME NEW q \in Requests, pc[q] = "reread" PROVE Within(Limit(q), keys)'
      BY <1>1 DEF RereadIsClose
    <2>1. Within(Limit(q), keys) /\ Limit(q) \in Nat
      BY LimitBounds DEF IInv, RereadIsClose
    <2>2. Limit(q)' = Limit(q)
      BY <1>1, LimitStays
    <2> QED BY <2>1, <2>2, <1>1 DEF Within, IInv, TypeOK
  <1> QED BY <1>2, <1>4, <1>5, <1>6, <1>7 DEF IInv

(* A tick counts what may count, and at most by one.                       *)
LEMMA TickCounts ==
  ASSUME TypeOK, Tick
  PROVE  /\ UNCHANGED <<accepts, published, keys, lock, first, carries, pc, answer>>
         /\ TypeOK'
         /\ \A k \in Keys : changed'[k] <= changed[k] + 1
         /\ age < Ttl => age' = age + 1
         /\ age = Ttl => age' = Ttl
         /\ \A r \in Requests : Waits(r) => spent'[r] > 0
         /\ \A r \in Requests : pc[r] \in Fetching => spent'[r] = spent[r] + 1
  <1> USE Numbers
  <1>1. /\ UNCHANGED <<accepts, published, keys, lock, first, carries, pc, answer>>
        /\ \A r \in Requests : MayStay(r)
        /\ age' = Upto(Ttl, age)
        /\ changed' = [k \in Keys |-> Upto(LongAgo, changed[k])]
        /\ spent' = [r \in Requests |-> IF Waits(r) THEN Upto(FetchTime, spent[r]) ELSE 0]
    BY DEF Tick, mutex
  <1>2. LongAgo \in Nat
    BY DEF LongAgo
  <1>3. ASSUME NEW k \in Keys
        PROVE  changed'[k] \in 0..LongAgo /\ changed'[k] <= changed[k] + 1
    <2>1. changed[k] \in 0..LongAgo
      BY DEF TypeOK
    <2> QED BY <2>1, <1>1, <1>2, CappedCount
  <1>4. /\ age' \in 0..Ttl
        /\ age < Ttl => age' = age + 1
        /\ age = Ttl => age' = Ttl
    <2>1. age \in 0..Ttl
      BY DEF TypeOK
    <2> QED BY <2>1, <1>1, CappedCount
  <1>5. ASSUME NEW r \in Requests
        PROVE  /\ spent'[r] \in 0..FetchTime
               /\ Waits(r) => spent'[r] > 0
               /\ pc[r] \in Fetching => spent'[r] = spent[r] + 1
    <2>1. spent[r] \in 0..FetchTime
      BY DEF TypeOK
    <2>2. spent'[r] = IF Waits(r) THEN Upto(FetchTime, spent[r]) ELSE 0
      BY <1>1
    <2>3. Waits(r) => spent'[r] > 0
      BY <2>1, <2>2 DEF Upto
    <2>4. pc[r] \in Fetching => spent[r] < FetchTime /\ Waits(r)
      BY <1>1 DEF MayStay, Waits, Reading, Fetching
    <2>5. /\ Upto(FetchTime, spent[r]) \in 0..FetchTime
          /\ spent[r] < FetchTime => Upto(FetchTime, spent[r]) = spent[r] + 1
      BY <2>1, CappedCount
    <2>6. spent'[r] \in 0..FetchTime
      BY <2>2, <2>5
    <2> QED BY <2>2, <2>3, <2>4, <2>5, <2>6
  <1>6. /\ changed' \in [Keys -> 0..LongAgo]
        /\ spent' \in [Requests -> 0..FetchTime]
    BY <1>1, <1>3, <1>5
  <1>7. TypeOK'
    BY <1>1, <1>4, <1>6 DEF TypeOK, LongAgo
  <1> QED BY <1>1, <1>3, <1>4, <1>5, <1>7

LEMMA TickKeepsInv == ASSUME IInv, Tick PROVE IInv'
  <1>1. /\ UNCHANGED <<accepts, published, keys, lock, first, carries, pc, answer>>
        /\ TypeOK'
        /\ \A k \in Keys : changed'[k] <= changed[k] + 1
        /\ age < Ttl => age' = age + 1
        /\ age = Ttl => age' = Ttl
        /\ \A r \in Requests : Waits(r) => spent'[r] > 0
        /\ \A r \in Requests : pc[r] \in Fetching => spent'[r] = spent[r] + 1
    BY TickCounts DEF IInv
  <1>2. ASSUME NEW m \in Nat, NEW n \in Nat, m + 1 <= n, NEW known, Within(m, known)
        PROVE  \A k \in Keys : ~(k \in published' <=> k \in known) => changed'[k] <= n
    <2> SUFFICES ASSUME NEW k \in Keys, ~(k \in published <=> k \in known)
                 PROVE  changed'[k] <= n
      BY <1>1
    <2>1. changed[k] <= m /\ changed[k] \in Nat /\ changed'[k] <= changed[k] + 1
      BY <1>1, <1>2, Numbers DEF Within, IInv
    <2>2. changed'[k] \in Nat
      BY <1>1, Numbers DEF IInv, TypeOK, LongAgo
    <2> QED BY <2>1, <2>2, <1>2
  <1>3. LockInv'
    BY <1>1 DEF IInv, LockInv, Waits, TypeOK
  <1>4. MethodInv' /\ ApiKeySuffices'
    BY <1>1 DEF IInv, MethodInv, ApiKeySuffices, Waits
  <1>5. CacheIsClose'
    <2> SUFFICES ASSUME age' < Ttl
                 PROVE  \A k \in Keys : ~(k \in published' <=> k \in keys') => changed'[k] <= age' + FetchTime
      BY DEF CacheIsClose, Within
    <2>1. age < Ttl /\ age' = age + 1
      BY <1>1, Numbers DEF IInv
    <2>2. Within(age + FetchTime, keys)
      BY <2>1 DEF IInv, CacheIsClose
    <2>3. age + FetchTime \in Nat /\ age' + FetchTime \in Nat /\ age + FetchTime + 1 <= age' + FetchTime
      BY <2>1, Numbers DEF IInv
    <2>4. \A k \in Keys : ~(k \in published' <=> k \in keys) => changed'[k] <= age' + FetchTime
      BY <1>2, <2>2, <2>3
    <2> QED BY <2>4, <1>1
  <1>6. AnswersAreClose'
    <2> SUFFICES ASSUME NEW r \in Requests, pc[r] = "answered"
                 PROVE  \A k \in Keys : ~(k \in published' <=> k \in answer'[r]) => changed'[k] <= spent'[r]
      BY <1>1 DEF AnswersAreClose, Within
    <2>1. Within(spent[r], answer[r]) /\ spent[r] \in Nat /\ spent'[r] = spent[r] + 1
      BY <1>1, Numbers DEF IInv, AnswersAreClose, Fetching
    <2>2. \A k \in Keys : ~(k \in published' <=> k \in answer[r]) => changed'[k] <= spent'[r]
      BY <1>2, <2>1
    <2> QED BY <2>2, <1>1
  <1>7. RereadIsClose'
    <2> SUFFICES ASSUME NEW q \in Requests, pc[q] = "reread"
                 PROVE  \A k \in Keys : ~(k \in published' <=> k \in keys') => changed'[k] <= Limit(q)'
      BY <1>1 DEF RereadIsClose, Within
    <2>1. Within(Limit(q), keys) /\ Limit(q) \in Nat
      BY LimitBounds DEF IInv, RereadIsClose
    <2>2. spent[q] = 0 \/ lock # None
      BY Numbers DEF Tick, MayStay, Reading, Fetching
    <2>3. spent'[q] > 0
      BY <1>1 DEF Waits, Reading
    <2>4. lock # None => spent[lock] \in Nat /\ spent'[lock] = spent[lock] + 1
      BY <1>1, Numbers DEF IInv, TypeOK
    <2>5. spent[q] = 0 => q \notin first
      BY DEF IInv, LockInv
    <2>6. Limit(q)' \in Nat /\ Limit(q) + 1 <= Limit(q)'
      BY <1>1, <2>2, <2>3, <2>4, <2>5, Numbers DEF Limit, IInv
    <2>7. \A k \in Keys : ~(k \in published' <=> k \in keys) => changed'[k] <= Limit(q)'
      BY <1>2, <2>1, <2>6
    <2> QED BY <2>7, <1>1
  <1> QED BY <1>1, <1>3, <1>4, <1>5, <1>6, <1>7 DEF IInv

LEMMA NextKeepsInv == IInv /\ [Next]_vars => IInv'
  <1> SUFFICES ASSUME IInv, [Next]_vars PROVE IInv'
    OBVIOUS
  <1>1. ASSUME NEW r \in Requests, NEW credential \in Credentials, Arrive(r, credential)
        PROVE  IInv'
    BY <1>1, ArriveKeepsInv
  <1>2. ASSUME NEW r \in Requests, ReadCache(r) PROVE IInv'
    <2> DEFINE place == IF Fresh /\ carries[r].key \in keys THEN Verdict(r) ELSE "lock"
    <2>1. /\ pc[r] \in Reading /\ lock = None
          /\ first' = first \ {r} /\ Goto(r, place)
          /\ UNCHANGED <<accepts, published, changed, keys, age, lock, carries, answer>>
      BY <1>2 DEF ReadCache, MayRead, server, cache
    <2>2. place \in Answers \cup {"lock"}
      BY VerdictIsAnswer DEF IInv
    <2>3. "oauth" \in accepts
      BY <2>1 DEF IInv, MethodInv, Waits
    <2>4. place = "refused" /\ "apiKey" \in accepts => carries[r].apiKey # "right"
      BY <2>3, UnauthorizedIsRight DEF IInv
    <2> HIDE DEF place
    <2> QED BY <2>1, <2>2, <2>4, ReadKeepsInv
  <1>3. ASSUME NEW r \in Requests, ReadAgain(r) PROVE IInv'
    <2> DEFINE place == IF carries[r].key \in keys THEN Verdict(r) ELSE Unauthorized(r)
    <2>1. /\ pc[r] \in Reading /\ lock = None
          /\ first' = first \ {r} /\ Goto(r, place)
          /\ UNCHANGED <<accepts, published, changed, keys, age, lock, carries, answer>>
      BY <1>3 DEF ReadAgain, MayRead, server, cache
    <2>2. place \in Answers \cup {"lock"}
      BY VerdictIsAnswer DEF IInv
    <2>3. "oauth" \in accepts
      BY <2>1 DEF IInv, MethodInv, Waits
    <2>4. place = "refused" /\ "apiKey" \in accepts => carries[r].apiKey # "right"
      BY <2>3, UnauthorizedIsRight DEF IInv
    <2> HIDE DEF place
    <2> QED BY <2>1, <2>2, <2>4, ReadKeepsInv
  <1>4. ASSUME NEW r \in Requests, Refresh(r) PROVE IInv'
    BY <1>4, BeginFetchKeepsInv, FoundFreshKeepsInv DEF Refresh
  <1>5. ASSUME NEW r \in Requests, ServerAnswers(r) \/ StoreKeys(r) \/ FetchFails(r) PROVE IInv'
    BY <1>5, ServerAnswersKeepsInv, StoreKeysKeepsInv, FetchFailsKeepsInv
  <1>6. ASSUME NEW k \in Rotating, Rotate(k) PROVE IInv'
    BY <1>6, RotateKeepsInv
  <1>7. CASE Tick
    BY <1>7, TickKeepsInv
  <1>8. CASE UNCHANGED vars
    BY <1>8 DEF vars, server, cache, mutex, IInv, TypeOK, LockInv, MethodInv, ApiKeySuffices,
       CacheIsClose, AnswersAreClose, RereadIsClose, Within, Limit, Waits
  <1> QED BY <1>1, <1>2, <1>3, <1>4, <1>5, <1>6, <1>7, <1>8 DEF Next, Step
-----------------------------------------------------------------------------
(* The types, the lock and what is known of the age of keys hold always.   *)
THEOREM GateInvariant == Spec => []IInv
  <1>1. Init => IInv
    BY InitInv
  <1>2. IInv /\ [Next]_vars => IInv'
    BY NextKeepsInv
  <1> QED BY <1>1, <1>2, PTL DEF Spec

(* Requests, cache and lock keep their types (jwks.go, auth.go).           *)
THEOREM GateTypes == Spec => []TypeOK
  <1>1. IInv => TypeOK
    BY DEF IInv
  <1> QED BY <1>1, GateInvariant, PTL

(* Where API keys are accepted the right one is enough, whatever becomes   *)
(* of the token beside it (eitherAuthMiddleware, auth.go:138-171).         *)
THEOREM ApiKeyAlwaysSuffices == Spec => []ApiKeySuffices
  <1>1. IInv => ApiKeySuffices
    BY DEF IInv
  <1> QED BY <1>1, GateInvariant, PTL

LEMMA RereadWithinTwoFetches ==
  ASSUME IInv, NEW r \in Requests, pc[r] = "reread"
  PROVE  Within(Ttl + 2 * FetchTime, keys)
  <1>1. Within(Limit(r), keys) /\ Limit(r) \in Nat /\ Limit(r) <= Ttl + 2 * FetchTime
    BY LimitBounds, Numbers DEF IInv, RereadIsClose
  <1>2. Ttl + 2 * FetchTime \in Nat
    BY Numbers DEF IInv
  <1> QED BY <1>1, <1>2, WithinMore DEF IInv

(* Only a request that reads the cache is served or refused for its token, *)
(* and in that step nothing else changes.                                  *)
LEMMA OnlyReadersDecide ==
  ASSUME IInv, Next, NEW r \in Requests, pc[r] \in Reading, pc'[r] \in Answers
  PROVE  ReadCache(r) \/ ReadAgain(r)
  <1>1. ASSUME NEW q \in Requests, NEW credential \in Credentials, Arrive(q, credential) PROVE FALSE
    BY <1>1 DEF Arrive, Goto, IInv, TypeOK, Reading, Answers
  <1>2. ASSUME NEW q \in Requests, Refresh(q) \/ ServerAnswers(q) \/ StoreKeys(q) \/ FetchFails(q) PROVE FALSE
    BY <1>2 DEF Refresh, MayWrite, BeginFetch, FoundFresh, ServerAnswers, StoreKeys, FetchFails,
       EndFetch, Goto, IInv, TypeOK, Reading, Fetching, Answers
  <1>3. ASSUME NEW q \in Requests, q # r, ReadCache(q) \/ ReadAgain(q) PROVE FALSE
    BY <1>3 DEF ReadCache, ReadAgain, Goto, IInv, TypeOK, Reading, Answers
  <1>4. ASSUME NEW k \in Rotating, Rotate(k) PROVE FALSE
    BY <1>4 DEF Rotate, Reading, Answers
  <1>5. CASE Tick
    BY <1>5 DEF Tick, Reading, Answers
  <1> QED BY <1>1, <1>2, <1>3, <1>4, <1>5 DEF Next, Step

(* No key is trusted longer than the time to live and two fetches after it *)
(* was withdrawn, whatever the interleaving (getKey, jwks.go:146-168).     *)
THEOREM StaleKeysAlwaysExpire == Spec => StaleKeysExpire
  <1> DEFINE Expire == \A r \in Requests : TrustsKey(r) =>
        carries[r].key \in published \/ changed[carries[r].key] <= Ttl + 2 * FetchTime
  <1>1. IInv /\ [Next]_vars => [Expire]_vars
    <2> SUFFICES ASSUME IInv, Next, NEW r \in Requests, TrustsKey(r), carries[r].key \notin published
                 PROVE  changed[carries[r].key] <= Ttl + 2 * FetchTime
      OBVIOUS
    <2>1. pc[r] \in Reading /\ pc'[r] \in {"served", "forbidden"}
      BY DEF TrustsKey
    <2>2. ReadCache(r) \/ ReadAgain(r)
      BY <2>1, OnlyReadersDecide DEF Answers
    <2>3. carries[r].key \in keys /\ (pc[r] = "reread" \/ age < Ttl)
      <3>1. CASE ReadCache(r)
        BY <2>1, <3>1 DEF ReadCache, Goto, Fresh, IInv, TypeOK
      <3>2. CASE ReadAgain(r)
        <4>1. pc[r] = "reread" /\ pc'[r] = IF carries[r].key \in keys THEN Verdict(r) ELSE Unauthorized(r)
          BY <3>2 DEF ReadAgain, Goto, IInv, TypeOK
        <4>2. pc'[r] = Unauthorized(r) => carries[r].apiKey = "right"
          BY <2>1 DEF Unauthorized, ByApiKey
        <4>3. pc'[r] = "forbidden" => pc'[r] # Unauthorized(r)
          BY DEF Unauthorized, ByApiKey
        <4> QED BY <4>1, <4>2, <4>3 DEF TrustsKey
      <3> QED BY <2>2, <3>1, <3>2
    <2>4. carries[r].key \in Keys
      BY <2>3 DEF IInv, TypeOK
    <2>5. CASE pc[r] = "reread"
      BY <2>3, <2>4, <2>5, RereadWithinTwoFetches DEF Within
    <2>6. CASE age < Ttl
      <3>1. changed[carries[r].key] <= age + FetchTime
        BY <2>3, <2>4, <2>6 DEF IInv, CacheIsClose, Within
      <3> QED BY <3>1, <2>4, <2>6, Numbers DEF IInv
    <2> QED BY <2>3, <2>5, <2>6
  <1> QED BY <1>1, GateInvariant, PTL DEF Spec, StaleKeysExpire

(* A good token that was looked up is refused only for a key that has been *)
(* withdrawn, or is no older than the time to live and two fetches: the    *)
(* second check of refresh (jwks.go:174-177) costs a new key no more.      *)
THEOREM RefusalsAreAlwaysExplained == Spec => RefusalsAreExplained
  <1> DEFINE Explained == \A r \in Requests :
        pc[r] = "reread" /\ carries[r].token = "good" /\ pc'[r] = "refused" =>
          \/ carries[r].key \notin published
          \/ changed[carries[r].key] <= Ttl + 2 * FetchTime
  <1>1. IInv /\ [Next]_vars => [Explained]_vars
    <2> SUFFICES ASSUME IInv, Next, NEW r \in Requests, pc[r] = "reread", carries[r].token = "good",
                        pc'[r] = "refused", carries[r].key \in published
                 PROVE  changed[carries[r].key] <= Ttl + 2 * FetchTime
      OBVIOUS
    <2>1. ReadCache(r) \/ ReadAgain(r)
      BY OnlyReadersDecide DEF Answers, Reading
    <2>2. pc'[r] = IF carries[r].key \in keys THEN Verdict(r) ELSE Unauthorized(r)
      BY <2>1 DEF ReadCache, ReadAgain, Goto, IInv, TypeOK
    <2>3. carries[r].key \notin keys
      BY <2>2 DEF Verdict
    <2>4. carries[r].key \in Keys
      BY DEF IInv, TypeOK
    <2>5. Within(Ttl + 2 * FetchTime, keys)
      BY RereadWithinTwoFetches
    <2> HIDE DEF IInv
    <2> QED BY <2>3, <2>4, <2>5 DEF Within
  <1> QED BY <1>1, GateInvariant, PTL DEF Spec, RefusalsAreExplained
=============================================================================
