------------------------------ MODULE ClientBuckets ------------------------------
(***************************************************************************)
(* One bucket per client that is never forgotten, filled with time up to   *)
(* Burst. Every request of a client that is let through takes one token    *)
(* from its bucket, and is refused only when that one is empty. Nothing is *)
(* promised to others who ask, and they take nothing from any client.      *)
(***************************************************************************)
EXTENDS Naturals

CONSTANTS Clients, Others, Nobody, Requests, Burst, Rate

VARIABLES
  bucket,   \* tokens in the bucket of each client
  asker,    \* who sent each request that waits for its verdict
  verdict   \* of each request: none asked for, passed or limited

Upto(bound, n) == IF n < bound THEN n ELSE bound

Init ==
  /\ bucket = [c \in Clients |-> Burst]
  /\ asker = [r \in Requests |-> Nobody]
  /\ verdict = [r \in Requests |-> "none"]

Ask(r, c) ==
  /\ asker[r] = Nobody
  /\ asker' = [asker EXCEPT ![r] = c]
  /\ verdict' = [verdict EXCEPT ![r] = "none"]
  /\ UNCHANGED bucket

Answer(r, is) ==
  /\ asker[r] # Nobody
  /\ asker' = [asker EXCEPT ![r] = Nobody]
  /\ verdict' = [verdict EXCEPT ![r] = is]

Pass(r) ==
  /\ Answer(r, "passed")
  /\ asker[r] \in Clients => bucket[asker[r]] > 0
  /\ bucket' = [c \in Clients |-> IF c = asker[r] THEN bucket[c] - 1 ELSE bucket[c]]

Limit(r) ==
  /\ Answer(r, "limited")
  /\ asker[r] \in Clients => bucket[asker[r]] = 0
  /\ UNCHANGED bucket

Refill ==
  /\ bucket' = [c \in Clients |-> Upto(Burst, bucket[c] + Rate)]
  /\ UNCHANGED <<asker, verdict>>

Next ==
  \/ \E r \in Requests : (\E c \in Clients \cup Others : Ask(r, c)) \/ Pass(r) \/ Limit(r)
  \/ Refill

Spec == Init /\ [][Next]_<<bucket, asker, verdict>>
=============================================================================
