-------------------------- MODULE TranscriptProtocol --------------------------
(***************************************************************************)
(* What the conversation engine promises of the stored part of each turn,  *)
(* without sessions, processes, reads, locks or contexts: a transcript     *)
(* grows by one legal message at a time, is recorded at most once and only *)
(* when it is closed, may stop anywhere, and may be erased, whole and with *)
(* its record, after which the turn is never heard of again.               *)
(***************************************************************************)
EXTENDS ContextBuilder

CONSTANTS Turns, MaxToolCalls, Batches

VARIABLES
  transcript,  \* what is stored of each turn: its messages, by their place
  record,      \* "none", or the status its history row gives it
  open         \* the turns that may still store something

vars == <<transcript, record, open>>

Nothing == [place \in {} |-> NoTurn]

Init ==
  /\ transcript = [t \in Turns |-> Nothing]
  /\ record = [t \in Turns |-> "none"]
  /\ open = Turns

Held(log)    == {log[place] : place \in DOMAIN log}
Answers(log) == {m \in Held(log) : m.role = "assistant"}
Final(log)   == \E m \in Answers(log) : m.n = 0

(* The results some answers ask for, and those that are not stored yet.    *)
Asked(t, answers) == UNION {{ToolMessage(t, m.round, k) : k \in 1..m.n} : m \in answers}
Owed(t, log)      == Asked(t, Answers(log)) \ Held(log)

(* The rounds that may follow those answered.                              *)
NextRounds(log) ==
  {r \in 1..MaxToolCalls : {m.round : m \in Answers(log)} = 1..(r - 1)}

NextMessages(t, log) ==
  IF Held(log) = {} THEN {UserMessage(t)}
  ELSE IF Owed(t, log) # {} THEN {m \in Owed(t, log) : \A o \in Owed(t, log) : m.n <= o.n}
  ELSE IF Final(log) THEN {}
  ELSE {AssistantMessage(t, r, calls) : r \in NextRounds(log), calls \in Batches}

(* A legal message is stored behind all the others of its turn.            *)
Extends(t, old, new) ==
  \E place \in DOMAIN new :
    /\ \A i \in DOMAIN old : i < place
    /\ old = [i \in DOMAIN new \ {place} |-> new[i]]
    /\ new[place] \in NextMessages(t, old)

Grow(t) ==
  /\ t \in open
  /\ open' \in {open, open \ {t}}
  /\ UNCHANGED record
  /\ Extends(t, transcript[t], transcript'[t])
  /\ transcript' = [transcript EXCEPT ![t] = transcript'[t]]

StatusOf(log) == IF Final(log) THEN "complete" ELSE "incomplete"

Record(t) ==
  /\ t \in open
  /\ open' = open \ {t}
  /\ Held(transcript[t]) # {}
  /\ NextMessages(t, transcript[t]) = {}
  /\ record' = [record EXCEPT ![t] = StatusOf(transcript[t])]
  /\ UNCHANGED transcript

Stop(turns) ==
  /\ open' = open \ turns
  /\ UNCHANGED <<record, transcript>>

Erase(turns) ==
  /\ open' = open \ turns
  /\ record' = [t \in Turns |-> IF t \in turns THEN "none" ELSE record[t]]
  /\ transcript' = [t \in Turns |-> IF t \in turns THEN Nothing ELSE transcript[t]]

Next ==
  \/ \E turns \in SUBSET Turns : Stop(turns)
  \/ \E t \in Turns : Grow(t) \/ Record(t)
  \/ \E turns \in SUBSET Turns : Erase(turns)

Spec == Init /\ [][Next]_vars
=============================================================================
