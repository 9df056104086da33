------------------------------ MODULE RunProtocol ------------------------------
(***************************************************************************)
(* What a client of POST /agent may rely on: the order in which the events *)
(* of one run reach it. Custom events (token and turn usage) may come      *)
(* anywhere and are left out; start, content and end of a text are one     *)
(* block, and so are the five events of a reasoning.                       *)
(***************************************************************************)
EXTENDS Integers

CONSTANT CallIds   \* the tool calls a run may make

VARIABLE client    \* what the client has seen: phase, open block, tool calls

Phases == {"waiting", "running", "finished", "interrupted", "errored"}
Closed == {"finished", "interrupted", "errored"}
Blocks == {"reasoning", "text"}

(* Stages of a tool call: TOOL_CALL_START, _ARGS, _END and _RESULT.        *)
Answered == 4

View == [phase : Phases, open : Blocks \cup {"none"}, stage : [CallIds -> 0..Answered]]

Init == client = [phase |-> "waiting", open |-> "none", stage |-> [c \in CallIds |-> 0]]

NoCallPending == \A c \in CallIds : client.stage[c] \in {0, Answered}

Start ==
  /\ client.phase = "waiting"
  /\ client' = [client EXCEPT !.phase = "running"]

(* A block opens while no tool call is pending, and closes before anything *)
(* else.                                                                   *)
OpenBlock(b) ==
  /\ client.phase = "running"
  /\ client.open = "none"
  /\ NoCallPending
  /\ client' = [client EXCEPT !.open = b]

CloseBlock ==
  /\ client.phase = "running"
  /\ client.open # "none"
  /\ client' = [client EXCEPT !.open = "none"]

(* The four events of a call, in order and once; those of other calls may  *)
(* come between them.                                                      *)
CallEvent(c) ==
  /\ client.phase = "running"
  /\ client.open = "none"
  /\ client.stage[c] < Answered
  /\ client' = [client EXCEPT !.stage[c] = @ + 1]

(* A run that finishes, or asks whether to go on, has closed every block   *)
(* and shown the result of every call it has announced.                    *)
Finish(phase) ==
  /\ client.phase = "running"
  /\ client.open = "none"
  /\ NoCallPending
  /\ phase \in {"finished", "interrupted"}
  /\ client' = [client EXCEPT !.phase = phase]

(* RUN_ERROR ends a run, or refuses it before it has started.              *)
Fail ==
  /\ client.phase \in {"waiting", "running"}
  /\ client.open = "none"
  /\ client' = [client EXCEPT !.phase = "errored"]

Next ==
  \/ Start
  \/ \E b \in Blocks : OpenBlock(b)
  \/ CloseBlock
  \/ \E c \in CallIds : CallEvent(c)
  \/ \E phase \in Phases : Finish(phase)
  \/ Fail

Spec == Init /\ [][Next]_client
=============================================================================
