---------------------------- MODULE ContextBuilder ----------------------------
(***************************************************************************)
(* The context a model call receives: talk/internal/domain/                *)
(* context_builder.go as operators over the two things it reads, the       *)
(* detailed messages of a session and the history rows of its turns.       *)
(*                                                                         *)
(* A message is [role, turn, round, n]: an assistant message of `round`    *)
(* asks for n tools; a tool message of `round` answers the n-th of them    *)
(* (the code matches them by ToolCall.ID). A history row is                *)
(* [turn, status, question, answer]; question and answer say whether the   *)
(* text is non-empty, which is all the builder asks of it.                 *)
(***************************************************************************)
EXTENDS Integers, FiniteSets, SequencesExt

CONSTANT NoTurn   \* the empty TurnID of a message that belongs to no turn

UserMessage(t) == [role |-> "user", turn |-> t, round |-> 0, n |-> 0]
AssistantMessage(t, r, calls) == [role |-> "assistant", turn |-> t, round |-> r, n |-> calls]
ToolMessage(t, r, i) == [role |-> "tool", turn |-> t, round |-> r, n |-> i]

(* An answer shown as plain text carries no tool call and no round.        *)
AnswerSummary(t) == AssistantMessage(t, 0, 0)

Row(t, status, question, answer) ==
  [turn |-> t, status |-> status, question |-> question, answer |-> answer]

TurnsOf(log) == {log[i].turn : i \in DOMAIN log}

(* The messages of some turns, in their order.                             *)
MessagesOf(log, turns) ==
  FlattenSeq([i \in DOMAIN log |-> IF log[i].turn \in turns THEN <<log[i]>> ELSE <<>>])

PartOf(log, t) == MessagesOf(log, {t})
-----------------------------------------------------------------------------
IsPreviousUserTurn(m, current) ==
  m.role = "user" /\ m.turn # NoTurn /\ m.turn # current

(* The n user turns that started last, each placed at its first user       *)
(* message.                                                                *)
LastNTurnIDs(log, current, n) ==
  LET firsts == {i \in DOMAIN log :
                   /\ IsPreviousUserTurn(log[i], current)
                   /\ \A j \in 1..(i - 1) : ~(/\ IsPreviousUserTurn(log[j], current)
                                              /\ log[j].turn = log[i].turn)}
  IN  {log[i].turn : i \in {k \in firsts : Cardinality({j \in firsts : j > k}) < n}}

(* Faulty: the turn at work is not selected for itself.                    *)
SelectWithoutCurrent(log, rows, current, full) ==
  (IF full > 0 THEN LastNTurnIDs(log, current, full) ELSE {})
    \cup {rows[i].turn : i \in {k \in DOMAIN rows : rows[k].status = "incomplete"}}

SelectDetailedTurnIDs(log, rows, current, full) ==
  {current}
    \cup (IF full > 0 THEN LastNTurnIDs(log, current, full) ELSE {})
    \cup {rows[i].turn : i \in {k \in DOMAIN rows : rows[k].status = "incomplete"}}

AvailableDetailed(log, detailed) ==
  {t \in TurnsOf(log) : t # NoTurn /\ t \in detailed}

SummaryOf(row) ==
  (IF row.question THEN <<UserMessage(row.turn)>> ELSE <<>>)
    \o (IF row.answer THEN <<AnswerSummary(row.turn)>> ELSE <<>>)

(* The summaries of some of the turns that have a row.                     *)
Summaries(rows, turns) ==
  FlattenSeq([i \in DOMAIN rows |->
    IF rows[i].turn \in turns THEN SummaryOf(rows[i]) ELSE <<>>])

(* Faulty: a turn shown in detail is summarised as well.                   *)
SummariesOfAll(rows, detailed, current) ==
  Summaries(rows, TurnsOf(rows) \ {current})

HistoryTurnsAsMessages(rows, detailed, current) ==
  Summaries(rows, TurnsOf(rows) \ (detailed \cup {current}))

(* The turns to fall back on are walked in the order of a Go map, which is *)
(* any order. A turn without a row adds nothing.                           *)
FallbackSummaries(rows, detailed, available, current) ==
  LET missing == detailed \ (available \cup {current}) IN
  {Summaries([k \in DOMAIN order |-> rows[order[k]]], missing) :
     order \in SetToSeqs({i \in DOMAIN rows : rows[i].turn \in missing})}

(* Faulty: turns that were not selected are not filtered out.              *)
UnfilteredMessages(log, detailed) == log

DetailedMessages(log, detailed) ==
  MessagesOf(log, detailed \cup {NoTurn})

(* Faulty: the summaries are appended after the detailed messages.         *)
SummariesLast(log, rows, current, full) ==
  LET detailed == SelectDetailedTurnIDs(log, rows, current, full)
  IN  {DetailedMessages(log, detailed) \o HistoryTurnsAsMessages(rows, detailed, current)}

(* Every context BuildContextMessages may return once both reads answered. *)
MergedContexts(log, rows, current, full) ==
  LET detailed  == SelectDetailedTurnIDs(log, rows, current, full)
      available == AvailableDetailed(log, detailed)
  IN  {HistoryTurnsAsMessages(rows, detailed, current) \o fallback
         \o DetailedMessages(log, detailed) :
         fallback \in FallbackSummaries(rows, detailed, available, current)}

(* A negative setting sends the whole log, and so does a failed read of    *)
(* the history. (A failed read of the messages sends nothing at all: the   *)
(* caller's business, for there is no log then.)                           *)
BuildContextMessages(log, rows, current, full, historyRead) ==
  IF full < 0 \/ ~historyRead THEN {log} ELSE MergedContexts(log, rows, current, full)
=============================================================================
