------------------------------ MODULE ChatContext ------------------------------
(***************************************************************************)
(* ChatTurns seen from two sides: what the model is shown (the contexts    *)
(* BuildContextMessages may build for a call, in every mode of             *)
(* CONTEXT_FULL_TURNS) and what the store promises of each turn (module    *)
(* TranscriptProtocol).                                                    *)
(***************************************************************************)
EXTENDS ChatTurns, ProviderRequests

CONSTANT ContextModes   \* values of CONTEXT_FULL_TURNS: -1 full, 0 lean, n hybrid

ASSUME ContextModesAssumption == ContextModes \subseteq Int

AboutToCall(t) == chat[t].pc = "call"

(* The rows come back ordered by the second the turn started in, then by a *)
(* random id: any order. The read of the history may fail.                 *)
ContextsIn(t, mode) ==
  UNION {BuildContextMessages(chat[t].snapshot, rows, t, mode, read) :
           rows \in SetToSeqs(history[session[t]]), read \in BOOLEAN}

Contexts(t) == UNION {ContextsIn(t, mode) : mode \in ContextModes}

(* What Chat has been through in turn t up to the call it is about to make.*)
Exchange(t) ==
  <<UserMessage(t)>> \o FlattenSeq([r \in 1..Round(t) |->
     <<AssistantMessage(t, r, chat[t].asked[r])>>
       \o [k \in 1..chat[t].asked[r] |-> ToolMessage(t, r, k)]])

(* A read that succeeds shows the model every message of the turn it works *)
(* for, once and in order, whatever else is stored in the session, in every*)
(* context mode and however the history read ends: a call may not lose the *)
(* results of the tools it just paid for (context_builder.go:53-67 and     *)
(* 119-130).                                                               *)
OwnTranscriptIntact ==
  \A t \in Turns \ removed : AboutToCall(t) =>
    \A context \in Contexts(t) : PartOf(context, t) = Exchange(t)

(* When no two turns of a session overlap, the turn at work comes last and *)
(* in one piece: summaries and older turns never come after it or between  *)
(* its messages (context_builder.go:43-47).                                *)
OwnTranscriptIsSuffix ==
  \A t \in Turns \ removed : AboutToCall(t) =>
    \A context \in Contexts(t) : IsSuffix(Exchange(t), context)

(* Every call in the context has a result behind it, and every result a    *)
(* call before it.                                                         *)
WellFormed(context) ==
  \A i \in DOMAIN context : LET m == context[i] IN
    /\ m.role = "assistant" => \A k \in 1..m.n :
         \E j \in (i + 1)..Len(context) : context[j] = ToolMessage(m.turn, m.round, k)
    /\ m.role = "tool" => \E j \in 1..(i - 1) :
         /\ context[j].role = "assistant"
         /\ context[j].turn = m.turn
         /\ context[j].round = m.round

(* No session was removed under a turn of the same session.                *)
Undisturbed(t) == {u \in removed : session[u] = session[t]} = {}

(* The turns whose final answer may have been an empty text.               *)
BlankAnswers(rows) ==
  {blank \in SUBSET Turns :
     \A i \in DOMAIN rows : rows[i].status = "complete" => (rows[i].turn \in blank <=> ~rows[i].answer)}

(* In the default mode (lean) with a readable history, every provider gets *)
(* a request it accepts: roles alternate, the tools an answer used are     *)
(* answered in what follows it at once and nowhere else, and the user has  *)
(* the first and the last word, though cancelled, failed and crashed turns *)
(* leave such messages in the store, answers may be empty and turns may    *)
(* run out of rounds (anthropic/converter.go:12-34, openai/converter.go,   *)
(* openrouter/converter.go).                                               *)
LeanRequestsAccepted ==
  \A t \in Turns : AboutToCall(t) /\ Undisturbed(t) =>
    \A rows \in SetToSeqs(history[session[t]]) :
      \A context \in BuildContextMessages(chat[t].snapshot, rows, t, 0, TRUE),
         blank \in BlankAnswers(rows) :
        Accepted(context, blank)

(* After a read that succeeds, in a session that was not removed under one *)
(* of its turns: another turn that has a row reaches the model exactly     *)
(* once, either as the question and answer of a row or as all that was     *)
(* read of its messages, never as both and never cut; one without a row as *)
(* all that was read of it or not at all (historyTurnsAsMessages,          *)
(* appendFallbackSummaries and appendDetailedMessages share the turns      *)
(* among them).                                                            *)
EarlierTurnsShownOnce ==
  \A t \in Turns : AboutToCall(t) /\ Undisturbed(t) =>
    \A context \in Contexts(t) : \A u \in Turns \ {t} :
      LET stored == PartOf(chat[t].snapshot, u)
          shown  == PartOf(context, u)
          rows   == {h \in history[session[t]] : h.turn = u}
      IN  shown \in IF rows = {} THEN {<<>>, stored}
                    ELSE {stored} \cup {SummaryOf(h) : h \in rows}

(* docs/mcp-protocol.md:387: all tool results must be available before the *)
(* next LLM call.                                                          *)
AllResultsBeforeNextCall ==
  \A t \in Turns : AboutToCall(t) =>
    \A context \in Contexts(t) : WellFormed(context)
-----------------------------------------------------------------------------
(* The rows of a turn that count: those of a session removed under it do   *)
(* not.                                                                    *)
LogOf(t)  == IF t \in removed \/ session[t] = NoSession THEN <<>> ELSE messages[session[t]]
RowsOf(t) == IF t \in removed \/ session[t] = NoSession THEN {} ELSE history[session[t]]

(* Each message keeps its place in the log.                                *)
StoredIn(log, t) == [place \in {i \in DOMAIN log : log[i].turn = t} |-> log[place]]

StatusIn(rows)    == IF rows = {} THEN "none" ELSE (CHOOSE h \in rows : TRUE).status
RecordIn(rows, t) == StatusIn({h \in rows : h.turn = t})

StoredOf(t) == StoredIn(LogOf(t), t)
RecordOf(t) == RecordIn(RowsOf(t), t)

Protocol ==
  INSTANCE TranscriptProtocol
    WITH transcript <- [t \in Turns |-> StoredOf(t)],
         record <- [t \in Turns |-> RecordOf(t)],
         open <- {t \in Turns \ removed : chat[t].pc \notin Ended}

(* Statement by statement, the store and the loop of Chat do to each turn  *)
(* what TranscriptProtocol allows, under every interleaving of turns,      *)
(* cancellation, failure, crash and removal.                               *)
TurnsFollowProtocol == Protocol!Spec
=============================================================================
