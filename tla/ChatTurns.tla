------------------------------- MODULE ChatTurns -------------------------------
(***************************************************************************)
(* Conversation turns over the session store they share.                   *)
(*                                                                         *)
(* A turn is one call of ConversationManager.Chat. It stores the user's    *)
(* message, then loops: read the context, call the model, store its        *)
(* answer, run the tools it asked for, store one result per tool. Turns    *)
(* run in processes that share one SQLite file: the AG-UI server runs one  *)
(* turn per request, an interactive session (a member of Clis) one turn at *)
(* a time. A turn may be cancelled (the client went away), may lose any    *)
(* store operation, may be cut by a crash of its process, and may have its *)
(* session removed by an interactive session of another process.           *)
(*                                                                         *)
(* What is abstracted: texts, timing and token usage. A message is what    *)
(* ContextBuilder needs of it; the model is any sequence of answers; the   *)
(* tools are one step (module AgentRun is that step in detail).            *)
(***************************************************************************)
EXTENDS ContextBuilder

CONSTANTS
  Sessions,       \* session ids (thread ids of the server)
  Turns,          \* one element per call of Chat
  Processes,      \* operating-system processes that share the store
  Clis,           \* those that are interactive sessions
  Host,           \* the process that runs a turn
  MaxToolCalls,   \* maxToolCalls: rounds of a turn
  Batches,        \* how many tools one answer of the model may ask for
  NoSession,
  OneRunPerThread \* TRUE: clients never send a second request on a busy thread

ASSUME ConstantsAssumption ==
  /\ Clis \subseteq Processes
  /\ Host \in [Turns -> Processes]
  /\ MaxToolCalls \in Nat \ {0}
  /\ Batches \subseteq Nat
  /\ NoSession \notin Sessions
  /\ NoTurn \notin Turns
  /\ OneRunPerThread \in BOOLEAN

VARIABLES
  sessions,   \* table sessions: the ids that have a row
  messages,   \* table messages: the rows of each session id, in id order
  history,    \* table history_turns: the rows of each session id
  session,    \* the session each turn was started on
  chat,       \* the call of Chat of each turn: a Frame
  removed     \* history variable: turns whose session was removed under them

store == <<sessions, messages, history>>
vars  == <<store, session, chat, removed>>

Emitting == {"user", "assistant", "results"}   \* at a HandleMessageEvent
Ended    == {"completed", "exhausted", "failed", "dead"}
Control  == Emitting \cup Ended
              \cup {"idle", "read", "call", "blind", "tools", "finish", "giveup"}

Message ==
  [role : {"user", "assistant", "tool"}, turn : Turns, round : Nat, n : Nat]
HistoryRow ==
  [turn : Turns, status : {"complete", "incomplete"}, question : BOOLEAN, answer : BOOLEAN]

(* What a turn knows: where it is, the tools each answer of the model asked *)
(* for, how many results of the round it has stored, the messages it read  *)
(* for the call it prepares, the answer of isSessionMaterialized while it  *)
(* holds the store's lock, and whether its context.Context is done.        *)
Frame ==
  [pc : Control, asked : Seq(Batches), delivered : Nat, snapshot : Seq(Message),
   seen : {"none", "present", "absent"}, cancelled : BOOLEAN]

AtRest(place) ==
  [pc |-> place, asked |-> <<>>, delivered |-> 0, snapshot |-> <<>>,
   seen |-> "none", cancelled |-> FALSE]

Running(t)   == chat[t].pc \notin Ended \cup {"idle"}
Round(t)     == Len(chat[t].asked)
LastBatch(t) == chat[t].asked[Round(t)]

TypeOK ==
  /\ sessions \in SUBSET Sessions
  /\ messages \in [Sessions -> Seq(Message)]
  /\ history \in [Sessions -> SUBSET HistoryRow]
  /\ session \in [Turns -> Sessions \cup {NoSession}]
  /\ chat \in [Turns -> Frame]
  /\ removed \in SUBSET Turns

Init ==
  /\ sessions = {}
  /\ messages = [s \in Sessions |-> <<>>]
  /\ history = [s \in Sessions |-> {}]
  /\ session = [t \in Turns |-> NoSession]
  /\ chat = [t \in Turns |-> AtRest("idle")]
  /\ removed = {}

(* Chat returns: its locals are gone.                                      *)
Return(t, outcome) == chat' = [chat EXCEPT ![t] = AtRest(outcome)]

(* db.mu of the turn's process: held from the check of the session to the  *)
(* insertion of the message, and needed by every other store operation.    *)
LockFree(t) == \A u \in Turns : Host[u] = Host[t] => chat[u].seen = "none"
-----------------------------------------------------------------------------
(* Chat is called: the system prompt is read first and may fail the turn   *)
(* before anything is stored. The interactive loop waits for its turn to   *)
(* end before it reads the next line.                                      *)
Begin(t, s) ==
  /\ chat[t].pc = "idle"
  /\ Host[t] \in Clis => \A u \in Turns : Running(u) => Host[u] # Host[t]
  /\ OneRunPerThread => \A u \in Turns : Running(u) => session[u] # s
  /\ session' = [session EXCEPT ![t] = s]
  /\ chat' = [chat EXCEPT ![t].pc = "user"] \/ Return(t, "failed")
  /\ UNCHANGED <<store, removed>>

(* The message event a turn is handing to its event handlers.              *)
CurrentMessage(t) ==
  CASE chat[t].pc = "user"      -> UserMessage(t)
    [] chat[t].pc = "assistant" -> AssistantMessage(t, Round(t), LastBatch(t))
    [] chat[t].pc = "results"   -> ToolMessage(t, Round(t), chat[t].delivered + 1)

(* Faulty: one result too many.                                            *)
OneMoreResult(t) == chat[t].pc = "results" /\ chat[t].delivered + 1 <= LastBatch(t)

MoreResults(t) == chat[t].pc = "results" /\ chat[t].delivered + 1 < LastBatch(t)

(* Faulty: the last round is given up before its tools are run.            *)
AfterGivingUpEarly(t) ==
  CASE chat[t].pc = "user"      -> "read"
    [] chat[t].pc = "assistant" -> IF LastBatch(t) = 0 THEN "finish"
                                   ELSE IF Round(t) < MaxToolCalls THEN "tools" ELSE "giveup"
    [] chat[t].pc = "results"   -> IF MoreResults(t) THEN "results" ELSE "read"

(* Where Chat goes once every handler has accepted the message.            *)
AfterMessage(t) ==
  CASE chat[t].pc = "user"      -> "read"
    [] chat[t].pc = "assistant" -> IF LastBatch(t) = 0 THEN "finish" ELSE "tools"
    [] chat[t].pc = "results"   -> IF MoreResults(t) THEN "results"
                                   ELSE IF Round(t) < MaxToolCalls THEN "read" ELSE "giveup"

(* The store accepted or skipped the message: the turn goes on, unless     *)
(* another handler of the pipeline failed, which ends it.                  *)
MessageHandled(t) ==
  \/ chat' = [chat EXCEPT ![t].pc = AfterMessage(t),
                          ![t].delivered = IF MoreResults(t) THEN @ + 1 ELSE 0,
                          ![t].seen = "none"]
  \/ Return(t, "failed")

(* Faulty: the session is taken for granted.                               *)
CheckNothing(t) ==
  /\ chat[t].pc \in Emitting
  /\ LockFree(t)
  /\ ~chat[t].cancelled
  /\ chat' = [chat EXCEPT ![t].seen = "present"]
  /\ UNCHANGED <<store, session, removed>>

(* HandleMessageEvent of the store, first statement: does the session have *)
(* a row? Statements of other processes may come between this one and the  *)
(* next, those of this process may not.                                    *)
CheckSession(t) ==
  /\ chat[t].pc \in Emitting
  /\ LockFree(t)
  /\ ~chat[t].cancelled
  /\ chat' = [chat EXCEPT ![t].seen = IF session[t] \in sessions THEN "present" ELSE "absent"]
  /\ UNCHANGED <<store, session, removed>>

(* A user message creates the session it did not find.                     *)
MaterializeSession(t) ==
  /\ chat[t].pc = "user"
  /\ chat[t].seen = "absent"
  /\ ~chat[t].cancelled
  /\ session[t] \notin sessions
  /\ sessions' = sessions \cup {session[t]}
  /\ chat' = [chat EXCEPT ![t].seen = "present"]
  /\ UNCHANGED <<messages, history, session, removed>>

(* Any other message of a session that has no row is dropped, silently.    *)
SkipMessage(t) ==
  /\ chat[t].pc \in Emitting \ {"user"}
  /\ chat[t].seen = "absent"
  /\ MessageHandled(t)
  /\ UNCHANGED <<store, session, removed>>

InsertMessage(t) ==
  /\ chat[t].pc \in Emitting
  /\ chat[t].seen = "present"
  /\ ~chat[t].cancelled
  /\ messages' = [messages EXCEPT ![session[t]] = Append(@, CurrentMessage(t))]
  /\ MessageHandled(t)
  /\ UNCHANGED <<sessions, history, session, removed>>

(* A statement of HandleMessageEvent fails (a busy or closed database, a   *)
(* done context, a session row another process has just inserted).         *)
MessageFails(t) ==
  /\ chat[t].pc \in Emitting
  /\ chat[t].seen = "none" => LockFree(t)
  /\ Return(t, "failed")
  /\ UNCHANGED <<store, session, removed>>
-----------------------------------------------------------------------------
(* BuildContextMessages, first read.                                       *)
ReadMessages(t) ==
  /\ chat[t].pc = "read"
  /\ LockFree(t)
  /\ ~chat[t].cancelled
  /\ chat' = [chat EXCEPT ![t].pc = "call", ![t].snapshot = messages[session[t]]]
  /\ UNCHANGED <<store, session, removed>>

(* The builder fails open: without messages the model is called without    *)
(* any.                                                                    *)
ReadFails(t) ==
  /\ chat[t].pc = "read"
  /\ LockFree(t)
  /\ chat' = [chat EXCEPT ![t].pc = "blind"]
  /\ UNCHANGED <<store, session, removed>>

(* The second read (the history), the call and its answer with `calls`     *)
(* tools. The history is read in the state the step starts from, so the    *)
(* context is a function of that state (module ChatContext).               *)
ModelReplies(t, calls) ==
  /\ chat[t].pc \in {"call", "blind"}
  /\ chat[t].pc = "call" => LockFree(t)
  /\ ~chat[t].cancelled
  /\ chat' = [chat EXCEPT ![t].pc = "assistant",
                          ![t].asked = Append(@, calls),
                          ![t].snapshot = <<>>]
  /\ UNCHANGED <<store, session, removed>>

ModelFails(t) ==
  /\ chat[t].pc \in {"call", "blind"}
  /\ chat[t].pc = "call" => LockFree(t)
  /\ Return(t, "failed")
  /\ UNCHANGED <<store, session, removed>>

(* ToolExecutor.Execute: a tool that fails is a result like another; no    *)
(* registered tool, or a handler that refuses a start or an end event,     *)
(* fails the turn.                                                         *)
ExecuteTools(t) ==
  /\ chat[t].pc = "tools"
  /\ chat' = [chat EXCEPT ![t].pc = "results"] \/ Return(t, "failed")
  /\ UNCHANGED <<store, session, removed>>
-----------------------------------------------------------------------------
(* Faulty: a status the readers do not know.                               *)
InterruptedRow(t, answered) ==
  LET complete == chat[t].pc = "finish"
  IN  Row(t, IF complete THEN "complete" ELSE "interrupted", TRUE, complete /\ answered)

(* The row a turn is recorded by; a final answer may be an empty text.     *)
TurnRow(t, answered) ==
  LET complete == chat[t].pc = "finish"
  IN  Row(t, IF complete THEN "complete" ELSE "incomplete", TRUE, complete /\ answered)

(* HandleTurnEndEvent of the store: one upsert, whether or not the session *)
(* has a row.                                                              *)
UpsertRow(t) ==
  \E answered \in BOOLEAN :
    history' = [history EXCEPT ![session[t]] =
                  {h \in @ : h.turn # t} \cup {TurnRow(t, answered)}]

(* The end event of a completed turn: if a handler fails, Chat returns an  *)
(* error though the answer and maybe the row are stored.                   *)
CompleteTurn(t) ==
  /\ chat[t].pc = "finish"
  /\ LockFree(t)
  /\ \/ ~chat[t].cancelled /\ UpsertRow(t) /\ (Return(t, "completed") \/ Return(t, "failed"))
     \/ UNCHANGED history /\ Return(t, "failed")
  /\ UNCHANGED <<sessions, messages, session, removed>>

(* The end event of a turn that used up its rounds: a failure is logged,   *)
(* and Chat returns ErrMaxToolIterations all the same.                     *)
GiveUpTurn(t) ==
  /\ chat[t].pc = "giveup"
  /\ LockFree(t)
  /\ \/ ~chat[t].cancelled /\ UpsertRow(t)
     \/ UNCHANGED history
  /\ Return(t, "exhausted")
  /\ UNCHANGED <<sessions, messages, session, removed>>
-----------------------------------------------------------------------------
(* The client of a request goes away. Interactive turns run under a        *)
(* context nothing cancels.                                                *)
Cancel(t) ==
  /\ Running(t)
  /\ ~chat[t].cancelled
  /\ Host[t] \notin Clis
  /\ chat' = [chat EXCEPT ![t].cancelled = TRUE]
  /\ UNCHANGED <<store, session, removed>>

(* A process dies and is restarted: its turns are gone, the database is    *)
(* what the statements executed so far made it.                            *)
Crash(p) ==
  LET lost == {t \in Turns : Host[t] = p /\ Running(t)}
  IN  /\ lost # {}
      /\ chat' = [t \in Turns |-> IF t \in lost THEN AtRest("dead") ELSE chat[t]]
      /\ UNCHANGED <<store, session, removed>>

(* The turns that lose stored messages, or are about to, when the row of s *)
(* goes away: those that found it or created it.                           *)
TurnsOn(s) ==
  {t \in Turns : /\ Running(t)
                 /\ session[t] = s
                 /\ chat[t].pc = "user" => chat[t].seen = "present"}

(* Faulty: the history of the session is left behind.                      *)
RemoveAllButHistory(c, s) ==
  /\ \A t \in Turns : Running(t) => Host[t] # c
  /\ sessions' = sessions \ {s}
  /\ messages' = [messages EXCEPT ![s] = <<>>]
  /\ removed' = removed \cup TurnsOn(s)
  /\ UNCHANGED <<history, session, chat>>

(* One transaction over the three tables.                                  *)
DeleteSession(s) ==
  /\ sessions' = sessions \ {s}
  /\ messages' = [messages EXCEPT ![s] = <<>>]
  /\ history' = [history EXCEPT ![s] = {}]

(* "/session remove" in an interactive session that is waiting for input.  *)
(* The list the user picked from may be stale, so s may be gone already.   *)
(* (It may not be the user's own current session; the user can leave that  *)
(* one first with "/session new", which touches no state kept here.)       *)
RemoveSession(c, s) ==
  /\ \A t \in Turns : Running(t) => Host[t] # c
  /\ DeleteSession(s)
  /\ removed' = removed \cup TurnsOn(s)
  /\ UNCHANGED <<session, chat>>
-----------------------------------------------------------------------------
Progress(t) ==
  \/ CheckSession(t)
  \/ MaterializeSession(t)
  \/ SkipMessage(t)
  \/ InsertMessage(t)
  \/ MessageFails(t)
  \/ ReadMessages(t)
  \/ ReadFails(t)
  \/ \E calls \in Batches : ModelReplies(t, calls)
  \/ ModelFails(t)
  \/ ExecuteTools(t)
  \/ CompleteTurn(t)
  \/ GiveUpTurn(t)

Next ==
  \/ \E t \in Turns : (\E s \in Sessions : Begin(t, s)) \/ Progress(t) \/ Cancel(t)
  \/ \E p \in Processes : Crash(p)
  \/ \E c \in Clis, s \in Sessions : RemoveSession(c, s)

Spec == Init /\ [][Next]_vars
-----------------------------------------------------------------------------
(* Order of the messages of one turn: the user's, then each answer and its *)
(* results by the place of the call.                                       *)
Rank(m) == IF m.role = "tool" THEN m.n ELSE 0
Precedes(a, b) == a.round < b.round \/ (a.round = b.round /\ Rank(a) < Rank(b))

StoredBefore(log, i, m) == \E j \in 1..(i - 1) : log[j] = m
Stored(log, m) == \E j \in DOMAIN log : log[j] = m

FollowsItsCall(log, i) ==
  LET m == log[i]
      t == m.turn
  IN  /\ \A j \in 1..(i - 1) : log[j].turn = t => Precedes(log[j], m)
      /\ m.role # "user" => StoredBefore(log, i, UserMessage(t))
      /\ m.role = "assistant" /\ m.round > 1 =>
           \E calls \in Batches \ {0} :
             /\ StoredBefore(log, i, AssistantMessage(t, m.round - 1, calls))
             /\ \A k \in 1..calls : StoredBefore(log, i, ToolMessage(t, m.round - 1, k))
      /\ m.role = "tool" =>
           /\ \E calls \in Batches :
                m.n <= calls /\ StoredBefore(log, i, AssistantMessage(t, m.round, calls))
           /\ m.n > 1 => StoredBefore(log, i, ToolMessage(t, m.round, m.n - 1))

(* Whatever fails, is cancelled or crashes, and whatever other turns store *)
(* in the same session, what is stored of a turn is the beginning of one   *)
(* legal exchange: no message twice, no result before the call it answers, *)
(* no further answer before every result of the round. Only the removal of *)
(* the session under the turn may break it (the loop of Chat, conversation *)
(* .go:142-189, and the store's HandleMessageEvent).                       *)
AnswersFollowCalls ==
  \A t \in Turns \ removed : session[t] # NoSession =>
    LET log == messages[session[t]]
    IN  \A i \in DOMAIN log : log[i].turn = t => FollowsItsCall(log, i)

EveryCallAnswered(log, t) ==
  \A i \in DOMAIN log : log[i].turn = t /\ log[i].role = "assistant" =>
    \A k \in 1..log[i].n : Stored(log, ToolMessage(t, log[i].round, k))

AnswerStored(log, t) ==
  \E r \in 1..MaxToolCalls : Stored(log, AssistantMessage(t, r, 0))

RoundsUsedUp(log, t) ==
  \A r \in 1..MaxToolCalls : \E calls \in Batches \ {0} :
    Stored(log, AssistantMessage(t, r, calls))

(* The row of a turn is a promise about its messages, on which the context *)
(* of later turns relies: a complete turn has stored its last answer, an   *)
(* incomplete one all its rounds, and neither has left a call unanswered.  *)
RecordedTurnIsClosed ==
  \A s \in Sessions : \A h \in history[s] : h.turn \notin removed =>
    /\ EveryCallAnswered(messages[s], h.turn)
    /\ h.status = "complete" => AnswerStored(messages[s], h.turn)
    /\ h.status = "incomplete" => RoundsUsedUp(messages[s], h.turn)

(* Rows that refer to a session without a row of its own (the schema says  *)
(* REFERENCES, store.go:40 and 53) are left only by turns whose session    *)
(* was removed under them; nothing else can separate the three tables.     *)
OrphanRowsOnlyAfterRemoval ==
  \A s \in Sessions \ sessions :
    /\ TurnsOf(messages[s]) \subseteq removed
    /\ \A h \in history[s] : h.turn \in removed
=============================================================================
