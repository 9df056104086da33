------------------------------- MODULE AgentRun -------------------------------
(***************************************************************************)
(* One request to POST /agent of the AG-UI server, from its body to the    *)
(* end of its event stream: the handler (agui/handler.go), the loop of     *)
(* Chat around the model, the executor of a batch of tools with its        *)
(* goroutines (domain/tool_executor.go), the event handlers that run       *)
(* concurrently (domain/event_handler.go) and the emitter that writes the  *)
(* stream (agui/emitter.go).                                               *)
(*                                                                         *)
(* The stream is kept as the client sees it (module RunProtocol). What     *)
(* the turn stores is module ChatTurns; here the store is one of the event *)
(* handlers, which accepts an event or fails. A write that fails is        *)
(* modelled as a client that has gone: its stream does not resume.         *)
(***************************************************************************)
EXTENDS Integers, FiniteSets, SequencesExt

CONSTANTS
  MaxToolCalls,  \* maxToolCalls: rounds of a turn
  Batches,       \* how many tools one answer of the model may ask for
  Limits         \* the values of TOOLS_MAX_CONCURRENT

ASSUME RunAssumption ==
  /\ MaxToolCalls \in Nat \ {0}
  /\ Batches \subseteq Nat
  /\ IsFiniteSet(Batches)
  /\ Limits \subseteq Int

(* A tool call of a run: its round and its place in the batch.             *)
Rounds == 1..MaxToolCalls
Places == UNION {1..b : b \in Batches}
CallIds == Rounds \X Places

(* The writers of the stream: the goroutine of the handler and those of    *)
(* the tools.                                                              *)
Main == 0
Writers == {Main} \cup Places

VARIABLES
  input,     \* the request has a text to answer
  limit,     \* TOOLS_MAX_CONCURRENT
  pc,        \* where the handler is
  round,     \* answers of the model so far
  calls,     \* tools asked for by the last answer
  job,       \* the tool goroutines of the batch
  due,       \* events each writer has yet to write
  others,    \* the handlers beside the emitter, for the event at hand
  gone,      \* the client has disconnected: r.Context() is done
  client     \* what the client has seen

turn  == <<round, calls>>
tools == <<job, due>>
vars  == <<input, limit, pc, turn, tools, others, gone, client>>

Protocol == INSTANCE RunProtocol WITH client <- client, CallIds <- CallIds

(* The body, as far as the handler distinguishes: its last messages, its   *)
(* resume entries, whether it names a thread and a supported model.        *)
Requests ==
  [body : BOOLEAN, messages : {"none", "noUser", "userEarlier", "userLast", "blankLast"},
   resume : SUBSET {"resolved", "cancelled", "unknown"}, thread : BOOLEAN, model : BOOLEAN]

NothingDue == [w \in Writers |-> <<>>]
Idle    == [p \in Places |-> "off"]

Working == {"starting", "running", "ending"}
Jobs    == Working \cup {"off", "queued", "done", "failed"}
Control == {"request", "empty", "refused", "accepted", "resolve", "user", "model", "answer",
            "tools", "results", "turnEnd", "giveUp", "done", "exhausted", "failed",
            "closed", "rejected", "aborted"}

(* The handler has returned, or net/http has recovered its panic and cut   *)
(* the connection.                                                         *)
Over == {"closed", "rejected", "aborted"}

EventKinds == {"start", "finished", "interrupted", "errored", "close", "call"} \cup Protocol!Blocks
Event(kind) == [kind |-> kind, call |-> <<0, 0>>]
ToolEvent(p) == [kind |-> "call", call |-> <<round, p>>]
Events == [kind : EventKinds, call : CallIds \cup {<<0, 0>>}]

TypeOK ==
  /\ input \in BOOLEAN
  /\ limit \in Limits
  /\ pc \in Control
  /\ round \in 0..MaxToolCalls
  /\ calls \in Batches \cup {0}
  /\ job \in [Places -> Jobs]
  /\ \A w \in Writers : due[w] \in Seq(Events)
  /\ others \in {"idle", "busy", "failed"}
  /\ gone \in BOOLEAN
  /\ client \in Protocol!View

Init ==
  /\ input = FALSE
  /\ limit \in Limits
  /\ pc = "request"
  /\ round = 0
  /\ calls = 0
  /\ job = Idle
  /\ due = NothingDue
  /\ others = "idle"
  /\ gone = FALSE
  /\ Protocol!Init

(* What an event does to the view of the client, expected or not.          *)
Seen(event) ==
  CASE event.kind = "start"          -> [client EXCEPT !.phase = "running"]
    [] event.kind \in Protocol!Closed -> [client EXCEPT !.phase = event.kind]
    [] event.kind \in Protocol!Blocks -> [client EXCEPT !.open = event.kind]
    [] event.kind = "close"          -> [client EXCEPT !.open = "none"]
    [] event.kind = "call"           -> [client EXCEPT !.stage[event.call] = @ + 1]

Show(event) == client' = IF gone THEN client ELSE Seen(event)

(* writeEvent: skipped once the context is done; SSEWriter's mutex makes   *)
(* each event one step.                                                    *)
Write(w) ==
  /\ due[w] # <<>>
  /\ Show(Head(due[w]))
  /\ due' = [due EXCEPT ![w] = Tail(@)]
  /\ UNCHANGED <<input, limit, pc, turn, job, others, gone>>

Disconnect ==
  /\ pc \notin {"request"} \cup Over
  /\ ~gone
  /\ gone' = TRUE
  /\ UNCHANGED <<input, limit, pc, turn, tools, others, client>>
-----------------------------------------------------------------------------
LastIsUser(request) == request.messages \in {"userLast", "blankLast"}

(* parseRequest, handleResume, handleCancelledResume,                      *)
(* resolveForwardedProps, in this order.                                   *)
Verdict(request) ==
  IF ~request.body \/ (request.messages = "none" /\ request.resume = {}) THEN "rejected"
  ELSE IF request.resume # {} /\ (\/ ~request.thread
                                  \/ "unknown" \in request.resume
                                  \/ {"resolved", "cancelled"} \subseteq request.resume)
  THEN "rejected"
  ELSE IF "cancelled" \in request.resume /\ ~LastIsUser(request) THEN "empty"
  ELSE IF ~request.model THEN "refused"
  ELSE "accepted"

(* extractUserInput takes the last text of the user; a resolved resume     *)
(* appends one. "blankLast" is a last message without text.               *)
HasInput(request) ==
  "resolved" \in request.resume \/ request.messages \in {"userLast", "userEarlier"}

ServeHTTP(request) ==
  /\ pc = "request"
  /\ pc' = Verdict(request)
  /\ input' = HasInput(request)
  /\ UNCHANGED <<limit, turn, tools, others, gone, client>>

(* A cancelled resume with nothing new to say: an empty run.               *)
EmptyRun ==
  /\ pc = "empty"
  /\ due[Main] = <<>>
  /\ IF client.phase = "waiting" /\ ~gone
     THEN /\ due' = [due EXCEPT ![Main] = <<Event("start"), Event("finished")>>]
          /\ UNCHANGED pc
     ELSE /\ pc' = "closed"
          /\ UNCHANGED due
  /\ UNCHANGED <<input, limit, turn, job, others, gone, client>>

(* writeSSEError: a stream that holds nothing but RUN_ERROR.               *)
RefuseModel ==
  /\ pc = "refused"
  /\ Show(Event("errored"))
  /\ pc' = "closed"
  /\ UNCHANGED <<input, limit, turn, tools, others, gone>>

(* streamChat: the run is over if its first event cannot be written.       *)
StartRun ==
  /\ pc = "accepted"
  /\ Show(Event("start"))
  /\ pc' = IF gone THEN "closed" ELSE "resolve"
  /\ UNCHANGED <<input, limit, turn, tools, others, gone>>

(* buildChatFunc and the first lines of Chat: the provider's client, the   *)
(* input and the system prompt may all be missing.                         *)
BeginTurn ==
  /\ pc = "resolve"
  /\ \/ input /\ pc' = "user" /\ others' = "busy"
     \/ pc' = "failed" /\ UNCHANGED others
  /\ UNCHANGED <<input, limit, turn, tools, gone, client>>
-----------------------------------------------------------------------------
(* The store and the reporters handle the event while the emitter writes.  *)
OthersHandle ==
  /\ others = "busy"
  /\ others' \in {"idle", "failed"}
  /\ UNCHANGED <<input, limit, pc, turn, tools, gone, client>>

(* Faulty: the pipeline does not wait for the emitter.                     *)
EventHandledEarly(next) ==
  /\ others # "busy"
  /\ pc' = IF others = "failed" THEN "failed" ELSE next
  /\ others' = "idle"

(* runHandlersConcurrently returns when every handler has: the event is    *)
(* written as far as it will be, and the others' error, if any, is known.  *)
EventHandled(next) ==
  /\ due[Main] = <<>>
  /\ others # "busy"
  /\ pc' = IF others = "failed" THEN "failed" ELSE next
  /\ others' = "idle"

UserStored ==
  /\ pc = "user"
  /\ EventHandled("model")
  /\ UNCHANGED <<input, limit, turn, tools, gone, client>>

(* What fromSDKResponse makes of a response of each provider: whether it   *)
(* is a message, the number of tools asked for, reasoning and text.        *)
(* Reasoning is not read from what OpenAI answers, and a response of       *)
(* OpenRouter without choices is no message at all (a nil pointer).        *)
NoMessage == [message |-> FALSE, calls |-> 0, thinking |-> FALSE, text |-> FALSE]
AnthropicAnswers ==
  [message : {TRUE}, calls : Batches, thinking : BOOLEAN, text : BOOLEAN]
OpenAIAnswers == {answer \in AnthropicAnswers : ~answer.thinking}
OpenRouterAnswers == AnthropicAnswers \cup {NoMessage}
Answers == AnthropicAnswers \cup OpenAIAnswers \cup OpenRouterAnswers

(* The emitter's events for an answer: its reasoning, if any, then its     *)
(* text, if it asks for no tool and is not empty.                          *)
AnswerEvents(answer) ==
  (IF answer.thinking THEN <<Event("reasoning"), Event("close")>> ELSE <<>>)
    \o (IF answer.text /\ answer.calls = 0 THEN <<Event("text"), Event("close")>> ELSE <<>>)

ModelReplies(answer) ==
  /\ pc = "model"
  /\ answer.message
  /\ round' = round + 1
  /\ calls' = answer.calls
  /\ due' = [due EXCEPT ![Main] = AnswerEvents(answer)]
  /\ pc' = "answer"
  /\ others' = "busy"
  /\ UNCHANGED <<input, limit, job, gone, client>>

(* Chat looks for the tool calls of the message it was not given; nothing  *)
(* recovers from that but net/http.                                        *)
ModelAnswersNothing(answer) ==
  /\ pc = "model"
  /\ ~answer.message
  /\ pc' = "aborted"
  /\ UNCHANGED <<input, limit, turn, tools, others, gone, client>>

(* Complete returns an error: of the provider, or because a tool has no    *)
(* schema that can be sent.                                                *)
ModelFails ==
  /\ pc = "model"
  /\ pc' = "failed"
  /\ UNCHANGED <<input, limit, turn, tools, others, gone, client>>

(* ToolExecutor.Execute starts one goroutine per call.                     *)
AnswerStored ==
  /\ pc = "answer"
  /\ \/ calls = 0 /\ EventHandled("turnEnd") /\ UNCHANGED job
     \/ /\ calls > 0
        /\ EventHandled("tools")
        /\ job' = IF others = "failed" THEN job
                  ELSE [p \in Places |-> IF p <= calls THEN "queued" ELSE "off"]
  /\ UNCHANGED <<input, limit, turn, due, gone, client>>
-----------------------------------------------------------------------------
(* One call, or a limit of one or less: the calls run one after the other. *)
Sequential == calls = 1 \/ limit <= 1

(* Faulty: a call whose handlers failed keeps its place in the semaphore.  *)
MayEnterUnlessFailed(p) ==
  IF Sequential THEN \A q \in 1..(p - 1) : job[q] = "done"
  ELSE Cardinality({q \in Places : job[q] \in Working \cup {"failed"}}) < limit

MayEnter(p) ==
  IF Sequential THEN \A q \in 1..(p - 1) : job[q] = "done"
  ELSE Cardinality({q \in Places : job[q] \in Working}) < limit

StartTool(p) ==
  /\ pc = "tools"
  /\ job[p] = "queued"
  /\ MayEnter(p)
  /\ job' = [job EXCEPT ![p] = "starting"]
  /\ due' = [due EXCEPT ![p] = <<ToolEvent(p), ToolEvent(p)>>]
  /\ UNCHANGED <<input, limit, pc, turn, others, gone, client>>

(* No handler of a tool event returns an error, but one that panics counts *)
(* as one that does, and the tool is not run.                              *)
ToolStarted(p) ==
  /\ job[p] = "starting"
  /\ due[p] = <<>>
  /\ job' = [job EXCEPT ![p] = "running"] \/ job' = [job EXCEPT ![p] = "failed"]
  /\ UNCHANGED <<input, limit, pc, turn, due, others, gone, client>>

(* The tool answers or fails; its error is a result like another.          *)
ToolReturns(p) ==
  /\ job[p] = "running"
  /\ job' = [job EXCEPT ![p] = "ending"]
  /\ due' = [due EXCEPT ![p] = <<ToolEvent(p), ToolEvent(p)>>]
  /\ UNCHANGED <<input, limit, pc, turn, others, gone, client>>

ToolEnded(p) ==
  /\ job[p] = "ending"
  /\ due[p] = <<>>
  /\ job' = [job EXCEPT ![p] = "done"] \/ job' = [job EXCEPT ![p] = "failed"]
  /\ UNCHANGED <<input, limit, pc, turn, due, others, gone, client>>

SomeFailed == \E p \in Places : job[p] = "failed"

(* Faulty: the first failure ends the batch.                               *)
FirstFailureEnds ==
  SomeFailed \/ \A p \in 1..calls : job[p] = "done"

(* wg.Wait, or the end of the sequential loop at its first failure.        *)
BatchOver ==
  \/ \A p \in 1..calls : job[p] \in {"done", "failed"}
  \/ Sequential /\ SomeFailed

(* Execute may also fail at once, when no tool is registered any more.     *)
NoToolRegistered == \A p \in Places : job[p] \in {"off", "queued"}

ExecuteReturns ==
  /\ pc = "tools"
  /\ \/ BatchOver /\ pc' = (IF SomeFailed THEN "failed" ELSE "results")
     \/ NoToolRegistered /\ pc' = "failed"
  /\ job' = [p \in Places |-> IF job[p] \in Working THEN job[p] ELSE "off"]
  /\ UNCHANGED <<input, limit, turn, due, others, gone, client>>

(* Faulty: one round too many.                                             *)
ResultsOfOneRoundMore ==
  /\ pc = "results"
  /\ \/ pc' = IF round <= MaxToolCalls THEN "model" ELSE "giveUp"
     \/ pc' = "failed"
  /\ UNCHANGED <<input, limit, turn, tools, others, gone, client>>

(* Faulty: the turn gives up a round too early.                            *)
ResultsOfOneRoundLess ==
  /\ pc = "results"
  /\ \/ pc' = IF round + 1 < MaxToolCalls THEN "model" ELSE "giveUp"
     \/ pc' = "failed"
  /\ UNCHANGED <<input, limit, turn, tools, others, gone, client>>

(* emitToolResultEvents: the emitter has nothing to write for a result;    *)
(* any of them may be refused by the others.                               *)
ResultsStored ==
  /\ pc = "results"
  /\ \/ pc' = IF round < MaxToolCalls THEN "model" ELSE "giveUp"
     \/ pc' = "failed"
  /\ UNCHANGED <<input, limit, turn, tools, others, gone, client>>

(* The end event of the turn: a failure counts only if the turn is         *)
(* complete.                                                               *)
EndTurn ==
  /\ \/ pc = "turnEnd" /\ pc' \in {"done", "failed"}
     \/ pc = "giveUp" /\ pc' = "exhausted"
  /\ UNCHANGED <<input, limit, turn, tools, others, gone, client>>
-----------------------------------------------------------------------------
(* Faulty: an error of the turn is logged and the stream just ends.        *)
LastEventOnSuccess ==
  CASE pc = "done"      -> Show(Event("finished"))
    [] pc = "exhausted" -> Show(Event("interrupted"))
    [] OTHER            -> UNCHANGED client

(* runChat and streamChat: what the run ends with.                         *)
LastEvent ==
  CASE pc = "done"      -> Show(Event("finished"))
    [] pc = "exhausted" -> Show(Event("interrupted"))
    [] pc = "failed"    -> Show(Event("errored"))

EndRun ==
  /\ pc \in {"done", "exhausted", "failed"}
  /\ LastEvent
  /\ pc' = "closed"
  /\ UNCHANGED <<input, limit, turn, tools, others, gone>>

Handler ==
  \/ \E request \in Requests : ServeHTTP(request)
  \/ EmptyRun \/ RefuseModel \/ StartRun
  \/ BeginTurn \/ UserStored \/ AnswerStored
  \/ \E answer \in Answers : ModelReplies(answer) \/ ModelAnswersNothing(answer)
  \/ ModelFails
  \/ ExecuteReturns \/ ResultsStored \/ EndTurn \/ EndRun

Tool(p) == StartTool(p) \/ ToolStarted(p) \/ ToolReturns(p) \/ ToolEnded(p)

Next ==
  \/ Handler
  \/ OthersHandle
  \/ \E w \in Writers : Write(w)
  \/ \E p \in Places : Tool(p)
  \/ Disconnect

(* Handlers, writes, model calls and tools return: with a result, an error *)
(* or at the deadline of the client library.                               *)
Spec ==
  /\ Init
  /\ [][Next]_vars
  /\ WF_vars(Handler)
  /\ WF_vars(OthersHandle)
  /\ \A w \in Writers : WF_vars(Write(w))
  /\ \A p \in Places : WF_vars(Tool(p))
-----------------------------------------------------------------------------
(* Whatever the tools, the handlers and the client do, in whatever order,  *)
(* the stream is the beginning of a legal run: one start, blocks that do   *)
(* not overlap, the four events of each call in order, no answer before    *)
(* the results of the round, nothing after the end, and no regular end     *)
(* while a call is pending (emitter.go:36-97, handler.go:159-233).         *)
RunFollowsProtocol == Protocol!Spec

(* When the turn has moved on from a batch of tools, none of them is at    *)
(* work and none has an event left to write: no goroutine of a request     *)
(* outlives the call of Execute (tool_executor.go:124-150).                *)
NoStragglers ==
  pc # "tools" => \A p \in Places : job[p] = "off" /\ due[p] = <<>>

(* A client that is still there when the handler of its accepted request   *)
(* returns knows how it ended.                                             *)
NoSilentEnd ==
  pc = "closed" /\ ~gone => client.phase \in Protocol!Closed

(* handler.go:160: RUN_STARTED, chatFn, RUN_FINISHED "(or interrupt/error  *)
(* event)"; docs/ag-ui-protocol.md:444: an unrecoverable error is a        *)
(* RUN_ERROR. So a client that is still there is always told.              *)
EveryRunIsClosed ==
  pc \in Over \ {"rejected"} /\ ~gone => client.phase \in Protocol!Closed

(* The client is offered to go on only by a turn that used up its rounds,  *)
(* the last of them with all its results shown.                            *)
InterruptMeansExhausted ==
  client.phase = "interrupted" =>
    /\ round = MaxToolCalls
    /\ calls > 0
    /\ \A p \in 1..calls : client.stage[<<round, p>>] = Protocol!Answered

(* Every request ends, and its tools with it: no call waits for ever for   *)
(* the semaphore, no handler for another.                                  *)
EveryRequestEnds == <>(pc \in Over)
=============================================================================
