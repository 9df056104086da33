------------------------------ MODULE ServeProcess ------------------------------
(***************************************************************************)
(* The life of the server process, from its start to its end: runServe and *)
(* gracefulShutdown (talk/cmd/cli/serve.go), the requests it serves in the *)
(* meantime, and the Langfuse reporter they report to                      *)
(* (talk/internal/observability/langfuse.go).                              *)
(*                                                                         *)
(* runServe ends in three goroutines: its own, which serves and then runs  *)
(* the deferred calls; the one of gracefulShutdown; and those of the       *)
(* requests, which the end of the process cuts short. The reporter has a   *)
(* worker of its own behind a channel of bounded capacity.                 *)
(*                                                                         *)
(* A request is a turn of the conversation: calls of the model, each       *)
(* reported when it is answered, and in the end the turn. The worker turns *)
(* these events into the spans of a trace (otlp.go).                       *)
(*                                                                         *)
(* What is abstracted: what a turn does between its reports (modules       *)
(* ChatTurns and AgentRun), and of a span all attributes but call_count.   *)
(***************************************************************************)
EXTENDS Naturals, Sequences

CONSTANTS
  Requests,    \* the requests clients make
  Capacity,    \* of eventBuffer (1000)
  Deadline,    \* of the shutdown, in units of time (30 s)
  MaxCalls     \* of the model in a turn

ASSUME ProcessAssumption ==
  /\ Capacity \in Nat \ {0}
  /\ Deadline \in Nat \ {0}
  /\ MaxCalls \in Nat \ {0}

VARIABLES
  main,       \* the goroutine of runServe
  stopper,    \* the goroutine of gracefulShutdown
  signalled,  \* ctx is done: SIGTERM or SIGINT was caught, or stop was called
  clock,      \* time since then, up to Deadline
  request,    \* what has become of each request
  callCount,  \* calls of the model its turn has made
  buffer,     \* eventBuffer
  sending,    \* the event the worker is sending, or none: at most one
  traces      \* the spans Langfuse has received of each turn, in order

process  == <<main, stopper, signalled, clock>>
turn     == <<request, callCount>>
reporter == <<buffer, sending, traces>>
vars     == <<process, turn, reporter>>

Gone   == {"exited", "killed"}
Busy   == {"calling", "callAnswered", "turnEnded", "answering"}
Event  == [turn : Requests, type : {"message", "turn"}, calls : 1..MaxCalls]

(* The turn's own span has the number 0.                                   *)
SpanID == 0..MaxCalls
Span   == [id : SpanID, parent : SUBSET SpanID, calls : 0..MaxCalls]

TypeOK ==
  /\ main \in {"connecting", "serving", "waiting", "closeMcp", "closeStore"} \cup Gone
  /\ stopper \in {"none", "blocked", "stopping", "done"}
  /\ signalled \in BOOLEAN
  /\ clock \in 0..Deadline
  /\ request \in [Requests -> Busy \cup {"none", "over", "cut"}]
  /\ callCount \in [Requests -> 0..MaxCalls]
  /\ buffer \in Seq(Event) /\ Len(buffer) <= Capacity
  /\ sending \in Seq(Event) /\ Len(sending) <= 1
  /\ traces \in [Requests -> Seq(Span)]

Init ==
  /\ main = "connecting"
  /\ stopper = "none"
  /\ signalled = FALSE
  /\ clock = 0
  /\ request = [r \in Requests |-> "none"]
  /\ callCount = [r \in Requests |-> 0]
  /\ buffer = <<>>
  /\ sending = <<>>
  /\ traces = [r \in Requests |-> <<>>]

Alive       == main \notin Gone
InFlight(r) == request[r] \in Busy
-----------------------------------------------------------------------------
(* The process ends with the requests it is serving.                       *)
End(how) ==
  /\ main' = how
  /\ request' = [r \in Requests |-> IF InFlight(r) THEN "cut" ELSE request[r]]

(* ConnectAll has returned; signals are caught from now on.                *)
Listen ==
  /\ main = "connecting"
  /\ main' = "serving"
  /\ stopper' = "blocked"
  /\ UNCHANGED <<signalled, clock, turn, reporter>>

(* The port is taken: runServe returns, which cancels the context first.   *)
ListenFails ==
  /\ main = "serving"
  /\ stopper = "blocked"
  /\ \A r \in Requests : request[r] = "none"
  /\ main' = "closeMcp"
  /\ signalled' = TRUE
  /\ UNCHANGED <<stopper, clock, turn, reporter>>

(* SIGTERM or SIGINT: caught between NotifyContext and stop, with no       *)
(* effect the second time; the end of the process otherwise.               *)
Signal ==
  /\ \/ /\ main \in {"serving", "waiting"}
        /\ signalled' = TRUE
        /\ UNCHANGED <<main, request>>
     \/ /\ main \in {"connecting", "closeMcp", "closeStore"}
        /\ End("killed")
        /\ UNCHANGED signalled
  /\ UNCHANGED <<stopper, clock, callCount, reporter>>

(* gracefulShutdown wakes up and calls Shutdown, which begins by closing   *)
(* the listeners.                                                          *)
Shutdown ==
  /\ stopper = "blocked"
  /\ signalled
  /\ Alive
  /\ stopper' = "stopping"
  /\ UNCHANGED <<main, signalled, clock, turn, reporter>>


(* shutdownCtx is derived from ctx: it is done when ctx is, or after 30 s. *)
ShutdownExpired == signalled \/ clock = Deadline

(* Shutdown returns when no request is being served, or with its context.  *)
ShutdownReturns ==
  /\ stopper = "stopping"
  /\ Alive
  /\ (\A r \in Requests : ~InFlight(r)) \/ ShutdownExpired
  /\ stopper' = "done"
  /\ UNCHANGED <<main, signalled, clock, turn, reporter>>

(* ListenAndServe returns as soon as the listeners are closed; wg.Wait.    *)
ServeReturns ==
  /\ main = "serving"
  /\ stopper \in {"stopping", "done"}
  /\ main' = "waiting"
  /\ UNCHANGED <<stopper, signalled, clock, turn, reporter>>

(* runServe returns: the deferred calls, last to first. stop has no effect *)
(* on the context any more; then mcpManager.Close and conn.Close. Nothing  *)
(* closes the reporter.                                                    *)
Return ==
  /\ \/ main = "waiting" /\ stopper = "done" /\ main' = "closeMcp" /\ UNCHANGED request
     \/ main = "closeMcp" /\ main' = "closeStore" /\ UNCHANGED request
     \/ main = "closeStore" /\ End("exited")
  /\ UNCHANGED <<stopper, signalled, clock, callCount, reporter>>

Tick ==
  /\ signalled
  /\ Alive
  /\ clock < Deadline
  /\ clock' = clock + 1
  /\ UNCHANGED <<main, stopper, signalled, turn, reporter>>
-----------------------------------------------------------------------------
Accept(r) ==
  /\ request[r] = "none"
  /\ main = "serving"
  /\ stopper = "blocked"
  /\ request' = [request EXCEPT ![r] = "calling"]
  /\ UNCHANGED <<process, callCount, reporter>>

(* Complete returns the model's answer, which is reported first of all.    *)
Call(r) ==
  /\ request[r] = "calling"
  /\ callCount[r] < MaxCalls
  /\ callCount' = [callCount EXCEPT ![r] = @ + 1]
  /\ request' = [request EXCEPT ![r] = "callAnswered"]
  /\ UNCHANGED <<process, reporter>>

(* The last call still asked for tools, and they have run: the turn ends   *)
(* as not completed.                                                       *)
Exhaust(r) ==
  /\ request[r] = "calling"
  /\ callCount[r] = MaxCalls
  /\ request' = [request EXCEPT ![r] = "turnEnded"]
  /\ UNCHANGED <<process, callCount, reporter>>

(* The model fails, the store does, or the client is gone: the turn ends   *)
(* and nothing reports it.                                                 *)
Fail(r) ==
  /\ request[r] = "calling"
  /\ request' = [request EXCEPT ![r] = "answering"]
  /\ UNCHANGED <<process, callCount, reporter>>

Answer(r) ==
  /\ request[r] = "answering"
  /\ request' = [request EXCEPT ![r] = "over"]
  /\ UNCHANGED <<process, callCount, reporter>>

EventOf(r) ==
  [turn |-> r, type |-> IF request[r] = "turnEnded" THEN "turn" ELSE "message",
   calls |-> callCount[r]]

(* A turn goes on with tools or it is completed, when its event is handed  *)
(* over, or given up if a handler beside the reporter fails.               *)
After(r) ==
  IF request[r] = "callAnswered"
    THEN {"calling", "turnEnded", "answering"} ELSE {"answering"}

Reporting(r) == request[r] \in {"callAnswered", "turnEnded"}

(* Faulty: a buffer that grows.                                            *)
EnqueueAlways(r) ==
  /\ Reporting(r)
  /\ \E next \in After(r) : request' = [request EXCEPT ![r] = next]
  /\ buffer' = Append(buffer, EventOf(r))
  /\ UNCHANGED <<process, callCount, sending, traces>>

(* Faulty: the send has no default.                                        *)
EnqueueOrWait(r) ==
  /\ Reporting(r)
  /\ Len(buffer) < Capacity
  /\ \E next \in After(r) : request' = [request EXCEPT ![r] = next]
  /\ buffer' = Append(buffer, EventOf(r))
  /\ UNCHANGED <<process, callCount, sending, traces>>

(* HandleMessageEvent, HandleTurnEndEvent: the event is dropped when the   *)
(* buffer is full.                                                         *)
Enqueue(r) ==
  /\ Reporting(r)
  /\ \E next \in After(r) : request' = [request EXCEPT ![r] = next]
  /\ buffer' = IF Len(buffer) < Capacity THEN Append(buffer, EventOf(r)) ELSE buffer
  /\ UNCHANGED <<process, callCount, sending, traces>>

(* Faulty: the next event is taken while one is being sent, and sent next. *)
TakeOver ==
  /\ Alive
  /\ buffer # <<>>
  /\ sending' = <<Head(buffer)>>
  /\ buffer' = Tail(buffer) \o sending
  /\ UNCHANGED <<process, turn, traces>>

(* The worker: one event after the other, up to 30 s each.                 *)
Take ==
  /\ Alive
  /\ sending = <<>>
  /\ buffer # <<>>
  /\ sending' = <<Head(buffer)>>
  /\ buffer' = Tail(buffer)
  /\ UNCHANGED <<process, turn, traces>>

(* apiCallToOTLP: a new span below that of the turn.                       *)
CallSpan(event) == [id |-> event.calls, parent |-> {0}, calls |-> 0]

(* conversationTurnToOTLP                                                  *)
TurnSpan(event) == [id |-> 0, parent |-> {}, calls |-> event.calls]

(* processEvent: Langfuse takes the span or it does not; the worker goes   *)
(* on either way.                                                          *)
SendTrace ==
  /\ Alive
  /\ sending # <<>>
  /\ LET event == Head(sending)
         span  == IF event.type = "turn" THEN TurnSpan(event) ELSE CallSpan(event)
     IN  \/ traces' = [traces EXCEPT ![event.turn] = Append(@, span)]
         \/ UNCHANGED traces
  /\ sending' = <<>>
  /\ UNCHANGED <<process, turn, buffer>>

Next ==
  \/ Listen \/ ListenFails \/ Signal
  \/ Shutdown \/ ShutdownReturns \/ ServeReturns \/ Return \/ Tick
  \/ \E r \in Requests :
       Accept(r) \/ Call(r) \/ Exhaust(r) \/ Fail(r) \/ Answer(r) \/ Enqueue(r)
  \/ Take \/ SendTrace

(* The goroutines of the process run; Close of the manager and of the      *)
(* database return. Nothing makes a request end (a stream has no write     *)
(* timeout) or the worker go on (Langfuse may be slow); a request that is  *)
(* handing over an event goes on if it can.                                *)
Fairness ==
  /\ WF_vars(Shutdown) /\ WF_vars(ShutdownReturns)
  /\ WF_vars(ServeReturns) /\ WF_vars(Return)
  /\ \A r \in Requests : WF_vars(Enqueue(r))

Spec == Init /\ [][Next]_vars /\ Fairness
-----------------------------------------------------------------------------

(* A request never waits for Langfuse: what it reports is taken or dropped *)
(* at once, even if the worker hangs (langfuse.go:84-92).                  *)
ReportingNeverWaits == \A r \in Requests : Reporting(r) ~> ~Reporting(r)

(* A trace shows a turn as it was, whatever is dropped or lost and however *)
(* turns overlap: calls in the order they were made; nothing after the     *)
(* turn's own span, which counts every call, also those whose spans are    *)
(* missing (conversation.go:152 and 171, otlp.go:94).                      *)
TracesShowTurns ==
  \A r \in Requests : LET spans == traces[r] IN
    \A i \in DOMAIN spans :
      /\ spans[i].parent = {0} => \A j \in 1..(i - 1) : spans[j].id < spans[i].id
      /\ spans[i].id = 0 => i = Len(spans) /\ spans[i].calls = callCount[r]

(* The comment of gracefulShutdown (serve.go:168): it shuts down with a    *)
(* 30-second deadline. A request the shutdown cuts short has had 30 s.     *)
RequestsHaveTheDeadline ==
  \A r \in Requests : request[r] = "cut" /\ main = "exited" => clock = Deadline
=============================================================================
