------------------------------- MODULE TalkProofs -------------------------------
(***************************************************************************)
(* Theorems about the program: what a trace shows of its turn when it is   *)
(* the server (ServeProcess), for any requests, calls of the model and     *)
(* capacity of the buffer; and, as the program is the server or terminals, *)
(* that what is shown here and in TerminalProofs holds of every run of it. *)
(***************************************************************************)
EXTENDS TalkCommand, SequenceTheorems, TLAPS

(* The place of an event or a span in its turn: the calls in their order,  *)
(* then the turn.                                                          *)
Order(event)    == IF event.type = "turn" THEN MaxCalls + 1 ELSE event.calls
SpanOrder(span) == IF span.id = 0 THEN MaxCalls + 1 ELSE span.id

(* The turn has ended and told so.                                         *)
Told(r) == request[r] \in {"answering", "over", "cut"}

(* The n-th call has been answered and reported.                           *)
CallReported(r, n) == n <= callCount[r] /\ (request[r] = "callAnswered" => n < callCount[r])

(* An event is about what its turn has done.                               *)
Happened(event) ==
  IF event.type = "turn"
    THEN Told(event.turn) /\ event.calls = callCount[event.turn]
    ELSE CallReported(event.turn, event.calls)

SpanHappened(r, span) ==
  IF span.id = 0
    THEN span.parent = {} /\ Told(r) /\ span.calls = callCount[r]
    ELSE span.parent = {0} /\ CallReported(r, span.id)

CallsCounted == \A r \in Requests : Reporting(r) => callCount[r] > 0

AllHappened ==
  /\ \A i \in 1..Len(buffer) : Happened(buffer[i])
  /\ sending # <<>> => Happened(sending[1])
  /\ \A r \in Requests : \A i \in 1..Len(traces[r]) : SpanHappened(r, traces[r][i])

(* On their way from the turn to its trace, events do not overtake one     *)
(* another.                                                                *)
BufferInOrder ==
  \A i, j \in 1..Len(buffer) :
    i < j /\ buffer[i].turn = buffer[j].turn => Order(buffer[i]) < Order(buffer[j])

SendingInOrder ==
  sending # <<>> =>
    \A j \in 1..Len(buffer) :
      buffer[j].turn = sending[1].turn => Order(sending[1]) < Order(buffer[j])

TracesInOrder ==
  \A r \in Requests : \A i \in 1..Len(traces[r]) :
    /\ \A j \in 1..Len(traces[r]) : i < j => SpanOrder(traces[r][i]) < SpanOrder(traces[r][j])
    /\ sending # <<>> /\ sending[1].turn = r => SpanOrder(traces[r][i]) < Order(sending[1])
    /\ \A j \in 1..Len(buffer) :
         buffer[j].turn = r => SpanOrder(traces[r][i]) < Order(buffer[j])

InOrder == BufferInOrder /\ SendingInOrder /\ TracesInOrder

IInv == TypeOK /\ CallsCounted /\ AllHappened /\ InOrder
-----------------------------------------------------------------------------
LEMMA Numbers ==
  ASSUME TypeOK
  PROVE  /\ Capacity \in Nat /\ MaxCalls \in Nat /\ MaxCalls > 0
         /\ \A r \in Requests : callCount[r] \in Nat /\ callCount[r] <= MaxCalls
         /\ Len(buffer) \in Nat
         /\ \A i \in 1..Len(buffer) : buffer[i] \in Event
         /\ sending # <<>> => Len(sending) = 1 /\ sending[1] \in Event /\ Head(sending) = sending[1]
         /\ \A r \in Requests : Len(traces[r]) \in Nat
                                /\ \A i \in 1..Len(traces[r]) : traces[r][i] \in Span
  <1>1. Capacity \in Nat /\ MaxCalls \in Nat /\ MaxCalls > 0
    BY ProcessAssumption
  <1>2. \A r \in Requests : callCount[r] \in Nat /\ callCount[r] <= MaxCalls
    BY <1>1 DEF TypeOK
  <1>3. Len(buffer) \in Nat /\ \A i \in 1..Len(buffer) : buffer[i] \in Event
    BY LenProperties, ElementOfSeq DEF TypeOK
  <1>4. sending # <<>> => Len(sending) = 1 /\ sending[1] \in Event /\ Head(sending) = sending[1]
    <2> SUFFICES ASSUME sending # <<>>
                 PROVE  Len(sending) = 1 /\ sending[1] \in Event /\ Head(sending) = sending[1]
      OBVIOUS
    <2>1. sending \in Seq(Event)
      BY DEF TypeOK
    <2>2. Len(sending) <= 1
      BY DEF TypeOK
    <2>3. Len(sending) \in Nat \ {0}
      BY <2>1, EmptySeq
    <2>4. Len(sending) = 1
      <3>1. \A n \in Nat \ {0} : n <= 1 => n = 1
        OBVIOUS
      <3> QED BY <2>2, <2>3, <3>1
    <2>5. sending[1] \in Event
      BY <2>1, <2>4, ElementOfSeq
    <2> QED BY <2>1, <2>4, <2>5
  <1>5. \A r \in Requests : Len(traces[r]) \in Nat
                            /\ \A i \in 1..Len(traces[r]) : traces[r][i] \in Span
    <2> SUFFICES ASSUME NEW r \in Requests
                 PROVE  Len(traces[r]) \in Nat
                        /\ \A i \in 1..Len(traces[r]) : traces[r][i] \in Span
      OBVIOUS
    <2>1. traces[r] \in Seq(Span)
      BY DEF TypeOK
    <2> QED BY <2>1, LenProperties, ElementOfSeq
  <1> QED BY <1>1, <1>2, <1>3, <1>4, <1>5

(* The event a request reports.                                            *)
LEMMA EventIsOne ==
  ASSUME TypeOK, CallsCounted, NEW r \in Requests, Reporting(r)
  PROVE  EventOf(r) \in Event
  <1>1. callCount[r] \in 1..MaxCalls
    BY Numbers DEF CallsCounted
  <1> QED BY <1>1 DEF EventOf, Event

(* The span the worker makes of an event.                                  *)
LEMMA SpanIsOne ==
  ASSUME NEW event \in Event
  PROVE  /\ CallSpan(event) \in Span /\ TurnSpan(event) \in Span
         /\ CallSpan(event).id = event.calls /\ event.calls # 0
         /\ TurnSpan(event).id = 0 /\ TurnSpan(event).calls = event.calls
         /\ CallSpan(event).parent = {0} /\ TurnSpan(event).parent = {}
  <1>1. event.calls \in 1..MaxCalls /\ MaxCalls \in Nat
    BY ProcessAssumption DEF Event
  <1>2. 0 \in SpanID /\ event.calls \in SpanID /\ 0 \in 0..MaxCalls /\ event.calls \in 0..MaxCalls
        /\ event.calls # 0
    BY <1>1 DEF SpanID
  <1>3. {0} \in SUBSET SpanID /\ {} \in SUBSET SpanID
    BY <1>2
  <1> QED BY <1>2, <1>3 DEF CallSpan, TurnSpan, Span

(* The queue: an event joins it at its end.                                *)
LEMMA Enqueued ==
  ASSUME TypeOK, NEW event \in Event, buffer' = Append(buffer, event)
  PROVE  /\ buffer' \in Seq(Event) /\ Len(buffer') = Len(buffer) + 1
         /\ \A i \in 1..Len(buffer) : buffer'[i] = buffer[i]
         /\ buffer'[Len(buffer) + 1] = event
  BY AppendProperties DEF TypeOK

(* The first one leaves it.                                                *)
LEMMA Taken ==
  ASSUME TypeOK, buffer # <<>>, buffer' = Tail(buffer), sending' = <<Head(buffer)>>
  PROVE  /\ buffer' \in Seq(Event) /\ Len(buffer') = Len(buffer) - 1
         /\ \A i \in 1..Len(buffer') : buffer'[i] = buffer[i + 1]
         /\ 1 \in 1..Len(buffer) /\ sending' \in Seq(Event) /\ Len(sending') = 1
         /\ sending'[1] = buffer[1] /\ sending' # <<>>
  <1>1. buffer \in Seq(Event)
    BY DEF TypeOK
  <1>2. /\ buffer' \in Seq(Event) /\ Len(buffer') = Len(buffer) - 1
        /\ \A i \in 1..Len(buffer') : buffer'[i] = buffer[i + 1]
        /\ Head(buffer) \in Event
    BY <1>1, HeadTailProperties
  <1>3. Len(buffer) \in Nat /\ Len(buffer) # 0 /\ Head(buffer) = buffer[1]
    BY <1>1, EmptySeq, LenProperties
  <1> QED BY <1>2, <1>3

(* A span is added to the trace of its turn, or lost.                      *)
LEMMA Traced ==
  ASSUME TypeOK, sending # <<>>, NEW span \in Span,
         traces' = [traces EXCEPT ![sending[1].turn] = Append(@, span)]
  PROVE  LET r == sending[1].turn
         IN  /\ r \in Requests /\ traces' \in [Requests -> Seq(Span)]
             /\ \A q \in Requests \ {r} : traces'[q] = traces[q]
             /\ Len(traces'[r]) = Len(traces[r]) + 1
             /\ \A i \in 1..Len(traces[r]) : traces'[r][i] = traces[r][i]
             /\ traces'[r][Len(traces[r]) + 1] = span
  <1> DEFINE r == sending[1].turn
  <1>1. r \in Requests
    BY Numbers DEF Event
  <1>2. traces[r] \in Seq(Span) /\ traces'[r] = Append(traces[r], span)
        /\ \A q \in Requests \ {r} : traces'[q] = traces[q]
    BY <1>1 DEF TypeOK
  <1> HIDE DEF r
  <1>3. /\ Append(traces[r], span) \in Seq(Span)
        /\ Len(Append(traces[r], span)) = Len(traces[r]) + 1
        /\ \A i \in 1..Len(traces[r]) : Append(traces[r], span)[i] = traces[r][i]
        /\ Append(traces[r], span)[Len(traces[r]) + 1] = span
    BY <1>2, AppendProperties
  <1>4. traces' \in [Requests -> Seq(Span)]
    BY <1>1, <1>2, <1>3 DEF TypeOK, r
  <1> QED BY <1>1, <1>2, <1>3, <1>4 DEF r
-----------------------------------------------------------------------------
(* Steps that report nothing: of the process, and of a turn.               *)
ProcessStep ==
  Listen \/ ListenFails \/ Signal \/ Shutdown \/ ShutdownReturns \/ ServeReturns \/ Return \/ Tick

TurnStep(r) == Accept(r) \/ Call(r) \/ Exhaust(r) \/ Fail(r) \/ Answer(r)

QuietStep == ProcessStep \/ (\E r \in Requests : TurnStep(r)) \/ UNCHANGED vars

(* A turn only goes on: its calls do not get fewer, what it has told stays *)
(* as it was, and one that has an answer to report has made a new call.    *)
GoesOn(r) ==
  /\ callCount[r] <= callCount'[r]
  /\ Told(r) => Told(r)' /\ callCount'[r] = callCount[r]
  /\ request'[r] = "callAnswered" => request[r] = "callAnswered" \/ callCount[r] < callCount'[r]
  /\ Reporting(r)' => callCount'[r] > 0

LEMMA ProcessTypes ==
  ASSUME TypeOK, ProcessStep
  PROVE  TypeOK'
  <1>1. CASE Listen \/ ListenFails
    BY <1>1 DEF TypeOK, Listen, ListenFails, turn, reporter, Gone
  <1>2. CASE Signal
    BY <1>2 DEF TypeOK, Signal, End, InFlight, Busy, Gone, turn, reporter
  <1>3. CASE Shutdown \/ ShutdownReturns \/ ServeReturns
    BY <1>3 DEF TypeOK, Shutdown, ShutdownReturns, ServeReturns, turn, reporter, Gone
  <1>4. CASE Return
    BY <1>4 DEF TypeOK, Return, End, InFlight, Busy, Gone, turn, reporter
  <1>5. CASE Tick
    <2>1. clock + 1 \in 0..Deadline
      BY <1>5, ProcessAssumption DEF TypeOK, Tick
    <2> QED BY <1>5, <2>1 DEF TypeOK, Tick, turn, reporter
  <1> QED BY <1>1, <1>2, <1>3, <1>4, <1>5 DEF ProcessStep

LEMMA TurnTypes ==
  ASSUME TypeOK, NEW r \in Requests, TurnStep(r)
  PROVE  TypeOK'
  <1>1. /\ request' \in [Requests -> Busy \cup {"none", "over", "cut"}]
        /\ UNCHANGED <<process, reporter>>
    BY DEF TurnStep, Accept, Call, Exhaust, Fail, Answer, TypeOK, Busy
  <1>2. callCount' \in [Requests -> 0..MaxCalls]
    <2>1. CASE Call(r)
      <3>1. callCount[r] + 1 \in 0..MaxCalls
        BY <2>1, Numbers DEF Call
      <3> QED BY <2>1, <3>1 DEF Call, TypeOK
    <2>2. CASE Accept(r) \/ Exhaust(r) \/ Fail(r) \/ Answer(r)
      BY <2>2 DEF Accept, Exhaust, Fail, Answer, TypeOK
    <2> QED BY <2>1, <2>2 DEF TurnStep
  <1> QED BY <1>1, <1>2 DEF TypeOK, process, reporter, Gone

LEMMA QuietTurns ==
  ASSUME TypeOK, CallsCounted, QuietStep
  PROVE  UNCHANGED reporter /\ \A r \in Requests : GoesOn(r)
  <1>1. CASE ProcessStep
    <2>1. UNCHANGED reporter /\ UNCHANGED callCount
      BY <1>1 DEF ProcessStep, Listen, ListenFails, Signal, Shutdown, ShutdownReturns, ServeReturns,
         Return, Tick, turn
    <2>2. \A r \in Requests :
            request'[r] = request[r] \/ request'[r] = "cut"
      BY <1>1 DEF ProcessStep, Listen, ListenFails, Signal, Shutdown, ShutdownReturns, ServeReturns,
         Return, Tick, turn, End
    <2> QED BY <2>1, <2>2, Numbers DEF GoesOn, Told, Reporting, CallsCounted
  <1>2. CASE \E r \in Requests : TurnStep(r)
    <2> PICK r \in Requests : TurnStep(r)
      BY <1>2
    <2>1. UNCHANGED reporter
      BY DEF TurnStep, Accept, Call, Exhaust, Fail, Answer
    <2>2. \A q \in Requests \ {r} : request'[q] = request[q] /\ callCount'[q] = callCount[q]
      BY DEF TurnStep, Accept, Call, Exhaust, Fail, Answer, TypeOK
    <2>3. GoesOn(r)
      <3>1. CASE Call(r)
        BY <3>1, Numbers DEF Call, GoesOn, Told, TypeOK
      <3>2. CASE Accept(r) \/ Fail(r) \/ Answer(r)
        BY <3>2, Numbers DEF Accept, Fail, Answer, GoesOn, Told, Reporting, TypeOK
      <3>3. CASE Exhaust(r)
        BY <3>3, Numbers DEF Exhaust, GoesOn, Told, Reporting, TypeOK
      <3> QED BY <3>1, <3>2, <3>3 DEF TurnStep
    <2>4. \A q \in Requests \ {r} : GoesOn(q)
      BY <2>2, Numbers DEF GoesOn, Told, Reporting, CallsCounted
    <2> QED BY <2>1, <2>3, <2>4
  <1>3. CASE UNCHANGED vars
    BY <1>3, Numbers DEF vars, turn, GoesOn, Told, Reporting, CallsCounted
  <1> QED BY <1>1, <1>2, <1>3 DEF QuietStep

(* What has happened in a turn that goes on has still happened.            *)
LEMMA EventStays ==
  ASSUME TypeOK, NEW event \in Event, GoesOn(event.turn), TypeOK', Happened(event)
  PROVE  Happened(event)'
  <1>1. /\ event.turn \in Requests /\ event.calls \in Nat
        /\ callCount[event.turn] \in Nat /\ callCount'[event.turn] \in Nat
    BY ProcessAssumption DEF Event, TypeOK
  <1> QED BY <1>1 DEF Happened, CallReported, GoesOn

LEMMA SpanStays ==
  ASSUME TypeOK, NEW r \in Requests, NEW span \in Span, GoesOn(r), TypeOK', SpanHappened(r, span)
  PROVE  SpanHappened(r, span)'
  <1>1. span.id \in Nat /\ callCount[r] \in Nat /\ callCount'[r] \in Nat
    BY ProcessAssumption DEF Span, SpanID, TypeOK
  <1> QED BY <1>1 DEF SpanHappened, CallReported, GoesOn

(* What is on its way, or has arrived, stays true when turns go on.        *)
LEMMA ReportsStay ==
  ASSUME IInv, TypeOK', \A r \in Requests : GoesOn(r)
  PROVE  /\ \A i \in 1..Len(buffer) : \A e : e = buffer[i] => Happened(e)'
         /\ sending # <<>> => \A e : e = sending[1] => Happened(e)'
         /\ \A r \in Requests : \A i \in 1..Len(traces[r]) :
              \A span : span = traces[r][i] => SpanHappened(r, span)'
  <1> USE DEF IInv
  <1>1. \A event \in Event : Happened(event) => Happened(event)'
    BY EventStays DEF Event
  <1>2. \A r \in Requests : \A span \in Span : SpanHappened(r, span) => SpanHappened(r, span)'
    BY SpanStays
  <1> QED BY <1>1, <1>2, Numbers DEF AllHappened

(* A step that hands over nothing keeps the invariant.                     *)
LEMMA QuietKeeps ==
  ASSUME IInv, TypeOK', UNCHANGED reporter, \A r \in Requests : GoesOn(r)
  PROVE  IInv'
  <1>1. UNCHANGED <<buffer, sending, traces>>
    BY DEF reporter
  <1>2. CallsCounted'
    BY DEF CallsCounted, GoesOn
  <1>3. AllHappened'
    <2>1. ASSUME NEW i \in 1..Len(buffer)
          PROVE  Happened(buffer[i])'
      BY <1>1, ReportsStay DEF Happened, CallReported, Told
    <2>2. ASSUME sending # <<>>
          PROVE  Happened(sending[1])'
      BY <1>1, <2>2, ReportsStay DEF Happened, CallReported, Told
    <2>3. ASSUME NEW r \in Requests, NEW i \in 1..Len(traces[r])
          PROVE  SpanHappened(r, traces[r][i])'
      BY <1>1, ReportsStay DEF SpanHappened, CallReported, Told
    <2> QED BY <1>1, <2>1, <2>2, <2>3 DEF AllHappened
  <1>4. InOrder'
    BY <1>1 DEF IInv, InOrder, BufferInOrder, SendingInOrder, TracesInOrder, Order, SpanOrder
  <1> QED BY <1>2, <1>3, <1>4 DEF IInv
-----------------------------------------------------------------------------
(* A turn that hands over an event goes on.                                *)
LEMMA EnqueueGoesOn ==
  ASSUME IInv, NEW r \in Requests, Enqueue(r)
  PROVE  /\ \A q \in Requests : GoesOn(q)
         /\ callCount' = callCount /\ UNCHANGED <<sending, traces>>
         /\ request[r] = "turnEnded" => request'[r] = "answering"
         /\ request'[r] # "callAnswered"
         /\ buffer' = buffer \/ (buffer' = Append(buffer, EventOf(r)) /\ Len(buffer) < Capacity)
         /\ TypeOK'
  <1> USE DEF IInv
  <1>1. /\ callCount' = callCount /\ UNCHANGED <<process, sending, traces>>
        /\ \A q \in Requests \ {r} : request'[q] = request[q]
        /\ request' \in [Requests -> Busy \cup {"none", "over", "cut"}]
        /\ request'[r] \in {"calling", "turnEnded", "answering"}
        /\ request[r] = "turnEnded" => request'[r] = "answering"
        /\ request[r] \in {"callAnswered", "turnEnded"}
    BY DEF Enqueue, After, Reporting, TypeOK, Busy
  <1>2. buffer' = buffer \/ (buffer' = Append(buffer, EventOf(r)) /\ Len(buffer) < Capacity)
    BY DEF Enqueue
  <1>3. \A q \in Requests : GoesOn(q)
    BY <1>1, Numbers DEF GoesOn, Told, Reporting, CallsCounted
  <1>4. buffer' \in Seq(Event) /\ Len(buffer') <= Capacity
    <2>1. CASE buffer' = buffer
      BY <2>1 DEF TypeOK
    <2>2. CASE buffer' = Append(buffer, EventOf(r)) /\ Len(buffer) < Capacity
      <3>1. EventOf(r) \in Event
        BY EventIsOne DEF Enqueue
      <3>2. buffer' \in Seq(Event) /\ Len(buffer') = Len(buffer) + 1
        BY <2>2, <3>1, Enqueued
      <3> QED BY <2>2, <3>2, Numbers
    <2> QED BY <1>2, <2>1, <2>2
  <1>5. TypeOK'
    <2>1. /\ callCount' \in [Requests -> 0..MaxCalls]
          /\ sending' \in Seq(Event) /\ Len(sending') <= 1
          /\ traces' \in [Requests -> Seq(Span)]
      BY <1>1 DEF TypeOK
    <2>2. /\ main' \in {"connecting", "serving", "waiting", "closeMcp", "closeStore"} \cup Gone
          /\ stopper' \in {"none", "blocked", "stopping", "done"}
          /\ signalled' \in BOOLEAN
          /\ clock' \in 0..Deadline
      BY <1>1 DEF TypeOK, process
    <2> QED BY <1>1, <1>4, <2>1, <2>2 DEF TypeOK
  <1> QED BY <1>1, <1>2, <1>3, <1>5

(* What a turn reports comes after all it has reported.                    *)
LEMMA ReportIsNew ==
  ASSUME IInv, NEW r \in Requests, Reporting(r)
  PROVE  /\ \A e \in Event : e.turn = r /\ Happened(e) => Order(e) < Order(EventOf(r))
         /\ \A span \in Span : SpanHappened(r, span) => SpanOrder(span) < Order(EventOf(r))
  <1>1. /\ callCount[r] \in Nat /\ callCount[r] <= MaxCalls /\ MaxCalls \in Nat
        /\ ~Told(r) /\ request[r] \in {"callAnswered", "turnEnded"}
    BY Numbers DEF IInv, Told, Reporting
  <1>2. Order(EventOf(r)) = IF request[r] = "turnEnded" THEN MaxCalls + 1 ELSE callCount[r]
    BY DEF EventOf, Order
  <1>3. ASSUME NEW e \in Event, e.turn = r, Happened(e)
        PROVE  Order(e) < Order(EventOf(r))
    <2>1. e.calls \in Nat /\ Order(e) = e.calls /\ CallReported(r, e.calls)
      BY <1>1, <1>3 DEF Happened, Order, Event
    <2> QED BY <1>1, <1>2, <2>1 DEF CallReported
  <1>4. ASSUME NEW span \in Span, SpanHappened(r, span)
        PROVE  SpanOrder(span) < Order(EventOf(r))
    <2>1. span.id \in Nat /\ SpanOrder(span) = span.id /\ CallReported(r, span.id)
      BY <1>1, <1>4 DEF SpanHappened, SpanOrder, Span, SpanID
    <2> QED BY <1>1, <1>2, <2>1 DEF CallReported
  <1> QED BY <1>3, <1>4

LEMMA EnqueueKeeps ==
  ASSUME IInv, NEW r \in Requests, Enqueue(r)
  PROVE  IInv'
  <1>1. /\ \A q \in Requests : GoesOn(q)
        /\ callCount' = callCount /\ UNCHANGED <<sending, traces>>
        /\ request[r] = "turnEnded" => request'[r] = "answering"
        /\ request'[r] # "callAnswered"
        /\ TypeOK'
    BY EnqueueGoesOn
  <1>2. CASE buffer' = buffer
    BY <1>1, <1>2, QuietKeeps DEF reporter
  <1>3. CASE buffer' = Append(buffer, EventOf(r))
    <2>1. Reporting(r) /\ EventOf(r) \in Event /\ EventOf(r).turn = r
      BY EventIsOne DEF IInv, Enqueue, EventOf
    <2> DEFINE n == Len(buffer) + 1
    <2>2. /\ Len(buffer') = n /\ n \in Nat /\ Len(buffer) \in Nat
          /\ \A i \in 1..Len(buffer) : buffer'[i] = buffer[i]
          /\ buffer'[n] = EventOf(r)
      BY <1>3, <2>1, Enqueued, Numbers DEF IInv
    <2> HIDE DEF n
    <2>3. \A i \in 1..n : i = n \/ i \in 1..Len(buffer)
      BY <2>2 DEF n
    <2>4. CallsCounted'
      BY <1>1 DEF CallsCounted, GoesOn
    <2>5. AllHappened'
      <3>1. \A e : e = EventOf(r) => Happened(e)'
        BY <1>1, <2>1, Numbers DEF Happened, CallReported, EventOf, Told, Reporting, IInv
      <3>2. ASSUME NEW i \in 1..n
            PROVE  Happened(buffer[i])'
        <4>1. CASE i = n
          BY <2>2, <3>1, <4>1 DEF Happened, CallReported, Told
        <4>2. CASE i \in 1..Len(buffer)
          BY <1>1, <2>2, <4>2, ReportsStay DEF Happened, CallReported, Told
        <4> QED BY <2>3, <4>1, <4>2
      <3>3. ASSUME sending # <<>>
            PROVE  Happened(sending[1])'
        BY <1>1, <3>3, ReportsStay DEF Happened, CallReported, Told
      <3>4. ASSUME NEW q \in Requests, NEW i \in 1..Len(traces[q])
            PROVE  SpanHappened(q, traces[q][i])'
        BY <1>1, ReportsStay DEF SpanHappened, CallReported, Told
      <3> QED BY <1>1, <2>2, <3>2, <3>3, <3>4 DEF AllHappened
    <2>6. \A i \in 1..Len(buffer) : buffer[i].turn = r => Order(buffer[i]) < Order(EventOf(r))
      BY <2>1, ReportIsNew, Numbers DEF IInv, AllHappened
    <2>7. sending # <<>> /\ sending[1].turn = r => Order(sending[1]) < Order(EventOf(r))
      BY <2>1, ReportIsNew, Numbers DEF IInv, AllHappened
    <2>8. \A i \in 1..Len(traces[r]) : SpanOrder(traces[r][i]) < Order(EventOf(r))
      BY <2>1, ReportIsNew, Numbers DEF IInv, AllHappened
    <2>9. BufferInOrder'
      <3> SUFFICES ASSUME NEW i \in 1..n, NEW j \in 1..n, i < j, buffer'[i].turn = buffer'[j].turn
                   PROVE  Order(buffer'[i]) < Order(buffer'[j])
        BY <2>2 DEF BufferInOrder, Order
      <3>1. i \in 1..Len(buffer)
        BY <2>2 DEF n
      <3>2. CASE j = n
        BY <2>1, <2>2, <2>6, <3>1, <3>2
      <3>3. CASE j \in 1..Len(buffer)
        BY <2>2, <3>1, <3>3 DEF IInv, InOrder, BufferInOrder
      <3> QED BY <2>3, <3>2, <3>3
    <2>10. SendingInOrder'
      BY <1>1, <2>1, <2>2, <2>3, <2>7 DEF SendingInOrder, IInv, InOrder, Order
    <2>11. TracesInOrder'
      <3> SUFFICES ASSUME NEW q \in Requests, NEW i \in 1..Len(traces[q]), NEW j \in 1..n,
                          buffer'[j].turn = q
                   PROVE  SpanOrder(traces[q][i]) < Order(buffer'[j])
        BY <1>1, <2>2 DEF TracesInOrder, IInv, InOrder, Order, SpanOrder
      <3>1. CASE j = n
        BY <2>1, <2>2, <2>8, <3>1
      <3>2. CASE j \in 1..Len(buffer)
        BY <2>2, <3>2 DEF IInv, InOrder, TracesInOrder
      <3> QED BY <2>3, <3>1, <3>2
    <2> QED BY <1>1, <2>4, <2>5, <2>9, <2>10, <2>11 DEF IInv, InOrder
  <1> QED BY <1>2, <1>3, EnqueueGoesOn
-----------------------------------------------------------------------------
LEMMA TakeKeeps ==
  ASSUME IInv, Take
  PROVE  IInv'
  <1>1. /\ sending = <<>> /\ buffer # <<>> /\ UNCHANGED <<process, turn, traces>>
        /\ sending' = <<Head(buffer)>> /\ buffer' = Tail(buffer)
    BY DEF Take
  <1>2. /\ buffer' \in Seq(Event) /\ Len(buffer') = Len(buffer) - 1
        /\ \A i \in 1..Len(buffer') : buffer'[i] = buffer[i + 1]
        /\ 1 \in 1..Len(buffer) /\ sending' \in Seq(Event) /\ Len(sending') = 1
        /\ sending'[1] = buffer[1] /\ sending' # <<>>
    BY <1>1, Taken DEF IInv
  <1>3. Len(buffer) \in Nat /\ Len(buffer') \in Nat /\ Capacity \in Nat
    BY <1>2, Numbers, LenProperties DEF IInv
  <1>4. \A i \in 1..Len(buffer') : i + 1 \in 1..Len(buffer) /\ 1 < i + 1
    BY <1>2, <1>3
  <1>5. UNCHANGED <<main, stopper, signalled, clock, request, callCount, traces>>
    BY <1>1 DEF process, turn
  <1>6. TypeOK'
    <2>1. Len(buffer') <= Capacity
      BY <1>2, <1>3 DEF IInv, TypeOK
    <2>2. Len(sending') <= 1
      BY <1>2
    <2> QED BY <1>2, <1>5, <2>1, <2>2 DEF IInv, TypeOK, Gone
  <1>7. CallsCounted'
    BY <1>5 DEF IInv, CallsCounted, Reporting
  <1>8. AllHappened'
    BY <1>2, <1>4, <1>5 DEF IInv, AllHappened, Happened, SpanHappened, CallReported, Told
  <1>9. BufferInOrder'
    <2> SUFFICES ASSUME NEW i \in 1..Len(buffer'), NEW j \in 1..Len(buffer'), i < j,
                        buffer'[i].turn = buffer'[j].turn
                 PROVE  Order(buffer'[i]) < Order(buffer'[j])
      BY DEF BufferInOrder, Order
    <2>1. i + 1 < j + 1
      BY <1>3
    <2> QED BY <1>2, <1>4, <2>1 DEF IInv, InOrder, BufferInOrder
  <1>10. SendingInOrder'
    <2> SUFFICES ASSUME NEW j \in 1..Len(buffer'), buffer'[j].turn = buffer[1].turn
                 PROVE  Order(buffer[1]) < Order(buffer'[j])
      BY <1>2 DEF SendingInOrder, Order
    <2> QED BY <1>2, <1>4 DEF IInv, InOrder, BufferInOrder
  <1>11. TracesInOrder'
    <2> SUFFICES ASSUME NEW r \in Requests, NEW i \in 1..Len(traces[r])
                 PROVE  /\ \A j \in 1..Len(traces[r]) :
                             i < j => SpanOrder(traces[r][i]) < SpanOrder(traces[r][j])
                        /\ buffer[1].turn = r => SpanOrder(traces[r][i]) < Order(buffer[1])
                        /\ \A j \in 1..Len(buffer') :
                             buffer'[j].turn = r => SpanOrder(traces[r][i]) < Order(buffer'[j])
      BY <1>2, <1>5 DEF TracesInOrder, Order, SpanOrder
    <2>1. \A j \in 1..Len(buffer) :
            buffer[j].turn = r => SpanOrder(traces[r][i]) < Order(buffer[j])
      BY DEF IInv, InOrder, TracesInOrder
    <2>2. \A j \in 1..Len(traces[r]) :
            i < j => SpanOrder(traces[r][i]) < SpanOrder(traces[r][j])
      BY DEF IInv, InOrder, TracesInOrder
    <2> QED BY <1>2, <1>4, <2>1, <2>2
  <1> QED BY <1>6, <1>7, <1>8, <1>9, <1>10, <1>11 DEF IInv, InOrder

(* The span of an event has its place and tells what it tells.             *)
LEMMA SpanOfEvent ==
  ASSUME NEW event \in Event, Happened(event), NEW span,
         span = IF event.type = "turn" THEN TurnSpan(event) ELSE CallSpan(event)
  PROVE  span \in Span /\ SpanHappened(event.turn, span) /\ SpanOrder(span) = Order(event)
  BY SpanIsOne DEF Happened, SpanHappened, SpanOrder, Order

LEMMA SendTraceKeeps ==
  ASSUME IInv, SendTrace
  PROVE  IInv'
  <1> DEFINE event == sending[1]
             r     == event.turn
             span  == IF event.type = "turn" THEN TurnSpan(event) ELSE CallSpan(event)
  <1>1. /\ sending # <<>> /\ sending' = <<>> /\ UNCHANGED <<process, turn, buffer>>
        /\ traces' = traces \/ traces' = [traces EXCEPT ![r] = Append(@, span)]
    <2>1. Head(sending) = event
      BY Numbers DEF IInv, SendTrace
    <2> QED BY <2>1 DEF SendTrace
  <1>2. event \in Event /\ r \in Requests /\ Happened(event)
    BY <1>1, Numbers DEF IInv, AllHappened, Event
  <1>3. span \in Span /\ SpanHappened(r, span) /\ SpanOrder(span) = Order(event)
    BY <1>2, SpanOfEvent
  <1> HIDE DEF span, r, event
  <1>4. UNCHANGED <<main, stopper, signalled, clock, request, callCount, buffer>>
    BY <1>1 DEF process, turn
  <1>5. sending' \in Seq(Event) /\ Len(sending') <= 1
    BY <1>1, EmptySeq
  <1>6. CallsCounted' /\ BufferInOrder' /\ SendingInOrder'
    BY <1>1, <1>4 DEF IInv, CallsCounted, Reporting, InOrder, BufferInOrder, SendingInOrder, Order
  <1>7. CASE traces' = traces
    <2>1. TypeOK'
      BY <1>4, <1>5, <1>7 DEF IInv, TypeOK, Gone
    <2>2. AllHappened'
      BY <1>1, <1>4, <1>7 DEF IInv, AllHappened, Happened, SpanHappened, CallReported, Told
    <2>3. TracesInOrder'
      BY <1>1, <1>4, <1>7 DEF IInv, InOrder, TracesInOrder, Order, SpanOrder
    <2> QED BY <1>6, <2>1, <2>2, <2>3 DEF IInv, InOrder
  <1>8. CASE traces' = [traces EXCEPT ![r] = Append(@, span)]
    <2> DEFINE n == Len(traces[r]) + 1
    <2>1. /\ traces' \in [Requests -> Seq(Span)]
          /\ \A q \in Requests \ {r} : traces'[q] = traces[q]
          /\ Len(traces'[r]) = n
          /\ \A i \in 1..Len(traces[r]) : traces'[r][i] = traces[r][i]
          /\ traces'[r][n] = span
      BY <1>1, <1>2, <1>3, <1>8, Traced DEF IInv, r, event
    <2>2. n \in Nat /\ Len(traces[r]) \in Nat
      BY <1>2, Numbers DEF IInv
    <2>3. \A i \in 1..n : i = n \/ i \in 1..Len(traces[r])
      BY <2>2
    <2>4. \A i \in 1..Len(traces[r]) : i < n /\ SpanOrder(traces[r][i]) < SpanOrder(span)
      BY <1>1, <1>2, <1>3, <2>2 DEF IInv, InOrder, TracesInOrder, r, event
    <2>5. \A j \in 1..Len(buffer) : buffer[j].turn = r => SpanOrder(span) < Order(buffer[j])
      BY <1>1, <1>3 DEF IInv, InOrder, SendingInOrder, r, event
    <2> HIDE DEF n
    <2>6. TypeOK'
      BY <1>4, <1>5, <2>1 DEF IInv, TypeOK, Gone
    <2>7. AllHappened'
      <3>1. ASSUME NEW q \in Requests, NEW i \in 1..Len(traces'[q])
            PROVE  SpanHappened(q, traces[q][i])'
        <4>1. CASE q = r /\ i = n
          BY <1>3, <1>4, <2>1, <4>1 DEF SpanHappened, CallReported, Told
        <4>2. CASE q = r /\ i \in 1..Len(traces[r])
          BY <1>4, <2>1, <4>2 DEF IInv, AllHappened, SpanHappened, CallReported, Told
        <4>3. CASE q # r
          BY <1>4, <2>1, <3>1, <4>3 DEF IInv, AllHappened, SpanHappened, CallReported, Told
        <4> QED BY <2>1, <2>3, <3>1, <4>1, <4>2, <4>3
      <3>2. \A i \in 1..Len(buffer') : Happened(buffer[i])'
        BY <1>4 DEF IInv, AllHappened, Happened, CallReported, Told
      <3> QED BY <1>1, <3>1, <3>2 DEF AllHappened, SpanHappened, CallReported, Told
    <2>8. TracesInOrder'
      <3> SUFFICES ASSUME NEW q \in Requests, NEW i \in 1..Len(traces'[q])
                   PROVE  /\ \A j \in 1..Len(traces'[q]) :
                               i < j => SpanOrder(traces'[q][i]) < SpanOrder(traces'[q][j])
                          /\ \A j \in 1..Len(buffer) :
                               buffer[j].turn = q => SpanOrder(traces'[q][i]) < Order(buffer[j])
        BY <1>1, <1>4 DEF TracesInOrder, Order, SpanOrder
      <3>1. CASE q # r
        BY <2>1, <3>1 DEF IInv, InOrder, TracesInOrder
      <3>2. CASE q = r /\ i = n
        BY <2>1, <2>2, <2>5, <3>2
      <3>3. CASE q = r /\ i \in 1..Len(traces[r])
        <4>1. SpanOrder(traces'[q][i]) < SpanOrder(traces'[q][n])
          BY <2>1, <2>4, <3>3
        <4>2. \A j \in 1..Len(traces[r]) :
                i < j => SpanOrder(traces'[q][i]) < SpanOrder(traces'[q][j])
          BY <1>2, <2>1, <3>3 DEF IInv, InOrder, TracesInOrder
        <4>3. \A j \in 1..Len(buffer) :
                buffer[j].turn = q => SpanOrder(traces'[q][i]) < Order(buffer[j])
          BY <1>2, <2>1, <3>3 DEF IInv, InOrder, TracesInOrder
        <4> QED BY <2>1, <2>3, <3>3, <4>1, <4>2, <4>3
      <3> QED BY <2>1, <2>3, <3>1, <3>2, <3>3
    <2> QED BY <1>6, <2>6, <2>7, <2>8 DEF IInv, InOrder
  <1> QED BY <1>1, <1>7, <1>8
-----------------------------------------------------------------------------
LEMMA InitIInv == Init => IInv
  <1> SUFFICES ASSUME Init
               PROVE  IInv
    OBVIOUS
  <1>1. <<>> \in Seq(Event) /\ <<>> \in Seq(Span) /\ Len(<<>>) = 0
    BY EmptySeq
  <1>2. Capacity \in Nat /\ Deadline \in Nat /\ MaxCalls \in Nat
    BY ProcessAssumption
  <1>3. TypeOK
    <2>1. /\ request \in [Requests -> Busy \cup {"none", "over", "cut"}]
          /\ callCount \in [Requests -> 0..MaxCalls]
          /\ traces \in [Requests -> Seq(Span)]
      BY <1>1, <1>2 DEF Init
    <2>2. /\ buffer \in Seq(Event) /\ Len(buffer) <= Capacity
          /\ sending \in Seq(Event) /\ Len(sending) <= 1
      BY <1>1, <1>2 DEF Init
    <2>3. clock \in 0..Deadline
      BY <1>2 DEF Init
    <2> QED BY <2>1, <2>2, <2>3 DEF Init, TypeOK
  <1>4. CallsCounted
    BY DEF Init, CallsCounted, Reporting
  <1>5. AllHappened /\ InOrder
    BY <1>1 DEF Init, AllHappened, InOrder, BufferInOrder, SendingInOrder, TracesInOrder
  <1> QED BY <1>3, <1>4, <1>5 DEF IInv

LEMMA NextKeeps ==
  ASSUME IInv, [Next]_vars
  PROVE  IInv'
  <1>1. CASE QuietStep
    <2>1. UNCHANGED reporter /\ \A r \in Requests : GoesOn(r)
      BY <1>1, QuietTurns DEF IInv
    <2>2. TypeOK'
      <3>1. CASE UNCHANGED vars
        BY <3>1 DEF IInv, vars, process, turn, reporter, TypeOK, Gone
      <3> QED BY <1>1, <3>1, ProcessTypes, TurnTypes DEF QuietStep, IInv
    <2> QED BY <2>1, <2>2, QuietKeeps
  <1>2. CASE \E r \in Requests : Enqueue(r)
    BY <1>2, EnqueueKeeps
  <1> QED BY <1>1, <1>2, TakeKeeps, SendTraceKeeps DEF Next, QuietStep, ProcessStep, TurnStep

(* The invariant behind the theorems.                                      *)
THEOREM ServeInvariant == Spec => []IInv
  <1>1. IInv /\ [Next]_vars => IInv'
    BY NextKeeps
  <1> QED BY <1>1, InitIInv, PTL DEF Spec

(* The process, its requests and the reporter keep their types.            *)
THEOREM ServeTypes == Spec => []TypeOK
  <1> QED BY ServeInvariant, PTL DEF IInv

LEMMA InOrderShows ==
  ASSUME IInv
  PROVE  TracesShowTurns
  <1> SUFFICES ASSUME NEW r \in Requests, NEW i \in DOMAIN traces[r]
               PROVE  /\ traces[r][i].parent = {0} =>
                           \A j \in 1..(i - 1) : traces[r][j].id < traces[r][i].id
                      /\ traces[r][i].id = 0 =>
                           i = Len(traces[r]) /\ traces[r][i].calls = callCount[r]
    BY DEF TracesShowTurns
  <1> DEFINE n    == Len(traces[r])
             span == traces[r][i]
  <1>1. DOMAIN traces[r] = 1..n
    BY LenProperties DEF IInv, TypeOK
  <1>2. i \in 1..n /\ n \in Nat /\ \A j \in 1..n : traces[r][j] \in Span
    BY <1>1, Numbers DEF IInv
  <1>3. \A j \in 1..n : /\ SpanHappened(r, traces[r][j])
                        /\ \A k \in 1..n : j < k => SpanOrder(traces[r][j]) < SpanOrder(traces[r][k])
    BY DEF IInv, AllHappened, InOrder, TracesInOrder
  <1>4. \A j \in 1..n : /\ traces[r][j].id \in Nat /\ traces[r][j].id <= MaxCalls
                        /\ MaxCalls \in Nat
    BY <1>2, ProcessAssumption DEF Span, SpanID
  <1>5. span.parent = {0} => span.id # 0
    BY <1>2, <1>3 DEF SpanHappened
  <1>6. ASSUME span.parent = {0}, NEW j \in 1..(i - 1)
        PROVE  traces[r][j].id < span.id
    <2>1. j \in 1..n /\ j < i
      BY <1>2
    <2>2. SpanOrder(traces[r][j]) < SpanOrder(span)
      BY <1>2, <1>3, <2>1
    <2> QED BY <1>2, <1>4, <1>5, <1>6, <2>1, <2>2 DEF SpanOrder
  <1>7. ASSUME span.id = 0
        PROVE  i = n /\ span.calls = callCount[r]
    <2>1. span.calls = callCount[r]
      BY <1>2, <1>3, <1>7 DEF SpanHappened
    <2>2. ~(i < n)
      <3>1. n \in 1..n /\ SpanOrder(span) = MaxCalls + 1 /\ SpanOrder(traces[r][n]) <= MaxCalls + 1
        BY <1>2, <1>4, <1>7 DEF SpanOrder
      <3>2. SpanOrder(traces[r][n]) \in Nat
        BY <3>1, <1>4 DEF SpanOrder
      <3> QED BY <1>2, <1>3, <1>4, <3>1, <3>2
    <2> QED BY <1>2, <2>1, <2>2
  <1> QED BY <1>6, <1>7

(* A trace shows a turn as it was, however many turns overlap and whatever *)
(* the reporter drops (langfuse.go:84-92) or Langfuse does not take.       *)
THEOREM TracesAlwaysShowTurns == Spec => []TracesShowTurns
  <1> QED BY InOrderShows, ServeInvariant, PTL
-----------------------------------------------------------------------------
TP == INSTANCE TerminalProofs

(* The terminals of the program are those the theorems are about.          *)
LEMMA SameShared ==
  /\ TP!Fresh = Terminal!Fresh /\ (TP!Loadable <=> Terminal!Loadable) /\ TP!InUse = Terminal!InUse
  /\ \A s : TP!ToSet(s) = Terminal!ToSet(s)
  BY DEF TP!Fresh, Terminal!Fresh, TP!InUse, Terminal!InUse, TP!ToSet, Terminal!ToSet,
         TP!Loadable, Terminal!Loadable

LEMMA SameEntries == \A line : Terminal!EntryOf(line) = TP!EntryOf(line)
  BY DEF Terminal!EntryOf, TP!EntryOf

LEMMA SameSteps ==
  ASSUME NEW t \in Terminals
  PROVE  /\ \A id : Terminal!SetScope(t, id) <=> TP!SetScope(t, id)
         /\ Terminal!ReadLine(t) <=> TP!ReadLine(t)
         /\ \A text : Terminal!Write(t, text) <=> TP!Write(t, text)
         /\ \A text : Terminal!WriteFails(t, text) <=> TP!WriteFails(t, text)
         /\ Terminal!BackToPrompt(t) <=> TP!BackToPrompt(t)
         /\ \A p : Terminal!GoTo(t, p) <=> TP!GoTo(t, p)
  BY DEF Terminal!SetScope, TP!SetScope, Terminal!ReadLine, TP!ReadLine, Terminal!Write, TP!Write,
         Terminal!WriteFails, TP!WriteFails, Terminal!AppendToFile, TP!AppendToFile,
         Terminal!Unfinished, TP!Unfinished, Terminal!Last, TP!Last, Terminal!Front, TP!Front,
         Terminal!Repeated, TP!Repeated, Terminal!BackToPrompt, TP!BackToPrompt,
         Terminal!GoTo, TP!GoTo

LEMMA SameNext == Terminal!Next => TP!Next
  <1> SUFFICES ASSUME NEW t \in Terminals,
                      \/ Terminal!Start(t) \/ Terminal!Leave(t) \/ Terminal!Chat(t)
                      \/ Terminal!New(t) \/ Terminal!Show(t) \/ Terminal!Cancel(t)
                      \/ Terminal!Switch(t) \/ Terminal!DeleteSession(t)
               PROVE  TP!Next
    BY DEF Terminal!Next
  <1>1. Terminal!Start(t) => TP!Start(t)
    BY SameShared, SameSteps, SameEntries DEF Terminal!Start, TP!Start
  <1>2. Terminal!Leave(t) => TP!Leave(t)
    BY SameSteps DEF Terminal!Leave, TP!Leave
  <1>3. Terminal!Chat(t) => TP!Chat(t)
    BY SameShared, SameSteps DEF Terminal!Chat, TP!Chat
  <1>4. Terminal!New(t) => TP!New(t)
    BY SameShared, SameSteps DEF Terminal!New, TP!New
  <1>5. Terminal!Show(t) => TP!Show(t)
    BY SameSteps DEF Terminal!Show, TP!Show
  <1>6. Terminal!Cancel(t) => TP!Cancel(t)
    BY SameSteps DEF Terminal!Cancel, TP!Cancel
  <1>7. Terminal!Switch(t) => TP!Switch(t)
    BY SameShared, SameSteps DEF Terminal!Switch, TP!Switch, Terminal!Chosen, TP!Chosen
  <1>8. Terminal!DeleteSession(t) => TP!DeleteSession(t)
    BY SameShared, SameSteps DEF Terminal!DeleteSession, TP!DeleteSession, Terminal!Chosen,
       TP!Chosen, Terminal!RemoveAt, TP!RemoveAt
  <1> QED BY <1>1, <1>2, <1>3, <1>4, <1>5, <1>6, <1>7, <1>8 DEF TP!Next
-----------------------------------------------------------------------------
all == <<command, vars, terminals>>

(* Each part of the program keeps its own invariant.                       *)
TalkInv == IInv /\ TP!IInv

LEMMA Assumed == TP!Sound
  BY TerminalAssumption DEF TP!Sound, Terminal!Sound

LEMMA TalkInitInv == TalkInit => TalkInv
  <1>1. Terminal!Init => TP!Init
    BY DEF Terminal!Init, TP!Init
  <1> QED BY <1>1, Assumed, InitIInv, TP!InitIInv DEF TalkInit, TalkInv

(* A step of the program is one of its server, of its terminals, or none   *)
(* of either.                                                              *)
LEMMA TalkParts == [TalkNext]_all => [Next]_vars /\ [TP!Next]_(TP!termvars)
  BY SameNext DEF TalkNext, Serve, Session, all, terminals, TP!termvars

LEMMA TalkKeeps ==
  ASSUME TalkInv, [TalkNext]_all
  PROVE  TalkInv'
  <1>1. IInv'
    BY TalkParts, NextKeeps DEF TalkInv
  <1>2. TP!IInv'
    BY TalkParts, Assumed, TP!NextKeeps DEF TalkInv
  <1> QED BY <1>1, <1>2 DEF TalkInv

THEOREM TalkInvariant == TalkSpec => []TalkInv
  <1>1. TalkInv /\ [TalkNext]_<<command, vars, terminals>> => TalkInv'
    BY TalkKeeps DEF all
  <1> QED BY <1>1, TalkInitInv, PTL DEF TalkSpec

(* What the server and the terminals keep has its type.                    *)
THEOREM TalkTypes == TalkSpec => []TypesOK
  <1>1. TalkInv => TypesOK
    <2>1. TP!TypeOK => Terminal!TypeOK
      BY DEF TP!TypeOK, Terminal!TypeOK, TP!Line, Terminal!Line
    <2> QED BY <2>1 DEF TalkInv, IInv, TP!IInv, TypesOK
  <1> QED BY <1>1, TalkInvariant, PTL

(* Traces show turns as they were in every run of the program              *)
(* (langfuse.go:84-92, otlp.go:94).                                        *)
THEOREM TalkTraces == TalkSpec => []TracesShowTurns
  <1>1. TalkInv => TracesShowTurns
    BY InOrderShows DEF TalkInv
  <1> QED BY <1>1, TalkInvariant, PTL

(* What a terminal remembers ends lines of the file, in that order,        *)
(* whoever else writes to it and whichever writes fail on their way: what  *)
(* those leave may stand before it (reader.go:161-182).                    *)
THEOREM TalkHistory == TalkSpec => []HistoryIsKept
  <1>1. TalkInv => HistoryIsKept
    BY DEF TalkInv, TP!IInv, TP!HistoryIsKept, HistoryIsKept, Terminal!HistoryIsKept
  <1> QED BY <1>1, TalkInvariant, PTL

(* Sessions are stored, chosen and removed as they were shown, whatever    *)
(* other terminals do in between (cmd_session.go:18-146).                  *)
THEOREM TalkSessions == TalkSpec => SessionsAsShown
  <1> DEFINE Shown ==
        /\ \A id \in Terminal!ToSet(table') \ Terminal!ToSet(table) :
             \E t \in Terminals : place[t] = "prompt" /\ scope[t] = id
        /\ \A id \in Terminal!ToSet(table) \ Terminal!ToSet(table') :
             \E t \in Terminals : place[t] = "remove" /\ place'[t] = "prompt"
                                  /\ id \in Terminal!ToSet(listed[t]) \ {scope[t]}
        /\ \A t \in Terminals :
             /\ place[t] = "switch" /\ place'[t] = "prompt" =>
                  scope'[t] = scope[t] \/ scope'[t] \in Terminal!ToSet(listed[t]) \/ scope'[t] \notin Terminal!InUse
             /\ manager'[t] = [stores |-> scope'[t], reads |-> scope'[t]]
  <1>1. TP!AsShown => Shown
    BY SameShared DEF TP!AsShown
  <1>2. TalkInv /\ TalkInv' /\ [TalkNext]_<<command, vars, terminals>> => [Shown]_(Terminal!termvars)
    <2> SUFFICES ASSUME TalkInv, TalkInv', [TalkNext]_all, ~UNCHANGED Terminal!termvars
                 PROVE  Shown
      BY DEF all
    <2>1. TP!Next
      BY TalkParts DEF TP!termvars, Terminal!termvars
    <2>2. TP!AsShown
      BY <2>1, TP!NextAsShown DEF TalkInv
    <2> QED BY <1>1, <2>2
  <1> QED BY <1>2, TalkInvariant, PTL DEF TalkSpec, SessionsAsShown, Terminal!SessionsAsShown
=============================================================================
