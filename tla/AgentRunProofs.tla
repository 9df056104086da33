---------------------------- MODULE AgentRunProofs ----------------------------
(***************************************************************************)
(* Theorems about AgentRun, for any number of rounds, any sizes of a batch *)
(* and any limits that meet its assumptions: the stream of every request   *)
(* is the beginning of a legal run, no tool outlives its batch, no client  *)
(* that stays is left without an ending.                                   *)
(***************************************************************************)
EXTENDS AgentRun, SequenceTheorems, TLAPS

Reasoning == Event("reasoning")
Text      == Event("text")
Close     == Event("close")

(* What the handler may still have to write of an answer of the model.     *)
AnswerTails ==
  {<<>>, <<Reasoning, Close>>, <<Close>>, <<Text, Close>>,
   <<Reasoning, Close, Text, Close>>, <<Close, Text, Close>>}

(* Each writer has only its own events to write, and only while it is at   *)
(* the place in the code that writes them.                                 *)
MainWrites ==
  CASE pc = "empty"  -> due[Main] \in {<<>>, <<Event("start"), Event("finished")>>,
                                       <<Event("finished")>>}
    [] pc = "answer" -> due[Main] \in AnswerTails
    [] OTHER         -> due[Main] = <<>>

ToolWrites(p) ==
  IF job[p] \in {"starting", "ending"}
  THEN due[p] \in {<<>>, <<ToolEvent(p)>>, <<ToolEvent(p), ToolEvent(p)>>}
  ELSE due[p] = <<>>

ToolsWrite == \A p \in Places : ToolWrites(p)

(* How far the turn has come.                                              *)
BeforeTurn == {"request", "empty", "refused", "accepted", "resolve", "user"}
WithBatch  == {"tools", "results", "giveUp", "exhausted"}
LastRound  == {"giveUp", "exhausted"}

RoundsFit ==
  /\ pc \in BeforeTurn => round = 0
  /\ pc = "model" => round < MaxToolCalls
  /\ pc \in {"answer", "turnEnd", "done"} \cup WithBatch => round > 0
  /\ pc \in WithBatch => calls > 0
  /\ pc \in LastRound => round = MaxToolCalls

(* Goroutines exist for the tools of the batch only; in a batch without    *)
(* concurrency they run one after the other.                               *)
BatchShape ==
  /\ pc # "tools" => \A p \in Places : job[p] = "off"
  /\ pc = "tools" => \A p \in Places : job[p] = "off" <=> p > calls
  /\ Sequential => \A p \in Places :
       job[p] \notin {"off", "queued"} => \A q \in 1..(p - 1) : job[q] = "done"

(* What a client that is still there has seen: the phase of the run, the   *)
(* open block and the events of each call.                                 *)
SeenPhase ==
  CASE pc \in {"request", "refused", "accepted", "rejected"} -> client.phase = "waiting"
    [] pc = "empty" ->
         client.phase \in (CASE due[Main] = <<>>                -> {"waiting", "finished"}
                             [] due[Main] = <<Event("finished")>> -> {"running"}
                             [] OTHER                           -> {"waiting"})
    [] pc = "closed" -> client.phase \in Protocol!Closed
    [] OTHER         -> client.phase = "running"

SeenBlock == client.open # "none" <=> due[Main] # <<>> /\ Head(due[Main]) = Close

StageOf(p) ==
  CASE job[p] = "starting" -> {2 - Len(due[p])}
    [] job[p] = "running"  -> {2}
    [] job[p] = "ending"   -> {4 - Len(due[p])}
    [] job[p] = "done"     -> {4}
    [] job[p] = "failed"   -> {2, 4}
    [] OTHER               -> {0}

SeenCalls ==
  /\ \A c \in CallIds :
       c[1] > round \/ (c[1] = round /\ pc = "answer") => client.stage[c] = 0
  /\ pc \notin {"tools", "failed", "closed"} =>
       \A c \in CallIds : client.stage[c] \in {0, 4}
  /\ pc = "tools" => \A c \in CallIds :
       client.stage[c] \in (IF c[1] = round THEN StageOf(c[2]) ELSE {0, 4})
  /\ pc \in {"results"} \cup LastRound =>
       \A p \in 1..calls : client.stage[<<round, p>>] = 4

ClientHasSeen == ~gone => SeenPhase /\ SeenBlock /\ SeenCalls

(* The view of a client that has gone is what it was: that of one that was *)
(* offered to go on keeps meaning what it meant.                           *)
Offered ==
  client.phase = "interrupted" =>
    /\ pc = "closed"
    /\ round = MaxToolCalls
    /\ calls > 0
    /\ \A p \in 1..calls : client.stage[<<round, p>>] = 4

StateOK ==
  /\ input \in BOOLEAN
  /\ limit \in Limits
  /\ pc \in Control
  /\ round \in 0..MaxToolCalls
  /\ calls \in Batches \cup {0}
  /\ job \in [Places -> Jobs]
  /\ due \in [Writers -> Seq(Events)]
  /\ others \in {"idle", "busy", "failed"}
  /\ gone \in BOOLEAN
  /\ client \in Protocol!View

IInv ==
  /\ StateOK
  /\ MainWrites
  /\ ToolsWrite
  /\ RoundsFit
  /\ BatchShape
  /\ ClientHasSeen
  /\ Offered
-----------------------------------------------------------------------------
(* The writers and the calls of a run.                                     *)
LEMMA PlacesCount ==
  /\ Places \subseteq Nat \ {0}
  /\ Main \in Writers /\ Main \notin Places /\ Places \subseteq Writers
  /\ \A b \in Batches \cup {0} : b \in Nat /\ 1..b \subseteq Places
  /\ \A p \in Places, n \in Rounds : <<n, p>> \in CallIds
  /\ \A c \in CallIds : c[1] \in Rounds /\ c[2] \in Places /\ c = <<c[1], c[2]>>
  <1>1. \A b \in Batches \cup {0} : b \in Nat /\ 1..b \subseteq Places
    BY RunAssumption DEF Places
  <1>2. Places \subseteq Nat \ {0}
    BY RunAssumption DEF Places
  <1> QED BY <1>1, <1>2 DEF Main, Writers, CallIds

(* Taking the first of a few events.                                       *)
LEMMA OneWritten ==
  ASSUME NEW a, NEW b, NEW c, NEW d
  PROVE  /\ Head(<<a>>) = a /\ Tail(<<a>>) = <<>> /\ Len(<<a>>) = 1
         /\ Head(<<a, b>>) = a /\ Tail(<<a, b>>) = <<b>> /\ Len(<<a, b>>) = 2
         /\ Head(<<a, b, c>>) = a /\ Tail(<<a, b, c>>) = <<b, c>>
         /\ Head(<<a, b, c, d>>) = a /\ Tail(<<a, b, c, d>>) = <<b, c, d>>
         /\ Len(<<>>) = 0 /\ <<a>> # <<>> /\ <<a, b>> # <<>> /\ <<a, b, c>> # <<>>
         /\ <<a, b, c, d>> # <<>>
  OBVIOUS

LEMMA EventsAreEvents ==
  /\ \A kind \in EventKinds : Event(kind) \in Events
  /\ round \in Rounds => \A p \in Places : ToolEvent(p) \in Events
  /\ \A p : ToolEvent(p).kind = "call" /\ ToolEvent(p).call = <<round, p>>
  /\ \A kind : Event(kind).kind = kind
  BY PlacesCount DEF Event, ToolEvent, Events, EventKinds

LEMMA InitInv == Init => IInv
  <1> SUFFICES ASSUME Init PROVE IInv
    OBVIOUS
  <1> USE DEF Init, Protocol!Init
  <1>1. StateOK
    <2>1. job \in [Places -> Jobs]
      BY DEF Idle, Jobs
    <2>2. due \in [Writers -> Seq(Events)]
      BY DEF NothingDue
    <2>3. client \in Protocol!View
      BY DEF Protocol!View, Protocol!Phases, Protocol!Answered
    <2>4. round \in 0..MaxToolCalls
      BY RunAssumption
    <2> HIDE DEF Protocol!Init
    <2> QED BY <2>1, <2>2, <2>3, <2>4 DEF StateOK, Control
  <1>2. MainWrites /\ ToolsWrite /\ BatchShape
    BY PlacesCount DEF MainWrites, ToolsWrite, ToolWrites, BatchShape, Idle, NothingDue
  <1>3. RoundsFit
    BY DEF RoundsFit, BeforeTurn, WithBatch, LastRound
  <1>4. ClientHasSeen /\ Offered
    BY PlacesCount DEF ClientHasSeen, Offered, SeenPhase, SeenBlock, SeenCalls, NothingDue, LastRound
  <1> QED BY <1>1, <1>2, <1>3, <1>4 DEF IInv
-----------------------------------------------------------------------------
(* The client is gone, or sees one more event.                             *)
LEMMA ShowIs ==
  ASSUME NEW event, Show(event)
  PROVE  IF gone THEN client' = client ELSE client' = Seen(event)
  BY DEF Show
-----------------------------------------------------------------------------
(* Where the handler only moves from one place to another, with nothing to *)
(* write, the invariant holds if the rounds and what the client has seen   *)
(* fit the new place.                                                      *)
LEMMA MoveKeeps ==
  ASSUME IInv, UNCHANGED <<limit, turn, tools, gone, client>>,
         input' \in BOOLEAN, others' \in {"idle", "busy", "failed"},
         pc # "tools", pc # "closed", due[Main] = <<>>,
         pc' \in Control \ {"tools", "answer"},
         RoundsFit', ~gone => SeenPhase',
         pc' \in {"results"} \cup LastRound => pc \in {"results"} \cup LastRound,
         pc' \in {"failed", "closed"} \/ pc # "failed"
  PROVE  IInv'
  <1> USE DEF IInv, turn, tools
  <1>1. StateOK'
    BY DEF StateOK
  <1>2. MainWrites' /\ ToolsWrite' /\ BatchShape'
    BY DEF MainWrites, ToolsWrite, ToolWrites, BatchShape, Sequential, ToolEvent
  <1>3. ClientHasSeen'
    BY DEF ClientHasSeen, SeenBlock, SeenCalls
  <1>4. Offered'
    BY DEF Offered
  <1> QED BY <1>1, <1>2, <1>3, <1>4

(* Away from the places that write an answer or run a batch the handler    *)
(* has nothing to write.                                                   *)
LEMMA NothingToWrite ==
  ASSUME IInv, pc \notin {"empty", "answer"}
  PROVE  due[Main] = <<>>
  BY DEF IInv, MainWrites

LEMMA ServeHTTPKeeps ==
  ASSUME IInv, NEW request \in Requests, ServeHTTP(request)
  PROVE  IInv'
  <1> USE DEF ServeHTTP
  <1>1. pc' \in {"rejected", "empty", "refused", "accepted"}
    BY DEF Verdict
  <1>2. input' \in BOOLEAN /\ others' = others
    BY DEF HasInput
  <1>3. due[Main] = <<>> /\ due' = due
    BY NothingToWrite DEF tools
  <1>4. RoundsFit'
    BY <1>1 DEF IInv, RoundsFit, BeforeTurn, WithBatch, LastRound, turn
  <1>5. ~gone => SeenPhase'
    BY <1>1, <1>3 DEF IInv, ClientHasSeen, SeenPhase
  <1> QED BY <1>1, <1>2, <1>3, <1>4, <1>5, MoveKeeps DEF IInv, StateOK, Control, LastRound

LEMMA BeginTurnKeeps ==
  ASSUME IInv, BeginTurn
  PROVE  IInv'
  <1> USE DEF BeginTurn
  <1>1. pc' \in {"user", "failed"} /\ pc = "resolve"
    OBVIOUS
  <1>2. RoundsFit'
    BY <1>1 DEF IInv, RoundsFit, BeforeTurn, WithBatch, LastRound, turn
  <1>3. ~gone => SeenPhase'
    BY <1>1 DEF IInv, ClientHasSeen, SeenPhase
  <1> QED BY <1>1, <1>2, <1>3, MoveKeeps, NothingToWrite DEF IInv, StateOK, Control, LastRound

LEMMA UserStoredKeeps ==
  ASSUME IInv, UserStored
  PROVE  IInv'
  <1> USE DEF UserStored, EventHandled
  <1>1. pc' \in {"model", "failed"} /\ pc = "user"
    OBVIOUS
  <1>2. RoundsFit'
    BY <1>1, RunAssumption DEF IInv, RoundsFit, BeforeTurn, WithBatch, LastRound, turn
  <1>3. ~gone => SeenPhase'
    BY <1>1 DEF IInv, ClientHasSeen, SeenPhase
  <1> QED BY <1>1, <1>2, <1>3, MoveKeeps DEF IInv, StateOK, Control, LastRound

LEMMA NoAnswerKeeps ==
  ASSUME IInv,
         ModelFails \/ (\E answer \in Answers : ModelAnswersNothing(answer))
  PROVE  IInv'
  <1>1. /\ pc' \in {"aborted", "failed"} /\ pc = "model"
        /\ UNCHANGED <<input, limit, turn, tools, others, gone, client>>
    BY DEF ModelFails, ModelAnswersNothing
  <1>2. RoundsFit'
    BY <1>1 DEF IInv, RoundsFit, BeforeTurn, WithBatch, LastRound, turn
  <1>3. ~gone => SeenPhase'
    BY <1>1 DEF IInv, ClientHasSeen, SeenPhase
  <1> QED BY <1>1, <1>2, <1>3, MoveKeeps, NothingToWrite DEF IInv, StateOK, Control, LastRound

(* The rounds of a turn are counted: the model is asked again only while   *)
(* one is left.                                                            *)
LEMMA ResultsStoredKeeps ==
  ASSUME IInv, ResultsStored
  PROVE  IInv'
  <1> USE DEF ResultsStored
  <1>1. pc' \in {"model", "giveUp", "failed"} /\ pc = "results"
    OBVIOUS
  <1>2. RoundsFit'
    BY <1>1, RunAssumption DEF IInv, StateOK, RoundsFit, BeforeTurn, WithBatch, LastRound, turn
  <1>3. ~gone => SeenPhase'
    BY <1>1 DEF IInv, ClientHasSeen, SeenPhase
  <1> QED BY <1>1, <1>2, <1>3, MoveKeeps, NothingToWrite DEF IInv, StateOK, Control, LastRound

LEMMA EndTurnKeeps ==
  ASSUME IInv, EndTurn
  PROVE  IInv'
  <1> USE DEF EndTurn
  <1>1. /\ \/ pc = "turnEnd" /\ pc' \in {"done", "failed"}
           \/ pc = "giveUp" /\ pc' = "exhausted"
        /\ UNCHANGED <<input, limit, turn, tools, others, gone, client>>
    OBVIOUS
  <1>2. RoundsFit'
    BY <1>1 DEF IInv, RoundsFit, BeforeTurn, WithBatch, LastRound, turn
  <1>3. ~gone => SeenPhase'
    BY <1>1 DEF IInv, ClientHasSeen, SeenPhase
  <1> QED BY <1>1, <1>2, <1>3, MoveKeeps, NothingToWrite DEF IInv, StateOK, Control, LastRound

(* The handlers beside the emitter, and the client's leaving, disturb      *)
(* nothing the invariant speaks of.                                        *)
LEMMA BystandersKeep ==
  ASSUME IInv, OthersHandle \/ Disconnect \/ UNCHANGED vars
  PROVE  IInv'
  <1>1. /\ UNCHANGED <<input, limit, pc, turn, tools, client>>
        /\ others' \in {"idle", "busy", "failed"} /\ gone' \in BOOLEAN
        /\ (gone => gone')
    BY DEF OthersHandle, Disconnect, vars, IInv, StateOK
  <1>2. StateOK'
    BY <1>1 DEF IInv, StateOK, turn, tools
  <1>3. MainWrites' /\ ToolsWrite' /\ RoundsFit' /\ BatchShape'
    BY <1>1 DEF IInv, turn, tools, MainWrites, ToolsWrite, ToolWrites, ToolEvent, RoundsFit, BatchShape, Sequential
  <1>4. Offered'
    BY <1>1 DEF IInv, turn, Offered
  <1>5. ASSUME ~gone' PROVE SeenPhase' /\ SeenBlock' /\ SeenCalls'
    <2>1. SeenPhase /\ SeenBlock /\ SeenCalls
      BY <1>1, <1>5 DEF IInv, StateOK, ClientHasSeen
    <2>2. SeenPhase' /\ SeenBlock'
      BY <1>1, <2>1 DEF SeenPhase, SeenBlock, tools
    <2>3. SeenCalls'
      BY <1>1, <2>1 DEF SeenCalls, StageOf, tools, turn
    <2> QED BY <2>2, <2>3
  <1> QED BY <1>2, <1>3, <1>4, <1>5 DEF IInv, ClientHasSeen
-----------------------------------------------------------------------------
(* The first and the last event of a run, and the run that is refused.     *)
LEMMA EmptyRunKeeps ==
  ASSUME IInv, EmptyRun
  PROVE  IInv'
  <1> USE DEF EmptyRun
  <1>1. CASE client.phase = "waiting" /\ ~gone
    <2>1. /\ due' = [due EXCEPT ![Main] = <<Event("start"), Event("finished")>>]
          /\ UNCHANGED <<input, limit, pc, turn, job, others, gone, client>>
      BY <1>1
    <2>2. StateOK'
      <3>1. <<Event("start"), Event("finished")>> \in Seq(Events)
        BY EventsAreEvents DEF EventKinds
      <3> QED BY <2>1, <3>1 DEF IInv, StateOK, turn
    <2>3. \A p \in Places : due'[p] = due[p]
      BY <2>1, PlacesCount DEF IInv, StateOK
    <2>4. due'[Main] = <<Event("start"), Event("finished")>>
      BY <2>1, PlacesCount DEF IInv, StateOK
    <2>5. MainWrites'
      BY <2>1, <2>4 DEF MainWrites
    <2>6. ToolsWrite' /\ RoundsFit' /\ BatchShape' /\ Offered'
      BY <2>1, <2>3 DEF IInv, turn, ToolsWrite, ToolWrites, ToolEvent, RoundsFit, BatchShape,
         Sequential, Offered
    <2>7. ASSUME ~gone' PROVE SeenPhase' /\ SeenBlock' /\ SeenCalls'
      <3>1. SeenPhase /\ SeenBlock /\ SeenCalls
        BY <2>1, <2>7 DEF IInv, ClientHasSeen
      <3>2. /\ <<Event("start"), Event("finished")>> # <<>>
            /\ Head(<<Event("start"), Event("finished")>>) # Close
            /\ <<Event("start"), Event("finished")>> # <<Event("finished")>>
        BY EventsAreEvents, OneWritten DEF Close
      <3>3. SeenPhase'
        BY <1>1, <2>1, <2>4, <3>2 DEF SeenPhase
      <3>4. SeenBlock'
        BY <2>1, <2>4, <3>1, <3>2 DEF SeenBlock
      <3>5. SeenCalls'
        BY <2>1, <3>1 DEF SeenCalls, LastRound, turn
      <3> QED BY <3>3, <3>4, <3>5
    <2> QED BY <2>2, <2>5, <2>6, <2>7 DEF IInv, ClientHasSeen
  <1>2. CASE ~(client.phase = "waiting" /\ ~gone)
    <2>1. /\ pc = "empty" /\ pc' = "closed" /\ due[Main] = <<>>
          /\ UNCHANGED <<input, limit, turn, tools, others, gone, client>>
      BY <1>2 DEF tools
    <2>2. RoundsFit'
      BY <2>1 DEF RoundsFit, BeforeTurn, WithBatch, LastRound
    <2>3. ~gone => SeenPhase'
      BY <1>2, <2>1 DEF IInv, ClientHasSeen, SeenPhase, Protocol!Closed
    <2> QED BY <2>1, <2>2, <2>3, MoveKeeps DEF IInv, StateOK, Control, LastRound
  <1> QED BY <1>1, <1>2

(* An event that begins or ends the run, written by the handler with       *)
(* nothing else to write.                                                  *)
LEMMA RunEventKeeps ==
  ASSUME IInv,
         NEW phase \in {"running"} \cup Protocol!Closed,
         client' = IF gone THEN client ELSE [client EXCEPT !.phase = phase],
         UNCHANGED <<input, limit, turn, tools, others, gone>>,
         pc # "tools", pc # "closed", due[Main] = <<>>,
         pc' \in {"resolve", "closed"}, pc' = "resolve" => pc = "accepted",
         phase = "running" <=> pc' = "resolve",
         phase = "interrupted" => pc = "exhausted"
  PROVE  IInv'
  <1> USE DEF IInv, turn, tools
  <1>1. client \in Protocol!View /\ phase \in Protocol!Phases
    BY DEF StateOK, Protocol!Closed, Protocol!Phases
  <1>2. client' \in Protocol!View
    BY <1>1 DEF Protocol!View
  <1>3. /\ client'.stage = client.stage /\ client'.open = client.open
        /\ ~gone => client'.phase = phase
    BY <1>1 DEF Protocol!View
  <1>4. StateOK'
    BY <1>2 DEF StateOK, Control
  <1>5. MainWrites' /\ ToolsWrite' /\ BatchShape' /\ RoundsFit'
    BY DEF MainWrites, ToolsWrite, ToolWrites, BatchShape, Sequential, ToolEvent, RoundsFit,
       BeforeTurn, WithBatch, LastRound
  <1>6. ASSUME ~gone PROVE SeenPhase' /\ SeenBlock' /\ SeenCalls'
    <2>1. SeenPhase /\ SeenBlock /\ SeenCalls
      BY <1>6 DEF ClientHasSeen
    <2>2. SeenPhase'
      BY <1>3, <1>6 DEF SeenPhase, Protocol!Closed
    <2>3. SeenBlock' /\ SeenCalls'
      BY <1>3, <2>1 DEF SeenBlock, SeenCalls, LastRound
    <2> QED BY <2>2, <2>3
  <1>7. Offered'
    <2>1. CASE gone
      BY <2>1 DEF Offered
    <2>2. CASE ~gone
      <3>1. ASSUME phase = "interrupted"
            PROVE  /\ pc' = "closed" /\ round = MaxToolCalls /\ calls > 0
                   /\ \A p \in 1..calls : client.stage[<<round, p>>] = 4
        BY <2>2, <3>1 DEF RoundsFit, WithBatch, LastRound, ClientHasSeen, SeenCalls
      <3> QED BY <1>3, <2>2, <3>1 DEF Offered
    <2> QED BY <2>1, <2>2
  <1> QED BY <1>4, <1>5, <1>6, <1>7 DEF ClientHasSeen

LEMMA SeenRunEvent ==
  /\ Seen(Event("start")) = [client EXCEPT !.phase = "running"]
  /\ \A phase \in Protocol!Closed : Seen(Event(phase)) = [client EXCEPT !.phase = phase]
  <1> USE DEF Seen, Protocol!Closed, Protocol!Blocks
  <1>1. Event("start").kind = "start"
    BY EventsAreEvents
  <1>2. ASSUME NEW phase \in Protocol!Closed
        PROVE  Seen(Event(phase)) = [client EXCEPT !.phase = phase]
    <2>1. Event(phase).kind = phase
      BY EventsAreEvents
    <2> QED BY <2>1
  <1> QED BY <1>1, <1>2

LEMMA RunEventsKeep ==
  ASSUME IInv, RefuseModel \/ StartRun \/ EndRun
  PROVE  IInv'
  <1>1. due[Main] = <<>>
    BY NothingToWrite DEF RefuseModel, StartRun, EndRun
  <1>2. CASE RefuseModel
    <2>1. client' = IF gone THEN client ELSE [client EXCEPT !.phase = "errored"]
      BY <1>2, SeenRunEvent DEF RefuseModel, Show, Protocol!Closed
    <2> QED BY <1>1, <1>2, <2>1, RunEventKeeps DEF RefuseModel, Protocol!Closed
  <1>3. CASE StartRun
    <2>1. client' = IF gone THEN client ELSE [client EXCEPT !.phase = "running"]
      BY <1>3, SeenRunEvent DEF StartRun, Show
    <2>2. CASE gone
      <3>1. /\ UNCHANGED <<input, limit, turn, tools, others, gone, client>>
            /\ pc = "accepted" /\ pc' = "closed"
        BY <1>3, <2>1, <2>2 DEF StartRun
      <3>2. RoundsFit'
        BY <3>1 DEF RoundsFit, BeforeTurn, WithBatch, LastRound
      <3> QED BY <1>1, <2>2, <3>1, <3>2, MoveKeeps DEF IInv, StateOK, Control, LastRound
    <2>3. CASE ~gone
      BY <1>1, <1>3, <2>1, <2>3, RunEventKeeps DEF StartRun, Protocol!Closed
    <2> QED BY <2>2, <2>3
  <1>4. CASE EndRun
    <2>1. PICK phase \in Protocol!Closed :
            /\ client' = IF gone THEN client ELSE [client EXCEPT !.phase = phase]
            /\ phase = "interrupted" => pc = "exhausted"
      BY <1>4, SeenRunEvent DEF EndRun, LastEvent, Show, Protocol!Closed
    <2> QED BY <1>1, <1>4, <2>1, RunEventKeeps DEF EndRun, Protocol!Closed
  <1> QED BY <1>2, <1>3, <1>4
-----------------------------------------------------------------------------
LEMMA BlockEvents ==
  Reasoning \in Events /\ Text \in Events /\ Close \in Events
  BY EventsAreEvents DEF Reasoning, Text, Close, EventKinds, Protocol!Blocks

LEMMA TailsAreEvents ==
  AnswerTails \subseteq Seq(Events)
  BY BlockEvents DEF AnswerTails

(* Two blocks, one after the other.                                        *)
LEMMA TwoBlocks ==
  ASSUME NEW a \in Events, NEW b \in Events, NEW c \in Events, NEW d \in Events
  PROVE  <<a, b>> \o <<c, d>> = <<a, b, c, d>>
  <1>1. <<a, b>> \in Seq(Events) /\ <<c, d>> \in Seq(Events) /\ <<a, b, c, d>> \in Seq(Events)
    OBVIOUS
  <1>2. Len(<<a, b>>) = 2 /\ Len(<<c, d>>) = 2 /\ Len(<<a, b, c, d>>) = 4
    OBVIOUS
  <1>3. Len(<<a, b>> \o <<c, d>>) = 4 /\ <<a, b>> \o <<c, d>> \in Seq(Events)
    BY <1>1, <1>2, ConcatProperties
  <1>4. \A i \in 1..4 : (<<a, b>> \o <<c, d>>)[i] = <<a, b, c, d>>[i]
    BY <1>1, <1>2, ConcatProperties
  <1> QED BY <1>1, <1>2, <1>3, <1>4, SeqEqual

(* What there is to write of an answer is nothing, a block or two.         *)
LEMMA AnswerEventsAre ==
  ASSUME NEW answer
  PROVE  AnswerEvents(answer) \in
           {<<>>, <<Reasoning, Close>>, <<Text, Close>>, <<Reasoning, Close, Text, Close>>}
  <1> DEFINE R == IF answer.thinking THEN <<Reasoning, Close>> ELSE <<>>
             T == IF answer.text /\ answer.calls = 0 THEN <<Text, Close>> ELSE <<>>
  <1>1. R \in {<<>>, <<Reasoning, Close>>} /\ T \in {<<>>, <<Text, Close>>}
    OBVIOUS
  <1>2. AnswerEvents(answer) = R \o T
    BY DEF AnswerEvents, Reasoning, Text, Close
  <1> HIDE DEF R, T
  <1>3. R \in Seq(Events) /\ T \in Seq(Events)
    <2>1. <<>> \in Seq(Events) /\ <<Reasoning, Close>> \in Seq(Events) /\ <<Text, Close>> \in Seq(Events)
      BY BlockEvents
    <2> QED BY <1>1, <2>1
  <1>4. CASE R = <<>>
    BY <1>1, <1>2, <1>3, <1>4, ConcatEmptySeq
  <1>5. CASE T = <<>>
    BY <1>1, <1>2, <1>3, <1>5, ConcatEmptySeq
  <1>6. CASE R = <<Reasoning, Close>> /\ T = <<Text, Close>>
    BY <1>2, <1>6, TwoBlocks, BlockEvents
  <1> QED BY <1>1, <1>4, <1>5, <1>6

LEMMA ThreeEvents ==
  /\ Reasoning # Close /\ Text # Close /\ Reasoning # Text
  /\ Close # Event("start") /\ Close # Event("finished")
  BY EventsAreEvents DEF Reasoning, Text, Close

LEMMA ModelRepliesKeeps ==
  ASSUME IInv, NEW answer \in Answers, ModelReplies(answer)
  PROVE  IInv'
  <1> USE DEF IInv, ModelReplies
  <1> DEFINE Written == AnswerEvents(answer)
  <1>1. /\ due'[Main] = Written
        /\ \A p \in Places : due'[p] = due[p] /\ due[p] = <<>> /\ job[p] = "off"
    BY PlacesCount DEF StateOK, BatchShape, ToolsWrite, ToolWrites
  <1>2. Written \in AnswerTails /\ (Written # <<>> => Head(Written) # Close)
    BY AnswerEventsAre, OneWritten, ThreeEvents DEF AnswerTails
  <1>3. StateOK'
    <2>1. due' \in [Writers -> Seq(Events)]
      BY <1>2, TailsAreEvents DEF StateOK
    <2>2. calls' \in Batches \cup {0}
      <3>1. answer.calls \in Batches \cup {0}
        <4>1. answer \in AnthropicAnswers \/ answer = NoMessage
          BY DEF Answers, OpenAIAnswers, OpenRouterAnswers
        <4>2. CASE answer \in AnthropicAnswers
          BY <4>2 DEF AnthropicAnswers
        <4>3. CASE answer = NoMessage
          BY <4>3 DEF NoMessage
        <4> QED BY <4>1, <4>2, <4>3
      <3> QED BY <3>1
    <2>3. round' \in 0..MaxToolCalls
      BY RunAssumption DEF StateOK, RoundsFit
    <2> QED BY <2>1, <2>2, <2>3 DEF StateOK, Control
  <1> HIDE DEF Written
  <1>4. MainWrites' /\ ToolsWrite' /\ BatchShape'
    BY <1>1, <1>2 DEF MainWrites, ToolsWrite, ToolWrites, BatchShape
  <1>5. RoundsFit'
    BY DEF StateOK, RoundsFit, BeforeTurn, WithBatch, LastRound
  <1>6. ASSUME ~gone PROVE SeenPhase' /\ SeenBlock' /\ SeenCalls'
    <2>1. SeenPhase /\ SeenBlock /\ SeenCalls
      BY <1>6 DEF ClientHasSeen
    <2>2. SeenPhase'
      BY <2>1 DEF SeenPhase
    <2>3. SeenBlock'
      BY <1>1, <1>2, <2>1 DEF SeenBlock, MainWrites
    <2>4. SeenCalls'
      BY <2>1, PlacesCount DEF SeenCalls, LastRound, StateOK, Rounds
    <2> QED BY <2>2, <2>3, <2>4
  <1>7. Offered'
    BY DEF Offered
  <1> QED BY <1>3, <1>4, <1>5, <1>6, <1>7 DEF ClientHasSeen

(* The answer is stored and written: without tools the turn ends, with     *)
(* tools their goroutines start.                                           *)
LEMMA AnswerStoredKeeps ==
  ASSUME IInv, AnswerStored
  PROVE  IInv'
  <1> USE DEF AnswerStored, EventHandled
  <1>1. CASE pc' # "tools"
    <2>1. /\ pc' \in {"turnEnd", "failed"} /\ pc = "answer" /\ due[Main] = <<>>
          /\ others' = "idle"
          /\ UNCHANGED <<input, limit, turn, due, job, gone, client>>
      BY <1>1
    <2>2. RoundsFit'
      BY <2>1 DEF IInv, RoundsFit, BeforeTurn, WithBatch, LastRound, turn
    <2>3. ~gone => SeenPhase'
      BY <2>1 DEF IInv, ClientHasSeen, SeenPhase
    <2> QED BY <2>1, <2>2, <2>3, MoveKeeps DEF IInv, StateOK, Control, LastRound, tools
  <1>2. CASE pc' = "tools"
    <2>1. /\ pc = "answer" /\ due[Main] = <<>> /\ calls > 0 /\ others' = "idle"
          /\ job' = [p \in Places |-> IF p <= calls THEN "queued" ELSE "off"]
          /\ UNCHANGED <<input, limit, round, calls, due, gone, client>>
      BY <1>2 DEF turn
    <2>2. StateOK'
      BY <1>2, <2>1 DEF IInv, StateOK, Control, Jobs
    <2>3. \A p \in Places : due[p] = <<>>
      BY <2>1 DEF IInv, BatchShape, ToolsWrite, ToolWrites
    <2>4. MainWrites' /\ ToolsWrite' /\ RoundsFit' /\ BatchShape'
      <3>1. calls \in Nat
        BY PlacesCount DEF IInv, StateOK
      <3>2. \A p \in Places : (p <= calls <=> ~(p > calls))
        BY <3>1, PlacesCount
      <3>3. BatchShape'
        BY <1>2, <2>1, <3>2 DEF BatchShape
      <3> QED BY <1>2, <2>1, <2>3, <3>3 DEF IInv, MainWrites, ToolsWrite, ToolWrites, RoundsFit,
            BeforeTurn, WithBatch, LastRound
    <2>5. ASSUME ~gone PROVE SeenPhase' /\ SeenBlock' /\ SeenCalls'
      <3>1. SeenPhase /\ SeenBlock /\ SeenCalls
        BY <2>5 DEF IInv, ClientHasSeen
      <3>2. SeenPhase' /\ SeenBlock'
        BY <1>2, <2>1, <3>1 DEF SeenPhase, SeenBlock
      <3>3. SeenCalls'
        BY <1>2, <2>1, <3>1, PlacesCount DEF SeenCalls, StageOf, LastRound
      <3> QED BY <3>2, <3>3
    <2>6. Offered'
      BY <2>1 DEF IInv, Offered
    <2> QED BY <2>1, <2>2, <2>4, <2>5, <2>6 DEF IInv, ClientHasSeen
  <1> QED BY <1>1, <1>2
-----------------------------------------------------------------------------
(* A goroutine moves on when its events are written, or has new ones to    *)
(* write; the client has seen nothing new.                                 *)
LEMMA ToolMoves ==
  ASSUME IInv, NEW p \in Places, NEW place \in Jobs \ {"off", "queued"}, NEW d \in Seq(Events),
         job' = [job EXCEPT ![p] = place], due' = [due EXCEPT ![p] = d],
         UNCHANGED <<input, limit, pc, turn, others, gone, client>>,
         pc = "tools", job[p] \notin {"off", "done"}, ToolWrites(p)',
         StageOf(p) \subseteq StageOf(p)',
         Sequential => \A q \in 1..(p - 1) : job[q] = "done"
  PROVE  IInv'
  <1> USE DEF IInv, turn
  <1>1. StateOK'
    BY PlacesCount DEF StateOK
  <1>2. /\ job'[p] = place /\ due'[p] = d /\ due'[Main] = due[Main]
        /\ \A q \in Places \ {p} : job'[q] = job[q] /\ due'[q] = due[q]
    BY PlacesCount DEF StateOK
  <1>3. MainWrites' /\ RoundsFit' /\ Offered'
    BY <1>2 DEF MainWrites, RoundsFit, Offered
  <1>4. ToolsWrite'
    BY <1>2 DEF ToolsWrite, ToolWrites, ToolEvent
  <1>5. BatchShape'
    <2>1. \A q \in Places : job'[q] = "off" <=> q > calls
      BY <1>2 DEF BatchShape
    <2>2. ASSUME Sequential, NEW q \in Places, job'[q] \notin {"off", "queued"},
                 NEW r \in 1..(q - 1)
          PROVE  job'[r] = "done"
      <3>1. r \in Places
        <4>1. PICK b \in Batches : q \in 1..b
          BY DEF Places
        <4> QED BY <4>1, PlacesCount
      <3>2. CASE q = p
        <4>1. r # p
          BY <3>2, PlacesCount
        <4> QED BY <1>2, <2>2, <3>1, <3>2, <4>1
      <3>3. CASE q # p
        <4>1. job[r] = "done"
          BY <1>2, <2>2, <3>3 DEF BatchShape
        <4> QED BY <1>2, <3>1, <4>1
      <3> QED BY <3>2, <3>3
    <2> QED BY <2>1, <2>2 DEF BatchShape, Sequential
  <1>6. ASSUME ~gone PROVE SeenPhase' /\ SeenBlock' /\ SeenCalls'
    <2>1. SeenPhase /\ SeenBlock /\ SeenCalls
      BY <1>6 DEF ClientHasSeen
    <2>2. SeenPhase' /\ SeenBlock'
      BY <1>2, <2>1 DEF SeenPhase, SeenBlock
    <2>3. ASSUME NEW q \in Places PROVE StageOf(q) \subseteq StageOf(q)'
      <3>1. CASE q = p
        BY <3>1
      <3>2. CASE q # p
        BY <1>2, <3>2 DEF StageOf
      <3> QED BY <3>1, <3>2
    <2>4. SeenCalls'
      <3>1. ASSUME NEW c \in CallIds
            PROVE  client.stage[c] \in (IF c[1] = round THEN StageOf(c[2])' ELSE {0, 4})
        <4>1. c[2] \in Places
          BY PlacesCount
        <4>2. client.stage[c] \in (IF c[1] = round THEN StageOf(c[2]) ELSE {0, 4})
          BY <2>1 DEF SeenCalls
        <4>3. StageOf(c[2]) \subseteq StageOf(c[2])'
          BY <2>3, <4>1
        <4> QED BY <4>2, <4>3
      <3>2. \A c \in CallIds : c[1] > round => client.stage[c] = 0
        BY <2>1 DEF SeenCalls
      <3>3. \A c \in CallIds :
              (client.stage[c] \in (IF c[1] = round THEN StageOf(c[2]) ELSE {0, 4}))'
        BY <3>1
      <3> QED BY <3>2, <3>3 DEF SeenCalls, LastRound
    <2> QED BY <2>2, <2>4
  <1> QED BY <1>1, <1>3, <1>4, <1>5, <1>6 DEF ClientHasSeen

LEMMA PairOfEvents ==
  ASSUME IInv, pc = "tools", NEW p \in Places
  PROVE  /\ <<ToolEvent(p), ToolEvent(p)>> \in Seq(Events) /\ <<>> \in Seq(Events)
         /\ Len(<<ToolEvent(p), ToolEvent(p)>>) = 2 /\ Len(<<>>) = 0
  <1>1. round \in Rounds
    BY RunAssumption DEF IInv, StateOK, RoundsFit, WithBatch, Rounds
  <1>2. ToolEvent(p) \in Events
    BY <1>1, EventsAreEvents
  <1> QED BY <1>2

LEMMA ToolKeeps ==
  ASSUME IInv, NEW p \in Places, Tool(p)
  PROVE  IInv'
  <1>0. /\ pc = "tools" /\ job \in [Places -> Jobs] /\ due \in [Writers -> Seq(Events)] /\ p \in Writers
        /\ job[p] \in {"starting", "running", "ending"} =>
             (Sequential => \A q \in 1..(p - 1) : job[q] = "done")
    <2>1. pc = "tools"
      BY DEF Tool, StartTool, ToolStarted, ToolReturns, ToolEnded, IInv, BatchShape
    <2> QED BY <2>1, PlacesCount DEF IInv, StateOK, BatchShape
  <1>1. CASE StartTool(p) \/ ToolReturns(p)
    <2> DEFINE place == IF job[p] = "queued" THEN "starting" ELSE "ending"
               d == <<ToolEvent(p), ToolEvent(p)>>
    <2>1. /\ job[p] \in {"queued", "running"}
          /\ job' = [job EXCEPT ![p] = place] /\ due' = [due EXCEPT ![p] = d]
          /\ UNCHANGED <<input, limit, pc, turn, others, gone, client>>
      BY <1>1 DEF StartTool, ToolReturns
    <2>2. d \in Seq(Events) /\ Len(d) = 2
      BY <1>0, PairOfEvents
    <2>3. job'[p] = place /\ due'[p] = d
      BY <1>0, <2>1
    <2>4. place \in Jobs \ {"off", "queued"} /\ place \in {"starting", "ending"}
          /\ (place = "ending" <=> job[p] # "queued")
      BY DEF Jobs, Working
    <2>5. ToolWrites(p)'
      BY <2>1, <2>3, <2>4 DEF ToolWrites, ToolEvent, turn
    <2>6. StageOf(p) \subseteq StageOf(p)'
      <3>1. CASE job[p] = "queued"
        <4>1. StageOf(p) = {0}
          BY <3>1 DEF StageOf
        <4>2. StageOf(p)' = {0}
          BY <2>2, <2>3, <2>4, <3>1 DEF StageOf
        <4> QED BY <4>1, <4>2
      <3>2. CASE job[p] = "running"
        <4>1. StageOf(p) = {2}
          BY <3>2 DEF StageOf
        <4>2. StageOf(p)' = {2}
          BY <2>2, <2>3, <2>4, <3>2 DEF StageOf
        <4> QED BY <4>1, <4>2
      <3> QED BY <2>1, <3>1, <3>2
    <2>7. Sequential => \A q \in 1..(p - 1) : job[q] = "done"
      BY <1>0, <1>1 DEF StartTool, ToolReturns, MayEnter
    <2> HIDE DEF place, d
    <2> QED BY <1>0, <2>1, <2>2, <2>4, <2>5, <2>6, <2>7, ToolMoves
  <1>2. CASE ToolStarted(p) \/ ToolEnded(p)
    <2>1. PICK place \in {"running", "done", "failed"} :
            /\ job' = [job EXCEPT ![p] = place]
            /\ \/ job[p] = "starting" /\ place # "done"
               \/ job[p] = "ending" /\ place # "running"
      BY <1>2 DEF ToolStarted, ToolEnded
    <2>2. /\ due[p] = <<>> /\ due' = due
          /\ UNCHANGED <<input, limit, pc, turn, others, gone, client>>
      BY <1>2 DEF ToolStarted, ToolEnded
    <2>3. due' = [due EXCEPT ![p] = <<>>]
      BY <1>0, <2>2
    <2>4. job'[p] = place /\ due'[p] = <<>> /\ <<>> \in Seq(Events) /\ Len(<<>>) = 0
      BY <1>0, <2>1, <2>2
    <2>5. place \in Jobs \ {"off", "queued"}
      BY DEF Jobs, Working
    <2>6. ToolWrites(p)'
      BY <2>4 DEF ToolWrites
    <2>7. StageOf(p) \subseteq StageOf(p)'
      <3>1. CASE job[p] = "starting"
        <4>1. StageOf(p) = {2}
          BY <2>2, <2>4, <3>1 DEF StageOf
        <4>2. StageOf(p)' \in {{2}, {2, 4}}
          BY <2>1, <2>4, <3>1 DEF StageOf
        <4> QED BY <4>1, <4>2
      <3>2. CASE job[p] = "ending"
        <4>1. StageOf(p) = {4}
          BY <2>2, <2>4, <3>2 DEF StageOf
        <4>2. StageOf(p)' \in {{4}, {2, 4}}
          BY <2>1, <2>4, <3>2 DEF StageOf
        <4> QED BY <4>1, <4>2
      <3> QED BY <2>1, <3>1, <3>2
    <2> QED BY <1>0, <2>1, <2>2, <2>3, <2>4, <2>5, <2>6, <2>7, ToolMoves
  <1> QED BY <1>1, <1>2 DEF Tool

(* Nobody is left behind: a failed call of a sequential batch is the last  *)
(* that was started, and a concurrent batch waits for all.                 *)
LEMMA NobodyWorks ==
  ASSUME IInv, ExecuteReturns
  PROVE  /\ \A p \in Places : job[p] \notin Working
         /\ ~SomeFailed /\ pc' = "results" => \A p \in 1..calls : p \in Places /\ job[p] = "done"
  <1> USE DEF ExecuteReturns
  <1>0. /\ pc = "tools" /\ job \in [Places -> Jobs] /\ calls \in Nat /\ 1..calls \subseteq Places
        /\ \A p \in Places : job[p] = "off" <=> p > calls
    BY PlacesCount DEF IInv, StateOK, BatchShape
  <1>1. CASE NoToolRegistered /\ ~BatchOver
    BY <1>1 DEF NoToolRegistered, Working
  <1>2. CASE \A p \in 1..calls : job[p] \in {"done", "failed"}
    <2>1. ASSUME NEW p \in Places PROVE job[p] \notin Working
      <3>1. CASE p > calls
        BY <1>0, <3>1 DEF Working
      <3>2. CASE p \in 1..calls
        BY <1>2, <3>2 DEF Working
      <3> QED BY <1>0, <3>1, <3>2, PlacesCount
    <2>2. ~SomeFailed => \A p \in 1..calls : p \in Places /\ job[p] = "done"
      BY <1>0, <1>2 DEF SomeFailed
    <2> QED BY <2>1, <2>2
  <1>3. CASE Sequential /\ SomeFailed
    <2>1. PICK f \in Places : job[f] = "failed"
      BY <1>3 DEF SomeFailed
    <2>2. ASSUME NEW p \in Places, job[p] \in Working PROVE FALSE
      <3>1. /\ \A q \in 1..(p - 1) : job[q] = "done"
            /\ \A q \in 1..(f - 1) : job[q] = "done"
        BY <1>3, <2>1, <2>2 DEF IInv, BatchShape, Working
      <3>2. p \in Nat \ {0} /\ f \in Nat \ {0} /\ p # f
        BY <2>1, <2>2, PlacesCount DEF Working
      <3>3. CASE p < f
        <4>1. p \in 1..(f - 1)
          BY <3>2, <3>3
        <4> QED BY <2>2, <3>1, <4>1 DEF Working
      <3>4. CASE f < p
        <4>1. f \in 1..(p - 1)
          BY <3>2, <3>4
        <4> QED BY <2>1, <3>1, <4>1
      <3> QED BY <3>2, <3>3, <3>4
    <2> QED BY <1>3, <2>2
  <1> QED BY <1>1, <1>2, <1>3 DEF BatchOver

LEMMA ExecuteReturnsKeeps ==
  ASSUME IInv, ExecuteReturns
  PROVE  IInv'
  <1>1. /\ pc = "tools" /\ pc' \in {"results", "failed"}
        /\ \A p \in Places : job'[p] = "off"
        /\ job' = [p \in Places |-> "off"]
        /\ UNCHANGED <<input, limit, turn, due, others, gone, client>>
    BY NobodyWorks DEF ExecuteReturns
  <1>2. \A p \in Places : due[p] = <<>>
    BY NobodyWorks DEF IInv, ToolsWrite, ToolWrites, Working
  <1>3. StateOK'
    BY <1>1 DEF IInv, StateOK, Control, Jobs, turn
  <1>4. MainWrites' /\ ToolsWrite' /\ BatchShape'
    BY <1>1, <1>2 DEF IInv, MainWrites, ToolsWrite, ToolWrites, BatchShape
  <1>5. RoundsFit' /\ Offered'
    BY <1>1 DEF IInv, RoundsFit, Offered, BeforeTurn, WithBatch, LastRound, turn
  <1>6. ASSUME ~gone PROVE SeenPhase' /\ SeenBlock' /\ SeenCalls'
    <2>1. SeenPhase /\ SeenBlock /\ SeenCalls
      BY <1>6 DEF IInv, ClientHasSeen
    <2>2. SeenPhase' /\ SeenBlock'
      BY <1>1, <2>1 DEF SeenPhase, SeenBlock
    <2>3. CASE pc' = "failed"
      BY <1>1, <2>1, <2>2, <2>3 DEF SeenCalls, LastRound, turn
    <2>4. CASE pc' = "results"
      <3>1. \A p \in 1..calls : p \in Places /\ job[p] = "done"
        BY <2>4, NobodyWorks DEF ExecuteReturns, BatchOver, NoToolRegistered
      <3>2. ASSUME NEW p \in 1..calls PROVE client.stage[<<round, p>>] = 4
        <4>1. <<round, p>> \in CallIds
          BY <1>1, <3>1, PlacesCount, RunAssumption DEF IInv, StateOK, RoundsFit, WithBatch, Rounds
        <4>2. client.stage[<<round, p>>] \in StageOf(p)
          BY <1>1, <2>1, <4>1 DEF SeenCalls
        <4> QED BY <3>1, <4>2 DEF StageOf
      <3>3. ASSUME NEW c \in CallIds PROVE client.stage[c] \in {0, 4}
        <4>1. CASE c[1] # round
          BY <1>1, <2>1, <4>1 DEF SeenCalls
        <4>2. CASE c[1] = round /\ c[2] \in 1..calls
          <5>1. c = <<round, c[2]>>
            BY <4>2, PlacesCount
          <5> QED BY <3>2, <4>2, <5>1
        <4>3. CASE c[1] = round /\ c[2] \notin 1..calls
          <5>1. c[2] \in Places /\ c[2] > calls
            BY <4>3, PlacesCount DEF IInv, StateOK
          <5>2. job[c[2]] = "off"
            BY <1>1, <5>1 DEF IInv, BatchShape
          <5>3. client.stage[c] \in StageOf(c[2])
            BY <1>1, <2>1, <4>3 DEF SeenCalls
          <5> QED BY <5>2, <5>3 DEF StageOf
        <4> QED BY <4>1, <4>2, <4>3
      <3> QED BY <1>1, <2>1, <2>2, <2>4, <3>2, <3>3 DEF SeenCalls, turn
    <2> QED BY <1>1, <2>2, <2>3, <2>4
  <1> QED BY <1>1, <1>3, <1>4, <1>5, <1>6 DEF IInv, ClientHasSeen
-----------------------------------------------------------------------------
(* One event is written. The blocks of an answer open and close in turn.   *)
LEMMA BlocksInTurn ==
  ASSUME NEW t \in AnswerTails, t # <<>>
  PROVE  /\ Tail(t) \in AnswerTails
         /\ Head(t) \in {Reasoning, Text, Close}
         /\ Head(t) = Close => ~(Tail(t) # <<>> /\ Head(Tail(t)) = Close)
         /\ Head(t) # Close => Tail(t) # <<>> /\ Head(Tail(t)) = Close
  <1>1. <<Close>> \in AnswerTails /\ <<Text, Close>> \in AnswerTails
        /\ <<Close, Text, Close>> \in AnswerTails /\ <<>> \in AnswerTails
    BY DEF AnswerTails
  <1>2. /\ Head(<<Close>>) = Close /\ Tail(<<Close>>) = <<>> /\ <<Close>> # <<>>
        /\ Head(<<Reasoning, Close>>) = Reasoning /\ Tail(<<Reasoning, Close>>) = <<Close>>
        /\ Head(<<Text, Close>>) = Text /\ Tail(<<Text, Close>>) = <<Close>>
    OBVIOUS
  <1>3. /\ Head(<<Close, Text, Close>>) = Close /\ <<Close, Text, Close>> # <<>>
        /\ Tail(<<Close, Text, Close>>) = <<Text, Close>>
        /\ Head(<<Reasoning, Close, Text, Close>>) = Reasoning
        /\ Tail(<<Reasoning, Close, Text, Close>>) = <<Close, Text, Close>>
    OBVIOUS
  <1>4. CASE t \in {<<Reasoning, Close>>, <<Text, Close>>}
    <2>1. Tail(t) = <<Close>> /\ Head(t) \in {Reasoning, Text}
      BY <1>2, <1>4
    <2>2. Tail(t) # <<>> /\ Head(Tail(t)) = Close
      BY <1>2, <2>1
    <2> QED BY <1>1, <2>1, <2>2, ThreeEvents
  <1>5. CASE t = <<Reasoning, Close, Text, Close>>
    <2>1. Tail(t) = <<Close, Text, Close>> /\ Head(t) = Reasoning
      BY <1>3, <1>5
    <2>2. Tail(t) # <<>> /\ Head(Tail(t)) = Close
      BY <1>3, <2>1
    <2> QED BY <1>1, <2>1, <2>2, ThreeEvents
  <1>6. CASE t = <<Close, Text, Close>>
    <2>1. Tail(t) = <<Text, Close>> /\ Head(t) = Close
      BY <1>3, <1>6
    <2>2. Head(Tail(t)) = Text
      BY <1>2, <2>1
    <2> QED BY <1>1, <2>1, <2>2, ThreeEvents
  <1>7. CASE t = <<Close>>
    <2>1. Tail(t) = <<>> /\ Head(t) = Close
      BY <1>2, <1>7
    <2> QED BY <1>1, <2>1
  <1> QED BY <1>4, <1>5, <1>6, <1>7 DEF AnswerTails

LEMMA SeenBlockEvent ==
  /\ Seen(Close) = [client EXCEPT !.open = "none"]
  /\ Seen(Reasoning) = [client EXCEPT !.open = "reasoning"]
  /\ Seen(Text) = [client EXCEPT !.open = "text"]
  <1> USE EventsAreEvents DEF Seen, Protocol!Closed, Protocol!Blocks, Close, Reasoning, Text
  <1>1. Close.kind = "close" /\ Reasoning.kind = "reasoning" /\ Text.kind = "text"
    OBVIOUS
  <1>2. Seen(Close) = [client EXCEPT !.open = "none"]
    BY <1>1
  <1>3. Seen(Reasoning) = [client EXCEPT !.open = "reasoning"]
    BY <1>1
  <1>4. Seen(Text) = [client EXCEPT !.open = "text"]
    BY <1>1
  <1> QED BY <1>2, <1>3, <1>4

LEMMA SeenToolEvent ==
  ASSUME NEW p
  PROVE  Seen(ToolEvent(p)) = [client EXCEPT !.stage[<<round, p>>] = @ + 1]
  <1>1. ToolEvent(p).kind = "call" /\ ToolEvent(p).call = <<round, p>>
    BY EventsAreEvents
  <1> QED BY <1>1 DEF Seen, Protocol!Closed, Protocol!Blocks

LEMMA WritersStep ==
  ASSUME IInv, NEW w \in Writers, Write(w)
  PROVE  /\ due \in [Writers -> Seq(Events)]
         /\ due' \in [Writers -> Seq(Events)]
         /\ due'[w] = Tail(due[w])
         /\ \A v \in Writers \ {w} : due'[v] = due[v]
  <1>1. due \in [Writers -> Seq(Events)] /\ due[w] # <<>>
    BY DEF IInv, StateOK, Write
  <1>2. Tail(due[w]) \in Seq(Events)
    BY <1>1, HeadTailProperties
  <1> QED BY <1>1, <1>2 DEF Write

(* The handler's own events: of an empty run, or of an answer.             *)
LEMMA EmptyRunWrites ==
  ASSUME IInv, Write(Main), pc = "empty"
  PROVE  \/ /\ due[Main] = <<Event("start"), Event("finished")>>
            /\ due'[Main] = <<Event("finished")>>
            /\ ~gone => client.phase = "waiting" /\ client' = [client EXCEPT !.phase = "running"]
         \/ /\ due[Main] = <<Event("finished")>>
            /\ due'[Main] = <<>>
            /\ ~gone => client.phase = "running" /\ client' = [client EXCEPT !.phase = "finished"]
  <1>1. due'[Main] = Tail(due[Main]) /\ due[Main] # <<>>
    BY WritersStep, PlacesCount DEF Write
  <1>2. <<Event("start"), Event("finished")>> # <<Event("finished")>>
    BY OneWritten
  <1>3. CASE due[Main] = <<Event("start"), Event("finished")>>
    <2>1. due'[Main] = <<Event("finished")>> /\ Head(due[Main]) = Event("start")
      BY <1>1, <1>3, OneWritten
    <2>2. ~gone => client.phase = "waiting"
      BY <1>2, <1>3, OneWritten DEF IInv, ClientHasSeen, SeenPhase
    <2>3. ~gone => client' = [client EXCEPT !.phase = "running"]
      BY <2>1, SeenRunEvent DEF Write, Show
    <2> QED BY <1>3, <2>1, <2>2, <2>3
  <1>4. CASE due[Main] = <<Event("finished")>>
    <2>1. due'[Main] = <<>> /\ Head(due[Main]) = Event("finished")
      BY <1>1, <1>4, OneWritten
    <2>2. ~gone => client.phase = "running"
      BY <1>4, OneWritten DEF IInv, ClientHasSeen, SeenPhase
    <2>3. ~gone => client' = [client EXCEPT !.phase = "finished"]
      BY <2>1, SeenRunEvent DEF Write, Show, Protocol!Closed
    <2> QED BY <1>4, <2>1, <2>2, <2>3
  <1> QED BY <1>1, <1>3, <1>4 DEF IInv, MainWrites

LEMMA AnswerWrites ==
  ASSUME IInv, Write(Main), pc = "answer"
  PROVE  /\ due'[Main] \in AnswerTails
         /\ \/ /\ Head(due[Main]) = Close
               /\ ~(due'[Main] # <<>> /\ Head(due'[Main]) = Close)
               /\ ~gone => client.open # "none" /\ client' = [client EXCEPT !.open = "none"]
            \/ \E block \in Protocol!Blocks :
                 /\ Head(due[Main]) # Close
                 /\ due'[Main] # <<>> /\ Head(due'[Main]) = Close
                 /\ ~gone => client.open = "none" /\ client' = [client EXCEPT !.open = block]
  <1> DEFINE t == due[Main]
  <1>1. due'[Main] = Tail(t) /\ t # <<>> /\ t \in AnswerTails
    BY WritersStep, PlacesCount DEF Write, IInv, MainWrites
  <1>2. ~gone => (client.open # "none" <=> Head(t) = Close)
    BY <1>1 DEF IInv, ClientHasSeen, SeenBlock
  <1>3. ~gone => client' = Seen(Head(t))
    BY DEF Write, Show
  <1> HIDE DEF t
  <1>4. CASE Head(t) = Close
    BY <1>1, <1>2, <1>3, <1>4, BlocksInTurn, SeenBlockEvent DEF t
  <1>5. CASE Head(t) # Close
    <2>1. /\ Tail(t) \in AnswerTails /\ Tail(t) # <<>> /\ Head(Tail(t)) = Close
          /\ Head(t) \in {Reasoning, Text}
      BY <1>1, <1>5, BlocksInTurn
    <2>2. \E block \in Protocol!Blocks : Seen(Head(t)) = [client EXCEPT !.open = block]
      BY <2>1, SeenBlockEvent DEF Protocol!Blocks
    <2> QED BY <1>1, <1>2, <1>3, <1>5, <2>1, <2>2 DEF t
  <1> QED BY <1>4, <1>5

(* What a writer of the handler leaves alone.                              *)
LEMMA MainWriteFrame ==
  ASSUME IInv, Write(Main), client' \in Protocol!View, client'.stage = client.stage,
         client'.phase = "interrupted" => client.phase = "interrupted"
  PROVE  /\ StateOK' /\ ToolsWrite' /\ RoundsFit' /\ BatchShape' /\ Offered'
         /\ ~gone => SeenCalls'
  <1>1. /\ due' \in [Writers -> Seq(Events)]
        /\ \A p \in Places : due'[p] = due[p]
        /\ UNCHANGED <<input, limit, pc, round, calls, job, others, gone>>
    BY WritersStep, PlacesCount DEF Write, turn
  <1>2. StateOK'
    BY <1>1 DEF IInv, StateOK
  <1>3. ToolsWrite' /\ RoundsFit' /\ BatchShape' /\ Offered'
    BY <1>1 DEF IInv, ToolsWrite, ToolWrites, ToolEvent, RoundsFit, BatchShape, Sequential, Offered
  <1>4. pc \in {"empty", "answer"}
    BY DEF IInv, MainWrites, Write
  <1>5. ~gone => SeenCalls'
    BY <1>1, <1>4 DEF IInv, ClientHasSeen, SeenCalls, LastRound
  <1> QED BY <1>2, <1>3, <1>5

LEMMA MainWriteKeeps ==
  ASSUME IInv, Write(Main)
  PROVE  IInv'
  <1>1. client \in Protocol!View /\ (gone => client' = client) /\ UNCHANGED <<pc, gone>>
    BY DEF IInv, StateOK, Write, Show
  <1>2. CASE pc = "empty"
    <2>1. client' \in Protocol!View /\ client'.stage = client.stage /\ client'.open = client.open
          /\ (client'.phase = "interrupted" => client.phase = "interrupted")
      <3>1. CASE gone
        BY <1>1, <3>1
      <3>2. CASE ~gone
        <4>1. PICK phase \in {"running", "finished"} : client' = [client EXCEPT !.phase = phase]
          BY <1>2, <3>2, EmptyRunWrites
        <4> QED BY <1>1, <4>1 DEF Protocol!View, Protocol!Phases
      <3> QED BY <3>1, <3>2
    <2>2. MainWrites'
      BY <1>1, <1>2, EmptyRunWrites DEF MainWrites
    <2>3. ASSUME ~gone PROVE SeenPhase' /\ SeenBlock'
      <3>1. Close # Event("start") /\ Close # Event("finished") /\ client.open = "none"
            /\ Head(<<Event("finished")>>) = Event("finished") /\ <<Event("finished")>> # <<>>
            /\ Head(<<Event("start"), Event("finished")>>) = Event("start")
        <4>1. /\ Head(<<Event("finished")>>) = Event("finished") /\ <<Event("finished")>> # <<>>
              /\ Head(<<Event("start"), Event("finished")>>) = Event("start")
          OBVIOUS
        <4>2. Head(due[Main]) # Close
          BY <1>2, <4>1, ThreeEvents, EmptyRunWrites
        <4> QED BY <2>3, <4>1, <4>2, ThreeEvents DEF IInv, ClientHasSeen, SeenBlock
      <3>2. SeenBlock'
        BY <1>2, <2>1, <3>1, EmptyRunWrites DEF SeenBlock
      <3>3. CASE due'[Main] = <<Event("finished")>>
        <4>1. client' = [client EXCEPT !.phase = "running"]
          BY <1>2, <2>3, <3>1, <3>3, EmptyRunWrites
        <4>2. client'.phase = "running"
          BY <1>1, <4>1 DEF Protocol!View
        <4> QED BY <1>1, <1>2, <3>1, <3>2, <3>3, <4>2 DEF SeenPhase
      <3>4. CASE due'[Main] = <<>>
        <4>1. client' = [client EXCEPT !.phase = "finished"]
          BY <1>2, <2>3, <3>1, <3>4, EmptyRunWrites
        <4>2. client'.phase = "finished"
          BY <1>1, <4>1 DEF Protocol!View
        <4> QED BY <1>1, <1>2, <3>2, <3>4, <4>2 DEF SeenPhase
      <3> QED BY <1>2, <3>3, <3>4, EmptyRunWrites
    <2> QED BY <1>1, <2>1, <2>2, <2>3, MainWriteFrame DEF IInv, ClientHasSeen
  <1>3. CASE pc = "answer"
    <2>1. client' \in Protocol!View /\ client'.stage = client.stage /\ client'.phase = client.phase
      <3>1. CASE gone
        BY <1>1, <3>1
      <3>2. CASE ~gone
        <4>1. PICK block \in Protocol!Blocks \cup {"none"} : client' = [client EXCEPT !.open = block]
          BY <1>3, <3>2, AnswerWrites
        <4> QED BY <1>1, <4>1 DEF Protocol!View
      <3> QED BY <3>1, <3>2
    <2>2. MainWrites'
      BY <1>1, <1>3, AnswerWrites DEF MainWrites
    <2>3. ASSUME ~gone PROVE SeenPhase' /\ SeenBlock'
      <3>1. SeenPhase'
        BY <1>1, <1>3, <2>1, <2>3 DEF IInv, ClientHasSeen, SeenPhase
      <3>2. CASE Head(due[Main]) = Close
        <4>1. ~(due'[Main] # <<>> /\ Head(due'[Main]) = Close) /\ client' = [client EXCEPT !.open = "none"]
          BY <1>3, <2>3, <3>2, AnswerWrites
        <4>2. client'.open = "none"
          BY <1>1, <4>1 DEF Protocol!View
        <4> QED BY <3>1, <4>1, <4>2 DEF SeenBlock
      <3>3. CASE Head(due[Main]) # Close
        <4>1. PICK block \in Protocol!Blocks :
                /\ due'[Main] # <<>> /\ Head(due'[Main]) = Close
                /\ client' = [client EXCEPT !.open = block]
          BY <1>3, <2>3, <3>3, AnswerWrites
        <4>2. client'.open # "none"
          BY <1>1, <4>1 DEF Protocol!View, Protocol!Blocks
        <4> QED BY <3>1, <4>1, <4>2 DEF SeenBlock
      <3> QED BY <3>2, <3>3
    <2> QED BY <1>1, <2>1, <2>2, <2>3, MainWriteFrame DEF IInv, ClientHasSeen
  <1> QED BY <1>2, <1>3 DEF IInv, MainWrites, Write

(* An event of a call. The tool's goroutine is starting or ending, and the *)
(* client has seen what comes before.                                      *)
LEMMA ToolWrote ==
  ASSUME IInv, NEW p \in Places, Write(p)
  PROVE  /\ pc = "tools" /\ job[p] \in {"starting", "ending"} /\ <<round, p>> \in CallIds
         /\ Len(due[p]) \in {1, 2} /\ Len(due'[p]) = Len(due[p]) - 1 /\ ToolWrites(p)'
         /\ ~gone => /\ client.stage[<<round, p>>] = (IF job[p] = "starting" THEN 2 ELSE 4) - Len(due[p])
                     /\ client' = [client EXCEPT !.stage[<<round, p>>] = @ + 1]
  <1>1. /\ job[p] \in {"starting", "ending"}
        /\ due[p] \in {<<ToolEvent(p)>>, <<ToolEvent(p), ToolEvent(p)>>}
        /\ due'[p] = Tail(due[p])
    BY WritersStep, PlacesCount DEF Write, IInv, ToolsWrite, ToolWrites
  <1>2. pc = "tools"
    BY <1>1 DEF IInv, BatchShape
  <1>3. <<round, p>> \in CallIds
    BY <1>2, PlacesCount, RunAssumption DEF IInv, StateOK, RoundsFit, WithBatch, Rounds
  <1>4. /\ Head(<<ToolEvent(p)>>) = ToolEvent(p) /\ Tail(<<ToolEvent(p)>>) = <<>>
        /\ Head(<<ToolEvent(p), ToolEvent(p)>>) = ToolEvent(p)
        /\ Tail(<<ToolEvent(p), ToolEvent(p)>>) = <<ToolEvent(p)>>
        /\ Len(<<>>) = 0 /\ Len(<<ToolEvent(p)>>) = 1 /\ Len(<<ToolEvent(p), ToolEvent(p)>>) = 2
    OBVIOUS
  <1>5. Len(due[p]) \in {1, 2} /\ Len(due'[p]) = Len(due[p]) - 1 /\ Head(due[p]) = ToolEvent(p)
    BY <1>1, <1>4
  <1>6. ToolWrites(p)'
    BY <1>1, <1>4 DEF ToolWrites, ToolEvent, Write, turn
  <1>7. ASSUME ~gone
        PROVE  /\ client.stage[<<round, p>>] = (IF job[p] = "starting" THEN 2 ELSE 4) - Len(due[p])
               /\ client' = [client EXCEPT !.stage[<<round, p>>] = @ + 1]
    <2>1. client.stage[<<round, p>>] \in StageOf(p)
      BY <1>2, <1>3, <1>7 DEF IInv, ClientHasSeen, SeenCalls
    <2>2. client.stage[<<round, p>>] = (IF job[p] = "starting" THEN 2 ELSE 4) - Len(due[p])
      BY <1>1, <2>1 DEF StageOf
    <2>3. client' = Seen(ToolEvent(p))
      BY <1>5, <1>7 DEF Write, Show
    <2> QED BY <2>2, <2>3, SeenToolEvent
  <1> QED BY <1>1, <1>2, <1>3, <1>5, <1>6, <1>7

LEMMA ToolWriteKeeps ==
  ASSUME IInv, NEW p \in Places, Write(p)
  PROVE  IInv'
  <1> USE DEF IInv
  <1>1. /\ due' \in [Writers -> Seq(Events)] /\ due'[Main] = due[Main]
        /\ \A q \in Places \ {p} : due'[q] = due[q]
        /\ UNCHANGED <<input, limit, pc, round, calls, job, others, gone>>
        /\ gone => client' = client
    BY WritersStep, PlacesCount DEF Write, Show, turn
  <1>2. pc = "tools" /\ <<round, p>> \in CallIds /\ client \in Protocol!View
    BY ToolWrote DEF StateOK
  <1>3. ASSUME ~gone
        PROVE  /\ client.stage[<<round, p>>] \in 0..3
               /\ client' \in Protocol!View
               /\ client'.phase = client.phase /\ client'.open = client.open
               /\ client'.stage[<<round, p>>] = client.stage[<<round, p>>] + 1
               /\ \A c \in CallIds \ {<<round, p>>} : client'.stage[c] = client.stage[c]
    <2>1. client.stage[<<round, p>>] \in 0..3 /\ client.stage[<<round, p>>] + 1 \in 0..4
      <3>1. \A n \in {1, 2} : 2 - n \in 0..3 /\ 4 - n \in 0..3 /\ (2 - n) + 1 \in 0..4 /\ (4 - n) + 1 \in 0..4
        OBVIOUS
      <3>2. CASE job[p] = "starting"
        <4>1. client.stage[<<round, p>>] = 2 - Len(due[p])
          BY <1>3, <3>2, ToolWrote
        <4> QED BY <3>1, <4>1, ToolWrote
      <3>3. CASE job[p] # "starting"
        <4>1. client.stage[<<round, p>>] = 4 - Len(due[p])
          BY <1>3, <3>3, ToolWrote
        <4> QED BY <3>1, <4>1, ToolWrote
      <3> QED BY <3>2, <3>3
    <2>2. client' = [client EXCEPT !.stage[<<round, p>>] = @ + 1]
      BY <1>3, ToolWrote
    <2>3. client.stage \in [CallIds -> 0..4]
      BY <1>2 DEF Protocol!View, Protocol!Answered
    <2>4. client'.stage = [client.stage EXCEPT ![<<round, p>>] = @ + 1]
      BY <1>2, <2>2 DEF Protocol!View
    <2>5. client'.stage \in [CallIds -> 0..4]
      BY <2>1, <2>3, <2>4
    <2>6. client' = [client EXCEPT !.stage = client'.stage]
      BY <1>2, <2>2, <2>4 DEF Protocol!View
    <2>7. client' \in Protocol!View
      BY <1>2, <2>5, <2>6 DEF Protocol!View, Protocol!Answered
    <2>8. client'.phase = client.phase /\ client'.open = client.open
      BY <1>2, <2>2 DEF Protocol!View
    <2> QED BY <1>2, <2>1, <2>3, <2>4, <2>7, <2>8
  <1>4. StateOK'
    <2>1. client' \in Protocol!View
      BY <1>1, <1>2, <1>3
    <2> QED BY <1>1, <2>1 DEF StateOK
  <1>5. MainWrites' /\ RoundsFit' /\ BatchShape'
    BY <1>1 DEF MainWrites, RoundsFit, BatchShape, Sequential
  <1>6. ToolsWrite'
    <2>1. ASSUME NEW q \in Places \ {p} PROVE ToolWrites(q)'
      BY <1>1 DEF ToolsWrite, ToolWrites, ToolEvent
    <2>2. ToolWrites(p)'
      BY ToolWrote
    <2> QED BY <2>1, <2>2 DEF ToolsWrite
  <1>7. Offered'
    <2>1. client'.phase = client.phase /\ client.phase # "interrupted"
      BY <1>1, <1>2, <1>3 DEF Offered
    <2> QED BY <2>1 DEF Offered
  <1>8. ASSUME ~gone PROVE SeenPhase' /\ SeenBlock' /\ SeenCalls'
    <2>1. SeenPhase /\ SeenBlock /\ SeenCalls
      BY <1>8 DEF ClientHasSeen
    <2>2. SeenPhase' /\ SeenBlock'
      BY <1>1, <1>2, <1>3, <1>8, <2>1 DEF SeenPhase, SeenBlock
    <2>3. ASSUME NEW c \in CallIds
          PROVE  /\ c[1] > round => client'.stage[c] = 0
                 /\ client'.stage[c] \in (IF c[1] = round THEN StageOf(c[2])' ELSE {0, 4})
      <3>1. CASE c = <<round, p>>
        <4>1. c[1] = round /\ c[2] = p /\ round \in Int
          BY <3>1 DEF StateOK
        <4>2. client'.stage[c] = (IF job[p] = "starting" THEN 2 ELSE 4) - Len(due'[p])
          <5>1. \A k \in {2, 4}, n \in {1, 2} : (k - n) + 1 = k - (n - 1)
            OBVIOUS
          <5> DEFINE k == IF job[p] = "starting" THEN 2 ELSE 4
          <5>2. k \in {2, 4} /\ Len(due[p]) \in {1, 2} /\ Len(due'[p]) = Len(due[p]) - 1
            BY ToolWrote
          <5>3. client'.stage[c] = (k - Len(due[p])) + 1
            BY <1>3, <1>8, <3>1, ToolWrote
          <5> HIDE DEF k
          <5>4. client'.stage[c] = k - Len(due'[p])
            BY <5>1, <5>2, <5>3
          <5> QED BY <5>4 DEF k
        <4>3. StageOf(p)' = {(IF job[p] = "starting" THEN 2 ELSE 4) - Len(due'[p])}
          BY <1>1, ToolWrote DEF StageOf
        <4> QED BY <4>1, <4>2, <4>3
      <3>2. CASE c # <<round, p>>
        <4>1. client'.stage[c] = client.stage[c]
          BY <1>3, <1>8, <3>2
        <4>2. client.stage[c] \in (IF c[1] = round THEN StageOf(c[2]) ELSE {0, 4})
          BY <1>2, <2>1 DEF SeenCalls
        <4>3. c[1] = round => StageOf(c[2])' = StageOf(c[2])
          <5>1. c[1] = round => c[2] \in Places \ {p}
            BY <3>2, PlacesCount
          <5> QED BY <1>1, <5>1 DEF StageOf
        <4> QED BY <2>1, <4>1, <4>2, <4>3 DEF SeenCalls
      <3> QED BY <3>1, <3>2
    <2>4. \A c \in CallIds :
            (client.stage[c] \in (IF c[1] = round THEN StageOf(c[2]) ELSE {0, 4}))'
      BY <1>1, <2>3
    <2>5. SeenCalls'
      BY <1>1, <1>2, <2>3, <2>4 DEF SeenCalls, LastRound
    <2> QED BY <2>2, <2>5
  <1> QED BY <1>1, <1>4, <1>5, <1>6, <1>7, <1>8 DEF ClientHasSeen
-----------------------------------------------------------------------------
LEMMA NextKeeps ==
  IInv /\ [Next]_vars => IInv'
  <1> SUFFICES ASSUME IInv, [Next]_vars PROVE IInv'
    OBVIOUS
  <1>1. CASE Handler
    <2>1. CASE \E request \in Requests : ServeHTTP(request)
      BY <2>1, ServeHTTPKeeps
    <2>2. CASE EmptyRun
      BY <2>2, EmptyRunKeeps
    <2>3. CASE RefuseModel \/ StartRun \/ EndRun
      BY <2>3, RunEventsKeep
    <2>4. CASE BeginTurn
      BY <2>4, BeginTurnKeeps
    <2>5. CASE UserStored
      BY <2>5, UserStoredKeeps
    <2>6. CASE AnswerStored
      BY <2>6, AnswerStoredKeeps
    <2>7. CASE \E answer \in Answers : ModelReplies(answer)
      BY <2>7, ModelRepliesKeeps
    <2>8. CASE ModelFails \/ \E answer \in Answers : ModelAnswersNothing(answer)
      BY <2>8, NoAnswerKeeps
    <2>9. CASE ExecuteReturns
      BY <2>9, ExecuteReturnsKeeps
    <2>10. CASE ResultsStored
      BY <2>10, ResultsStoredKeeps
    <2>11. CASE EndTurn
      BY <2>11, EndTurnKeeps
    <2> QED BY <1>1, <2>1, <2>2, <2>3, <2>4, <2>5, <2>6, <2>7, <2>8, <2>9, <2>10, <2>11 DEF Handler
  <1>2. CASE OthersHandle \/ Disconnect \/ UNCHANGED vars
    BY <1>2, BystandersKeep
  <1>3. CASE \E w \in Writers : Write(w)
    BY <1>3, MainWriteKeeps, ToolWriteKeeps DEF Writers
  <1>4. CASE \E p \in Places : Tool(p)
    BY <1>4, ToolKeeps
  <1> QED BY <1>1, <1>2, <1>3, <1>4 DEF Next

THEOREM RunInvariant == Spec => []IInv
  BY InitInv, NextKeeps, PTL DEF Spec

(* The state of a request keeps its shape: rounds within the limit, events *)
(* of the run only, a view the protocol knows (handler.go, chat.go).       *)
THEOREM RunTypes == Spec => []TypeOK
  <1>1. IInv => TypeOK
    BY DEF IInv, StateOK, TypeOK
  <1> QED BY <1>1, RunInvariant, PTL

(* No goroutine of a batch outlives the call of Execute that started it,   *)
(* however its calls fail (tool_executor.go:124-150).                      *)
THEOREM NobodyIsLeftBehind == Spec => []NoStragglers
  <1>1. IInv => NoStragglers
    BY DEF IInv, NoStragglers, BatchShape, ToolsWrite, ToolWrites
  <1> QED BY <1>1, RunInvariant, PTL

(* When the handler of an accepted request returns, a client that is still *)
(* there has been told how it ended. A handler that panics does not return:*)
(* the run silent_abort shows what its client sees.                        *)
THEOREM EndsAreTold == Spec => []NoSilentEnd
  <1>1. IInv => NoSilentEnd
    BY DEF IInv, NoSilentEnd, ClientHasSeen, SeenPhase
  <1> QED BY <1>1, RunInvariant, PTL

(* Only a turn that has used up its rounds, and shown every result of the  *)
(* last, offers the client to go on.                                       *)
THEOREM OffersAreEarned == Spec => []InterruptMeansExhausted
  <1>1. IInv => InterruptMeansExhausted
    BY DEF IInv, InterruptMeansExhausted, Offered, Protocol!Answered
  <1> QED BY <1>1, RunInvariant, PTL
-----------------------------------------------------------------------------
(* Each step is a step of the protocol, or shows the client nothing.       *)
LEMMA NoBlockOpen ==
  ASSUME IInv, ~gone, due[Main] = <<>>
  PROVE  client.open = "none"
  BY DEF IInv, ClientHasSeen, SeenBlock

LEMMA NonePending ==
  ASSUME IInv, ~gone, pc \notin {"tools", "failed", "closed"}
  PROVE  Protocol!NoCallPending
  BY DEF IInv, ClientHasSeen, SeenCalls, Protocol!NoCallPending, Protocol!Answered

LEMMA RunEventFollows ==
  ASSUME IInv, RefuseModel \/ StartRun \/ EndRun
  PROVE  Protocol!Next \/ client' = client
  <1>1. CASE gone
    BY <1>1 DEF RefuseModel, StartRun, EndRun, LastEvent, Show
  <1>2. CASE ~gone
    <2>1. due[Main] = <<>> /\ client.open = "none" /\ SeenPhase
      BY <1>2, NothingToWrite, NoBlockOpen DEF RefuseModel, StartRun, EndRun, IInv, ClientHasSeen
    <2>2. CASE RefuseModel
      <3>1. Protocol!Fail
        BY <1>2, <2>1, <2>2, SeenRunEvent
           DEF RefuseModel, Show, SeenPhase, Protocol!Fail, Protocol!Closed
      <3> QED BY <3>1 DEF Protocol!Next
    <2>3. CASE StartRun
      <3>1. Protocol!Start
        BY <1>2, <2>1, <2>3, SeenRunEvent DEF StartRun, Show, SeenPhase, Protocol!Start
      <3> QED BY <3>1 DEF Protocol!Next
    <2>4. CASE EndRun /\ pc = "failed"
      <3>1. Protocol!Fail
        BY <1>2, <2>1, <2>4, SeenRunEvent
           DEF EndRun, LastEvent, Show, SeenPhase, Protocol!Fail, Protocol!Closed
      <3> QED BY <3>1 DEF Protocol!Next
    <2>5. CASE EndRun /\ pc # "failed"
      <3>1. pc \in {"done", "exhausted"}
        BY <2>5 DEF EndRun
      <3>2. PICK phase \in {"finished", "interrupted"} : client' = [client EXCEPT !.phase = phase]
        BY <1>2, <2>5, <3>1, SeenRunEvent DEF EndRun, LastEvent, Show, Protocol!Closed
      <3>3. Protocol!NoCallPending /\ client.phase = "running"
        BY <1>2, <2>1, <3>1, NonePending DEF SeenPhase
      <3>4. Protocol!Finish(phase)
        BY <2>1, <3>2, <3>3 DEF Protocol!Finish
      <3> QED BY <3>4 DEF Protocol!Next, Protocol!Phases
    <2> QED BY <2>2, <2>3, <2>4, <2>5
  <1> QED BY <1>1, <1>2

LEMMA MainWriteFollows ==
  ASSUME IInv, Write(Main)
  PROVE  Protocol!Next \/ client' = client
  <1>1. CASE gone
    BY <1>1 DEF Write, Show
  <1>2. CASE ~gone /\ pc = "empty"
    <2>1. /\ Head(<<Event("finished")>>) = Event("finished")
          /\ Head(<<Event("start"), Event("finished")>>) = Event("start")
      OBVIOUS
    <2>2. Head(due[Main]) # Close
      BY <1>2, <2>1, ThreeEvents, EmptyRunWrites
    <2>3. client.open = "none" /\ Protocol!NoCallPending
      BY <1>2, <2>2, NonePending DEF IInv, ClientHasSeen, SeenBlock
    <2>4. CASE client.phase = "waiting" /\ client' = [client EXCEPT !.phase = "running"]
      BY <2>4 DEF Protocol!Start, Protocol!Next
    <2>5. CASE client.phase = "running" /\ client' = [client EXCEPT !.phase = "finished"]
      <3>1. Protocol!Finish("finished")
        BY <2>3, <2>5 DEF Protocol!Finish
      <3> QED BY <3>1 DEF Protocol!Next, Protocol!Phases
    <2> QED BY <1>2, <2>4, <2>5, EmptyRunWrites
  <1>3. CASE ~gone /\ pc = "answer"
    <2>1. client.phase = "running" /\ Protocol!NoCallPending
      BY <1>3, NonePending DEF IInv, ClientHasSeen, SeenPhase
    <2>2. CASE client.open # "none" /\ client' = [client EXCEPT !.open = "none"]
      BY <2>1, <2>2 DEF Protocol!CloseBlock, Protocol!Next
    <2>3. CASE \E block \in Protocol!Blocks :
                 client.open = "none" /\ client' = [client EXCEPT !.open = block]
      BY <2>1, <2>3 DEF Protocol!OpenBlock, Protocol!Next
    <2> QED BY <1>3, <2>2, <2>3, AnswerWrites
  <1> QED BY <1>1, <1>2, <1>3 DEF IInv, MainWrites, Write

LEMMA ToolWriteFollows ==
  ASSUME IInv, NEW p \in Places, Write(p)
  PROVE  Protocol!Next \/ client' = client
  <1>1. CASE gone
    BY <1>1 DEF Write, Show
  <1>2. CASE ~gone
    <2>1. pc = "tools" /\ <<round, p>> \in CallIds /\ client' = [client EXCEPT !.stage[<<round, p>>] = @ + 1]
      BY <1>2, ToolWrote
    <2>2. client.phase = "running" /\ client.open = "none"
      BY <1>2, <2>1, NoBlockOpen, NothingToWrite DEF IInv, ClientHasSeen, SeenPhase
    <2>3. client.stage[<<round, p>>] < Protocol!Answered
      <3>1. \A k \in {2, 4}, n \in {1, 2} : k - n < 4
        OBVIOUS
      <3>2. PICK k \in {2, 4} : client.stage[<<round, p>>] = k - Len(due[p])
        BY <1>2, ToolWrote
      <3> QED BY <3>1, <3>2, ToolWrote DEF Protocol!Answered
    <2>4. Protocol!CallEvent(<<round, p>>)
      BY <2>1, <2>2, <2>3 DEF Protocol!CallEvent
    <2> QED BY <2>1, <2>4 DEF Protocol!Next
  <1> QED BY <1>1, <1>2

LEMMA StepFollows ==
  IInv /\ [Next]_vars => [Protocol!Next]_client
  <1> SUFFICES ASSUME IInv, [Next]_vars PROVE Protocol!Next \/ client' = client
    OBVIOUS
  <1>1. CASE Handler
    <2>1. CASE RefuseModel \/ StartRun \/ EndRun
      BY <2>1, RunEventFollows
    <2>2. CASE ~(RefuseModel \/ StartRun \/ EndRun)
      BY <1>1, <2>2 DEF Handler, ServeHTTP, EmptyRun, BeginTurn, UserStored, AnswerStored,
         ModelReplies, ModelAnswersNothing, ModelFails, ExecuteReturns, ResultsStored, EndTurn
    <2> QED BY <2>1, <2>2
  <1>2. CASE OthersHandle \/ Disconnect \/ UNCHANGED vars
    BY <1>2 DEF OthersHandle, Disconnect, vars
  <1>3. CASE \E w \in Writers : Write(w)
    BY <1>3, MainWriteFollows, ToolWriteFollows DEF Writers
  <1>4. CASE \E p \in Places : Tool(p)
    BY <1>4 DEF Tool, StartTool, ToolStarted, ToolReturns, ToolEnded
  <1> QED BY <1>1, <1>2, <1>3, <1>4 DEF Next

(* The stream of every request implements the protocol of a run, for any   *)
(* number of rounds and tools, whatever fails and whenever the client goes *)
(* (emitter.go:36-97, handler.go:159-233).                                 *)
THEOREM StreamFollowsProtocol == Spec => RunFollowsProtocol
  <1>1. Init => Protocol!Init
    BY DEF Init
  <1> QED BY <1>1, StepFollows, RunInvariant, PTL DEF Spec, RunFollowsProtocol, Protocol!Spec
=============================================================================
