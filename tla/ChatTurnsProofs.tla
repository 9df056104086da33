---------------------------- MODULE ChatTurnsProofs ----------------------------
(***************************************************************************)
(* Proofs about ChatTurns and ChatContext, for every set of turns, sessions*)
(* and processes, every bound on rounds and batches and every set of       *)
(* context modes. The safety properties are not inductive: what is stored  *)
(* of a turn says nothing of what the turn will store next. IInv ties the  *)
(* two together: the frame of a running turn determines exactly which of   *)
(* its messages are in the store. In order: IInv and what follows from it; *)
(* the refinement of TranscriptProtocol; sequences, FlattenSeq and         *)
(* MessagesOf, by induction; ExactInv, which says in which order the store *)
(* holds a turn's messages; the contexts the model is shown; the requests  *)
(* the three clients make of a context, and the logs of conversations whose*)
(* turns run one at a time, for which every request is accepted.           *)
(***************************************************************************)
EXTENDS ChatContext, FiniteSetTheorems, WellFoundedInduction, TLAPS

Rounds(f) == Len(f.asked)

(* Where a turn is, against the rounds it has been through.                *)
FrameOK(f) ==
  /\ f.pc \in {"idle", "user"} => f.asked = <<>>
  /\ f.pc = "idle" => f.seen = "none"
  /\ f.pc # "results" => f.delivered = 0
  /\ f.pc \in {"assistant", "tools", "results", "finish", "giveup"} => Rounds(f) >= 1
  /\ f.pc \in {"tools", "results", "giveup"} => f.asked[Rounds(f)] >= 1
  /\ f.pc = "results" => f.delivered < f.asked[Rounds(f)]
  /\ f.pc \in {"read", "call", "blind"} =>
       /\ Rounds(f) < MaxToolCalls
       /\ Rounds(f) >= 1 => f.asked[Rounds(f)] >= 1
  /\ f.pc = "finish" => f.asked[Rounds(f)] = 0
  /\ f.pc = "giveup" => Rounds(f) = MaxToolCalls
  /\ Rounds(f) <= MaxToolCalls
  /\ \A r \in 1..(Rounds(f) - 1) : f.asked[r] >= 1

(* A turn that has stored something, or found its session, has a session,  *)
(* unless that was removed under it.                                       *)
SessionInv(t) ==
  /\ /\ Running(t)
     /\ chat[t].pc # "user" \/ chat[t].seen = "present"
     => session[t] \in sessions \/ t \in removed
  /\ chat[t].seen = "absent" /\ chat[t].pc # "user" => t \in removed

AnswersSent(t) == IF chat[t].pc = "assistant" THEN Round(t) - 1 ELSE Round(t)

ResultsSent(t, r) ==
  IF r < Round(t) \/ chat[t].pc \notin {"assistant", "tools", "results"}
  THEN chat[t].asked[r]
  ELSE chat[t].delivered

(* m is one of the messages turn t has stored so far.                      *)
IsSent(t, m) ==
  \/ m = UserMessage(t) /\ chat[t].pc # "user"
  \/ m.role = "assistant" /\ m.round \in 1..AnswersSent(t) /\ m.n = chat[t].asked[m.round]
  \/ m.role = "tool" /\ m.round \in 1..Round(t) /\ m.n \in 1..ResultsSent(t, m.round)

OnlySentIsStored(t) ==
  \A i \in DOMAIN messages[session[t]] :
    messages[session[t]][i].turn = t => IsSent(t, messages[session[t]][i])

SentIsStored(t) ==
  LET log == messages[session[t]]
  IN  /\ chat[t].pc # "user" => Stored(log, UserMessage(t))
      /\ \A r \in 1..AnswersSent(t) : Stored(log, AssistantMessage(t, r, chat[t].asked[r]))
      /\ \A r \in 1..Round(t) : \A k \in 1..ResultsSent(t, r) : Stored(log, ToolMessage(t, r, k))

TranscriptInv(t) ==
  t \notin removed /\ Running(t) => OnlySentIsStored(t) /\ SentIsStored(t)

MessagesPlaced ==
  \A s \in Sessions : \A i \in DOMAIN messages[s] :
    /\ session[messages[s][i].turn] = s
    /\ chat[messages[s][i].turn].pc # "idle"

RowsPlaced ==
  \A s \in Sessions : \A h \in history[s] :
    /\ session[h.turn] = s
    /\ chat[h.turn].pc \in Ended

LocalInv ==
  /\ TypeOK
  /\ \A t \in Turns : /\ FrameOK(chat[t])
                      /\ chat[t].pc # "idle" => session[t] \in Sessions

IInv ==
  /\ LocalInv
  /\ \A t \in Turns : SessionInv(t) /\ TranscriptInv(t)
  /\ MessagesPlaced
  /\ RowsPlaced
  /\ AnswersFollowCalls
  /\ RecordedTurnIsClosed
  /\ OrphanRowsOnlyAfterRemoval
-----------------------------------------------------------------------------
LEMMA AtRestIsFrame ==
  ASSUME NEW place \in Ended \cup {"idle"}
  PROVE  AtRest(place) \in Frame /\ FrameOK(AtRest(place))
  <1>1. AtRest(place) \in Frame
    BY DEF AtRest, Frame, Control, Ended
  <1>2. FrameOK(AtRest(place))
    BY ConstantsAssumption DEF AtRest, FrameOK, Rounds, Ended
  <1> QED
    BY <1>1, <1>2

LEMMA SeqParts ==
  ASSUME NEW S, NEW q \in Seq(S)
  PROVE  /\ Len(q) \in Nat
         /\ DOMAIN q = 1..Len(q)
         /\ \A i \in 1..Len(q) : q[i] \in S
  OBVIOUS

LEMMA FrameParts ==
  ASSUME NEW f \in Frame
  PROVE  /\ f.asked \in Seq(Batches)
         /\ Rounds(f) \in Nat
         /\ DOMAIN f.asked = 1..Rounds(f)
         /\ \A r \in 1..Rounds(f) : f.asked[r] \in Batches /\ f.asked[r] \in Nat
         /\ f.delivered \in Nat
  <1>1. f.asked \in Seq(Batches) /\ f.delivered \in Nat
    BY DEF Frame
  <1>2. Batches \subseteq Nat
    BY ConstantsAssumption
  <1>3. /\ Len(f.asked) \in Nat
        /\ DOMAIN f.asked = 1..Len(f.asked)
        /\ \A r \in 1..Len(f.asked) : f.asked[r] \in Batches
    BY <1>1, SeqParts
  <1> QED
    BY <1>1, <1>2, <1>3 DEF Rounds

(* The message a turn is about to store is one.                            *)
LEMMA CurrentIsMessage ==
  ASSUME LocalInv, NEW t \in Turns, chat[t].pc \in Emitting
  PROVE  /\ CurrentMessage(t) \in Message
         /\ CurrentMessage(t).turn = t
  <1>1. chat[t] \in Frame /\ FrameOK(chat[t])
    BY DEF LocalInv, TypeOK
  <1>2. /\ Round(t) \in Nat
        /\ Round(t) >= 1 => LastBatch(t) \in Nat
    <2>1. /\ Rounds(chat[t]) \in Nat
          /\ \A r \in 1..Rounds(chat[t]) : chat[t].asked[r] \in Nat
      BY <1>1, FrameParts
    <2> QED
      BY <2>1 DEF Rounds, Round, LastBatch
  <1>3. CASE chat[t].pc = "user"
    BY <1>3 DEF CurrentMessage, UserMessage, Message
  <1>4. CASE chat[t].pc = "assistant"
    BY <1>1, <1>2, <1>4 DEF CurrentMessage, AssistantMessage, Message, FrameOK, Rounds, Round
  <1>5. CASE chat[t].pc = "results"
    BY <1>1, <1>2, <1>5 DEF CurrentMessage, ToolMessage, Message, Frame
  <1> QED
    BY <1>3, <1>4, <1>5 DEF Emitting

(* A step of turn t leaves every frame sound and touches no other one.     *)
FrameStep(t) ==
  /\ chat' \in [Turns -> Frame]
  /\ \A u \in Turns : FrameOK(chat'[u])
  /\ \A u \in Turns \ {t} : chat'[u] = chat[u]

(* Replacing the frame of one turn by a sound one keeps every frame sound. *)
LEMMA OneFrameChanges ==
  ASSUME LocalInv, NEW t \in Turns, NEW f \in Frame, FrameOK(f),
         chat' = [chat EXCEPT ![t] = f]
  PROVE  FrameStep(t)
  BY DEF LocalInv, TypeOK, FrameStep

LEMMA ReturnIsSound ==
  ASSUME LocalInv, NEW t \in Turns, NEW outcome \in Ended, Return(t, outcome)
  PROVE  FrameStep(t)
  <1>1. AtRest(outcome) \in Frame /\ FrameOK(AtRest(outcome))
    BY AtRestIsFrame
  <1> QED
    BY <1>1, OneFrameChanges DEF Return

LEMMA MessageHandledIsSound ==
  ASSUME LocalInv, NEW t \in Turns, chat[t].pc \in Emitting, MessageHandled(t)
  PROVE  FrameStep(t)
  <1> DEFINE f == [chat[t] EXCEPT !.pc = AfterMessage(t),
                                  !.delivered = IF MoreResults(t) THEN @ + 1 ELSE 0,
                                  !.seen = "none"]
  <1>1. chat[t] \in Frame /\ FrameOK(chat[t])
    BY DEF LocalInv, TypeOK
  <1>2. CASE Return(t, "failed")
    BY <1>2, ReturnIsSound DEF Ended
  <1>3. CASE chat' = [chat EXCEPT ![t] = f]
    <2>1. AfterMessage(t) \in Control
      BY DEF AfterMessage, Control, Emitting
    <2>2. f \in Frame
      <3>1. (IF MoreResults(t) THEN chat[t].delivered + 1 ELSE 0) \in Nat
        BY <1>1, FrameParts
      <3> QED
        BY <1>1, <2>1, <3>1 DEF Frame
    <2>3. FrameOK(f)
      <3>1. f.asked = chat[t].asked /\ f.pc = AfterMessage(t)
            /\ f.delivered = IF MoreResults(t) THEN chat[t].delivered + 1 ELSE 0
        BY <1>1 DEF Frame
      <3>2. /\ Rounds(chat[t]) \in Nat /\ chat[t].delivered \in Nat
            /\ \A r \in 1..Rounds(chat[t]) : chat[t].asked[r] \in Nat
        BY <1>1, FrameParts
      <3>3. CASE chat[t].pc = "user"
        BY <1>1, <3>1, <3>2, <3>3, ConstantsAssumption DEF FrameOK, AfterMessage, MoreResults, Rounds
      <3>4. CASE chat[t].pc = "assistant"
        BY <1>1, <3>1, <3>2, <3>4, ConstantsAssumption
           DEF FrameOK, AfterMessage, MoreResults, Rounds, LastBatch, Round
      <3>5. CASE chat[t].pc = "results"
        BY <1>1, <3>1, <3>2, <3>5, ConstantsAssumption
           DEF FrameOK, AfterMessage, MoreResults, Rounds, LastBatch, Round
      <3> QED
        BY <3>3, <3>4, <3>5 DEF Emitting
    <2> QED
      BY <1>3, <2>2, <2>3, OneFrameChanges
  <1> QED
    BY <1>2, <1>3, <1>1 DEF MessageHandled, LocalInv, TypeOK

LEMMA LocalInit == Init => LocalInv
  <1> SUFFICES ASSUME Init PROVE LocalInv
    OBVIOUS
  <1>1. AtRest("idle") \in Frame /\ FrameOK(AtRest("idle"))
    BY AtRestIsFrame
  <1>2. TypeOK
    BY <1>1 DEF Init, TypeOK
  <1> QED
    BY <1>1, <1>2 DEF Init, LocalInv, AtRest

(* A message step keeps the store well typed and every frame sound.        *)
LEMMA InsertKeepsLocal ==
  ASSUME LocalInv, NEW t \in Turns, InsertMessage(t)
  PROVE  LocalInv'
  <1>1. chat[t].pc \in Emitting /\ MessageHandled(t)
    BY DEF InsertMessage
  <1>2. FrameStep(t)
    BY <1>1, MessageHandledIsSound
  <1>3. CurrentMessage(t) \in Message
    BY <1>1, CurrentIsMessage
  <1>4. \A s \in Sessions : Append(messages[s], CurrentMessage(t)) \in Seq(Message)
    BY <1>3 DEF LocalInv, TypeOK
  <1>5. messages' \in [Sessions -> Seq(Message)]
    BY <1>4 DEF InsertMessage, LocalInv, TypeOK
  <1> QED
    BY <1>1, <1>2, <1>5 DEF InsertMessage, LocalInv, TypeOK, FrameStep, Emitting

(* The other steps of a turn that changes only its own frame.              *)
LEMMA FrameStepsKeepLocal ==
  ASSUME LocalInv, NEW t \in Turns,
         UNCHANGED <<messages, history, session, removed>>,
         \/ CheckSession(t) \/ MaterializeSession(t) \/ SkipMessage(t) \/ MessageFails(t)
         \/ ReadMessages(t) \/ ReadFails(t) \/ (\E calls \in Batches : ModelReplies(t, calls))
         \/ ModelFails(t) \/ ExecuteTools(t) \/ Cancel(t)
  PROVE  FrameStep(t)
  <1> DEFINE f == chat[t]
  <1>0. f \in Frame /\ FrameOK(f) /\ chat \in [Turns -> Frame]
    BY DEF LocalInv, TypeOK
  <1>1. CASE CheckSession(t)
    <2> DEFINE seen == IF session[t] \in sessions THEN "present" ELSE "absent"
    <2> DEFINE g == [f EXCEPT !.seen = seen]
    <2>1. g \in Frame
      BY <1>0 DEF Frame
    <2>2. FrameOK(g)
      BY <1>0, <1>1 DEF Frame, FrameOK, Rounds, CheckSession, Emitting
    <2> QED
      BY <1>1, <2>1, <2>2, OneFrameChanges DEF CheckSession
  <1>2. CASE MaterializeSession(t)
    <2> DEFINE g == [f EXCEPT !.seen = "present"]
    <2>1. g \in Frame
      BY <1>0 DEF Frame
    <2>2. FrameOK(g)
      BY <1>0, <1>2 DEF Frame, FrameOK, Rounds, MaterializeSession
    <2> QED
      BY <1>2, <2>1, <2>2, OneFrameChanges DEF MaterializeSession
  <1>3. CASE SkipMessage(t)
    BY <1>3, MessageHandledIsSound DEF SkipMessage
  <1>4. CASE MessageFails(t)
    BY <1>4, ReturnIsSound DEF MessageFails, Ended
  <1>5. CASE ReadMessages(t)
    <2> DEFINE g == [f EXCEPT !.pc = "call", !.snapshot = messages[session[t]]]
    <2>1. messages[session[t]] \in Seq(Message)
      BY <1>5 DEF ReadMessages, LocalInv, TypeOK
    <2>2. g \in Frame
      BY <1>0, <2>1 DEF Frame, Control
    <2>3. FrameOK(g)
      BY <1>0, <1>5 DEF Frame, FrameOK, Rounds, ReadMessages
    <2> QED
      BY <1>5, <2>2, <2>3, OneFrameChanges DEF ReadMessages
  <1>6. CASE ReadFails(t)
    <2> DEFINE g == [f EXCEPT !.pc = "blind"]
    <2>1. g \in Frame
      BY <1>0 DEF Frame, Control
    <2>2. FrameOK(g)
      BY <1>0, <1>6 DEF Frame, FrameOK, Rounds, ReadFails
    <2> QED
      BY <1>6, <2>1, <2>2, OneFrameChanges DEF ReadFails
  <1>7. ASSUME NEW calls \in Batches, ModelReplies(t, calls)
        PROVE  FrameStep(t)
    <2> DEFINE g == [f EXCEPT !.pc = "assistant", !.asked = Append(@, calls), !.snapshot = <<>>]
    <2>1. /\ f.asked \in Seq(Batches)
          /\ Rounds(f) \in Nat
          /\ \A r \in 1..Rounds(f) : f.asked[r] \in Nat
      BY <1>0, FrameParts
    <2>2. /\ <<>> \in Seq(Message)
          /\ Append(f.asked, calls) \in Seq(Batches)
          /\ Len(Append(f.asked, calls)) = Rounds(f) + 1
          /\ \A r \in 1..Rounds(f) : Append(f.asked, calls)[r] = f.asked[r]
      BY <2>1 DEF Rounds
    <2>3. g \in Frame
      BY <1>0, <2>2 DEF Frame, Control, Emitting
    <2>4. /\ g.asked = Append(f.asked, calls)
          /\ g.pc = "assistant"
          /\ g.delivered = f.delivered
          /\ Rounds(g) = Rounds(f) + 1
      BY <1>0, <2>2 DEF Frame, Rounds
    <2>5. f.pc \in {"call", "blind"}
      BY <1>7 DEF ModelReplies
    <2>6. FrameOK(g)
      BY <1>0, <2>1, <2>2, <2>4, <2>5, ConstantsAssumption DEF FrameOK
    <2> QED
      BY <1>7, <2>3, <2>6, OneFrameChanges DEF ModelReplies
  <1>8. CASE ModelFails(t)
    BY <1>8, ReturnIsSound DEF ModelFails, Ended
  <1>9. CASE ExecuteTools(t)
    <2> DEFINE g == [f EXCEPT !.pc = "results"]
    <2>0. /\ Rounds(f) \in Nat
          /\ \A r \in 1..Rounds(f) : f.asked[r] \in Nat
      BY <1>0, FrameParts
    <2>1. g \in Frame
      BY <1>0 DEF Frame, Control, Emitting
    <2>2. FrameOK(g)
      BY <1>0, <1>9, <2>0 DEF Frame, FrameOK, Rounds, ExecuteTools
    <2>3. CASE chat' = [chat EXCEPT ![t] = g]
      BY <2>1, <2>2, <2>3, OneFrameChanges
    <2>4. CASE Return(t, "failed")
      BY <2>4, ReturnIsSound DEF Ended
    <2> QED
      BY <1>9, <2>3, <2>4 DEF ExecuteTools
  <1>10. CASE Cancel(t)
    <2> DEFINE g == [f EXCEPT !.cancelled = TRUE]
    <2>1. g \in Frame
      BY <1>0 DEF Frame
    <2>2. FrameOK(g)
      BY <1>0 DEF Frame, FrameOK, Rounds
    <2> QED
      BY <1>10, <2>1, <2>2, OneFrameChanges DEF Cancel
  <1> QED
    BY <1>1, <1>2, <1>3, <1>4, <1>5, <1>6, <1>7, <1>8, <1>9, <1>10

LEMMA EndKeepsLocal ==
  ASSUME LocalInv, NEW t \in Turns, CompleteTurn(t) \/ GiveUpTurn(t)
  PROVE  LocalInv'
  <1>1. FrameStep(t)
    BY ReturnIsSound DEF CompleteTurn, GiveUpTurn, Ended
  <1>2. \A answered \in BOOLEAN : TurnRow(t, answered) \in HistoryRow
    BY DEF TurnRow, Row, HistoryRow
  <1>3. UpsertRow(t) => history' \in [Sessions -> SUBSET HistoryRow]
    <2>1. \A s \in Sessions : \A answered \in BOOLEAN :
            ({h \in history[s] : h.turn # t} \cup {TurnRow(t, answered)}) \in SUBSET HistoryRow
      BY <1>2 DEF LocalInv, TypeOK
    <2>2. history \in [Sessions -> SUBSET HistoryRow]
      BY DEF LocalInv, TypeOK
    <2> QED
      BY <2>1, <2>2 DEF UpsertRow
  <1>4. history' \in [Sessions -> SUBSET HistoryRow]
    BY <1>3 DEF CompleteTurn, GiveUpTurn, LocalInv, TypeOK
  <1> QED
    BY <1>1, <1>4 DEF CompleteTurn, GiveUpTurn, LocalInv, TypeOK, FrameStep

LEMMA BeginKeepsLocal ==
  ASSUME LocalInv, NEW t \in Turns, NEW s \in Sessions, Begin(t, s)
  PROVE  LocalInv'
  <1> DEFINE g == [chat[t] EXCEPT !.pc = "user"]
  <1>0. chat[t] \in Frame /\ FrameOK(chat[t]) /\ chat[t].pc = "idle"
    BY DEF LocalInv, TypeOK, Begin
  <1>1. g \in Frame
    BY <1>0 DEF Frame, Control, Emitting
  <1>2. FrameOK(g)
    BY <1>0, ConstantsAssumption DEF Frame, FrameOK, Rounds
  <1>3. FrameStep(t)
    <2>1. CASE chat' = [chat EXCEPT ![t] = g]
      BY <1>1, <1>2, <2>1, OneFrameChanges
    <2>2. CASE Return(t, "failed")
      BY <2>2, ReturnIsSound DEF Ended
    <2> QED
      BY <2>1, <2>2 DEF Begin
  <1>4. /\ session' \in [Turns -> Sessions \cup {NoSession}]
        /\ \A u \in Turns : chat'[u].pc # "idle" => session'[u] \in Sessions
    BY <1>3 DEF Begin, LocalInv, TypeOK, FrameStep
  <1>5. TypeOK'
    BY <1>3, <1>4 DEF Begin, LocalInv, TypeOK, FrameStep, store
  <1> QED
    BY <1>3, <1>4, <1>5 DEF LocalInv, FrameStep

LEMMA CrashKeepsLocal ==
  ASSUME LocalInv, NEW p \in Processes, Crash(p)
  PROVE  LocalInv'
  <1>1. AtRest("dead") \in Frame /\ FrameOK(AtRest("dead"))
    BY AtRestIsFrame DEF Ended
  <1>2. \A u \in Turns : \/ chat'[u] = chat[u]
                         \/ chat'[u] = AtRest("dead") /\ Running(u)
    BY DEF Crash, LocalInv, TypeOK
  <1>3. chat' \in [Turns -> Frame]
    BY <1>1 DEF Crash, LocalInv, TypeOK
  <1>4. \A u \in Turns : FrameOK(chat'[u])
    BY <1>1, <1>2 DEF LocalInv
  <1>5. TypeOK'
    BY <1>3 DEF Crash, LocalInv, TypeOK, store
  <1>6. \A u \in Turns : chat'[u].pc # "idle" => session'[u] \in Sessions
    BY <1>2 DEF Crash, LocalInv, Running
  <1> QED
    BY <1>4, <1>5, <1>6 DEF LocalInv

LEMMA RemovalKeepsLocal ==
  ASSUME LocalInv, NEW c \in Clis, NEW s \in Sessions, RemoveSession(c, s)
  PROVE  LocalInv'
  <1>1. messages' \in [Sessions -> Seq(Message)]
    <2>1. <<>> \in Seq(Message)
      OBVIOUS
    <2> QED
      BY <2>1 DEF RemoveSession, DeleteSession, LocalInv, TypeOK
  <1> QED
    BY <1>1 DEF RemoveSession, DeleteSession, LocalInv, TypeOK, TurnsOn

LEMMA LocalStep == LocalInv /\ [Next]_vars => LocalInv'
  <1> SUFFICES ASSUME LocalInv, [Next]_vars PROVE LocalInv'
    OBVIOUS
  <1>1. CASE UNCHANGED vars
    BY <1>1 DEF vars, store, LocalInv, TypeOK, FrameOK, Rounds
  <1>2. ASSUME NEW t \in Turns, NEW s \in Sessions, Begin(t, s) PROVE LocalInv'
    BY <1>2, BeginKeepsLocal
  <1>3. ASSUME NEW t \in Turns, Progress(t) \/ Cancel(t) PROVE LocalInv'
    <2>1. CASE InsertMessage(t)
      BY <2>1, InsertKeepsLocal
    <2>2. CASE CompleteTurn(t) \/ GiveUpTurn(t)
      BY <2>2, EndKeepsLocal
    <2>3. CASE \/ CheckSession(t) \/ MaterializeSession(t) \/ SkipMessage(t) \/ MessageFails(t)
               \/ ReadMessages(t) \/ ReadFails(t) \/ (\E calls \in Batches : ModelReplies(t, calls))
               \/ ModelFails(t) \/ ExecuteTools(t) \/ Cancel(t)
      <3>1. /\ UNCHANGED <<messages, history, session, removed>>
            /\ sessions' \in SUBSET Sessions
            /\ chat[t].pc # "idle"
        BY <2>3 DEF CheckSession, MaterializeSession, SkipMessage, MessageFails, ReadMessages,
                    ReadFails, ModelReplies, ModelFails, ExecuteTools, Cancel, Running, Emitting,
                    store, LocalInv, TypeOK
      <3>2. FrameStep(t)
        BY <2>3, <3>1, FrameStepsKeepLocal
      <3> QED
        BY <3>1, <3>2 DEF LocalInv, TypeOK, FrameStep
    <2> QED
      BY <1>3, <2>1, <2>2, <2>3 DEF Progress
  <1>4. ASSUME NEW p \in Processes, Crash(p) PROVE LocalInv'
    BY <1>4, CrashKeepsLocal
  <1>5. ASSUME NEW c \in Clis, NEW s \in Sessions, RemoveSession(c, s) PROVE LocalInv'
    BY <1>5, RemovalKeepsLocal
  <1> QED
    BY <1>1, <1>2, <1>3, <1>4, <1>5 DEF Next

(* Every variable keeps its type, whatever the number of turns, sessions   *)
(* and processes.                                                          *)
THEOREM TypeCorrect == Spec => []TypeOK
  <1>1. LocalInv => TypeOK
    BY DEF LocalInv
  <1> QED
    BY LocalInit, LocalStep, <1>1, PTL DEF Spec
-----------------------------------------------------------------------------
(* Steps of a turn that store nothing and end nothing.                     *)
Quiet(t) ==
  \/ CheckSession(t) \/ MaterializeSession(t) \/ ReadMessages(t) \/ ReadFails(t)
  \/ (\E calls \in Batches : ModelReplies(t, calls))
  \/ ExecuteTools(t) /\ chat'[t].pc # "failed"
  \/ Cancel(t)

(* Steps that drop a message or end the turn without a record.             *)
Silent(t) ==
  \/ SkipMessage(t) \/ MessageFails(t) \/ ModelFails(t) \/ ExecuteTools(t)

(* A quiet step leaves the set of messages the frame accounts for as it    *)
(* was: a new answer is asked for, not sent.                               *)
SameSent(t) ==
  /\ Running(t)
  /\ (chat'[t].pc = "user") <=> (chat[t].pc = "user")
  /\ AnswersSent(t)' = AnswersSent(t)
  /\ \A r \in 1..AnswersSent(t) : chat'[t].asked[r] = chat[t].asked[r]
  /\ Round(t) <= Round(t)'
  /\ \A r \in 1..Round(t)' :
       ResultsSent(t, r)' = IF r <= Round(t) THEN ResultsSent(t, r) ELSE 0

LEMMA QuietSendsNothing ==
  ASSUME LocalInv, NEW t \in Turns, Quiet(t)
  PROVE  SameSent(t)
  <1> DEFINE f == chat[t]
  <1>1. chat \in [Turns -> Frame] /\ f \in Frame /\ FrameOK(f)
    BY DEF LocalInv, TypeOK
  <1>2. /\ f.asked \in Seq(Batches)
        /\ Len(f.asked) \in Nat
        /\ f.delivered \in Nat
        /\ \A r \in 1..Len(f.asked) : f.asked[r] \in Nat
    BY <1>1, FrameParts DEF Rounds
  <1>3. ASSUME NEW calls \in Batches, ModelReplies(t, calls) PROVE SameSent(t)
    <2>1. /\ Len(Append(f.asked, calls)) = Len(f.asked) + 1
          /\ \A r \in 1..Len(f.asked) : Append(f.asked, calls)[r] = f.asked[r]
      BY <1>2
    <2>2. /\ chat'[t].pc = "assistant"
          /\ chat'[t].asked = Append(f.asked, calls)
          /\ chat'[t].delivered = f.delivered
          /\ f.pc \in {"call", "blind"}
      BY <1>1, <1>3 DEF ModelReplies, Frame
    <2>3. f.delivered = 0
      BY <1>1, <2>2 DEF FrameOK
    <2> QED
      BY <1>2, <2>1, <2>2, <2>3 DEF SameSent, AnswersSent, ResultsSent, Round, Running, Ended
  <1>4. CASE ExecuteTools(t) /\ chat'[t].pc # "failed"
    <2>1. /\ chat'[t].pc = "results"
          /\ chat'[t].asked = f.asked
          /\ chat'[t].delivered = f.delivered
          /\ f.pc = "tools"
      BY <1>1, <1>4 DEF ExecuteTools, Return, AtRest, Frame
    <2> QED
      BY <1>2, <2>1 DEF SameSent, AnswersSent, ResultsSent, Round, Running, Ended
  <1>5. CASE CheckSession(t) \/ MaterializeSession(t) \/ Cancel(t)
    <2>1. /\ chat'[t].pc = f.pc
          /\ chat'[t].asked = f.asked
          /\ chat'[t].delivered = f.delivered
      BY <1>1, <1>5 DEF CheckSession, MaterializeSession, Cancel, Frame
    <2>2. Running(t)
      BY <1>5 DEF CheckSession, MaterializeSession, Cancel, Running, Ended, Emitting
    <2> QED
      BY <1>2, <2>1, <2>2 DEF SameSent, AnswersSent, ResultsSent, Round
  <1>6. CASE ReadMessages(t) \/ ReadFails(t)
    <2>1. /\ chat'[t].pc \in {"call", "blind"}
          /\ chat'[t].asked = f.asked
          /\ chat'[t].delivered = f.delivered
          /\ f.pc = "read"
      BY <1>1, <1>6 DEF ReadMessages, ReadFails, Frame
    <2> QED
      BY <1>2, <2>1 DEF SameSent, AnswersSent, ResultsSent, Round, Running, Ended
  <1> QED
    BY <1>3, <1>4, <1>5, <1>6 DEF Quiet

LEMMA SameSentKeepsTranscript ==
  ASSUME LocalInv, LocalInv', NEW t \in Turns, SameSent(t), TranscriptInv(t),
         messages' = messages, session' = session, removed' = removed
  PROVE  TranscriptInv(t)'
  <1> SUFFICES ASSUME t \notin removed
               PROVE  OnlySentIsStored(t)' /\ SentIsStored(t)'
    BY DEF TranscriptInv
  <1>1. OnlySentIsStored(t) /\ SentIsStored(t)
    BY DEF TranscriptInv, SameSent
  <1>2. Round(t) \in Nat /\ Round(t)' \in Nat
    BY FrameParts DEF LocalInv, TypeOK, Round, Rounds
  <1>3. \A m : IsSent(t, m) => IsSent(t, m)'
    BY <1>2 DEF SameSent, IsSent, UserMessage
  <1>4. OnlySentIsStored(t)'
    BY <1>1, <1>3 DEF OnlySentIsStored
  <1>5. SentIsStored(t)'
    <2> DEFINE log == messages[session[t]]
    <2>1. chat'[t].pc # "user" => Stored(log, UserMessage(t))
      BY <1>1 DEF SameSent, SentIsStored
    <2>2. \A r \in 1..AnswersSent(t)' : Stored(log, AssistantMessage(t, r, chat'[t].asked[r]))
      BY <1>1 DEF SameSent, SentIsStored
    <2>3. \A r \in 1..Round(t)' : \A k \in 1..ResultsSent(t, r)' : Stored(log, ToolMessage(t, r, k))
      BY <1>1, <1>2 DEF SameSent, SentIsStored
    <2> QED
      BY <2>1, <2>2, <2>3 DEF SentIsStored
  <1> QED
    BY <1>4, <1>5

LEMMA LogParts ==
  ASSUME LocalInv, NEW s \in Sessions
  PROVE  /\ messages[s] \in Seq(Message)
         /\ Len(messages[s]) \in Nat
         /\ DOMAIN messages[s] = 1..Len(messages[s])
         /\ \A i \in DOMAIN messages[s] : /\ messages[s][i] \in Message
                                          /\ messages[s][i].turn \in Turns
  <1>1. messages[s] \in Seq(Message)
    BY DEF LocalInv, TypeOK
  <1>2. /\ Len(messages[s]) \in Nat
        /\ DOMAIN messages[s] = 1..Len(messages[s])
        /\ \A i \in 1..Len(messages[s]) : messages[s][i] \in Message
    BY <1>1, SeqParts
  <1> QED
    BY <1>1, <1>2 DEF Message

(* A turn whose frame and store a step leaves alone.                       *)
LEMMA SameFrameSameStore ==
  ASSUME NEW u \in Turns, OnlySentIsStored(u), SentIsStored(u),
         chat'[u] = chat[u], session'[u] = session[u],
         messages'[session[u]] = messages[session[u]]
  PROVE  OnlySentIsStored(u)' /\ SentIsStored(u)'
  <1>1. Round(u)' = Round(u) /\ AnswersSent(u)' = AnswersSent(u)
    BY DEF Round, AnswersSent
  <1>2. \A r : ResultsSent(u, r)' = ResultsSent(u, r)
    BY <1>1 DEF ResultsSent
  <1>3. \A m : IsSent(u, m) => IsSent(u, m)'
    BY <1>1, <1>2 DEF IsSent
  <1>4. messages'[session'[u]] = messages[session[u]]
    OBVIOUS
  <1>5. OnlySentIsStored(u)'
    BY <1>3, <1>4 DEF OnlySentIsStored
  <1>6. SentIsStored(u)'
    BY <1>1, <1>2, <1>4 DEF SentIsStored
  <1> QED
    BY <1>5, <1>6

LEMMA OthersKeepTheirs ==
  ASSUME LocalInv, NEW u \in Turns, TranscriptInv(u),
         chat'[u] = chat[u], session'[u] = session[u], removed' = removed,
         messages'[session[u]] = messages[session[u]]
  PROVE  TranscriptInv(u)'
  BY SameFrameSameStore DEF TranscriptInv, Running

(* What a quiet or a silent step of t changes beyond the frame of t: at    *)
(* most it adds a session.                                                 *)
OnlyAddsSession ==
  /\ UNCHANGED <<messages, history, session, removed>>
  /\ sessions \subseteq sessions'

LEMMA QuietOrSilentStep ==
  ASSUME IInv, NEW t \in Turns, Quiet(t) \/ Silent(t)
  PROVE  IInv'
  <1>1. OnlyAddsSession /\ Running(t)
    BY DEF Quiet, Silent, OnlyAddsSession, CheckSession, MaterializeSession, SkipMessage,
           MessageFails, ReadMessages, ReadFails, ModelReplies, ModelFails, ExecuteTools,
           Cancel, Running, Emitting, Ended, store
  <1>2. LocalInv /\ LocalInv'
    <2>1. [Next]_vars
      BY DEF Quiet, Silent, Next, Progress
    <2> QED
      BY <2>1, LocalStep DEF IInv
  <1>3. FrameStep(t)
    BY <1>1, <1>2, FrameStepsKeepLocal DEF Quiet, Silent, OnlyAddsSession
  <1>4. \A u \in Turns \ {t} : chat'[u] = chat[u]
    BY <1>3 DEF FrameStep
  <1>5. SessionInv(t)' /\ TranscriptInv(t)'
    <2>1. CASE ~Quiet(t)
      <3>1. SkipMessage(t) => t \in removed
        BY DEF IInv, SessionInv, SkipMessage
      <3>2. ASSUME ~SkipMessage(t)
            PROVE  ~Running(t)' /\ chat'[t].seen = "none"
        <4>1. chat \in [Turns -> Frame]
          BY <1>2 DEF LocalInv, TypeOK
        <4>2. Return(t, "failed")
          BY <2>1, <3>2, <4>1 DEF Silent, Quiet, MessageFails, ModelFails, ExecuteTools, Frame
        <4> QED
          BY <4>1, <4>2 DEF Return, AtRest, Running, Ended
      <3> QED
        BY <1>1, <3>1, <3>2 DEF TranscriptInv, SessionInv, OnlyAddsSession
    <2>2. CASE Quiet(t)
      <3>1. TranscriptInv(t)'
        BY <1>1, <1>2, <2>2, QuietSendsNothing, SameSentKeepsTranscript DEF IInv, OnlyAddsSession
      <3>2. SessionInv(t)'
        <4>1. chat \in [Turns -> Frame] /\ SessionInv(t)
          BY <1>2 DEF LocalInv, TypeOK, IInv
        <4>2. CASE CheckSession(t)
          BY <4>1, <4>2, <1>1 DEF CheckSession, SessionInv, OnlyAddsSession, Running, Frame
        <4>3. CASE MaterializeSession(t)
          BY <4>1, <4>3, <1>1 DEF MaterializeSession, SessionInv, OnlyAddsSession, Running, Frame
        <4>4. CASE ReadMessages(t) \/ ReadFails(t) \/ Cancel(t)
          BY <4>1, <4>4, <1>1 DEF ReadMessages, ReadFails, Cancel, SessionInv, OnlyAddsSession,
                                  Running, Ended, Frame
        <4>5. CASE ExecuteTools(t) /\ chat'[t].pc # "failed"
          <5>1. chat' = [chat EXCEPT ![t].pc = "results"]
            BY <4>1, <4>5 DEF ExecuteTools, Return, AtRest
          <5> QED
            BY <4>1, <4>5, <5>1, <1>1 DEF ExecuteTools, SessionInv, OnlyAddsSession, Running, Ended, Frame
        <4>6. ASSUME NEW calls \in Batches, ModelReplies(t, calls) PROVE SessionInv(t)'
          BY <4>1, <4>6, <1>1 DEF ModelReplies, SessionInv, OnlyAddsSession, Running, Ended, Frame
        <4> QED
          BY <2>2, <4>2, <4>3, <4>4, <4>5, <4>6 DEF Quiet
      <3> QED
        BY <3>1, <3>2
    <2> QED
      BY <2>1, <2>2
  <1>6. \A u \in Turns \ {t} : SessionInv(u)' /\ TranscriptInv(u)'
    <2> SUFFICES ASSUME NEW u \in Turns \ {t} PROVE SessionInv(u)' /\ TranscriptInv(u)'
      OBVIOUS
    <2>1. SessionInv(u)'
      BY <1>1, <1>4 DEF IInv, SessionInv, OnlyAddsSession, Running
    <2>2. TranscriptInv(u)'
      BY <1>1, <1>2, <1>4, OthersKeepTheirs DEF IInv, OnlyAddsSession
    <2> QED
      BY <2>1, <2>2
  <1>7. chat'[t].pc # "idle"
    <2>1. chat \in [Turns -> Frame]
      BY <1>2 DEF LocalInv, TypeOK
    <2>2. Return(t, "failed") => chat'[t].pc # "idle"
      BY <2>1 DEF Return, AtRest
    <2>3. CASE CheckSession(t) \/ MaterializeSession(t) \/ Cancel(t)
      BY <1>1, <2>1, <2>3 DEF CheckSession, MaterializeSession, Cancel, Running, Frame
    <2>4. CASE ReadMessages(t) \/ ReadFails(t)
      BY <2>1, <2>4 DEF ReadMessages, ReadFails, Frame
    <2>5. ASSUME NEW calls \in Batches, ModelReplies(t, calls) PROVE chat'[t].pc # "idle"
      BY <2>1, <2>5 DEF ModelReplies, Frame
    <2>6. CASE ExecuteTools(t)
      BY <2>1, <2>2, <2>6 DEF ExecuteTools, Frame
    <2>7. CASE SkipMessage(t)
      <3>1. AfterMessage(t) # "idle"
        BY <2>7 DEF SkipMessage, AfterMessage, Emitting
      <3> QED
        BY <2>1, <2>2, <2>7, <3>1 DEF SkipMessage, MessageHandled, Frame
    <2>8. CASE MessageFails(t) \/ ModelFails(t)
      BY <2>2, <2>8 DEF MessageFails, ModelFails
    <2> QED
      BY <2>3, <2>4, <2>5, <2>6, <2>7, <2>8 DEF Quiet, Silent
  <1>8. MessagesPlaced' /\ RowsPlaced'
    <2>1. MessagesPlaced /\ RowsPlaced /\ messages \in [Sessions -> Seq(Message)]
          /\ history \in [Sessions -> SUBSET HistoryRow]
      BY DEF IInv, LocalInv, TypeOK
    <2>2. \A s \in Sessions : \A i \in DOMAIN messages[s] : messages[s][i].turn \in Turns
      BY <1>2, LogParts
    <2>3. \A s \in Sessions : \A h \in history[s] : h.turn \in Turns
      BY <2>1 DEF HistoryRow
    <2>4. MessagesPlaced'
      BY <1>1, <1>4, <1>7, <2>1, <2>2 DEF MessagesPlaced, OnlyAddsSession
    <2>5. RowsPlaced'
      BY <1>1, <1>4, <2>1, <2>3 DEF RowsPlaced, OnlyAddsSession, Running
    <2> QED
      BY <2>4, <2>5
  <1>9. AnswersFollowCalls' /\ RecordedTurnIsClosed'
    BY <1>1 DEF IInv, OnlyAddsSession, AnswersFollowCalls, FollowsItsCall, StoredBefore, Precedes,
       Rank, RecordedTurnIsClosed, EveryCallAnswered, AnswerStored, RoundsUsedUp, Stored
  <1>10. OrphanRowsOnlyAfterRemoval'
    BY <1>1 DEF IInv, OnlyAddsSession, OrphanRowsOnlyAfterRemoval, TurnsOf
  <1> QED
    BY <1>2, <1>5, <1>6, <1>8, <1>9, <1>10 DEF IInv
-----------------------------------------------------------------------------
(* When Chat reports the end of a turn, the store holds a closed exchange. *)
LEMMA ReportedTurnIsClosed ==
  ASSUME IInv, NEW t \in Turns, t \notin removed, chat[t].pc \in {"finish", "giveup"}
  PROVE  /\ EveryCallAnswered(messages[session[t]], t)
         /\ chat[t].pc = "finish" => AnswerStored(messages[session[t]], t)
         /\ chat[t].pc = "giveup" => RoundsUsedUp(messages[session[t]], t)
  <1> DEFINE f == chat[t]
             log == messages[session[t]]
  <1>1. f \in Frame /\ FrameOK(f) /\ session[t] \in Sessions
    BY DEF IInv, LocalInv, TypeOK
  <1>2. /\ Round(t) \in Nat
        /\ \A r \in 1..Round(t) : f.asked[r] \in Batches /\ f.asked[r] \in Nat
    BY <1>1, FrameParts DEF Rounds, Round
  <1>3. Round(t) \in 1..MaxToolCalls
    BY <1>1, <1>2, ConstantsAssumption DEF FrameOK, Rounds, Round
  <1>4. OnlySentIsStored(t) /\ SentIsStored(t)
    BY DEF IInv, TranscriptInv, Running, Ended
  <1>5. /\ AnswersSent(t) = Round(t)
        /\ \A r \in 1..Round(t) : ResultsSent(t, r) = f.asked[r]
    BY DEF AnswersSent, ResultsSent
  <1>6. EveryCallAnswered(log, t)
    <2> SUFFICES ASSUME NEW i \in DOMAIN log, log[i].turn = t, log[i].role = "assistant",
                        NEW k \in 1..log[i].n
                 PROVE  Stored(log, ToolMessage(t, log[i].round, k))
      BY DEF EveryCallAnswered
    <2>1. IsSent(t, log[i])
      BY <1>4 DEF OnlySentIsStored
    <2>2. log[i].round \in 1..Round(t) /\ log[i].n = f.asked[log[i].round]
      BY <2>1, <1>5 DEF IsSent, UserMessage
    <2> QED
      BY <2>2, <1>4, <1>5 DEF SentIsStored
  <1>7. \A r \in 1..Round(t) : Stored(log, AssistantMessage(t, r, f.asked[r]))
    BY <1>4, <1>5 DEF SentIsStored
  <1>8. f.pc = "finish" => AnswerStored(log, t)
    BY <1>1, <1>3, <1>7 DEF FrameOK, Rounds, Round, AnswerStored
  <1>9. f.pc = "giveup" => RoundsUsedUp(log, t)
    <2>1. f.pc = "giveup" => /\ Round(t) = MaxToolCalls
                             /\ \A r \in 1..Round(t) : f.asked[r] \in Batches \ {0}
      BY <1>1, <1>2, <1>3 DEF FrameOK, Rounds, Round
    <2> QED
      BY <2>1, <1>7 DEF RoundsUsedUp
  <1> QED
    BY <1>6, <1>8, <1>9

LEMMA EndStep ==
  ASSUME IInv, NEW t \in Turns, CompleteTurn(t) \/ GiveUpTurn(t)
  PROVE  IInv'
  <1>1. LocalInv /\ LocalInv'
    BY EndKeepsLocal DEF IInv
  <1>2. /\ UNCHANGED <<sessions, messages, session, removed>>
        /\ chat[t].pc \in {"finish", "giveup"}
        /\ UpsertRow(t) \/ UNCHANGED history
        /\ \E outcome \in Ended : Return(t, outcome)
    BY DEF CompleteTurn, GiveUpTurn, Ended
  <1>3. /\ \A u \in Turns \ {t} : chat'[u] = chat[u]
        /\ chat'[t].pc \in Ended
        /\ chat'[t].seen = "none"
    BY <1>1, <1>2 DEF Return, AtRest, LocalInv, TypeOK
  <1>4. session[t] \in Sessions /\ Running(t)
    BY <1>1, <1>2 DEF LocalInv, Running, Ended
  <1>5. /\ history \in [Sessions -> SUBSET HistoryRow]
        /\ \A s \in Sessions : \A h \in history'[s] :
             \/ h \in history[s]
             \/ s = session[t] /\ \E answered \in BOOLEAN : h = TurnRow(t, answered)
    BY <1>1, <1>2 DEF UpsertRow, LocalInv, TypeOK
  <1>6. \A u \in Turns : SessionInv(u)' /\ TranscriptInv(u)'
    <2> SUFFICES ASSUME NEW u \in Turns PROVE SessionInv(u)' /\ TranscriptInv(u)'
      OBVIOUS
    <2>1. CASE u = t
      BY <1>3, <2>1 DEF SessionInv, TranscriptInv, Running
    <2>2. CASE u # t
      BY <1>1, <1>2, <1>3, <2>2, OthersKeepTheirs DEF IInv, SessionInv, Running
    <2> QED
      BY <2>1, <2>2
  <1>7. MessagesPlaced'
    <2>1. \A s \in Sessions : \A i \in DOMAIN messages[s] : messages[s][i].turn \in Turns
      BY <1>1, LogParts
    <2> QED
      BY <1>2, <1>3, <2>1 DEF IInv, MessagesPlaced, Ended
  <1>8. RowsPlaced'
    <2>1. \A answered \in BOOLEAN : TurnRow(t, answered).turn = t
      BY DEF TurnRow, Row
    <2> QED
      BY <1>2, <1>3, <1>5, <2>1 DEF IInv, RowsPlaced, HistoryRow
  <1>9. AnswersFollowCalls'
    BY <1>2 DEF IInv, AnswersFollowCalls, FollowsItsCall, StoredBefore, Precedes, Rank
  <1>10. RecordedTurnIsClosed'
    <2> SUFFICES ASSUME NEW s \in Sessions, NEW h \in history'[s], h.turn \notin removed
                 PROVE  /\ EveryCallAnswered(messages[s], h.turn)
                        /\ h.status = "complete" => AnswerStored(messages[s], h.turn)
                        /\ h.status = "incomplete" => RoundsUsedUp(messages[s], h.turn)
      BY <1>2 DEF RecordedTurnIsClosed, EveryCallAnswered, AnswerStored, RoundsUsedUp, Stored
    <2>1. CASE h \in history[s]
      BY <2>1 DEF IInv, RecordedTurnIsClosed
    <2>2. CASE s = session[t] /\ \E answered \in BOOLEAN : h = TurnRow(t, answered)
      <3>1. /\ h.turn = t
            /\ h.status = "complete" => chat[t].pc = "finish"
            /\ h.status = "incomplete" => chat[t].pc = "giveup"
        BY <1>2, <2>2 DEF TurnRow, Row
      <3> QED
        BY <1>2, <2>2, <3>1, ReportedTurnIsClosed
    <2> QED
      BY <1>5, <2>1, <2>2
  <1>11. OrphanRowsOnlyAfterRemoval'
    <2>1. session[t] \in sessions \/ t \in removed
      BY <1>2, <1>4 DEF IInv, SessionInv
    <2>2. \A answered \in BOOLEAN : TurnRow(t, answered).turn = t
      BY DEF TurnRow, Row
    <2> QED
      BY <1>2, <1>5, <2>1, <2>2 DEF IInv, OrphanRowsOnlyAfterRemoval, TurnsOf
  <1> QED
    BY <1>1, <1>6, <1>7, <1>8, <1>9, <1>10, <1>11 DEF IInv
-----------------------------------------------------------------------------
LEMMA BeginStep ==
  ASSUME IInv, NEW t \in Turns, NEW s \in Sessions, Begin(t, s)
  PROVE  IInv'
  <1>1. LocalInv /\ LocalInv'
    BY BeginKeepsLocal DEF IInv
  <1>2. UNCHANGED <<sessions, messages, history, removed>> /\ chat[t].pc = "idle"
    BY DEF Begin, store
  <1>3. \A u \in Turns \ {t} : chat'[u] = chat[u] /\ session'[u] = session[u]
    BY <1>1 DEF Begin, Return, LocalInv, TypeOK
  <1>4. /\ chat'[t].pc \in {"user", "failed"}
        /\ chat'[t].seen = "none"
        /\ chat'[t].asked = <<>>
        /\ session'[t] = s
    BY <1>1, <1>2 DEF Begin, Return, AtRest, LocalInv, TypeOK, Frame, FrameOK
  <1>5. \A r \in Sessions : \A i \in DOMAIN messages[r] :
          messages[r][i].turn \in Turns \ {t}
    BY <1>1, <1>2, LogParts DEF IInv, MessagesPlaced
  <1>6. \A r \in Sessions : \A h \in history[r] : h.turn \in Turns \ {t}
    <2>1. \A r \in Sessions : \A h \in history[r] : h.turn \in Turns
      BY DEF IInv, LocalInv, TypeOK, HistoryRow
    <2>2. \A r \in Sessions : \A h \in history[r] : chat[h.turn].pc # "idle"
      BY DEF IInv, RowsPlaced, Ended
    <2> QED
      BY <1>2, <2>1, <2>2
  <1>7. \A u \in Turns : SessionInv(u)' /\ TranscriptInv(u)'
    <2> SUFFICES ASSUME NEW u \in Turns PROVE SessionInv(u)' /\ TranscriptInv(u)'
      OBVIOUS
    <2>1. CASE u = t
      <3>1. SessionInv(t)'
        BY <1>4 DEF SessionInv, Running, Ended
      <3>2. CASE chat'[t].pc = "user"
        <4>1. OnlySentIsStored(t)'
          BY <1>2, <1>4, <1>5 DEF OnlySentIsStored
        <4>2. Round(t)' = 0 /\ AnswersSent(t)' = 0
          BY <1>4, <3>2 DEF Round, AnswersSent
        <4>3. SentIsStored(t)'
          BY <3>2, <4>2 DEF SentIsStored
        <4> QED
          BY <2>1, <3>1, <4>1, <4>3 DEF TranscriptInv
      <3>3. CASE chat'[t].pc = "failed"
        BY <2>1, <3>1, <3>3 DEF TranscriptInv, Running, Ended
      <3> QED
        BY <2>1, <1>4, <3>1, <3>2, <3>3
    <2>2. CASE u # t
      BY <1>1, <1>2, <1>3, <2>2, OthersKeepTheirs DEF IInv, SessionInv, Running
    <2> QED
      BY <2>1, <2>2
  <1>8. MessagesPlaced' /\ RowsPlaced'
    BY <1>2, <1>3, <1>5, <1>6 DEF IInv, MessagesPlaced, RowsPlaced
  <1>9. AnswersFollowCalls'
    <2> SUFFICES ASSUME NEW u \in Turns \ removed, session'[u] # NoSession,
                        NEW i \in DOMAIN messages[session'[u]],
                        messages[session'[u]][i].turn = u
                 PROVE  FollowsItsCall(messages[session'[u]], i)
      BY <1>2 DEF AnswersFollowCalls, FollowsItsCall, StoredBefore, Precedes, Rank
    <2>1. u # t
      BY <1>4, <1>5
    <2> QED
      BY <1>3, <2>1 DEF IInv, AnswersFollowCalls
  <1>10. RecordedTurnIsClosed' /\ OrphanRowsOnlyAfterRemoval'
    BY <1>2 DEF IInv, RecordedTurnIsClosed, EveryCallAnswered, AnswerStored, RoundsUsedUp, Stored,
       OrphanRowsOnlyAfterRemoval, TurnsOf
  <1> QED
    BY <1>1, <1>7, <1>8, <1>9, <1>10 DEF IInv

LEMMA CrashStep ==
  ASSUME IInv, NEW p \in Processes, Crash(p)
  PROVE  IInv'
  <1>1. LocalInv /\ LocalInv'
    BY CrashKeepsLocal DEF IInv
  <1>2. UNCHANGED <<sessions, messages, history, session, removed>>
    BY DEF Crash, store
  <1>3. \A u \in Turns : \/ chat'[u] = chat[u]
                         \/ chat'[u] = AtRest("dead") /\ Running(u)
    BY <1>1 DEF Crash, LocalInv, TypeOK
  <1>4. \A u \in Turns : SessionInv(u)' /\ TranscriptInv(u)'
    <2> SUFFICES ASSUME NEW u \in Turns PROVE SessionInv(u)' /\ TranscriptInv(u)'
      OBVIOUS
    <2>1. CASE chat'[u] = AtRest("dead")
      BY <2>1 DEF SessionInv, TranscriptInv, Running, AtRest, Ended
    <2>2. CASE chat'[u] = chat[u]
      BY <1>1, <1>2, <2>2, OthersKeepTheirs DEF IInv, SessionInv, Running
    <2> QED
      BY <1>3, <2>1, <2>2
  <1>5. MessagesPlaced'
    <2>1. \A u \in Turns : chat[u].pc # "idle" => chat'[u].pc # "idle"
      BY <1>3 DEF AtRest
    <2>2. \A s \in Sessions : \A i \in DOMAIN messages[s] : messages[s][i].turn \in Turns
      BY <1>1, LogParts
    <2> QED
      BY <1>2, <2>1, <2>2 DEF IInv, MessagesPlaced
  <1>6. RowsPlaced'
    <2>1. \A u \in Turns : chat[u].pc \in Ended => chat'[u].pc \in Ended
      BY <1>3 DEF AtRest, Ended
    <2>2. \A s \in Sessions : \A h \in history[s] : h.turn \in Turns
      BY <1>1 DEF LocalInv, TypeOK, HistoryRow
    <2> QED
      BY <1>2, <2>1, <2>2 DEF IInv, RowsPlaced
  <1>7. AnswersFollowCalls' /\ RecordedTurnIsClosed' /\ OrphanRowsOnlyAfterRemoval'
    <2>1. AnswersFollowCalls'
      BY <1>2 DEF IInv, AnswersFollowCalls, FollowsItsCall, StoredBefore, Precedes, Rank
    <2>2. RecordedTurnIsClosed'
      BY <1>2 DEF IInv, RecordedTurnIsClosed, EveryCallAnswered, AnswerStored, RoundsUsedUp, Stored
    <2>3. OrphanRowsOnlyAfterRemoval'
      BY <1>2 DEF IInv, OrphanRowsOnlyAfterRemoval, TurnsOf
    <2> QED
      BY <2>1, <2>2, <2>3
  <1> QED
    BY <1>1, <1>4, <1>5, <1>6, <1>7 DEF IInv

LEMMA RemovalStep ==
  ASSUME IInv, NEW c \in Clis, NEW s \in Sessions, RemoveSession(c, s)
  PROVE  IInv'
  <1>1. LocalInv /\ LocalInv'
    BY RemovalKeepsLocal DEF IInv
  <1>2. /\ UNCHANGED <<session, chat>>
        /\ sessions' = sessions \ {s}
        /\ removed' = removed \cup TurnsOn(s)
        /\ messages'[s] = <<>> /\ history'[s] = {}
        /\ \A r \in Sessions \ {s} : messages'[r] = messages[r] /\ history'[r] = history[r]
    BY <1>1 DEF RemoveSession, DeleteSession, LocalInv, TypeOK
  <1>3. DOMAIN messages'[s] = {}
    BY <1>2
  <1>4. \A u \in Turns : SessionInv(u)'
    BY <1>2 DEF IInv, SessionInv, Running, TurnsOn
  <1>5. \A u \in Turns : TranscriptInv(u)'
    <2> SUFFICES ASSUME NEW u \in Turns, u \notin removed', Running(u)
                 PROVE  OnlySentIsStored(u)' /\ SentIsStored(u)'
      BY <1>2 DEF TranscriptInv, Running
    <2>1. OnlySentIsStored(u) /\ SentIsStored(u)
      BY <1>2 DEF IInv, TranscriptInv
    <2>2. session[u] \in Sessions
      BY <1>1 DEF LocalInv, Running
    <2>3. CASE session[u] = s
      <3>1. chat[u].pc = "user"
        BY <1>2, <2>3 DEF TurnsOn
      <3>2. chat[u].asked = <<>>
        BY <1>1, <3>1 DEF LocalInv, FrameOK
      <3>3. Round(u)' = 0 /\ AnswersSent(u)' = 0
        BY <1>2, <3>1, <3>2 DEF Round, AnswersSent
      <3>4. SentIsStored(u)'
        BY <1>2, <3>1, <3>3 DEF SentIsStored
      <3> QED
        BY <1>2, <1>3, <2>3, <3>4 DEF OnlySentIsStored
    <2>4. CASE session[u] # s
      <3>1. /\ chat'[u] = chat[u] /\ session'[u] = session[u]
            /\ messages'[session[u]] = messages[session[u]]
        BY <1>2, <2>2, <2>4
      <3> QED
        BY <2>1, <3>1, SameFrameSameStore
    <2> QED
      BY <2>3, <2>4
  <1>6. MessagesPlaced' /\ RowsPlaced'
    BY <1>2, <1>3 DEF IInv, MessagesPlaced, RowsPlaced
  <1>7. AnswersFollowCalls'
    <2> SUFFICES ASSUME NEW u \in Turns, u \notin removed', session[u] # NoSession,
                        NEW i \in DOMAIN messages'[session[u]], messages'[session[u]][i].turn = u
                 PROVE  FollowsItsCall(messages'[session[u]], i)
      BY <1>2 DEF AnswersFollowCalls, FollowsItsCall, StoredBefore, Precedes, Rank
    <2>1. session[u] \in Sessions \ {s}
      BY <1>1, <1>2, <1>3 DEF LocalInv, TypeOK
    <2> QED
      BY <1>2, <2>1 DEF IInv, AnswersFollowCalls
  <1>8. RecordedTurnIsClosed'
    <2> SUFFICES ASSUME NEW r \in Sessions, NEW h \in history'[r], h.turn \notin removed'
                 PROVE  /\ EveryCallAnswered(messages'[r], h.turn)
                        /\ h.status = "complete" => AnswerStored(messages'[r], h.turn)
                        /\ h.status = "incomplete" => RoundsUsedUp(messages'[r], h.turn)
      BY DEF RecordedTurnIsClosed, EveryCallAnswered, AnswerStored, RoundsUsedUp, Stored
    <2>1. r # s
      BY <1>2
    <2> QED
      BY <1>2, <2>1 DEF IInv, RecordedTurnIsClosed
  <1>9. OrphanRowsOnlyAfterRemoval'
    BY <1>2, <1>3 DEF IInv, OrphanRowsOnlyAfterRemoval, TurnsOf
  <1> QED
    BY <1>1, <1>4, <1>5, <1>6, <1>7, <1>8, <1>9 DEF IInv
-----------------------------------------------------------------------------
(* The order of a log, seen at its end.                                    *)
LEMMA AppendStores ==
  ASSUME NEW log \in Seq(Message), NEW m \in Message
  PROVE  /\ Append(log, m) \in Seq(Message)
         /\ Len(Append(log, m)) = Len(log) + 1
         /\ DOMAIN Append(log, m) = 1..(Len(log) + 1)
         /\ DOMAIN log = 1..Len(log)
         /\ Len(log) \in Nat
         /\ \A i \in 1..Len(log) : Append(log, m)[i] = log[i]
         /\ Append(log, m)[Len(log) + 1] = m
  OBVIOUS

LEMMA AppendKeepsStored ==
  ASSUME NEW log \in Seq(Message), NEW m \in Message
  PROVE  /\ \A x : Stored(log, x) => Stored(Append(log, m), x)
         /\ Stored(Append(log, m), m)
         /\ \A x : StoredBefore(Append(log, m), Len(log) + 1, x) <=> Stored(log, x)
  BY AppendStores DEF Stored, StoredBefore

LEMMA AppendKeepsOrder ==
  ASSUME NEW log \in Seq(Message), NEW m \in Message, NEW i \in DOMAIN log,
         FollowsItsCall(log, i)
  PROVE  FollowsItsCall(Append(log, m), i)
  <1> DEFINE new == Append(log, m)
  <1>1. i \in 1..Len(log) /\ Len(log) \in Nat
    BY AppendStores
  <1>2. new[i] = log[i] /\ \A j \in 1..(i - 1) : new[j] = log[j]
    BY <1>1, AppendStores
  <1>3. \A x : StoredBefore(new, i, x) <=> StoredBefore(log, i, x)
    BY <1>2 DEF StoredBefore
  <1> QED
    BY <1>2, <1>3 DEF FollowsItsCall

(* The message a running turn stores next is in its place.                 *)
LEMMA NextMessageFollows ==
  ASSUME IInv, NEW t \in Turns, t \notin removed, chat[t].pc \in Emitting
  PROVE  LET log == messages[session[t]]
         IN  FollowsItsCall(Append(log, CurrentMessage(t)), Len(log) + 1)
  <1> DEFINE f == chat[t]
             log == messages[session[t]]
             m == CurrentMessage(t)
             new == Append(log, m)
             last == Len(log) + 1
  <1>1. f \in Frame /\ FrameOK(f) /\ session[t] \in Sessions /\ LocalInv
    BY DEF IInv, LocalInv, TypeOK, Emitting
  <1>2. /\ Round(t) \in Nat
        /\ f.delivered \in Nat
        /\ \A r \in 1..Round(t) : f.asked[r] \in Batches /\ f.asked[r] \in Nat
    BY <1>1, FrameParts DEF Rounds, Round
  <1>3. OnlySentIsStored(t) /\ SentIsStored(t)
    BY DEF IInv, TranscriptInv, Running, Ended, Emitting
  <1>4. log \in Seq(Message) /\ m \in Message /\ m.turn = t
    BY <1>1, LogParts, CurrentIsMessage
  <1>5. /\ new[last] = m
        /\ \A j \in 1..(last - 1) : j \in DOMAIN log /\ new[j] = log[j]
        /\ \A x : StoredBefore(new, last, x) <=> Stored(log, x)
    BY <1>4, AppendStores, AppendKeepsStored
  <1>6. \A r \in 1..(Round(t) - 1) : f.asked[r] \in Batches \ {0}
    BY <1>1, <1>2 DEF FrameOK, Rounds, Round
  <1>7. CASE f.pc = "user"
    <2>1. m = UserMessage(t)
      BY <1>7 DEF CurrentMessage
    <2>2. Round(t) = 0 /\ AnswersSent(t) = 0
      BY <1>1, <1>7 DEF FrameOK, Round, AnswersSent
    <2>3. \A j \in DOMAIN log : log[j].turn # t
      BY <1>3, <1>7, <2>2 DEF OnlySentIsStored, IsSent
    <2> QED
      BY <1>5, <2>1, <2>3 DEF FollowsItsCall, UserMessage
  <1>8. CASE f.pc = "assistant"
    <2>1. m = AssistantMessage(t, Round(t), LastBatch(t)) /\ Round(t) >= 1
      BY <1>1, <1>8 DEF CurrentMessage, FrameOK, Rounds, Round
    <2>2. /\ AnswersSent(t) = Round(t) - 1
          /\ \A r \in 1..(Round(t) - 1) : ResultsSent(t, r) = f.asked[r]
          /\ ResultsSent(t, Round(t)) = 0
      BY <1>1, <1>2, <1>8 DEF AnswersSent, ResultsSent, FrameOK
    <2>3. \A j \in DOMAIN log : log[j].turn = t => Precedes(log[j], m)
      BY <1>2, <1>3, <2>1, <2>2 DEF OnlySentIsStored, IsSent, Precedes, Rank, UserMessage, AssistantMessage
    <2>4. Stored(log, UserMessage(t))
      BY <1>3, <1>8 DEF SentIsStored
    <2>5. Round(t) > 1 =>
            /\ f.asked[Round(t) - 1] \in Batches \ {0}
            /\ Stored(log, AssistantMessage(t, Round(t) - 1, f.asked[Round(t) - 1]))
            /\ \A k \in 1..f.asked[Round(t) - 1] : Stored(log, ToolMessage(t, Round(t) - 1, k))
      BY <1>2, <1>3, <1>6, <2>1, <2>2 DEF SentIsStored
    <2>6. m.role = "assistant" /\ m.turn = t /\ m.round = Round(t)
      BY <2>1 DEF AssistantMessage
    <2> QED
      BY <1>5, <2>3, <2>4, <2>5, <2>6 DEF FollowsItsCall
  <1>9. CASE f.pc = "results"
    <2>1. m = ToolMessage(t, Round(t), f.delivered + 1) /\ Round(t) >= 1
      BY <1>1, <1>9 DEF CurrentMessage, FrameOK, Rounds, Round
    <2>2. /\ AnswersSent(t) = Round(t)
          /\ ResultsSent(t, Round(t)) = f.delivered
          /\ \A r \in 1..(Round(t) - 1) : ResultsSent(t, r) = f.asked[r]
      BY <1>1, <1>2, <1>9 DEF AnswersSent, ResultsSent
    <2>3. \A j \in DOMAIN log : log[j].turn = t => Precedes(log[j], m)
      BY <1>2, <1>3, <2>1, <2>2 DEF OnlySentIsStored, IsSent, Precedes, Rank, UserMessage, ToolMessage
    <2>4. Stored(log, UserMessage(t))
      BY <1>3, <1>9 DEF SentIsStored
    <2>5. /\ f.asked[Round(t)] \in Batches
          /\ f.delivered + 1 <= f.asked[Round(t)]
          /\ Stored(log, AssistantMessage(t, Round(t), f.asked[Round(t)]))
      BY <1>1, <1>2, <1>3, <1>9, <2>1, <2>2 DEF SentIsStored, FrameOK, Rounds, Round
    <2>6. f.delivered + 1 > 1 => Stored(log, ToolMessage(t, Round(t), f.delivered))
      BY <1>2, <1>3, <2>1, <2>2 DEF SentIsStored
    <2>7. m.role = "tool" /\ m.turn = t /\ m.round = Round(t) /\ m.n = f.delivered + 1
      BY <2>1 DEF ToolMessage
    <2>8. m.n - 1 = f.delivered
      BY <1>2, <2>7
    <2> QED
      BY <1>5, <2>3, <2>4, <2>5, <2>6, <2>7, <2>8 DEF FollowsItsCall
  <1> QED
    BY <1>7, <1>8, <1>9 DEF Emitting

(* Once the message is stored and the turn goes on, the frame accounts for *)
(* that message and the earlier ones.                                      *)
LEMMA HandledMovesOn ==
  ASSUME LocalInv, NEW t \in Turns, chat[t].pc \in Emitting, MessageHandled(t),
         Running(t)'
  PROVE  /\ chat'[t].asked = chat[t].asked
         /\ chat'[t].pc = AfterMessage(t)
         /\ chat'[t].delivered = IF MoreResults(t) THEN chat[t].delivered + 1 ELSE 0
         /\ chat'[t].seen = "none"
  BY DEF MessageHandled, Return, AtRest, Running, Ended, LocalInv, TypeOK, Frame

LEMMA InsertKeepsTranscript ==
  ASSUME IInv, NEW t \in Turns, InsertMessage(t), t \notin removed, Running(t)'
  PROVE  TranscriptInv(t)'
  <1> DEFINE f == chat[t]
             log == messages[session[t]]
             m == CurrentMessage(t)
             new == Append(log, m)
  <1>1. f \in Frame /\ FrameOK(f) /\ f.pc \in Emitting /\ session[t] \in Sessions /\ LocalInv
    BY DEF IInv, LocalInv, TypeOK, Emitting, InsertMessage
  <1>2. /\ Round(t) \in Nat
        /\ f.delivered \in Nat
        /\ \A r \in 1..Round(t) : f.asked[r] \in Nat
    BY <1>1, FrameParts DEF Rounds, Round
  <1>3. OnlySentIsStored(t) /\ SentIsStored(t)
    BY <1>1 DEF IInv, TranscriptInv, Running, Ended, Emitting
  <1>4. log \in Seq(Message) /\ m \in Message
    BY <1>1, LogParts, CurrentIsMessage
  <1>5. messages'[session'[t]] = new /\ session' = session /\ removed' = removed
    BY <1>1 DEF InsertMessage, LocalInv, TypeOK
  <1>6. /\ DOMAIN new = 1..(Len(log) + 1)
        /\ DOMAIN log = 1..Len(log)
        /\ Len(log) \in Nat
        /\ \A i \in 1..Len(log) : new[i] = log[i]
        /\ new[Len(log) + 1] = m
        /\ \A x : Stored(log, x) => Stored(new, x)
        /\ Stored(new, m)
    BY <1>4, AppendStores, AppendKeepsStored
  <1>7. /\ chat'[t].asked = f.asked
        /\ chat'[t].pc = AfterMessage(t)
        /\ chat'[t].delivered = IF MoreResults(t) THEN f.delivered + 1 ELSE 0
    BY <1>1, HandledMovesOn DEF InsertMessage
  <1>8. Round(t)' = Round(t)
    BY <1>7 DEF Round
  <1>9. CASE f.pc = "user"
    <2>1. m = UserMessage(t) /\ chat'[t].pc = "read" /\ Round(t) = 0
      BY <1>1, <1>7, <1>9 DEF CurrentMessage, AfterMessage, FrameOK, Round
    <2>2. AnswersSent(t)' = 0 /\ AnswersSent(t) = 0
      BY <1>8, <1>9, <2>1 DEF AnswersSent
    <2>3. \A x : IsSent(t, x) => FALSE
      BY <1>9, <2>1, <2>2 DEF IsSent
    <2>4. \A x : x = m => IsSent(t, x)'
      BY <2>1 DEF IsSent
    <2>5. OnlySentIsStored(t)'
      BY <1>3, <1>5, <1>6, <2>3, <2>4 DEF OnlySentIsStored
    <2>6. SentIsStored(t)'
      BY <1>5, <1>6, <1>8, <2>1, <2>2 DEF SentIsStored
    <2> QED
      BY <2>5, <2>6 DEF TranscriptInv
  <1>10. CASE f.pc = "assistant"
    <2>1. /\ m = AssistantMessage(t, Round(t), LastBatch(t))
          /\ Round(t) >= 1
          /\ chat'[t].pc \in {"finish", "tools"}
          /\ chat'[t].pc = "finish" => LastBatch(t) = 0
          /\ chat'[t].delivered = 0
      BY <1>1, <1>7, <1>10 DEF CurrentMessage, AfterMessage, MoreResults, FrameOK, Rounds, Round
    <2>2. /\ AnswersSent(t) = Round(t) - 1
          /\ AnswersSent(t)' = Round(t)
          /\ \A r \in 1..Round(t) : ResultsSent(t, r)' = ResultsSent(t, r)
      BY <1>1, <1>2, <1>7, <1>8, <1>10, <2>1 DEF AnswersSent, ResultsSent, LastBatch, FrameOK, Round
    <2>3. \A x : IsSent(t, x) => IsSent(t, x)'
      BY <1>2, <1>7, <1>8, <1>10, <2>1, <2>2 DEF IsSent, UserMessage
    <2>4. \A x : x = m => IsSent(t, x)'
      BY <1>2, <1>7, <1>8, <2>1, <2>2 DEF IsSent, AssistantMessage, LastBatch
    <2>5. OnlySentIsStored(t)'
      BY <1>3, <1>5, <1>6, <2>3, <2>4 DEF OnlySentIsStored
    <2>6. /\ Stored(new, UserMessage(t))
          /\ \A r \in 1..Round(t) : Stored(new, AssistantMessage(t, r, f.asked[r]))
          /\ \A r \in 1..Round(t) : \A k \in 1..ResultsSent(t, r) : Stored(new, ToolMessage(t, r, k))
      BY <1>2, <1>3, <1>6, <1>10, <2>1, <2>2 DEF SentIsStored, LastBatch
    <2>7. SentIsStored(t)'
      BY <1>5, <1>7, <1>8, <2>2, <2>6 DEF SentIsStored
    <2> QED
      BY <2>5, <2>7 DEF TranscriptInv
  <1>11. CASE f.pc = "results"
    <2>1. /\ m = ToolMessage(t, Round(t), f.delivered + 1)
          /\ Round(t) >= 1
          /\ f.delivered < LastBatch(t)
          /\ LastBatch(t) \in Nat
          /\ LastBatch(t) = f.asked[Round(t)]
      BY <1>1, <1>2, <1>11 DEF CurrentMessage, FrameOK, Rounds, Round, LastBatch
    <2>2. /\ chat'[t].pc # "user"
          /\ AnswersSent(t) = Round(t)
          /\ AnswersSent(t)' = Round(t)
      BY <1>7, <1>8, <1>11 DEF AnswersSent, AfterMessage
    <2>3. /\ ResultsSent(t, Round(t)) = f.delivered
          /\ ResultsSent(t, Round(t))' = f.delivered + 1
          /\ \A r \in 1..(Round(t) - 1) : ResultsSent(t, r)' = ResultsSent(t, r)
      <3>1. CASE MoreResults(t)
        BY <1>2, <1>7, <1>8, <1>11, <2>1, <3>1 DEF ResultsSent, AfterMessage
      <3>2. CASE ~MoreResults(t)
        <4>1. f.delivered + 1 = LastBatch(t) /\ chat'[t].pc \in {"read", "giveup"}
          BY <1>2, <1>7, <1>11, <2>1, <3>2 DEF MoreResults, AfterMessage
        <4> QED
          BY <1>2, <1>7, <1>8, <1>11, <2>1, <4>1 DEF ResultsSent
      <3> QED
        BY <3>1, <3>2
    <2>4. \A x : IsSent(t, x) => IsSent(t, x)'
      BY <1>2, <1>7, <1>8, <2>1, <2>2, <2>3 DEF IsSent, UserMessage
    <2>5. \A x : x = m => IsSent(t, x)'
      BY <1>2, <1>8, <2>1, <2>3 DEF IsSent, ToolMessage
    <2>6. OnlySentIsStored(t)'
      BY <1>3, <1>5, <1>6, <2>4, <2>5 DEF OnlySentIsStored
    <2>7. /\ Stored(new, UserMessage(t))
          /\ \A r \in 1..Round(t) : Stored(new, AssistantMessage(t, r, f.asked[r]))
          /\ \A r \in 1..(Round(t) - 1) : \A k \in 1..ResultsSent(t, r) : Stored(new, ToolMessage(t, r, k))
          /\ \A k \in 1..(f.delivered + 1) : Stored(new, ToolMessage(t, Round(t), k))
      BY <1>2, <1>3, <1>6, <1>11, <2>1, <2>2, <2>3, SMTT(30) DEF SentIsStored
    <2>8. SentIsStored(t)'
      <3>1. \A r \in 1..Round(t) : \A k \in 1..ResultsSent(t, r)' : Stored(new, ToolMessage(t, r, k))
        BY <1>2, <1>8, <2>1, <2>3, <2>7
      <3> QED
        BY <1>5, <1>7, <1>8, <2>2, <2>7, <3>1, SMTT(30) DEF SentIsStored
    <2> QED
      BY <2>6, <2>8 DEF TranscriptInv
  <1> QED
    BY <1>1, <1>9, <1>10, <1>11 DEF Emitting

LEMMA InsertStep ==
  ASSUME IInv, NEW t \in Turns, InsertMessage(t)
  PROVE  IInv'
  <1> DEFINE log == messages[session[t]]
             m == CurrentMessage(t)
             new == Append(log, m)
  <1>1. LocalInv /\ LocalInv' /\ FrameStep(t)
    BY InsertKeepsLocal, MessageHandledIsSound DEF IInv, InsertMessage
  <1>2. /\ UNCHANGED <<sessions, history, session, removed>>
        /\ chat[t].pc \in Emitting
        /\ chat[t].seen = "present"
        /\ Running(t)
        /\ MessageHandled(t)
    BY DEF InsertMessage, Running, Emitting, Ended
  <1>3. session[t] \in Sessions
    BY <1>1, <1>2 DEF LocalInv, Emitting
  <1>4. /\ messages \in [Sessions -> Seq(Message)]
        /\ messages'[session[t]] = new
        /\ \A s \in Sessions \ {session[t]} : messages'[s] = messages[s]
    BY <1>1, <1>3 DEF InsertMessage, LocalInv, TypeOK
  <1>5. log \in Seq(Message) /\ m \in Message /\ m.turn = t
    BY <1>1, <1>2, <1>3, LogParts, CurrentIsMessage
  <1>6. /\ DOMAIN new = 1..(Len(log) + 1)
        /\ DOMAIN log = 1..Len(log)
        /\ Len(log) \in Nat
        /\ \A i \in 1..Len(log) : new[i] = log[i]
        /\ new[Len(log) + 1] = m
        /\ \A x : Stored(log, x) => Stored(new, x)
    BY <1>5, AppendStores, AppendKeepsStored
  <1>7. \A i \in DOMAIN new : \/ i \in DOMAIN log /\ new[i] = log[i]
                              \/ i = Len(log) + 1 /\ new[i] = m
    BY <1>6
  <1>8. session[t] \in sessions \/ t \in removed
    BY <1>2 DEF IInv, SessionInv
  <1>9. /\ \A u \in Turns \ {t} : chat'[u] = chat[u]
        /\ chat'[t].pc # "idle"
        /\ chat'[t].seen = "none"
    <2>1. CASE Return(t, "failed")
      BY <1>1, <2>1 DEF Return, AtRest, LocalInv, TypeOK, FrameStep
    <2>2. CASE ~Return(t, "failed")
      <3>1. AfterMessage(t) # "idle"
        BY <1>2 DEF AfterMessage, Emitting
      <3> QED
        BY <1>1, <1>2, <2>2, <3>1 DEF MessageHandled, LocalInv, TypeOK, FrameStep, Frame
    <2> QED
      BY <2>1, <2>2
  <1>10. SessionInv(t)' /\ TranscriptInv(t)'
    <2>1. SessionInv(t)'
      BY <1>2, <1>8, <1>9 DEF SessionInv
    <2>2. TranscriptInv(t)'
      BY <1>2, InsertKeepsTranscript DEF TranscriptInv
    <2> QED
      BY <2>1, <2>2
  <1>11. \A u \in Turns \ {t} : SessionInv(u)' /\ TranscriptInv(u)'
    <2> SUFFICES ASSUME NEW u \in Turns \ {t} PROVE SessionInv(u)' /\ TranscriptInv(u)'
      OBVIOUS
    <2>1. SessionInv(u)'
      BY <1>2, <1>9 DEF IInv, SessionInv, Running
    <2>2. CASE session[u] # session[t]
      <3>1. Running(u) => messages'[session[u]] = messages[session[u]]
        BY <1>1, <1>4, <2>2 DEF LocalInv, Running
      <3>2. CASE Running(u)
        BY <1>1, <1>2, <1>9, <2>1, <3>1, <3>2, OthersKeepTheirs DEF IInv
      <3>3. CASE ~Running(u)
        BY <1>9, <2>1, <3>3 DEF TranscriptInv, Running
      <3> QED
        BY <2>1, <3>2, <3>3
    <2>3. CASE session[u] = session[t]
      <3> SUFFICES ASSUME u \notin removed, Running(u)
                   PROVE  OnlySentIsStored(u)' /\ SentIsStored(u)'
        BY <2>1, <1>2, <1>9 DEF TranscriptInv, Running
      <3>1. OnlySentIsStored(u) /\ SentIsStored(u)
        BY DEF IInv, TranscriptInv
      <3>2. messages'[session'[u]] = new
        BY <1>2, <1>4, <2>3
      <3>3. /\ \A x : IsSent(u, x)' <=> IsSent(u, x)
            /\ AnswersSent(u)' = AnswersSent(u)
            /\ Round(u)' = Round(u)
            /\ \A r : ResultsSent(u, r)' = ResultsSent(u, r)
        BY <1>9 DEF IsSent, AnswersSent, ResultsSent, Round
      <3>4. OnlySentIsStored(u)'
        BY <1>5, <1>7, <2>3, <3>1, <3>2, <3>3 DEF OnlySentIsStored
      <3>5. SentIsStored(u)'
        BY <1>6, <1>9, <2>3, <3>1, <3>2, <3>3 DEF SentIsStored
      <3> QED
        BY <3>4, <3>5
    <2> QED
      BY <2>1, <2>2, <2>3
  <1>12. MessagesPlaced'
    <2> SUFFICES ASSUME NEW s \in Sessions, NEW i \in DOMAIN messages'[s]
                 PROVE  /\ session[messages'[s][i].turn] = s
                        /\ chat'[messages'[s][i].turn].pc # "idle"
      BY <1>2 DEF MessagesPlaced
    <2>1. CASE i \in DOMAIN messages[s] /\ messages'[s][i] = messages[s][i]
      <3>1. messages[s][i].turn \in Turns
        BY <1>1, <2>1, LogParts
      <3> QED
        BY <1>9, <2>1, <3>1 DEF IInv, MessagesPlaced
    <2>2. CASE s = session[t] /\ messages'[s][i] = m
      BY <1>5, <1>9, <2>2
    <2> QED
      BY <1>4, <1>7, <2>1, <2>2
  <1>13. RowsPlaced'
    <2>1. \A s \in Sessions : \A h \in history[s] : h.turn \in Turns
      BY <1>1 DEF LocalInv, TypeOK, HistoryRow
    <2> QED
      BY <1>2, <1>9, <2>1 DEF IInv, RowsPlaced, Running
  <1>14. AnswersFollowCalls'
    <2> SUFFICES ASSUME NEW u \in Turns, u \notin removed, session[u] # NoSession,
                        NEW i \in DOMAIN messages'[session[u]], messages'[session[u]][i].turn = u
                 PROVE  FollowsItsCall(messages'[session[u]], i)
      BY <1>2 DEF AnswersFollowCalls, FollowsItsCall, StoredBefore, Precedes, Rank
    <2>1. session[u] \in Sessions
      BY <1>1 DEF LocalInv, TypeOK
    <2>2. CASE session[u] # session[t]
      BY <1>4, <2>1, <2>2 DEF IInv, AnswersFollowCalls
    <2>3. CASE session[u] = session[t] /\ i \in DOMAIN log
      <3>0. log[i].turn = u
        BY <1>4, <1>6, <2>3
      <3>1. FollowsItsCall(log, i)
        BY <2>3, <3>0 DEF IInv, AnswersFollowCalls
      <3> QED
        BY <1>4, <1>5, <2>3, <3>1, AppendKeepsOrder
    <2>4. CASE session[u] = session[t] /\ i = Len(log) + 1
      <3>1. u = t
        BY <1>4, <1>5, <1>6, <2>4
      <3> QED
        BY <1>2, <1>4, <2>4, <3>1, NextMessageFollows
    <2> QED
      BY <1>4, <1>7, <2>2, <2>3, <2>4
  <1>15. RecordedTurnIsClosed'
    <2> SUFFICES ASSUME NEW s \in Sessions, NEW h \in history[s], h.turn \notin removed
                 PROVE  /\ EveryCallAnswered(messages'[s], h.turn)
                        /\ h.status = "complete" => AnswerStored(messages'[s], h.turn)
                        /\ h.status = "incomplete" => RoundsUsedUp(messages'[s], h.turn)
      BY <1>2 DEF RecordedTurnIsClosed, EveryCallAnswered, AnswerStored, RoundsUsedUp, Stored
    <2>1. /\ EveryCallAnswered(messages[s], h.turn)
          /\ h.status = "complete" => AnswerStored(messages[s], h.turn)
          /\ h.status = "incomplete" => RoundsUsedUp(messages[s], h.turn)
      BY DEF IInv, RecordedTurnIsClosed
    <2>2. CASE s # session[t]
      BY <1>4, <2>1, <2>2
    <2>3. CASE s = session[t]
      <3>1. h.turn # t
        BY <1>2 DEF IInv, RowsPlaced, Running
      <3>2. EveryCallAnswered(new, h.turn)
        BY <1>5, <1>6, <1>7, <2>1, <2>3, <3>1 DEF EveryCallAnswered
      <3>3. AnswerStored(log, h.turn) => AnswerStored(new, h.turn)
        BY <1>6 DEF AnswerStored
      <3>4. RoundsUsedUp(log, h.turn) => RoundsUsedUp(new, h.turn)
        BY <1>6 DEF RoundsUsedUp
      <3> QED
        BY <1>4, <2>1, <2>3, <3>2, <3>3, <3>4
    <2> QED
      BY <2>2, <2>3
  <1>16. OrphanRowsOnlyAfterRemoval'
    <2> SUFFICES ASSUME NEW s \in Sessions \ sessions, NEW i \in DOMAIN messages'[s]
                 PROVE  messages'[s][i].turn \in removed
      BY <1>2 DEF IInv, OrphanRowsOnlyAfterRemoval, TurnsOf
    <2>1. CASE i \in DOMAIN messages[s] /\ messages'[s][i] = messages[s][i]
      BY <2>1 DEF IInv, OrphanRowsOnlyAfterRemoval, TurnsOf
    <2>2. CASE s = session[t] /\ messages'[s][i] = m
      BY <1>5, <1>8, <2>2
    <2> QED
      BY <1>4, <1>7, <2>1, <2>2
  <1> QED
    BY <1>1, <1>10, <1>11, <1>12, <1>13, <1>14, <1>15, <1>16 DEF IInv
-----------------------------------------------------------------------------
LEMMA InvInit == Init => IInv
  <1> SUFFICES ASSUME Init PROVE IInv
    OBVIOUS
  <1>1. LocalInv
    BY LocalInit
  <1>2. /\ \A t \in Turns : chat[t] = AtRest("idle") /\ session[t] = NoSession
        /\ \A s \in Sessions : messages[s] = <<>> /\ history[s] = {}
    BY DEF Init
  <1>3. \A s \in Sessions : DOMAIN messages[s] = {}
    BY <1>2
  <1>4. \A t \in Turns : SessionInv(t) /\ TranscriptInv(t)
    BY <1>2 DEF SessionInv, TranscriptInv, Running, AtRest
  <1>5. MessagesPlaced /\ RowsPlaced /\ RecordedTurnIsClosed
    BY <1>2, <1>3 DEF MessagesPlaced, RowsPlaced, RecordedTurnIsClosed
  <1>6. AnswersFollowCalls
    BY <1>2 DEF AnswersFollowCalls
  <1>7. OrphanRowsOnlyAfterRemoval
    BY <1>2, <1>3 DEF OrphanRowsOnlyAfterRemoval, TurnsOf
  <1> QED
    BY <1>1, <1>4, <1>5, <1>6, <1>7 DEF IInv

LEMMA InvStep == IInv /\ [Next]_vars => IInv'
  <1> SUFFICES ASSUME IInv, [Next]_vars PROVE IInv'
    OBVIOUS
  <1>1. CASE UNCHANGED vars
    <2>1. LocalInv'
      BY LocalStep DEF IInv
    <2>2. UNCHANGED <<sessions, messages, history, session, chat, removed>>
      BY <1>1 DEF vars, store
    <2>3. \A t \in Turns : SessionInv(t)' /\ TranscriptInv(t)'
      <3>1. \A t \in Turns : SessionInv(t)'
        BY <2>2 DEF IInv, SessionInv, Running
      <3>2. \A t \in Turns : TranscriptInv(t)'
        BY <2>2, OthersKeepTheirs DEF IInv
      <3> QED
        BY <3>1, <3>2
    <2>4. MessagesPlaced' /\ RowsPlaced' /\ OrphanRowsOnlyAfterRemoval'
      BY <2>2 DEF IInv, MessagesPlaced, RowsPlaced, OrphanRowsOnlyAfterRemoval, TurnsOf
    <2>5. AnswersFollowCalls'
      BY <2>2 DEF IInv, AnswersFollowCalls, FollowsItsCall, StoredBefore, Precedes, Rank
    <2>6. RecordedTurnIsClosed'
      BY <2>2 DEF IInv, RecordedTurnIsClosed, EveryCallAnswered, AnswerStored, RoundsUsedUp, Stored
    <2> QED
      BY <2>1, <2>3, <2>4, <2>5, <2>6 DEF IInv
  <1>2. ASSUME NEW t \in Turns, NEW s \in Sessions, Begin(t, s) PROVE IInv'
    BY <1>2, BeginStep
  <1>3. ASSUME NEW t \in Turns, Progress(t) \/ Cancel(t) PROVE IInv'
    <2>1. CASE InsertMessage(t)
      BY <2>1, InsertStep
    <2>2. CASE CompleteTurn(t) \/ GiveUpTurn(t)
      BY <2>2, EndStep
    <2>3. CASE Quiet(t) \/ Silent(t)
      BY <2>3, QuietOrSilentStep
    <2> QED
      BY <1>3, <2>1, <2>2, <2>3 DEF Progress, Quiet, Silent
  <1>4. ASSUME NEW p \in Processes, Crash(p) PROVE IInv'
    BY <1>4, CrashStep
  <1>5. ASSUME NEW c \in Clis, NEW s \in Sessions, RemoveSession(c, s) PROVE IInv'
    BY <1>5, RemovalStep
  <1> QED
    BY <1>1, <1>2, <1>3, <1>4, <1>5 DEF Next

LEMMA Inductive == Spec => []IInv
  BY InvInit, InvStep, PTL DEF Spec

(* What is stored of a turn is a legal beginning of one exchange, however  *)
(* many turns share a session and wherever they stop.                      *)
THEOREM AnswersAlwaysFollowCalls == Spec => []AnswersFollowCalls
  <1>1. IInv => AnswersFollowCalls
    BY DEF IInv
  <1> QED
    BY Inductive, <1>1, PTL

(* A history row is only ever written over a closed exchange.              *)
THEOREM RowsDescribeClosedTurns == Spec => []RecordedTurnIsClosed
  <1>1. IInv => RecordedTurnIsClosed
    BY DEF IInv
  <1> QED
    BY Inductive, <1>1, PTL

(* Only a removal under a running turn separates rows from their session.  *)
THEOREM OrphansComeFromRemovals == Spec => []OrphanRowsOnlyAfterRemoval
  <1>1. IInv => OrphanRowsOnlyAfterRemoval
    BY DEF IInv
  <1> QED
    BY Inductive, <1>1, PTL
-----------------------------------------------------------------------------
(* The refinement of TranscriptProtocol. The invariant already says which  *)
(* messages of a running turn are stored; here it is read as a transcript, *)
(* and each step of the store and of Chat as one of the protocol's.        *)
Open == {t \in Turns \ removed : chat[t].pc \notin Ended}

Transcripts == [t \in Turns |-> StoredOf(t)]
Records     == [t \in Turns |-> RecordOf(t)]
-----------------------------------------------------------------------------
(* What a step has to show to be a step of the protocol.                   *)
LEMMA StopsTurns ==
  ASSUME \A t \in Turns : StoredOf(t)' = StoredOf(t) /\ RecordOf(t)' = RecordOf(t),
         Open' \subseteq Open
  PROVE  Protocol!Next
  <1>1. Open \ Open' \in SUBSET Turns
    BY DEF Open
  <1>2. PICK turns \in SUBSET Turns : Open' = Open \ turns
    BY <1>1
  <1>3. Transcripts' = Transcripts /\ Records' = Records
    BY DEF Transcripts, Records
  <1>4. Protocol!Stop(turns)
    BY <1>2, <1>3 DEF Protocol!Stop, Open, Transcripts, Records
  <1> QED
    BY <1>4 DEF Protocol!Next

LEMMA GrowsTurn ==
  ASSUME NEW t \in Open, Open' \in {Open, Open \ {t}},
         \A u \in Turns : RecordOf(u)' = RecordOf(u),
         \A u \in Turns \ {t} : StoredOf(u)' = StoredOf(u),
         Protocol!Extends(t, StoredOf(t), StoredOf(t)')
  PROVE  Protocol!Next
  <1>1. t \in Turns
    BY DEF Open
  <1>2. Records' = Records
    BY DEF Records
  <1>3. /\ Transcripts[t] = StoredOf(t)
        /\ Transcripts'[t] = StoredOf(t)'
        /\ Transcripts' = [Transcripts EXCEPT ![t] = Transcripts'[t]]
    BY <1>1 DEF Transcripts
  <1>4. Protocol!Extends(t, Transcripts[t], Transcripts'[t])
    BY <1>3
  <1>5. Protocol!Grow(t)
    BY <1>2, <1>3, <1>4 DEF Protocol!Grow, Open, Transcripts, Records
  <1> QED
    BY <1>1, <1>5 DEF Protocol!Next

LEMMA RecordsTurn ==
  ASSUME NEW t \in Open, Open' = Open \ {t},
         \A u \in Turns : StoredOf(u)' = StoredOf(u),
         \A u \in Turns \ {t} : RecordOf(u)' = RecordOf(u),
         Protocol!Held(StoredOf(t)) # {},
         Protocol!NextMessages(t, StoredOf(t)) = {},
         RecordOf(t)' = Protocol!StatusOf(StoredOf(t))
  PROVE  Protocol!Next
  <1>1. t \in Turns
    BY DEF Open
  <1>2. Transcripts' = Transcripts /\ Transcripts[t] = StoredOf(t)
    BY <1>1 DEF Transcripts
  <1>3. Records' = [Records EXCEPT ![t] = Protocol!StatusOf(Transcripts[t])]
    BY <1>1, <1>2 DEF Records
  <1>4. Protocol!Held(Transcripts[t]) # {} /\ Protocol!NextMessages(t, Transcripts[t]) = {}
    BY <1>2
  <1>5. Protocol!Record(t)
    BY <1>2, <1>3, <1>4 DEF Protocol!Record, Open, Transcripts, Records
  <1> QED
    BY <1>1, <1>5 DEF Protocol!Next

LEMMA ErasesTurns ==
  ASSUME NEW turns \in SUBSET Turns, Open' = Open \ turns,
         \A t \in turns : StoredOf(t)' = Protocol!Nothing /\ RecordOf(t)' = "none",
         \A t \in Turns \ turns : StoredOf(t)' = StoredOf(t) /\ RecordOf(t)' = RecordOf(t)
  PROVE  Protocol!Next
  <1>1. Records' = [t \in Turns |-> IF t \in turns THEN "none" ELSE Records[t]]
    BY DEF Records
  <1>2. Transcripts' = [t \in Turns |-> IF t \in turns THEN Protocol!Nothing ELSE Transcripts[t]]
    BY DEF Transcripts
  <1>3. Protocol!Erase(turns)
    BY <1>1, <1>2 DEF Protocol!Erase, Open, Transcripts, Records
  <1> QED
    BY <1>3 DEF Protocol!Next
-----------------------------------------------------------------------------
(* A log seen as the transcript of a turn.                                 *)
LEMMA HeldInLog ==
  ASSUME NEW log, NEW t
  PROVE  \A m : m \in Protocol!Held(StoredIn(log, t))
                  <=> \E i \in DOMAIN log : log[i] = m /\ m.turn = t
  BY DEF StoredIn, Protocol!Held

LEMMA NothingInLog ==
  ASSUME NEW log, NEW t, \A i \in DOMAIN log : log[i].turn # t
  PROVE  StoredIn(log, t) = Protocol!Nothing
  <1>1. {i \in DOMAIN log : log[i].turn = t} = {}
    OBVIOUS
  <1>2. StoredIn(log, t) = [place \in {} |-> log[place]]
    BY <1>1 DEF StoredIn
  <1>3. [place \in {} |-> log[place]] = [place \in {} |-> NoTurn]
    OBVIOUS
  <1> QED
    BY <1>2, <1>3 DEF Protocol!Nothing

LEMMA NothingInEmptyLog ==
  ASSUME NEW t
  PROVE  StoredIn(<<>>, t) = Protocol!Nothing /\ RecordIn({}, t) = "none"
  <1>1. \A i \in DOMAIN <<>> : <<>>[i].turn # t
    OBVIOUS
  <1>2. {h \in {} : h.turn = t} = {}
    OBVIOUS
  <1> QED
    BY <1>1, <1>2, NothingInLog DEF RecordIn, StatusIn

(* The frame of a running turn tells what its transcript holds: the        *)
(* answers sent so far, and the results of each.                           *)
LEMMA HeldIsSent ==
  ASSUME IInv, NEW t \in Turns \ removed, Running(t)
  PROVE  LET held == Protocol!Held(StoredOf(t))
         IN  /\ \A m \in held : m \in Message /\ m.turn = t /\ IsSent(t, m)
             /\ chat[t].pc # "user" => UserMessage(t) \in held
             /\ \A r \in 1..AnswersSent(t) : AssistantMessage(t, r, chat[t].asked[r]) \in held
             /\ \A r \in 1..Round(t) : \A k \in 1..ResultsSent(t, r) : ToolMessage(t, r, k) \in held
  <1> DEFINE log == messages[session[t]]
  <1>1. LocalInv /\ session[t] \in Sessions
    BY DEF IInv, LocalInv, Running
  <1>2. session[t] # NoSession
    BY <1>1, ConstantsAssumption
  <1>3. StoredOf(t) = StoredIn(log, t)
    BY <1>2 DEF StoredOf, LogOf
  <1>4. \A m : m \in Protocol!Held(StoredOf(t)) <=> \E i \in DOMAIN log : log[i] = m /\ m.turn = t
    BY <1>3, HeldInLog
  <1>5. \A i \in DOMAIN log : log[i] \in Message
    BY <1>1, LogParts
  <1>6. OnlySentIsStored(t) /\ SentIsStored(t)
    BY DEF IInv, TranscriptInv
  <1>7. \A m \in Protocol!Held(StoredOf(t)) : m \in Message /\ m.turn = t /\ IsSent(t, m)
    BY <1>4, <1>5, <1>6 DEF OnlySentIsStored
  <1>8. chat[t].pc # "user" => UserMessage(t) \in Protocol!Held(StoredOf(t))
    BY <1>4, <1>6 DEF SentIsStored, Stored, UserMessage
  <1>9. \A r \in 1..AnswersSent(t) :
          AssistantMessage(t, r, chat[t].asked[r]) \in Protocol!Held(StoredOf(t))
    BY <1>4, <1>6 DEF SentIsStored, Stored, AssistantMessage
  <1>10. \A r \in 1..Round(t) : \A k \in 1..ResultsSent(t, r) :
           ToolMessage(t, r, k) \in Protocol!Held(StoredOf(t))
    BY <1>4, <1>6 DEF SentIsStored, Stored, ToolMessage
  <1> QED
    BY <1>7, <1>8, <1>9, <1>10

LEMMA AnswersAreSent ==
  ASSUME IInv, NEW t \in Turns \ removed, Running(t)
  PROVE  Protocol!Answers(StoredOf(t))
           = {AssistantMessage(t, r, chat[t].asked[r]) : r \in 1..AnswersSent(t)}
  <1> DEFINE log == StoredOf(t)
  <1>1. ASSUME NEW m \in Protocol!Answers(log)
        PROVE  m \in {AssistantMessage(t, r, chat[t].asked[r]) : r \in 1..AnswersSent(t)}
    <2>1. m \in Message /\ m.turn = t /\ IsSent(t, m) /\ m.role = "assistant"
      BY <1>1, HeldIsSent DEF Protocol!Answers
    <2>2. m.round \in 1..AnswersSent(t) /\ m.n = chat[t].asked[m.round]
      BY <2>1 DEF IsSent, UserMessage
    <2>3. m = AssistantMessage(t, m.round, chat[t].asked[m.round])
      BY <2>1, <2>2 DEF Message, AssistantMessage
    <2> QED
      BY <2>2, <2>3
  <1>2. ASSUME NEW r \in 1..AnswersSent(t)
        PROVE  AssistantMessage(t, r, chat[t].asked[r]) \in Protocol!Answers(log)
    BY HeldIsSent DEF Protocol!Answers, AssistantMessage
  <1> QED
    BY <1>1, <1>2

(* A result is stored as soon as, and no sooner than, it is delivered.     *)
LEMMA ResultsAreSent ==
  ASSUME IInv, NEW t \in Turns \ removed, Running(t), NEW r \in 1..Round(t), NEW k
  PROVE  ToolMessage(t, r, k) \in Protocol!Held(StoredOf(t)) <=> k \in 1..ResultsSent(t, r)
  <1>1. ASSUME ToolMessage(t, r, k) \in Protocol!Held(StoredOf(t))
        PROVE  k \in 1..ResultsSent(t, r)
    <2>1. IsSent(t, ToolMessage(t, r, k))
      BY <1>1, HeldIsSent
    <2> QED
      BY <2>1 DEF IsSent, ToolMessage, UserMessage
  <1> QED
    BY <1>1, HeldIsSent

LEMMA AskedByAnswers ==
  ASSUME NEW t, NEW answers, NEW m
  PROVE  m \in Protocol!Asked(t, answers)
           <=> \E a \in answers : \E k \in 1..a.n : m = ToolMessage(t, a.round, k)
  <1> DEFINE ResultsOf(a) == {Protocol!ToolMessage(t, a.round, k) : k \in 1..a.n}
  <1>1. Protocol!Asked(t, answers) = UNION {ResultsOf(a) : a \in answers}
    BY DEF Protocol!Asked
  <1>2. \A a : m \in ResultsOf(a) <=> \E k \in 1..a.n : m = ToolMessage(t, a.round, k)
    BY DEF Protocol!ToolMessage, ToolMessage
  <1> HIDE DEF ResultsOf
  <1>3. m \in UNION {ResultsOf(a) : a \in answers} <=> \E a \in answers : m \in ResultsOf(a)
    OBVIOUS
  <1> QED
    BY <1>1, <1>2, <1>3

LEMMA OwedByRounds ==
  ASSUME IInv, NEW t \in Turns \ removed, Running(t)
  PROVE  \A m : m \in Protocol!Owed(t, StoredOf(t))
                  <=> \E r \in 1..AnswersSent(t) : \E k \in 1..chat[t].asked[r] :
                        m = ToolMessage(t, r, k) /\ k \notin 1..ResultsSent(t, r)
  <1> DEFINE log == StoredOf(t)
             asked == chat[t].asked
             answers == {AssistantMessage(t, r, asked[r]) : r \in 1..AnswersSent(t)}
  <1>1. \A m : (\E a \in answers : \E k \in 1..a.n : m = ToolMessage(t, a.round, k))
                 <=> \E r \in 1..AnswersSent(t) : \E k \in 1..asked[r] : m = ToolMessage(t, r, k)
    <2>1. \A r : AssistantMessage(t, r, asked[r]).round = r /\ AssistantMessage(t, r, asked[r]).n = asked[r]
      BY DEF AssistantMessage
    <2>2. \A a : a \in answers <=> \E r \in 1..AnswersSent(t) : a = AssistantMessage(t, r, asked[r])
      OBVIOUS
    <2> HIDE DEF answers, asked
    <2> QED
      BY <2>1, <2>2
  <1>2. \A r \in 1..AnswersSent(t) : r \in 1..Round(t)
    BY FrameParts DEF IInv, LocalInv, TypeOK, AnswersSent, Round, Rounds
  <1>3. \A r \in 1..AnswersSent(t) : \A k : ToolMessage(t, r, k) \in Protocol!Held(log)
                                              <=> k \in 1..ResultsSent(t, r)
    BY <1>2, ResultsAreSent
  <1>4. Protocol!Owed(t, log) = Protocol!Asked(t, answers) \ Protocol!Held(log)
    BY AnswersAreSent DEF Protocol!Owed
  <1> HIDE DEF answers
  <1>5. \A m : m \in Protocol!Asked(t, answers)
                 <=> \E r \in 1..AnswersSent(t) : \E k \in 1..asked[r] : m = ToolMessage(t, r, k)
    BY <1>1, AskedByAnswers
  <1> QED
    BY <1>3, <1>4, <1>5
-----------------------------------------------------------------------------
(* The frame of a turn, in the terms of the lemmas above.                  *)
LEMMA FrameOfTurn ==
  ASSUME IInv, NEW t \in Turns
  PROVE  /\ FrameOK(chat[t])
         /\ Round(t) \in Nat /\ Round(t) <= MaxToolCalls
         /\ chat[t].delivered \in Nat
         /\ \A r \in 1..Round(t) : chat[t].asked[r] \in Batches /\ chat[t].asked[r] \in Nat
         /\ \A r \in 1..(Round(t) - 1) : chat[t].asked[r] >= 1
  <1>1. chat[t] \in Frame /\ FrameOK(chat[t])
    BY DEF IInv, LocalInv, TypeOK
  <1> QED
    BY <1>1, FrameParts DEF FrameOK, Rounds, Round

LEMMA NothingOwed ==
  ASSUME IInv, NEW t \in Turns \ removed, Running(t), chat[t].pc \notin {"tools", "results"}
  PROVE  Protocol!Owed(t, StoredOf(t)) = {}
  <1>1. \A r \in 1..AnswersSent(t) : ResultsSent(t, r) = chat[t].asked[r]
    BY FrameOfTurn DEF AnswersSent, ResultsSent
  <1> QED
    BY <1>1, OwedByRounds

LEMMA FinalIsLast ==
  ASSUME IInv, NEW t \in Turns \ removed, Running(t)
  PROVE  Protocol!Final(StoredOf(t)) <=> \E r \in 1..AnswersSent(t) : chat[t].asked[r] = 0
  <1>1. \A m : m \in Protocol!Answers(StoredOf(t))
                 <=> \E r \in 1..AnswersSent(t) : m = AssistantMessage(t, r, chat[t].asked[r])
    BY AnswersAreSent
  <1>2. \A r : AssistantMessage(t, r, chat[t].asked[r]).n = chat[t].asked[r]
    BY DEF AssistantMessage
  <1> QED
    BY <1>1, <1>2 DEF Protocol!Final

LEMMA RoundsAnswered ==
  ASSUME IInv, NEW t \in Turns \ removed, Running(t)
  PROVE  {m.round : m \in Protocol!Answers(StoredOf(t))} = 1..AnswersSent(t)
  <1>1. \A m : m \in Protocol!Answers(StoredOf(t))
                 <=> \E r \in 1..AnswersSent(t) : m = AssistantMessage(t, r, chat[t].asked[r])
    BY AnswersAreSent
  <1>2. \A r : AssistantMessage(t, r, chat[t].asked[r]).round = r
    BY DEF AssistantMessage
  <1> QED
    BY <1>1, <1>2

(* The message a running turn stores next is one the protocol allows.      *)
LEMMA CurrentIsNext ==
  ASSUME IInv, NEW t \in Turns \ removed, chat[t].pc \in Emitting
  PROVE  CurrentMessage(t) \in Protocol!NextMessages(t, StoredOf(t))
  <1> DEFINE f == chat[t]
             log == StoredOf(t)
  <1>1. Running(t)
    BY DEF Running, Ended, Emitting
  <1>2. /\ FrameOK(f)
        /\ Round(t) \in Nat /\ Round(t) <= MaxToolCalls
        /\ f.delivered \in Nat
        /\ \A r \in 1..Round(t) : f.asked[r] \in Batches /\ f.asked[r] \in Nat
        /\ \A r \in 1..(Round(t) - 1) : f.asked[r] >= 1
    BY FrameOfTurn
  <1>3. CASE f.pc = "user"
    <2>1. Round(t) = 0 /\ AnswersSent(t) = 0
      BY <1>2, <1>3 DEF FrameOK, Round, AnswersSent
    <2>2. \A m \in Protocol!Held(log) : IsSent(t, m)
      BY <1>1, HeldIsSent
    <2>3. \A m : ~IsSent(t, m)
      BY <1>3, <2>1 DEF IsSent
    <2>4. Protocol!Held(log) = {}
      BY <2>2, <2>3
    <2> QED
      BY <1>3, <2>4 DEF CurrentMessage, UserMessage, Protocol!NextMessages, Protocol!UserMessage
  <1>4. CASE f.pc = "assistant"
    <2>1. AnswersSent(t) = Round(t) - 1 /\ Round(t) \in 1..MaxToolCalls
      BY <1>2, <1>4 DEF AnswersSent, FrameOK, Rounds, Round
    <2>2. Protocol!Held(log) # {}
      BY <1>1, <1>4, HeldIsSent
    <2>3. Protocol!Owed(t, log) = {}
      BY <1>1, <1>4, NothingOwed
    <2>4. ~Protocol!Final(log)
      BY <1>1, <1>2, <2>1, FinalIsLast
    <2>5. Round(t) \in Protocol!NextRounds(log)
      BY <1>1, <2>1, RoundsAnswered DEF Protocol!NextRounds
    <2>6. LastBatch(t) \in Batches
      BY <1>2, <2>1 DEF LastBatch
    <2>7. CurrentMessage(t) = Protocol!AssistantMessage(t, Round(t), LastBatch(t))
      BY <1>4 DEF CurrentMessage, AssistantMessage, Protocol!AssistantMessage
    <2> QED
      BY <2>2, <2>3, <2>4, <2>5, <2>6, <2>7 DEF Protocol!NextMessages
  <1>5. CASE f.pc = "results"
    <2>1. /\ AnswersSent(t) = Round(t)
          /\ Round(t) >= 1
          /\ \A r \in 1..(Round(t) - 1) : ResultsSent(t, r) = f.asked[r]
          /\ ResultsSent(t, Round(t)) = f.delivered
          /\ f.delivered < f.asked[Round(t)]
      BY <1>2, <1>5 DEF AnswersSent, ResultsSent, FrameOK, Rounds, Round
    <2>2. \A m : m \in Protocol!Owed(t, log)
                   <=> \E k \in 1..f.asked[Round(t)] :
                         m = ToolMessage(t, Round(t), k) /\ k \notin 1..f.delivered
      <3>1. \A r \in 1..Round(t) : r = Round(t) \/ r \in 1..(Round(t) - 1)
        BY <1>2
      <3> QED
        BY <1>1, <1>2, <2>1, <3>1, OwedByRounds
    <2>3. CurrentMessage(t) = ToolMessage(t, Round(t), f.delivered + 1)
      BY <1>5 DEF CurrentMessage
    <2>4. CurrentMessage(t) \in Protocol!Owed(t, log)
      BY <1>2, <2>1, <2>2, <2>3
    <2>5. \A o \in Protocol!Owed(t, log) : CurrentMessage(t).n <= o.n
      BY <1>2, <2>1, <2>2, <2>3 DEF ToolMessage
    <2>6. Protocol!Held(log) # {}
      BY <1>1, <1>5, HeldIsSent
    <2> QED
      BY <2>4, <2>5, <2>6 DEF Protocol!NextMessages
  <1> QED
    BY <1>3, <1>4, <1>5 DEF Emitting

(* When the end of a turn is reported, its transcript is closed, and the   *)
(* status of the row is the one the transcript has earned.                 *)
LEMMA ReportedIsClosed ==
  ASSUME IInv, NEW t \in Turns \ removed, chat[t].pc \in {"finish", "giveup"}
  PROVE  /\ Protocol!Held(StoredOf(t)) # {}
         /\ Protocol!NextMessages(t, StoredOf(t)) = {}
         /\ Protocol!Final(StoredOf(t)) <=> chat[t].pc = "finish"
  <1> DEFINE f == chat[t]
             log == StoredOf(t)
  <1>1. Running(t) /\ AnswersSent(t) = Round(t)
    BY DEF Running, Ended, AnswersSent
  <1>2. /\ FrameOK(f)
        /\ Round(t) \in 1..MaxToolCalls
        /\ \A r \in 1..(Round(t) - 1) : f.asked[r] >= 1
    BY FrameOfTurn, ConstantsAssumption DEF FrameOK, Rounds, Round
  <1>3. Protocol!Held(log) # {}
    BY <1>1, HeldIsSent
  <1>4. Protocol!Owed(t, log) = {}
    BY <1>1, NothingOwed
  <1>5. Protocol!Final(log) <=> f.pc = "finish"
    <2>1. CASE f.pc = "finish"
      BY <1>1, <1>2, <2>1, FinalIsLast DEF FrameOK, Rounds, Round
    <2>2. CASE f.pc = "giveup"
      <3>1. \A r \in 1..Round(t) : f.asked[r] >= 1
        BY <1>2, <2>2 DEF FrameOK, Rounds, Round
      <3> QED
        BY <1>1, <2>2, <3>1, FinalIsLast
    <2> QED
      BY <2>1, <2>2
  <1>6. f.pc = "giveup" => Protocol!NextRounds(log) = {}
    <2>1. f.pc = "giveup" => Round(t) = MaxToolCalls
      BY <1>2 DEF FrameOK, Rounds, Round
    <2>2. \A r \in 1..MaxToolCalls : 1..MaxToolCalls # 1..(r - 1)
      BY ConstantsAssumption
    <2> QED
      BY <1>1, <2>1, <2>2, RoundsAnswered DEF Protocol!NextRounds
  <1>7. Protocol!NextMessages(t, log) = {}
    BY <1>3, <1>4, <1>5, <1>6 DEF Protocol!NextMessages
  <1> QED
    BY <1>3, <1>5, <1>7
-----------------------------------------------------------------------------
(* The steps that store nothing: a turn may end, no more.                  *)
LEMMA NothingIsStored ==
  ASSUME UNCHANGED <<messages, history, session, removed>>,
         \A u \in Turns : chat[u].pc \in Ended => chat'[u].pc \in Ended
  PROVE  Protocol!Next
  <1>1. \A u \in Turns : LogOf(u)' = LogOf(u) /\ RowsOf(u)' = RowsOf(u)
    BY DEF LogOf, RowsOf
  <1>2. \A u \in Turns : StoredOf(u)' = StoredOf(u) /\ RecordOf(u)' = RecordOf(u)
    BY <1>1 DEF StoredOf, RecordOf
  <1>3. Open' \subseteq Open
    BY DEF Open
  <1> QED
    BY <1>2, <1>3, StopsTurns

LEMMA FrameStepIsProtocolStep ==
  ASSUME IInv, NEW t \in Turns, Quiet(t) \/ Silent(t)
  PROVE  Protocol!Next
  <1>1. UNCHANGED <<messages, history, session, removed>> /\ Running(t)
    BY DEF Quiet, Silent, CheckSession, MaterializeSession, SkipMessage, MessageFails, ReadMessages,
           ReadFails, ModelReplies, ModelFails, ExecuteTools, Cancel, store, Running, Emitting, Ended
  <1>2. \A u \in Turns \ {t} : chat'[u] = chat[u]
    BY <1>1, FrameStepsKeepLocal DEF IInv, Quiet, Silent, FrameStep
  <1> QED
    BY <1>1, <1>2, NothingIsStored DEF Running

LEMMA CrashIsProtocolStep ==
  ASSUME IInv, NEW p \in Processes, Crash(p)
  PROVE  Protocol!Next
  <1>1. \A u \in Turns : chat'[u] = chat[u] \/ chat'[u] = AtRest("dead")
    BY DEF Crash, IInv, LocalInv, TypeOK
  <1> QED
    BY <1>1, NothingIsStored DEF Crash, store, AtRest, Ended

(* A turn that has not begun has no message and no row anywhere.           *)
LEMMA BeginIsProtocolStep ==
  ASSUME IInv, NEW t \in Turns, NEW s \in Sessions, Begin(t, s)
  PROVE  Protocol!Next
  <1>1. /\ UNCHANGED <<messages, history, removed>>
        /\ chat[t].pc = "idle"
        /\ \A u \in Turns \ {t} : chat'[u] = chat[u] /\ session'[u] = session[u]
        /\ session'[t] = s
    BY DEF Begin, Return, store, IInv, LocalInv, TypeOK
  <1>2. \A u \in Turns \ {t} : StoredOf(u)' = StoredOf(u) /\ RecordOf(u)' = RecordOf(u)
    <2>1. \A u \in Turns \ {t} : LogOf(u)' = LogOf(u) /\ RowsOf(u)' = RowsOf(u)
      BY <1>1 DEF LogOf, RowsOf
    <2> QED
      BY <2>1 DEF StoredOf, RecordOf
  <1>3. \A r \in Sessions : \A i \in DOMAIN messages[r] : messages[r][i].turn # t
    BY <1>1 DEF IInv, MessagesPlaced
  <1>4. \A r \in Sessions : \A h \in history[r] : h.turn # t
    BY <1>1 DEF IInv, RowsPlaced, Ended
  <1>5. \A r \in Sessions : /\ StoredIn(messages[r], t) = Protocol!Nothing
                            /\ RecordIn(history[r], t) = "none"
    <2>1. \A r \in Sessions : {h \in history[r] : h.turn = t} = {}
      BY <1>4
    <2> QED
      BY <1>3, <2>1, NothingInLog DEF RecordIn, StatusIn
  <1>6. StoredOf(t) = Protocol!Nothing /\ RecordOf(t) = "none"
    <2>1. session[t] \in Sessions \cup {NoSession}
      BY DEF IInv, LocalInv, TypeOK
    <2> QED
      BY <1>5, <2>1, NothingInEmptyLog DEF StoredOf, RecordOf, LogOf, RowsOf
  <1>7. StoredOf(t)' = Protocol!Nothing /\ RecordOf(t)' = "none"
    <2>1. /\ StoredOf(t)' = StoredIn(LogOf(t)', t)
          /\ RecordOf(t)' = RecordIn(RowsOf(t)', t)
      BY DEF StoredOf, RecordOf
    <2>2. \/ LogOf(t)' = <<>> /\ RowsOf(t)' = {}
          \/ LogOf(t)' = messages[s] /\ RowsOf(t)' = history[s]
      BY <1>1 DEF LogOf, RowsOf
    <2> QED
      BY <1>5, <2>1, <2>2, NothingInEmptyLog
  <1>8. Open' \subseteq Open
    BY <1>1 DEF Open, Ended
  <1> QED
    BY <1>2, <1>6, <1>7, <1>8, StopsTurns
-----------------------------------------------------------------------------
(* A message behind a log, seen by its own turn and by the others.         *)
LEMMA AppendedForOthers ==
  ASSUME NEW log \in Seq(Message), NEW m \in Message, NEW t, m.turn # t
  PROVE  StoredIn(Append(log, m), t) = StoredIn(log, t)
  <1> DEFINE long == Append(log, m)
  <1>1. /\ DOMAIN long = 1..(Len(log) + 1)
        /\ DOMAIN log = 1..Len(log)
        /\ Len(log) \in Nat
        /\ \A i \in 1..Len(log) : long[i] = log[i]
        /\ long[Len(log) + 1] = m
    BY AppendStores
  <1> HIDE DEF long
  <1>2. {i \in DOMAIN long : long[i].turn = t} = {i \in DOMAIN log : log[i].turn = t}
    BY <1>1
  <1>3. \A i \in {j \in DOMAIN log : log[j].turn = t} : long[i] = log[i]
    BY <1>1
  <1>4. StoredIn(long, t) = StoredIn(log, t)
    BY <1>2, <1>3 DEF StoredIn
  <1> QED
    BY <1>4 DEF long

LEMMA AppendedForOwner ==
  ASSUME NEW log \in Seq(Message), NEW m \in Message, NEW t, m.turn = t,
         m \in Protocol!NextMessages(t, StoredIn(log, t))
  PROVE  Protocol!Extends(t, StoredIn(log, t), StoredIn(Append(log, m), t))
  <1> DEFINE long == Append(log, m)
             last == Len(log) + 1
             old == StoredIn(log, t)
             new == StoredIn(long, t)
             before == {i \in DOMAIN log : log[i].turn = t}
             after == {i \in DOMAIN long : long[i].turn = t}
  <1>1. /\ DOMAIN long = 1..last
        /\ DOMAIN log = 1..Len(log)
        /\ Len(log) \in Nat
        /\ \A i \in 1..Len(log) : long[i] = log[i]
        /\ long[last] = m
    BY AppendStores
  <1>2. old = [i \in before |-> log[i]] /\ new = [i \in after |-> long[i]]
    BY DEF StoredIn
  <1>3. m \in Protocol!NextMessages(t, old)
    OBVIOUS
  <1> HIDE DEF long, old, new
  <1>4. after = before \cup {last} /\ last \notin before
    BY <1>1
  <1>5. \A i \in before : long[i] = log[i] /\ i < last
    BY <1>1
  <1> HIDE DEF before, after
  <1>6. last \in DOMAIN new /\ new[last] = m
    BY <1>1, <1>2, <1>4
  <1>7. DOMAIN old = before /\ DOMAIN new \ {last} = before
    BY <1>2, <1>4
  <1>8. old = [i \in DOMAIN new \ {last} |-> new[i]]
    BY <1>2, <1>4, <1>5, <1>7
  <1> HIDE DEF last
  <1>9. Protocol!Extends(t, old, new)
    BY <1>3, <1>5, <1>6, <1>7, <1>8 DEF Protocol!Extends
  <1> QED
    BY <1>9 DEF old, new, long

LEMMA InsertIsProtocolStep ==
  ASSUME IInv, NEW t \in Turns, InsertMessage(t)
  PROVE  Protocol!Next
  <1> DEFINE log == messages[session[t]]
             m == CurrentMessage(t)
             last == Len(log) + 1
  <1>1. LocalInv /\ chat[t].pc \in Emitting /\ session[t] \in Sessions
    BY DEF IInv, LocalInv, InsertMessage, Emitting
  <1>2. log \in Seq(Message) /\ m \in Message /\ m.turn = t
    BY <1>1, LogParts, CurrentIsMessage
  <1>3. /\ UNCHANGED <<history, session, removed>>
        /\ messages'[session[t]] = Append(log, m)
        /\ \A s \in Sessions \ {session[t]} : messages'[s] = messages[s]
        /\ \A u \in Turns \ {t} : chat'[u] = chat[u]
    BY <1>1, MessageHandledIsSound DEF InsertMessage, LocalInv, TypeOK, FrameStep
  <1>4. \A u \in Turns : RecordOf(u)' = RecordOf(u)
    <2>1. \A u \in Turns : RowsOf(u)' = RowsOf(u)
      BY <1>3 DEF RowsOf
    <2> QED
      BY <2>1 DEF RecordOf
  <1>5. \A u \in Turns : StoredOf(u)' = StoredIn(LogOf(u)', u)
    BY DEF StoredOf
  <1>6. \A u \in Turns : \/ LogOf(u)' = LogOf(u)
                         \/ u \notin removed /\ LogOf(u) = log /\ LogOf(u)' = Append(log, m)
    <2>1. \A u \in Turns : session[u] \in Sessions \cup {NoSession}
      BY <1>1 DEF LocalInv, TypeOK
    <2> QED
      BY <1>3, <2>1 DEF LogOf
  <1>7. \A u \in Turns \ {t} : StoredOf(u)' = StoredOf(u)
    <2>1. \A u \in Turns \ {t} : StoredIn(Append(log, m), u) = StoredIn(log, u)
      BY <1>2, AppendedForOthers
    <2> QED
      BY <1>5, <1>6, <2>1 DEF StoredOf
  <1>8. \A u \in Turns \ {t} : u \in Open' <=> u \in Open
    BY <1>3 DEF Open
  <1>9. CASE t \in removed
    <2>1. StoredOf(t)' = StoredOf(t)
      BY <1>5, <1>6, <1>9 DEF StoredOf
    <2>2. Open' \subseteq Open
      BY <1>3, <1>8, <1>9 DEF Open
    <2> QED
      BY <1>4, <1>7, <2>1, <2>2, StopsTurns
  <1>10. CASE t \notin removed
    <2>1. t \in Open /\ Open' \in {Open, Open \ {t}}
      <3>1. t \in Open /\ Open' \subseteq Turns /\ Open \subseteq Turns
        BY <1>1, <1>10 DEF Open, Emitting, Ended
      <3>2. Open' = Open \/ Open' = Open \ {t}
        BY <1>8, <3>1
      <3> QED
        BY <3>1, <3>2
    <2>2. LogOf(t) = log /\ LogOf(t)' = Append(log, m)
      BY <1>1, <1>3, <1>10, ConstantsAssumption DEF LogOf
    <2>3. Protocol!Extends(t, StoredOf(t), StoredOf(t)')
      <3>1. StoredOf(t) = StoredIn(log, t) /\ StoredOf(t)' = StoredIn(Append(log, m), t)
        BY <1>5, <2>2 DEF StoredOf
      <3>2. m \in Protocol!NextMessages(t, StoredIn(log, t))
        BY <1>1, <1>10, <3>1, CurrentIsNext
      <3>3. Protocol!Extends(t, StoredIn(log, t), StoredIn(Append(log, m), t))
        BY <1>2, <3>2, AppendedForOwner
      <3> QED
        BY <3>1, <3>3
    <2> QED
      BY <1>4, <1>7, <2>1, <2>3, GrowsTurn
  <1> QED
    BY <1>9, <1>10
-----------------------------------------------------------------------------
(* The row of a turn, seen by its own turn and by the others.              *)
LEMMA UpsertedRecord ==
  ASSUME NEW rows, NEW row, NEW new, NEW u,
         new = {h \in rows : h.turn # row.turn} \cup {row}
  PROVE  RecordIn(new, u) = IF u = row.turn THEN row.status ELSE RecordIn(rows, u)
  <1>1. CASE u = row.turn
    <2>1. {h \in new : h.turn = u} = {row}
      BY <1>1
    <2> QED
      BY <1>1, <2>1 DEF RecordIn, StatusIn
  <1>2. CASE u # row.turn
    <2>1. {h \in new : h.turn = u} = {h \in rows : h.turn = u}
      BY <1>2
    <2> QED
      BY <1>2, <2>1 DEF RecordIn
  <1> QED
    BY <1>1, <1>2

LEMMA EndIsProtocolStep ==
  ASSUME IInv, NEW t \in Turns, CompleteTurn(t) \/ GiveUpTurn(t)
  PROVE  Protocol!Next
  <1>1. /\ UNCHANGED <<messages, session, removed>>
        /\ chat[t].pc \in {"finish", "giveup"}
        /\ UpsertRow(t) \/ UNCHANGED history
        /\ \E outcome \in Ended : Return(t, outcome)
    BY DEF CompleteTurn, GiveUpTurn, Ended
  <1>2. /\ \A u \in Turns \ {t} : chat'[u] = chat[u]
        /\ chat'[t].pc \in Ended
    BY <1>1 DEF Return, AtRest, IInv, LocalInv, TypeOK
  <1>3. CASE UNCHANGED history
    BY <1>1, <1>2, <1>3, NothingIsStored DEF Ended
  <1>4. CASE UpsertRow(t)
    <2> DEFINE rows == history[session[t]]
    <2>1. session[t] \in Sessions
      BY <1>1 DEF IInv, LocalInv
    <2>2. PICK answered \in BOOLEAN :
            history' = [history EXCEPT ![session[t]] =
                          {h \in @ : h.turn # t} \cup {TurnRow(t, answered)}]
      BY <1>4 DEF UpsertRow
    <2> DEFINE row == TurnRow(t, answered)
               new == {h \in rows : h.turn # t} \cup {row}
    <2>3. /\ history'[session[t]] = new
          /\ \A s \in Sessions \ {session[t]} : history'[s] = history[s]
      BY <2>1, <2>2 DEF IInv, LocalInv, TypeOK
    <2>4. /\ RecordIn(new, t) = IF chat[t].pc = "finish" THEN "complete" ELSE "incomplete"
          /\ \A u : u # t => RecordIn(new, u) = RecordIn(rows, u)
      <3>1. row.turn = t /\ row.status = IF chat[t].pc = "finish" THEN "complete" ELSE "incomplete"
        BY DEF TurnRow, Row
      <3> HIDE DEF rows, row
      <3>2. new = {h \in rows : h.turn # row.turn} \cup {row}
        BY <3>1
      <3> HIDE DEF new
      <3>3. \A u : RecordIn(new, u) = IF u = row.turn THEN row.status ELSE RecordIn(rows, u)
        BY <3>2, UpsertedRecord
      <3> QED
        BY <3>1, <3>3
    <2>5. \A u \in Turns : StoredOf(u)' = StoredOf(u)
      <3>1. \A u \in Turns : LogOf(u)' = LogOf(u)
        BY <1>1 DEF LogOf
      <3> QED
        BY <3>1 DEF StoredOf
    <2>6. \A u \in Turns : \/ RowsOf(u)' = RowsOf(u)
                           \/ u \notin removed /\ RowsOf(u) = rows /\ RowsOf(u)' = new
      <3>1. \A u \in Turns : session[u] \in Sessions \cup {NoSession}
        BY DEF IInv, LocalInv, TypeOK
      <3> QED
        BY <1>1, <2>3, <3>1 DEF RowsOf
    <2>7. \A u \in Turns : RecordOf(u)' = RecordIn(RowsOf(u)', u)
      BY DEF RecordOf
    <2>8. \A u \in Turns \ {t} : RecordOf(u)' = RecordOf(u)
      <3> HIDE DEF rows, new
      <3> QED
        BY <2>4, <2>6, <2>7 DEF RecordOf
    <2>9. CASE t \in removed
      <3>1. RecordOf(t)' = RecordOf(t)
        BY <2>6, <2>7, <2>9 DEF RecordOf
      <3>2. Open' \subseteq Open
        BY <1>1, <1>2 DEF Open
      <3> QED
        BY <2>5, <2>8, <3>1, <3>2, StopsTurns
    <2>10. CASE t \notin removed
      <3>1. t \in Open /\ Open' = Open \ {t}
        BY <1>1, <1>2, <2>10 DEF Open, Ended
      <3>2. RowsOf(t)' = new
        BY <1>1, <2>1, <2>3, <2>10, ConstantsAssumption DEF RowsOf
      <3>3. /\ Protocol!Held(StoredOf(t)) # {}
            /\ Protocol!NextMessages(t, StoredOf(t)) = {}
            /\ Protocol!Final(StoredOf(t)) <=> chat[t].pc = "finish"
        BY <1>1, <2>10, ReportedIsClosed
      <3>4. RecordOf(t)' = Protocol!StatusOf(StoredOf(t))
        BY <2>4, <2>7, <3>2, <3>3 DEF Protocol!StatusOf
      <3> QED
        BY <2>5, <2>8, <3>1, <3>3, <3>4, RecordsTurn
    <2> QED
      BY <2>9, <2>10
  <1> QED
    BY <1>1, <1>3, <1>4
-----------------------------------------------------------------------------
(* A turn that has not stored its first message has left no trace.         *)
LEMMA NothingYet ==
  ASSUME IInv, NEW t \in Turns, chat[t].pc \in {"idle", "user"}
  PROVE  StoredOf(t) = Protocol!Nothing /\ RecordOf(t) = "none"
  <1>1. CASE t \in removed \/ session[t] = NoSession
    BY <1>1, NothingInEmptyLog DEF StoredOf, RecordOf, LogOf, RowsOf
  <1>2. CASE t \notin removed /\ session[t] # NoSession
    <2>1. session[t] \in Sessions
      BY <1>2 DEF IInv, LocalInv, TypeOK
    <2>2. LogOf(t) = messages[session[t]] /\ RowsOf(t) = history[session[t]]
      BY <1>2 DEF LogOf, RowsOf
    <2>3. {h \in RowsOf(t) : h.turn = t} = {}
      BY <2>1, <2>2 DEF IInv, RowsPlaced, Ended
    <2>4. \A i \in DOMAIN LogOf(t) : LogOf(t)[i].turn # t
      <3>1. CASE chat[t].pc = "idle"
        BY <2>1, <2>2, <3>1 DEF IInv, MessagesPlaced
      <3>2. CASE chat[t].pc = "user"
        <4>1. AnswersSent(t) = 0 /\ Round(t) = 0
          BY <3>2, FrameOfTurn DEF FrameOK, AnswersSent, Round
        <4>2. \A m : ~IsSent(t, m)
          BY <3>2, <4>1 DEF IsSent
        <4>3. OnlySentIsStored(t)
          BY <1>2, <3>2 DEF IInv, TranscriptInv, Running, Ended
        <4> QED
          BY <2>2, <4>2, <4>3 DEF OnlySentIsStored
      <3> QED
        BY <3>1, <3>2
    <2> QED
      BY <2>3, <2>4, NothingInLog DEF StoredOf, RecordOf, RecordIn, StatusIn
  <1> QED
    BY <1>1, <1>2

(* The removal of a session erases the turns that ended on it and those    *)
(* that lose their messages to it, all at once.                            *)
LEMMA RemovalIsProtocolStep ==
  ASSUME IInv, NEW c \in Clis, NEW s \in Sessions, RemoveSession(c, s)
  PROVE  Protocol!Next
  <1> DEFINE erased == {t \in Turns : session[t] = s /\ (t \in TurnsOn(s) \/ chat[t].pc \in Ended)}
  <1>1. /\ UNCHANGED <<session, chat>>
        /\ removed' = removed \cup TurnsOn(s)
        /\ messages'[s] = <<>> /\ history'[s] = {}
        /\ \A r \in Sessions \ {s} : messages'[r] = messages[r] /\ history'[r] = history[r]
    BY DEF RemoveSession, DeleteSession, IInv, LocalInv, TypeOK
  <1>2. \A t \in Turns : session[t] \in Sessions \cup {NoSession}
    BY DEF IInv, LocalInv, TypeOK
  <1>3. \A t \in Turns : StoredOf(t)' = StoredIn(LogOf(t)', t) /\ RecordOf(t)' = RecordIn(RowsOf(t)', t)
    BY DEF StoredOf, RecordOf
  <1>4. \A t \in Turns : session[t] = s => StoredOf(t)' = Protocol!Nothing /\ RecordOf(t)' = "none"
    <2>1. \A t \in Turns : session[t] = s => LogOf(t)' = <<>> /\ RowsOf(t)' = {}
      BY <1>1 DEF LogOf, RowsOf
    <2> QED
      BY <1>3, <2>1, NothingInEmptyLog
  <1>5. \A t \in Turns : session[t] # s => StoredOf(t)' = StoredOf(t) /\ RecordOf(t)' = RecordOf(t)
    <2>1. \A t \in Turns : session[t] # s => LogOf(t)' = LogOf(t) /\ RowsOf(t)' = RowsOf(t)
      BY <1>1, <1>2 DEF LogOf, RowsOf, TurnsOn
    <2> QED
      BY <2>1 DEF StoredOf, RecordOf
  <1>6. ASSUME NEW t \in Turns \ erased, session[t] = s
        PROVE  StoredOf(t) = Protocol!Nothing /\ RecordOf(t) = "none"
    <2>1. chat[t].pc \in {"idle", "user"}
      BY <1>6 DEF TurnsOn, Running
    <2> QED
      BY <2>1, NothingYet
  <1>7. Open' = Open \ erased
    BY <1>1 DEF Open, TurnsOn
  <1>8. erased \in SUBSET Turns
    OBVIOUS
  <1>9. \A t \in erased : StoredOf(t)' = Protocol!Nothing /\ RecordOf(t)' = "none"
    BY <1>4
  <1>10. \A t \in Turns \ erased : StoredOf(t)' = StoredOf(t) /\ RecordOf(t)' = RecordOf(t)
    BY <1>4, <1>5, <1>6
  <1> HIDE DEF erased
  <1> QED
    BY <1>7, <1>8, <1>9, <1>10, ErasesTurns
-----------------------------------------------------------------------------
LEMMA StepIsProtocolStep ==
  IInv /\ [Next]_vars => Protocol!Next \/ UNCHANGED <<Transcripts, Records, Open>>
  <1> SUFFICES ASSUME IInv, [Next]_vars
               PROVE  Protocol!Next \/ UNCHANGED <<Transcripts, Records, Open>>
    OBVIOUS
  <1>1. CASE UNCHANGED vars
    BY <1>1, NothingIsStored DEF vars, store
  <1>2. ASSUME NEW t \in Turns, NEW s \in Sessions, Begin(t, s) PROVE Protocol!Next
    BY <1>2, BeginIsProtocolStep
  <1>3. ASSUME NEW t \in Turns, Progress(t) \/ Cancel(t) PROVE Protocol!Next
    <2>1. CASE InsertMessage(t)
      BY <2>1, InsertIsProtocolStep
    <2>2. CASE CompleteTurn(t) \/ GiveUpTurn(t)
      BY <2>2, EndIsProtocolStep
    <2>3. CASE Quiet(t) \/ Silent(t)
      BY <2>3, FrameStepIsProtocolStep
    <2> QED
      BY <1>3, <2>1, <2>2, <2>3 DEF Progress, Quiet, Silent
  <1>4. ASSUME NEW p \in Processes, Crash(p) PROVE Protocol!Next
    BY <1>4, CrashIsProtocolStep
  <1>5. ASSUME NEW c \in Clis, NEW s \in Sessions, RemoveSession(c, s) PROVE Protocol!Next
    BY <1>5, RemovalIsProtocolStep
  <1> QED
    BY <1>1, <1>2, <1>3, <1>4, <1>5 DEF Next

LEMMA InitIsProtocolInit == Init => Protocol!Init
  <1> SUFFICES ASSUME Init PROVE Protocol!Init
    OBVIOUS
  <1>1. \A t \in Turns : /\ session[t] = NoSession
                         /\ chat[t].pc = "idle"
    BY DEF Init, AtRest
  <1>2. \A t \in Turns : StoredOf(t) = Protocol!Nothing /\ RecordOf(t) = "none"
    BY <1>1, InvInit, NothingYet
  <1>3. {t \in Turns \ removed : chat[t].pc \notin Ended} = Turns
    BY <1>1 DEF Init, Ended
  <1> QED
    BY <1>2, <1>3 DEF Protocol!Init

(* Every behaviour of the turns, whatever fails, crashes, is cancelled or  *)
(* is removed, and however the statements of the processes interleave, is  *)
(* one of TranscriptProtocol: nothing is stored of a turn but the legal    *)
(* next message, no row is written over an exchange that is not closed,    *)
(* and nothing of a turn survives or follows its removal.                  *)
THEOREM StoreFollowsProtocol == Spec => TurnsFollowProtocol
  <1>1. IInv /\ [Next]_vars
        => [Protocol!Next]_<<[t \in Turns |-> StoredOf(t)], [t \in Turns |-> RecordOf(t)],
                             {t \in Turns \ removed : chat[t].pc \notin Ended}>>
    BY StepIsProtocolStep DEF Transcripts, Records, Open
  <1> QED
    BY <1>1, InitIsProtocolInit, Inductive, PTL DEF Spec, TurnsFollowProtocol, Protocol!Spec, Protocol!vars
-----------------------------------------------------------------------------
(* Induction, over numbers and over sequences. The induction theorems of   *)
(* the library take an operator; these take the set of the values for      *)
(* which the claim holds, and rest on WFMin, which takes sets.             *)
Smaller == {pair \in Nat \X Nat : pair[1] < pair[2]}

LEMMA SmallerIsWellFounded == IsWellFoundedOn(Smaller, Nat)
  BY NatLessThanWellFounded, Zenon DEF OpToRel, Smaller

(* Zero, and with each number the next: all numbers.                       *)
LEMMA ByNumbers ==
  ASSUME NEW T, 0 \in T, \A n \in Nat : n \in T => n + 1 \in T
  PROVE  \A n \in Nat : n \in T
  <1> DEFINE out == Nat \ T
  <1>1. SUFFICES ASSUME out # {} PROVE FALSE
    OBVIOUS
  <1>2. PICK n \in out : \A m \in out : <<m, n>> \notin Smaller
    <2>1. out \subseteq Nat
      OBVIOUS
    <2> HIDE DEF out
    <2> QED
      BY <1>1, <2>1, SmallerIsWellFounded, WFMin
  <1>3. n \in Nat \ {0} /\ n - 1 \in Nat /\ n - 1 < n
    BY <1>2
  <1>4. n - 1 \in T
    BY <1>2, <1>3 DEF Smaller
  <1>5. (n - 1) + 1 \in T
    BY <1>3, <1>4
  <1> QED
    BY <1>2, <1>3, <1>5

(* The empty sequence, and with each its extensions: all sequences.        *)
LEMMA BySequences ==
  ASSUME NEW S, NEW T, <<>> \in T,
         \A s \in Seq(S), x \in S : s \in T => Append(s, x) \in T
  PROVE  \A s \in Seq(S) : s \in T
  <1> DEFINE fine == {n \in Nat : \A s \in Seq(S) : Len(s) = n => s \in T}
  <1>1. 0 \in fine
    <2>1. \A s \in Seq(S) : Len(s) = 0 => s = <<>>
      OBVIOUS
    <2> QED
      BY <2>1
  <1>2. ASSUME NEW n \in Nat, n \in fine PROVE n + 1 \in fine
    <2>1. SUFFICES ASSUME NEW s \in Seq(S), Len(s) = n + 1 PROVE s \in T
      OBVIOUS
    <2> DEFINE front == SubSeq(s, 1, n)
    <2>2. front \in Seq(S) /\ Len(front) = n /\ s[n + 1] \in S /\ s = Append(front, s[n + 1])
      BY <2>1
    <2> HIDE DEF front
    <2>3. front \in T
      BY <1>2, <2>2
    <2>4. Append(front, s[n + 1]) \in T
      BY <2>2, <2>3
    <2> QED
      BY <2>2, <2>4
  <1> HIDE DEF fine
  <1>3. \A n \in Nat : n \in fine
    BY <1>1, <1>2, ByNumbers
  <1> QED
    BY <1>3 DEF fine

(* What Append is at each place.                                           *)
LEMMA AppendIs ==
  ASSUME NEW S, NEW s \in Seq(S), NEW x \in S, NEW more, more = Len(s) + 1
  PROVE  Append(s, x) = [i \in 1..more |-> IF i = more THEN x ELSE s[i]]
  <1> DEFINE n == Len(s)
             new == Append(s, x)
  <1>1. /\ new \in Seq(S) /\ Len(new) = n + 1 /\ n \in Nat /\ more = n + 1
        /\ \A i \in 1..n : new[i] = s[i]
        /\ new[n + 1] = x
    OBVIOUS
  <1> HIDE DEF n, new
  <1>2. new = [i \in 1..more |-> new[i]]
    BY <1>1
  <1>3. \A i \in 1..more : i = more \/ i \in 1..n
    BY <1>1
  <1>4. \A i \in 1..more : new[i] = IF i = more THEN x ELSE s[i]
    BY <1>1, <1>3
  <1> QED
    BY <1>2, <1>4 DEF new

(* To join is associative.                                                 *)
LEMMA Joined ==
  ASSUME NEW S, NEW a \in Seq(S), NEW b \in Seq(S), NEW c \in Seq(S)
  PROVE  (a \o b) \o c = a \o (b \o c)
  OBVIOUS

(* What is joined last is a suffix.                                        *)
LEMMA EndIsSuffix ==
  ASSUME NEW S, NEW a \in Seq(S), NEW b \in Seq(S), NEW all, all = a \o b
  PROVE  IsSuffix(b, all)
  <1> DEFINE back == Reverse(b)
             whole == Reverse(all)
             m == Len(a)
             n == Len(b)
  <1>1. /\ m \in Nat /\ n \in Nat /\ all \in Seq(S) /\ Len(all) = m + n
        /\ \A i \in 1..n : all[m + i] = b[i]
    OBVIOUS
  <1>2. back = [i \in 1..n |-> b[(n - i) + 1]]
    BY DEF Reverse
  <1>3. whole = [i \in 1..(m + n) |-> all[((m + n) - i) + 1]]
    BY <1>1 DEF Reverse
  <1>4. back \in Seq(S) /\ Len(back) = n
    <2>1. \A i \in 1..n : (n - i) + 1 \in 1..n
      BY <1>1
    <2>2. \A i \in 1..n : b[(n - i) + 1] \in S
      BY <2>1
    <2> QED
      BY <1>1, <1>2, <2>2
  <1>5. whole \in Seq(S) /\ Len(whole) = m + n
    <2>1. \A i \in 1..(m + n) : ((m + n) - i) + 1 \in 1..(m + n)
      BY <1>1
    <2>2. \A i \in 1..(m + n) : all[((m + n) - i) + 1] \in S
      BY <1>1, <2>1
    <2> QED
      BY <1>1, <1>3, <2>2
  <1>6. \A i \in 1..n : whole[i] = back[i]
    <2> SUFFICES ASSUME NEW i \in 1..n PROVE whole[i] = back[i]
      OBVIOUS
    <2>1. i \in 1..(m + n) /\ ((m + n) - i) + 1 = m + ((n - i) + 1) /\ (n - i) + 1 \in 1..n
      BY <1>1
    <2> HIDE DEF back, whole, m, n
    <2>2. back[i] = b[(n - i) + 1]
      BY <1>2
    <2>3. whole[i] = all[m + ((n - i) + 1)]
      BY <1>3, <2>1
    <2> QED
      BY <1>1, <2>1, <2>2, <2>3
  <1> HIDE DEF back, whole, m, n
  <1>7. SubSeq(back, 1, n) = [i \in 1..n |-> back[i]] /\ SubSeq(whole, 1, n) = [i \in 1..n |-> whole[i]]
    BY <1>1, <1>4, <1>5
  <1>8. n <= m + n
    BY <1>1
  <1> QED
    BY <1>4, <1>5, <1>6, <1>7, <1>8 DEF IsSuffix, IsPrefix, back, whole
-----------------------------------------------------------------------------
(* FlattenSeq is a recursive function; Flat(f, ss, n) says that f is it up *)
(* to n.                                                                   *)
Flat(f, ss, n) == f = [i \in 1..n |-> IF i = 1 THEN ss[i] ELSE f[i - 1] \o ss[i]]

(* There is such a function.                                               *)
LEMMA FlatExists ==
  ASSUME NEW ss
  PROVE  \A n \in Nat : \E f : Flat(f, ss, n)
  <1> DEFINE fine == {n \in Nat : \E f : Flat(f, ss, n)}
  <1>1. 0 \in fine
    <2>1. Flat([i \in 1..0 |-> 0], ss, 0)
      BY DEF Flat
    <2> QED
      BY <2>1
  <1>2. ASSUME NEW n \in Nat, n \in fine PROVE n + 1 \in fine
    <2>1. PICK f : Flat(f, ss, n)
      BY <1>2
    <2> DEFINE last == IF n = 0 THEN ss[1] ELSE f[n] \o ss[n + 1]
               g == [i \in 1..(n + 1) |-> IF i = n + 1 THEN last ELSE f[i]]
    <2>2. DOMAIN g = 1..(n + 1) /\ g[n + 1] = last /\ \A i \in 1..n : g[i] = f[i]
      <3> HIDE DEF last
      <3>1. n + 1 \in 1..(n + 1) /\ \A i \in 1..n : i \in 1..(n + 1) /\ i # n + 1
        OBVIOUS
      <3> QED
        BY <3>1
    <2>3. ASSUME NEW i \in 1..(n + 1)
          PROVE  g[i] = IF i = 1 THEN ss[i] ELSE g[i - 1] \o ss[i]
      <3>1. CASE i = n + 1
        <4>1. n # 0 => n \in 1..n
          OBVIOUS
        <4> HIDE DEF g
        <4> QED
          BY <2>2, <3>1, <4>1
      <3>2. CASE i \in 1..n
        <4>1. f[i] = IF i = 1 THEN ss[i] ELSE f[i - 1] \o ss[i]
          BY <2>1, <3>2 DEF Flat
        <4>2. i # 1 => i - 1 \in 1..n
          BY <3>2
        <4> HIDE DEF g
        <4> QED
          BY <2>2, <3>2, <4>1, <4>2
      <3> QED
        BY <3>1, <3>2
    <2>4. g = [i \in 1..(n + 1) |-> IF i = 1 THEN ss[i] ELSE g[i - 1] \o ss[i]]
      <3> DEFINE h == [i \in 1..(n + 1) |-> IF i = 1 THEN ss[i] ELSE g[i - 1] \o ss[i]]
      <3>1. g = [i \in 1..(n + 1) |-> g[i]]
        OBVIOUS
      <3> HIDE DEF g
      <3> QED
        BY <2>3, <3>1
    <2> HIDE DEF g
    <2>5. Flat(g, ss, n + 1)
      BY <2>4 DEF Flat
    <2>6. \E h : Flat(h, ss, n + 1)
      BY <2>5
    <2>7. n + 1 \in Nat
      OBVIOUS
    <2> QED
      BY <2>6, <2>7
  <1> HIDE DEF fine
  <1>3. \A n \in Nat : n \in fine
    BY <1>1, <1>2, ByNumbers
  <1> QED
    BY <1>3 DEF fine

(* It depends on nothing but the first n sequences.                        *)
LEMMA FlatIsOne ==
  ASSUME NEW ss, NEW tt, NEW n \in Nat, NEW f, NEW g,
         Flat(f, ss, n), Flat(g, tt, n + 1), \A i \in 1..n : ss[i] = tt[i], n # 0
  PROVE  f[n] = g[n]
  <1> DEFINE fine == {k \in Nat : k \in 1..n => f[k] = g[k]}
  <1>1. 0 \in fine
    OBVIOUS
  <1>2. ASSUME NEW k \in Nat, k \in fine PROVE k + 1 \in fine
    <2>1. SUFFICES ASSUME k + 1 \in 1..n PROVE f[k + 1] = g[k + 1]
      OBVIOUS
    <2>2. k # 0 => k \in 1..n
      BY <2>1
    <2>3. f[k + 1] = IF k + 1 = 1 THEN ss[k + 1] ELSE f[(k + 1) - 1] \o ss[k + 1]
      BY <2>1 DEF Flat
    <2>4. k + 1 \in 1..(n + 1)
      BY <2>1
    <2>5. g[k + 1] = IF k + 1 = 1 THEN tt[k + 1] ELSE g[(k + 1) - 1] \o tt[k + 1]
      BY <2>4 DEF Flat
    <2>6. (k + 1) - 1 = k /\ (k + 1 = 1 <=> k = 0)
      OBVIOUS
    <2> QED
      BY <1>2, <2>1, <2>2, <2>3, <2>5, <2>6
  <1> HIDE DEF fine
  <1>3. \A k \in Nat : k \in fine
    BY <1>1, <1>2, ByNumbers
  <1>4. n \in 1..n
    OBVIOUS
  <1> QED
    BY <1>3, <1>4 DEF fine

(* FlattenSeq is what the function that CHOOSE names says at the end.      *)
LEMMA FlattenIsFlat ==
  ASSUME NEW S, NEW ss \in Seq(S), Len(ss) # 0
  PROVE  \E f : Flat(f, ss, Len(ss)) /\ FlattenSeq(ss) = f[Len(ss)]
  <1> DEFINE n == Len(ss)
             f == CHOOSE f : f = [i \in 1..n |-> IF i = 1 THEN ss[i] ELSE f[i - 1] \o ss[i]]
  <1>1. n \in Nat
    OBVIOUS
  <1>2. \E g : g = [i \in 1..n |-> IF i = 1 THEN ss[i] ELSE g[i - 1] \o ss[i]]
    <2> HIDE DEF n
    <2> QED
      BY <1>1, FlatExists DEF Flat
  <1>3. f = [i \in 1..n |-> IF i = 1 THEN ss[i] ELSE f[i - 1] \o ss[i]]
    BY <1>2
  <1>4. FlattenSeq(ss) = f[n]
    BY DEF FlattenSeq
  <1> QED
    BY <1>3, <1>4 DEF Flat

(* FlattenSeq by its two equations, and its type.                          *)
LEMMA FlattenEmpty == FlattenSeq(<<>>) = <<>>
  BY DEF FlattenSeq

LEMMA FlattenAppend ==
  ASSUME NEW S, NEW ss \in Seq(Seq(S)), NEW s \in Seq(S), FlattenSeq(ss) \in Seq(S)
  PROVE  FlattenSeq(Append(ss, s)) = FlattenSeq(ss) \o s
  <1> DEFINE longer == Append(ss, s)
             n == Len(ss)
  <1>1. /\ n \in Nat
        /\ longer \in Seq(Seq(S)) /\ Len(longer) = n + 1
        /\ \A i \in 1..n : longer[i] = ss[i]
        /\ longer[n + 1] = s
    OBVIOUS
  <1> HIDE DEF longer
  <1>2. PICK g : Flat(g, longer, n + 1) /\ FlattenSeq(longer) = g[n + 1]
    BY <1>1, FlattenIsFlat
  <1>3. g[n + 1] = IF n + 1 = 1 THEN longer[n + 1] ELSE g[(n + 1) - 1] \o longer[n + 1]
    <2>1. n + 1 \in 1..(n + 1)
      BY <1>1
    <2> HIDE DEF n
    <2> QED
      BY <1>2, <2>1 DEF Flat
  <1>4. CASE n = 0
    <2>1. ss = <<>>
      BY <1>4
    <2>2. FlattenSeq(ss) = <<>>
      BY <2>1, FlattenEmpty
    <2>3. FlattenSeq(longer) = s
      BY <1>1, <1>2, <1>3, <1>4
    <2>4. <<>> \o s = s
      OBVIOUS
    <2> QED
      BY <2>2, <2>3, <2>4 DEF longer
  <1>5. CASE n # 0
    <2>1. PICK f : Flat(f, ss, n) /\ FlattenSeq(ss) = f[n]
      BY <1>5, FlattenIsFlat
    <2> HIDE DEF n
    <2>2. f[n] = g[n]
      <3>1. n \in Nat /\ n # 0 /\ \A i \in 1..n : ss[i] = longer[i]
        BY <1>1, <1>5
      <3>2. Flat(f, ss, n) /\ Flat(g, longer, n + 1)
        BY <1>2, <2>1
      <3> QED
        BY <3>1, <3>2, FlatIsOne
    <2>3. (n + 1) - 1 = n /\ n + 1 # 1
      BY <1>1, <1>5
    <2> QED
      BY <1>1, <1>2, <1>3, <2>1, <2>2, <2>3 DEF longer
  <1> QED
    BY <1>4, <1>5

LEMMA FlattenType ==
  ASSUME NEW S
  PROVE  \A ss \in Seq(Seq(S)) : FlattenSeq(ss) \in Seq(S)
  <1> DEFINE fine == {ss \in Seq(Seq(S)) : FlattenSeq(ss) \in Seq(S)}
  <1>1. <<>> \in fine
    <2>1. <<>> \in Seq(Seq(S)) /\ <<>> \in Seq(S)
      OBVIOUS
    <2> QED
      BY <2>1, FlattenEmpty
  <1>2. ASSUME NEW ss \in Seq(Seq(S)), NEW s \in Seq(S), ss \in fine PROVE Append(ss, s) \in fine
    <2>1. FlattenSeq(ss) \in Seq(S)
      BY <1>2
    <2>2. FlattenSeq(Append(ss, s)) = FlattenSeq(ss) \o s
      BY <2>1, FlattenAppend
    <2>3. FlattenSeq(ss) \o s \in Seq(S) /\ Append(ss, s) \in Seq(Seq(S))
      BY <2>1
    <2> QED
      BY <2>2, <2>3
  <1> HIDE DEF fine
  <1>3. \A ss \in Seq(Seq(S)) : ss \in fine
    BY <1>1, <1>2, BySequences
  <1> QED
    BY <1>3 DEF fine

(* Nothing but empty sequences.                                            *)
LEMMA FlattenNothing ==
  ASSUME NEW M
  PROVE  \A ss \in Seq(Seq(M)) : (\A i \in DOMAIN ss : ss[i] = <<>>) => FlattenSeq(ss) = <<>>
  <1> DEFINE T == Seq(M)
             fine == {ss \in Seq(T) : (\A i \in DOMAIN ss : ss[i] = <<>>) => FlattenSeq(ss) = <<>>}
  <1>1. <<>> \in fine
    BY FlattenEmpty
  <1>2. ASSUME NEW ss \in Seq(T), NEW s \in T, ss \in fine PROVE Append(ss, s) \in fine
    <2> DEFINE longer == Append(ss, s)
    <2>1. /\ longer \in Seq(T) /\ Len(ss) \in Nat
          /\ DOMAIN ss = 1..Len(ss) /\ DOMAIN longer = 1..(Len(ss) + 1)
          /\ \A i \in 1..Len(ss) : longer[i] = ss[i]
          /\ longer[Len(ss) + 1] = s
      OBVIOUS
    <2>2. FlattenSeq(ss) \in Seq(M)
      BY FlattenType
    <2>3. FlattenSeq(longer) = FlattenSeq(ss) \o s
      BY <2>2, FlattenAppend
    <2> HIDE DEF longer
    <2>4. SUFFICES ASSUME \A i \in DOMAIN longer : longer[i] = <<>> PROVE FlattenSeq(longer) = <<>>
      BY <2>1 DEF longer
    <2>5. s = <<>> /\ \A i \in DOMAIN ss : ss[i] = <<>>
      <3>1. Len(ss) + 1 \in DOMAIN longer /\ \A i \in DOMAIN ss : i \in DOMAIN longer
        BY <2>1
      <3> QED
        BY <2>1, <2>4, <3>1
    <2>6. <<>> \o <<>> = <<>>
      OBVIOUS
    <2> QED
      BY <1>2, <2>3, <2>5, <2>6
  <1> HIDE DEF fine, T
  <1>3. \A ss \in Seq(T) : ss \in fine
    BY <1>1, <1>2, BySequences
  <1> QED
    BY <1>3 DEF fine, T

(* All sequences are empty but one.                                        *)
LEMMA FlattenOnly ==
  ASSUME NEW M
  PROVE  \A ss \in Seq(Seq(M)) : \A k \in DOMAIN ss :
           (\A i \in DOMAIN ss : i # k => ss[i] = <<>>) => FlattenSeq(ss) = ss[k]
  <1> DEFINE T == Seq(M)
             fine == {ss \in Seq(T) : \A k \in DOMAIN ss :
                        (\A i \in DOMAIN ss : i # k => ss[i] = <<>>) => FlattenSeq(ss) = ss[k]}
  <1>1. <<>> \in fine
    OBVIOUS
  <1>2. ASSUME NEW ss \in Seq(T), NEW s \in T, ss \in fine PROVE Append(ss, s) \in fine
    <2> DEFINE longer == Append(ss, s)
               last == Len(ss) + 1
    <2>1. /\ longer \in Seq(T) /\ Len(ss) \in Nat /\ last \notin DOMAIN ss
          /\ DOMAIN longer = DOMAIN ss \cup {last}
          /\ \A i \in DOMAIN ss : longer[i] = ss[i]
          /\ longer[last] = s
      OBVIOUS
    <2>2. FlattenSeq(ss) \in Seq(M)
      BY FlattenType
    <2>3. FlattenSeq(longer) = FlattenSeq(ss) \o s
      BY <2>2, FlattenAppend
    <2> HIDE DEF longer, last
    <2>4. SUFFICES ASSUME NEW k \in DOMAIN longer, \A i \in DOMAIN longer : i # k => longer[i] = <<>>
                   PROVE  FlattenSeq(longer) = longer[k]
      BY <2>1 DEF longer
    <2>5. CASE k = last
      <3>1. \A i \in DOMAIN ss : ss[i] = <<>>
        BY <2>1, <2>4, <2>5
      <3>2. FlattenSeq(ss) = <<>>
        BY <3>1, FlattenNothing
      <3>3. <<>> \o s = s
        OBVIOUS
      <3> QED
        BY <2>1, <2>3, <2>5, <3>2, <3>3
    <2>6. CASE k \in DOMAIN ss
      <3>1. s = <<>>
        BY <2>1, <2>4, <2>6
      <3>2. FlattenSeq(ss) = ss[k]
        BY <1>2, <2>1, <2>4, <2>6
      <3>3. ss[k] \in T
        BY <2>6
      <3> DEFINE one == ss[k]
      <3> HIDE DEF one
      <3>4. one \o <<>> = one
        BY <3>3 DEF one
      <3> QED
        BY <2>1, <2>3, <2>6, <3>1, <3>2, <3>4 DEF one
    <2> QED
      BY <2>1, <2>5, <2>6
  <1> HIDE DEF fine, T
  <1>3. \A ss \in Seq(T) : ss \in fine
    BY <1>1, <1>2, BySequences
  <1> QED
    BY <1>3 DEF fine, T
-----------------------------------------------------------------------------
(* To apply a function to each element, of a sequence and of a longer one. *)
LEMMA EachType ==
  ASSUME NEW M, NEW T, NEW f \in [M -> T], NEW log \in Seq(M),
         NEW old, old = [i \in DOMAIN log |-> f[log[i]]]
  PROVE  old \in Seq(T)
  <1>1. Len(log) \in Nat /\ DOMAIN log = 1..Len(log) /\ \A i \in 1..Len(log) : log[i] \in M
    OBVIOUS
  <1> QED
    BY <1>1

LEMMA EachAppend ==
  ASSUME NEW M, NEW T, NEW f \in [M -> T], NEW log \in Seq(M), NEW m \in M,
         NEW longer, longer = Append(log, m),
         NEW old, old = [i \in DOMAIN log |-> f[log[i]]],
         NEW new, new = [i \in DOMAIN longer |-> f[longer[i]]]
  PROVE  new = Append(old, f[m])
  <1> DEFINE n == Len(log)
  <1>1. /\ n \in Nat /\ DOMAIN log = 1..n /\ DOMAIN longer = 1..(n + 1)
        /\ \A i \in 1..n : longer[i] = log[i] /\ log[i] \in M
        /\ longer[n + 1] = m
    OBVIOUS
  <1>2. old \in Seq(T) /\ Len(old) = n /\ \A i \in 1..n : old[i] = f[log[i]]
    BY <1>1
  <1>3. new = [i \in 1..(n + 1) |-> f[longer[i]]]
    BY <1>1
  <1> HIDE DEF n
  <1>4. Append(old, f[m]) = [i \in 1..(n + 1) |-> IF i = n + 1 THEN f[m] ELSE old[i]]
    <2>1. f[m] \in T
      OBVIOUS
    <2> QED
      BY <1>1, <1>2, <2>1
  <1>5. \A i \in 1..(n + 1) : i = n + 1 \/ i \in 1..n
    BY <1>1
  <1>6. \A i \in 1..(n + 1) : f[longer[i]] = IF i = n + 1 THEN f[m] ELSE old[i]
    BY <1>1, <1>2, <1>5
  <1> QED
    BY <1>3, <1>4, <1>6

(* What one more message adds to those of some turns.                      *)
Alone(m, turns) == IF m.turn \in turns THEN <<m>> ELSE <<>>

LEMMA AloneType ==
  ASSUME NEW M, NEW m \in M, NEW turns
  PROVE  Alone(m, turns) \in Seq(M)
  BY DEF Alone

LEMMA MessagesOfEmpty ==
  ASSUME NEW turns
  PROVE  MessagesOf(<<>>, turns) = <<>>
  BY FlattenEmpty DEF MessagesOf

Marked(M, turns) == [m \in M |-> Alone(m, turns)]

LEMMA MarkedType ==
  ASSUME NEW M, NEW turns
  PROVE  Marked(M, turns) \in [M -> Seq(M)]
  BY AloneType DEF Marked

(* MessagesOf flattens what each message adds.                             *)
LEMMA MessagesOfMarked ==
  ASSUME NEW M, NEW turns, NEW log \in Seq(M)
  PROVE  MessagesOf(log, turns) = FlattenSeq([i \in DOMAIN log |-> Marked(M, turns)[log[i]]])
  <1>1. \A i \in DOMAIN log : log[i] \in M
    OBVIOUS
  <1> QED
    BY <1>1 DEF MessagesOf, Marked, Alone

(* MessagesOf by its two equations, and its type.                          *)
LEMMA MessagesOfType ==
  ASSUME NEW M, NEW turns
  PROVE  \A log \in Seq(M) : MessagesOf(log, turns) \in Seq(M)
  <1> SUFFICES ASSUME NEW log \in Seq(M) PROVE MessagesOf(log, turns) \in Seq(M)
    OBVIOUS
  <1> DEFINE T == Seq(M)
             f == Marked(M, turns)
             old == [i \in DOMAIN log |-> f[log[i]]]
  <1>1. f \in [M -> T]
    BY MarkedType
  <1>2. MessagesOf(log, turns) = FlattenSeq(old)
    BY MessagesOfMarked, Zenon
  <1>3. old = [i \in DOMAIN log |-> f[log[i]]]
    OBVIOUS
  <1> HIDE DEF T, f, old
  <1>4. old \in Seq(T)
    BY <1>1, <1>3, EachType
  <1> QED
    BY <1>2, <1>4, FlattenType DEF T

LEMMA MessagesOfAppend ==
  ASSUME NEW M, NEW log \in Seq(M), NEW m \in M, NEW turns, NEW longer, longer = Append(log, m)
  PROVE  MessagesOf(longer, turns) = MessagesOf(log, turns) \o Alone(m, turns)
  <1> DEFINE T == Seq(M)
             f == Marked(M, turns)
             old == [i \in DOMAIN log |-> f[log[i]]]
             new == [i \in DOMAIN longer |-> f[longer[i]]]
  <1>1. f \in [M -> T] /\ f[m] = Alone(m, turns)
    BY MarkedType DEF Marked
  <1>2. longer \in Seq(M)
    OBVIOUS
  <1>3. MessagesOf(log, turns) = FlattenSeq(old)
    BY MessagesOfMarked, Zenon
  <1>4. MessagesOf(longer, turns) = FlattenSeq(new)
    BY <1>2, MessagesOfMarked, Zenon
  <1>5. old = [i \in DOMAIN log |-> f[log[i]]] /\ new = [i \in DOMAIN longer |-> f[longer[i]]]
    OBVIOUS
  <1> HIDE DEF T, f, old, new
  <1>6. new = Append(old, f[m])
    BY <1>1, <1>5, EachAppend
  <1>7. old \in Seq(T)
    BY <1>1, <1>5, EachType
  <1>8. old \in Seq(Seq(M)) /\ f[m] \in Seq(M)
    BY <1>1, <1>7 DEF T
  <1>9. FlattenSeq(new) = FlattenSeq(old) \o f[m]
    <2>1. FlattenSeq(old) \in Seq(M)
      BY <1>8, FlattenType
    <2>2. FlattenSeq(Append(old, f[m])) = FlattenSeq(old) \o f[m]
      BY <1>8, <2>1, FlattenAppend
    <2> QED
      BY <1>6, <2>2
  <1> QED
    BY <1>1, <1>3, <1>4, <1>9

(* The messages of some turns in two pieces joined.                        *)
LEMMA MessagesOfJoin ==
  ASSUME NEW M, NEW a \in Seq(M), NEW turns
  PROVE  \A b \in Seq(M) : MessagesOf(a \o b, turns) = MessagesOf(a, turns) \o MessagesOf(b, turns)
  <1> DEFINE part(log) == MessagesOf(log, turns)
             fine == {b \in Seq(M) : part(a \o b) = part(a) \o part(b)}
  <1>1. <<>> \in fine
    <2>1. a \o <<>> = a /\ part(a) \o <<>> = part(a) /\ <<>> \in Seq(M)
      BY MessagesOfType
    <2> QED
      BY <2>1, MessagesOfEmpty
  <1>2. ASSUME NEW b \in Seq(M), NEW m \in M, b \in fine PROVE Append(b, m) \in fine
    <2> DEFINE ab == a \o b
               bm == Append(b, m)
               abm == Append(ab, m)
               pm == Alone(m, turns)
    <2>1. /\ ab \in Seq(M) /\ bm \in Seq(M) /\ a \o bm = abm
          /\ abm = Append(ab, m) /\ bm = Append(b, m)
      OBVIOUS
    <2>2. part(ab) = part(a) \o part(b)
      BY <1>2
    <2> HIDE DEF ab, bm, abm
    <2>3. part(abm) = part(ab) \o pm
      BY <2>1, MessagesOfAppend
    <2>4. part(bm) = part(b) \o pm
      BY <2>1, MessagesOfAppend
    <2>5. part(a) \in Seq(M) /\ part(b) \in Seq(M) /\ pm \in Seq(M)
      BY MessagesOfType, AloneType
    <2> HIDE DEF part, pm
    <2>6. (part(a) \o part(b)) \o pm = part(a) \o (part(b) \o pm)
      BY <2>5
    <2>7. part(a \o bm) = part(a) \o part(bm)
      BY <2>1, <2>2, <2>3, <2>4, <2>6
    <2> QED
      BY <2>1, <2>7 DEF bm
  <1> HIDE DEF fine
  <1>3. \A b \in Seq(M) : b \in fine
    BY <1>1, <1>2, BySequences
  <1> QED
    BY <1>3 DEF fine

(* To take the messages of some turns, and of these those of others.       *)
LEMMA MessagesOfMessages ==
  ASSUME NEW M, NEW some, NEW others
  PROVE  \A log \in Seq(M) :
           MessagesOf(MessagesOf(log, some), others) = MessagesOf(log, some \cap others)
  <1> DEFINE both == some \cap others
  <1>0. \A m : m.turn \in both <=> m.turn \in some /\ m.turn \in others
    OBVIOUS
  <1> HIDE DEF both
  <1> DEFINE fine == {log \in Seq(M) : MessagesOf(MessagesOf(log, some), others)
                                         = MessagesOf(log, both)}
  <1>1. <<>> \in fine
    <2>1. <<>> \in Seq(M)
      OBVIOUS
    <2> QED
      BY <2>1, MessagesOfEmpty
  <1>2. ASSUME NEW log \in Seq(M), NEW m \in M, log \in fine PROVE Append(log, m) \in fine
    <2> DEFINE longer == Append(log, m)
               old == MessagesOf(log, some)
               new == MessagesOf(longer, some)
    <2>1. longer \in Seq(M) /\ longer = Append(log, m)
      OBVIOUS
    <2> HIDE DEF longer
    <2>0. old \in Seq(M) /\ MessagesOf(log, both) \in Seq(M)
      BY MessagesOfType
    <2>2. new = old \o Alone(m, some)
      BY <2>1, MessagesOfAppend
    <2>3. MessagesOf(longer, both) = MessagesOf(log, both) \o Alone(m, both)
      BY <2>1, MessagesOfAppend
    <2>4. MessagesOf(old, others) = MessagesOf(log, both)
      BY <1>2
    <2> HIDE DEF old, new
    <2>5. CASE m.turn \in some
      <3>1. new = Append(old, m)
        BY <2>0, <2>2, <2>5 DEF Alone
      <3>2. MessagesOf(new, others) = MessagesOf(old, others) \o Alone(m, others)
        BY <2>0, <3>1, MessagesOfAppend
      <3>3. Alone(m, others) = Alone(m, both)
        BY <1>0, <2>5 DEF Alone
      <3> QED
        BY <2>1, <2>3, <2>4, <3>2, <3>3 DEF new, longer
    <2>6. CASE m.turn \notin some
      <3>1. new = old
        BY <2>0, <2>2, <2>6 DEF Alone
      <3>2. MessagesOf(longer, both) = MessagesOf(log, both)
        <4>1. Alone(m, both) = <<>>
          BY <1>0, <2>6 DEF Alone
        <4> DEFINE part == MessagesOf(log, both)
        <4>2. part \in Seq(M)
          BY <2>0
        <4> HIDE DEF part
        <4>3. part \o <<>> = part
          BY <4>2
        <4> QED
          BY <2>3, <4>1, <4>3 DEF part
      <3> QED
        BY <2>1, <2>4, <3>1, <3>2 DEF new, longer
    <2> QED
      BY <2>5, <2>6
  <1> HIDE DEF fine
  <1>3. \A log \in Seq(M) : log \in fine
    BY <1>1, <1>2, BySequences
  <1> QED
    BY <1>3 DEF fine, both

(* One sequence is another with an element at its end.                     *)
Lengthened(longer, s, x) == longer = Append(s, x)

LEMMA TurnsOfAppend ==
  ASSUME NEW M, NEW log \in Seq(M), NEW m \in M, NEW longer, Lengthened(longer, log, m)
  PROVE  longer \in Seq(M) /\ TurnsOf(longer) = TurnsOf(log) \cup {m.turn}
  <1>1. /\ Len(log) \in Nat /\ DOMAIN log = 1..Len(log) /\ DOMAIN longer = 1..(Len(log) + 1)
        /\ longer[Len(log) + 1] = m /\ \A i \in 1..Len(log) : longer[i] = log[i]
        /\ longer \in Seq(M)
    BY DEF Lengthened
  <1>2. \A i \in 1..(Len(log) + 1) : i \in 1..Len(log) \/ i = Len(log) + 1
    BY <1>1
  <1>3. Len(log) + 1 \in DOMAIN longer /\ \A i \in 1..Len(log) : i \in DOMAIN longer
    BY <1>1
  <1> QED
    BY <1>1, <1>2, <1>3 DEF TurnsOf

(* Turns with no message have none.                                        *)
LEMMA MessagesOfNone ==
  ASSUME NEW M, NEW turns
  PROVE  \A log \in Seq(M) : TurnsOf(log) \cap turns = {} => MessagesOf(log, turns) = <<>>
  <1> DEFINE fine == {log \in Seq(M) : TurnsOf(log) \cap turns = {} => MessagesOf(log, turns) = <<>>}
  <1>1. <<>> \in fine
    <2>1. <<>> \in Seq(M)
      OBVIOUS
    <2> QED
      BY <2>1, MessagesOfEmpty
  <1>2. ASSUME NEW log \in Seq(M), NEW m \in M, log \in fine PROVE Append(log, m) \in fine
    <2> DEFINE longer == Append(log, m)
    <2>1. longer \in Seq(M) /\ TurnsOf(longer) = TurnsOf(log) \cup {m.turn}
      <3>1. Lengthened(longer, log, m)
        BY DEF Lengthened
      <3> HIDE DEF longer
      <3> QED
        BY <3>1, TurnsOfAppend
    <2>2. MessagesOf(longer, turns) = MessagesOf(log, turns) \o Alone(m, turns)
      <3>1. longer = Append(log, m)
        OBVIOUS
      <3> HIDE DEF longer
      <3> QED
        BY <3>1, MessagesOfAppend
    <2> HIDE DEF longer
    <2>3. SUFFICES ASSUME TurnsOf(longer) \cap turns = {} PROVE MessagesOf(longer, turns) = <<>>
      BY <2>1 DEF longer
    <2>4. TurnsOf(log) \cap turns = {} /\ m.turn \notin turns
      BY <2>1, <2>3
    <2>5. MessagesOf(log, turns) = <<>> /\ Alone(m, turns) = <<>>
      BY <1>2, <2>4 DEF Alone
    <2>6. <<>> \o <<>> = <<>>
      OBVIOUS
    <2> QED
      BY <2>2, <2>5, <2>6
  <1> HIDE DEF fine
  <1>3. \A log \in Seq(M) : log \in fine
    BY <1>1, <1>2, BySequences
  <1> QED
    BY <1>3 DEF fine

(* If all messages are of these turns, none is dropped.                    *)
LEMMA MessagesOfAll ==
  ASSUME NEW M, NEW turns
  PROVE  \A log \in Seq(M) : TurnsOf(log) \subseteq turns => MessagesOf(log, turns) = log
  <1> DEFINE fine == {log \in Seq(M) : TurnsOf(log) \subseteq turns => MessagesOf(log, turns) = log}
  <1>1. <<>> \in fine
    <2>1. <<>> \in Seq(M)
      OBVIOUS
    <2> QED
      BY <2>1, MessagesOfEmpty
  <1>2. ASSUME NEW log \in Seq(M), NEW m \in M, log \in fine PROVE Append(log, m) \in fine
    <2> DEFINE longer == Append(log, m)
    <2>1. longer \in Seq(M) /\ TurnsOf(longer) = TurnsOf(log) \cup {m.turn}
      <3>1. Lengthened(longer, log, m)
        BY DEF Lengthened
      <3> HIDE DEF longer
      <3> QED
        BY <3>1, TurnsOfAppend
    <2>2. MessagesOf(longer, turns) = MessagesOf(log, turns) \o Alone(m, turns)
      <3>1. longer = Append(log, m)
        OBVIOUS
      <3> HIDE DEF longer
      <3> QED
        BY <3>1, MessagesOfAppend
    <2>3. longer = log \o <<m>>
      OBVIOUS
    <2> HIDE DEF longer
    <2>4. SUFFICES ASSUME TurnsOf(longer) \subseteq turns PROVE MessagesOf(longer, turns) = longer
      BY <2>1 DEF longer
    <2>5. TurnsOf(log) \subseteq turns /\ m.turn \in turns
      BY <2>1, <2>4
    <2>6. MessagesOf(log, turns) = log /\ Alone(m, turns) = <<m>>
      BY <1>2, <2>5 DEF Alone
    <2> QED
      BY <2>2, <2>3, <2>6
  <1> HIDE DEF fine
  <1>3. \A log \in Seq(M) : log \in fine
    BY <1>1, <1>2, BySequences
  <1> QED
    BY <1>3 DEF fine

Parted(ss, turns) == [i \in DOMAIN ss |-> MessagesOf(ss[i], turns)]

LEMMA PartedType ==
  ASSUME NEW M, NEW ss \in Seq(Seq(M)), NEW turns
  PROVE  Parted(ss, turns) \in Seq(Seq(M))
  <1>1. \A i \in DOMAIN ss : ss[i] \in Seq(M)
    OBVIOUS
  <1>2. \A i \in DOMAIN ss : MessagesOf(ss[i], turns) \in Seq(M)
    BY <1>1, MessagesOfType
  <1>3. DOMAIN ss = 1..Len(ss) /\ Len(ss) \in Nat
    OBVIOUS
  <1> DEFINE T == Seq(M)
  <1> HIDE DEF T
  <1> QED
    BY <1>2, <1>3 DEF Parted, T

LEMMA PartedAppend ==
  ASSUME NEW M, NEW ss \in Seq(Seq(M)), NEW s \in Seq(M), NEW turns, NEW longer,
         Lengthened(longer, ss, s)
  PROVE  Lengthened(Parted(longer, turns), Parted(ss, turns), MessagesOf(s, turns))
  <1> DEFINE T == Seq(M)
             f == [q \in T |-> MessagesOf(q, turns)]
             old == [i \in DOMAIN ss |-> f[ss[i]]]
             new == [i \in DOMAIN longer |-> f[longer[i]]]
  <1>1. f \in [T -> T]
    BY MessagesOfType
  <1>2. ss \in Seq(T) /\ longer \in Seq(T) /\ s \in T /\ longer = Append(ss, s)
    BY DEF Lengthened
  <1>3. old = Parted(ss, turns)
    <2>1. \A i \in DOMAIN ss : f[ss[i]] = MessagesOf(ss[i], turns)
      BY <1>2
    <2> HIDE DEF f
    <2> QED
      BY <2>1 DEF Parted
  <1>4. new = Parted(longer, turns)
    <2>1. \A i \in DOMAIN longer : f[longer[i]] = MessagesOf(longer[i], turns)
      BY <1>2
    <2> HIDE DEF f
    <2> QED
      BY <2>1 DEF Parted
  <1>5. f[s] = MessagesOf(s, turns)
    BY <1>2
  <1>6. old = [i \in DOMAIN ss |-> f[ss[i]]] /\ new = [i \in DOMAIN longer |-> f[longer[i]]]
    OBVIOUS
  <1> HIDE DEF f, T, old, new
  <1>7. new = Append(old, f[s])
    BY <1>1, <1>2, <1>6, EachAppend
  <1> QED
    BY <1>3, <1>4, <1>5, <1>7 DEF Lengthened

(* To flatten and then take some turns, or the other way round.            *)
LEMMA MessagesOfFlatten ==
  ASSUME NEW M, NEW turns
  PROVE  \A ss \in Seq(Seq(M)) : MessagesOf(FlattenSeq(ss), turns) = FlattenSeq(Parted(ss, turns))
  <1> DEFINE T == Seq(M)
             fine == {ss \in Seq(T) : MessagesOf(FlattenSeq(ss), turns) = FlattenSeq(Parted(ss, turns))}
  <1>1. <<>> \in fine
    <2>1. Parted(<<>>, turns) = <<>>
      BY DEF Parted
    <2>2. <<>> \in Seq(T)
      OBVIOUS
    <2> QED
      BY <2>1, <2>2, FlattenEmpty, MessagesOfEmpty
  <1>2. ASSUME NEW ss \in Seq(T), NEW s \in T, ss \in fine PROVE Append(ss, s) \in fine
    <2> DEFINE longer == Append(ss, s)
               flat == FlattenSeq(ss)
               part == MessagesOf(s, turns)
               parts == Parted(ss, turns)
    <2>1. longer \in Seq(T) /\ longer = Append(ss, s)
      OBVIOUS
    <2>2. flat \in Seq(M) /\ parts \in Seq(T) /\ part \in T
      BY FlattenType, PartedType, MessagesOfType
    <2>3. FlattenSeq(parts) \in Seq(M)
      <3> HIDE DEF parts
      <3> QED
        BY <2>2, FlattenType
    <2>4. FlattenSeq(longer) = flat \o s
      BY <2>2, FlattenAppend
    <2>5. Parted(longer, turns) = Append(parts, part)
      <3>1. Lengthened(longer, ss, s)
        BY DEF Lengthened
      <3> HIDE DEF longer
      <3>2. Lengthened(Parted(longer, turns), parts, part)
        BY <3>1, PartedAppend
      <3> QED
        BY <3>2 DEF Lengthened
    <2> HIDE DEF longer, part, parts
    <2>6. FlattenSeq(Append(parts, part)) = FlattenSeq(parts) \o part
      BY <2>2, <2>3, FlattenAppend
    <2>7. MessagesOf(flat, turns) = FlattenSeq(parts)
      BY <1>2 DEF parts
    <2> HIDE DEF flat
    <2>8. MessagesOf(flat \o s, turns) = MessagesOf(flat, turns) \o part
      <3>1. s \in Seq(M)
        OBVIOUS
      <3> HIDE DEF T
      <3> QED
        BY <2>2, <3>1, MessagesOfJoin DEF part
    <2>9. MessagesOf(FlattenSeq(longer), turns) = FlattenSeq(Parted(longer, turns))
      BY <2>4, <2>5, <2>6, <2>7, <2>8
    <2> QED
      BY <2>1, <2>9 DEF longer
  <1> HIDE DEF fine, T
  <1>3. \A ss \in Seq(T) : ss \in fine
    BY <1>1, <1>2, BySequences
  <1> QED
    BY <1>3 DEF fine, T

(* The messages of one turn.                                               *)
LEMMA PartType ==
  ASSUME NEW log \in Seq(Message), NEW t
  PROVE  PartOf(log, t) \in Seq(Message)
  <1> DEFINE only == {t}
  <1> HIDE DEF only
  <1>1. MessagesOf(log, only) \in Seq(Message)
    BY MessagesOfType
  <1> QED
    BY <1>1 DEF PartOf, only

(* A part of two pieces, and of three, is the parts of the pieces.         *)
LEMMA PartOfTwo ==
  ASSUME NEW a \in Seq(Message), NEW b \in Seq(Message), NEW t
  PROVE  PartOf(a \o b, t) = PartOf(a, t) \o PartOf(b, t)
  <1> DEFINE only == {t}
  <1> HIDE DEF only
  <1>1. MessagesOf(a \o b, only) = MessagesOf(a, only) \o MessagesOf(b, only)
    BY MessagesOfJoin
  <1> QED
    BY <1>1 DEF PartOf, only

Joins(all, a, b, c) == all = (a \o b) \o c

LEMMA PartOfThree ==
  ASSUME NEW a \in Seq(Message), NEW b \in Seq(Message), NEW c \in Seq(Message), NEW t,
         NEW all, Joins(all, a, b, c)
  PROVE  Joins(PartOf(all, t), PartOf(a, t), PartOf(b, t), PartOf(c, t))
  <1> DEFINE ab == a \o b
  <1>1. ab \in Seq(Message)
    OBVIOUS
  <1>2. PartOf(ab, t) = PartOf(a, t) \o PartOf(b, t)
    BY PartOfTwo
  <1> HIDE DEF ab
  <1>3. PartOf(ab \o c, t) = PartOf(ab, t) \o PartOf(c, t)
    BY <1>1, PartOfTwo
  <1> QED
    BY <1>2, <1>3 DEF ab, Joins

(* Of three pieces two are empty.                                          *)
LEMMA JoinsAlone ==
  ASSUME NEW a \in Seq(Message), NEW all
  PROVE  /\ Joins(all, a, <<>>, <<>>) => all = a
         /\ Joins(all, <<>>, a, <<>>) => all = a
         /\ Joins(all, <<>>, <<>>, a) => all = a
  <1>1. a \o <<>> = a /\ <<>> \o a = a /\ <<>> \o <<>> = <<>>
    OBVIOUS
  <1> QED
    BY <1>1 DEF Joins

(* What Chat makes are messages of the store.                              *)
LEMMA MessagesAreMessages ==
  ASSUME NEW t \in Turns, NEW r \in Nat, NEW n \in Nat
  PROVE  /\ UserMessage(t) \in Message
         /\ AssistantMessage(t, r, n) \in Message
         /\ ToolMessage(t, r, n) \in Message
  BY DEF UserMessage, AssistantMessage, ToolMessage, Message
-----------------------------------------------------------------------------
(* What a turn has stored so far, message by message.                      *)
ResultsOf(t, r, k) == [i \in 1..k |-> ToolMessage(t, r, i)]
RoundOf(t, r, calls) == <<AssistantMessage(t, r, calls)>> \o ResultsOf(t, r, calls)
RoundsOf(t, asked, n) == [r \in 1..n |-> RoundOf(t, r, asked[r])]
FirstRounds(t, asked, n) == <<UserMessage(t)>> \o FlattenSeq(RoundsOf(t, asked, n))

(* By the place the loop of Chat has reached.                              *)
SentBy(t, f) ==
  CASE f.pc = "user" -> <<>>
    [] f.pc = "assistant" -> FirstRounds(t, f.asked, Rounds(f) - 1)
    [] f.pc \in {"tools", "results"} ->
         FirstRounds(t, f.asked, Rounds(f) - 1)
           \o (<<AssistantMessage(t, Rounds(f), f.asked[Rounds(f)])>>
                 \o ResultsOf(t, Rounds(f), f.delivered))
    [] OTHER -> FirstRounds(t, f.asked, Rounds(f))

(* A log holds of t what t has sent, at its end if turns do not overlap.   *)
Fits(t, sent, log) ==
  /\ PartOf(log, t) = sent
  /\ OneRunPerThread => \E before \in Seq(Message) : log = before \o sent

(* The log of its session holds exactly what a running turn has sent, and  *)
(* so does the log it has read for the call it is about to make.           *)
ExactInv(t) ==
  t \notin removed /\ Running(t) =>
    /\ Fits(t, SentBy(t, chat[t]), messages[session[t]])
    /\ chat[t].pc = "call" => Fits(t, SentBy(t, chat[t]), chat[t].snapshot)

(* What OneRunPerThread asks of Begin.                                     *)
OneAtATime ==
  OneRunPerThread => \A t, u \in Turns :
    t # u /\ Running(t) /\ Running(u) => session[t] # session[u]

(* The results of a round: their type, none, one more.                     *)
LEMMA ResultsType ==
  ASSUME NEW t \in Turns, NEW r \in Nat, NEW k \in Nat
  PROVE  ResultsOf(t, r, k) \in Seq(Message)
  <1>1. \A i \in 1..k : ToolMessage(t, r, i) \in Message
    BY MessagesAreMessages
  <1> QED
    BY <1>1 DEF ResultsOf

LEMMA ResultsNone ==
  ASSUME NEW t, NEW r
  PROVE  ResultsOf(t, r, 0) = <<>>
  BY DEF ResultsOf

LEMMA ResultsGrow ==
  ASSUME NEW t \in Turns, NEW r \in Nat, NEW k \in Nat, NEW more, more = k + 1
  PROVE  ResultsOf(t, r, more) = Append(ResultsOf(t, r, k), ToolMessage(t, r, more))
  <1> DEFINE old == ResultsOf(t, r, k)
             m == ToolMessage(t, r, more)
  <1>1. m \in Message /\ \A i \in 1..more : ToolMessage(t, r, i) \in Message
    BY MessagesAreMessages
  <1>2. old \in Seq(Message) /\ Len(old) = k /\ \A i \in 1..k : old[i] = ToolMessage(t, r, i)
    BY ResultsType DEF ResultsOf
  <1> HIDE DEF old, m
  <1>3. Append(old, m) = [i \in 1..more |-> IF i = more THEN m ELSE old[i]]
    BY <1>1, <1>2, AppendIs
  <1>4. \A i \in 1..more : i = more \/ i \in 1..k
    OBVIOUS
  <1>5. \A i \in 1..more : ToolMessage(t, r, i) = IF i = more THEN m ELSE old[i]
    BY <1>2, <1>4 DEF m
  <1> QED
    BY <1>3, <1>5 DEF ResultsOf, old, m

(* A round, and the first rounds of a turn: their type, none, one more.    *)
LEMMA RoundType ==
  ASSUME NEW t \in Turns, NEW r \in Nat, NEW calls \in Nat
  PROVE  RoundOf(t, r, calls) \in Seq(Message)
  <1>1. ResultsOf(t, r, calls) \in Seq(Message) /\ AssistantMessage(t, r, calls) \in Message
    BY ResultsType, MessagesAreMessages
  <1> QED
    BY <1>1 DEF RoundOf

LEMMA RoundsType ==
  ASSUME NEW t \in Turns, NEW asked, NEW n \in Nat, \A r \in 1..n : asked[r] \in Nat
  PROVE  RoundsOf(t, asked, n) \in Seq(Seq(Message))
  <1>1. ASSUME NEW r \in 1..n PROVE RoundOf(t, r, asked[r]) \in Seq(Message)
    <2>1. r \in Nat /\ asked[r] \in Nat
      OBVIOUS
    <2> QED
      BY <2>1, RoundType
  <1> QED
    BY <1>1 DEF RoundsOf

LEMMA FirstRoundsType ==
  ASSUME NEW t \in Turns, NEW asked, NEW n \in Nat, \A r \in 1..n : asked[r] \in Nat
  PROVE  FirstRounds(t, asked, n) \in Seq(Message)
  <1>1. FlattenSeq(RoundsOf(t, asked, n)) \in Seq(Message)
    BY RoundsType, FlattenType
  <1>2. <<UserMessage(t)>> \in Seq(Message)
    BY MessagesAreMessages
  <1> QED
    BY <1>1, <1>2 DEF FirstRounds

LEMMA NoRoundYet ==
  ASSUME NEW t \in Turns, NEW asked
  PROVE  FirstRounds(t, asked, 0) = <<UserMessage(t)>>
  <1>1. RoundsOf(t, asked, 0) = <<>>
    BY DEF RoundsOf
  <1>2. <<UserMessage(t)>> \o <<>> = <<UserMessage(t)>>
    OBVIOUS
  <1> QED
    BY <1>1, <1>2, FlattenEmpty DEF FirstRounds

LEMMA OneMoreRound ==
  ASSUME NEW t \in Turns, NEW asked, NEW n \in Nat, NEW more, more = n + 1,
         \A r \in 1..more : asked[r] \in Nat
  PROVE  FirstRounds(t, asked, more) = FirstRounds(t, asked, n) \o RoundOf(t, more, asked[more])
  <1> DEFINE old == RoundsOf(t, asked, n)
             new == RoundsOf(t, asked, more)
             next == RoundOf(t, more, asked[more])
             user == <<UserMessage(t)>>
  <1>1. more \in Nat /\ more \in 1..more /\ \A r \in 1..n : r \in 1..more
    OBVIOUS
  <1>2. next \in Seq(Message)
    BY <1>1, RoundType
  <1>3. /\ old \in Seq(Seq(Message)) /\ Len(old) = n
        /\ \A r \in 1..n : old[r] = RoundOf(t, r, asked[r])
    BY <1>1, RoundsType DEF RoundsOf
  <1>4. new = [r \in 1..more |-> RoundOf(t, r, asked[r])]
    BY DEF RoundsOf
  <1>5. user \in Seq(Message)
    BY MessagesAreMessages
  <1> HIDE DEF old, user, new
  <1>6. Append(old, next) = [r \in 1..more |-> IF r = more THEN next ELSE old[r]]
    <2> HIDE DEF next
    <2> DEFINE S == Seq(Message)
    <2>1. old \in Seq(S) /\ next \in S /\ more = Len(old) + 1
      BY <1>2, <1>3
    <2> HIDE DEF S
    <2> QED
      BY <2>1, AppendIs
  <1>7. \A r \in 1..more : r = more \/ r \in 1..n
    OBVIOUS
  <1>8. \A r \in 1..more : RoundOf(t, r, asked[r]) = IF r = more THEN next ELSE old[r]
    BY <1>3, <1>7
  <1> HIDE DEF next
  <1>9. new = Append(old, next)
    BY <1>4, <1>6, <1>8
  <1>10. FlattenSeq(old) \in Seq(Message)
    BY <1>3, FlattenType
  <1>11. FlattenSeq(new) = FlattenSeq(old) \o next
    BY <1>2, <1>3, <1>9, <1>10, FlattenAppend
  <1>12. (user \o FlattenSeq(old)) \o next = user \o (FlattenSeq(old) \o next)
    BY <1>2, <1>5, <1>10
  <1> QED
    BY <1>11, <1>12 DEF FirstRounds, old, new, next, user

(* Rounds depend on the batches asked for, up to their number.             *)
LEMMA SameRounds ==
  ASSUME NEW t, NEW asked, NEW others, NEW n, \A r \in 1..n : asked[r] = others[r]
  PROVE  FirstRounds(t, asked, n) = FirstRounds(t, others, n)
  <1>1. RoundsOf(t, asked, n) = RoundsOf(t, others, n)
    BY DEF RoundsOf
  <1> QED
    BY <1>1 DEF FirstRounds
-----------------------------------------------------------------------------
(* What a frame of Chat has been through.                                  *)
LEMMA FrameFacts ==
  ASSUME LocalInv, NEW t \in Turns
  PROVE  /\ chat[t] \in Frame /\ FrameOK(chat[t])
         /\ Rounds(chat[t]) \in Nat /\ chat[t].delivered \in Nat
         /\ \A r \in 1..Rounds(chat[t]) : chat[t].asked[r] \in Nat
  BY FrameParts DEF LocalInv, TypeOK

(* A turn whose frame and messages a step leaves alone.                    *)
LEMMA ExactUntouched ==
  ASSUME NEW u \in Turns, ExactInv(u),
         chat'[u] = chat[u], session'[u] = session[u], removed \subseteq removed',
         \/ messages'[session[u]] = messages[session[u]]
         \/ /\ PartOf(messages'[session[u]], u) = PartOf(messages[session[u]], u)
            /\ ~OneRunPerThread
  PROVE  ExactInv(u)'
  <1>1. Running(u)' = Running(u)
    BY DEF Running
  <1> DEFINE sent == SentBy(u, chat[u])
  <1>2. SUFFICES ASSUME u \notin removed, Running(u)
                 PROVE  /\ Fits(u, sent, messages'[session[u]])
                        /\ chat[u].pc = "call" => Fits(u, sent, chat[u].snapshot)
    BY <1>1 DEF ExactInv
  <1>3. /\ Fits(u, sent, messages[session[u]])
        /\ chat[u].pc = "call" => Fits(u, sent, chat[u].snapshot)
    BY <1>2 DEF ExactInv
  <1> HIDE DEF sent
  <1> QED
    BY <1>3 DEF Fits

(* Nothing is claimed of a turn that is at rest.                           *)
LEMMA ExactAtRest ==
  ASSUME NEW u \in Turns, chat'[u].pc \in Ended \cup {"idle"}
  PROVE  ExactInv(u)'
  BY DEF ExactInv, Running

(* A step of the loop that stores nothing keeps the log and what the turn  *)
(* has sent.                                                               *)
LEMMA QuietKeepsExact ==
  ASSUME LocalInv, NEW t \in Turns, Quiet(t), ExactInv(t)
  PROVE  ExactInv(t)'
  <1> DEFINE f == chat[t]
             g == chat'[t]
  <1>1. /\ f \in Frame /\ FrameOK(f) /\ Rounds(f) \in Nat /\ chat \in [Turns -> Frame]
        /\ f.asked \in Seq(Batches)
    BY FrameFacts, FrameParts DEF LocalInv, TypeOK
  <1>2. UNCHANGED <<messages, session, removed>> /\ Running(t)
    BY DEF Quiet, CheckSession, MaterializeSession, ReadMessages,
           ReadFails, ModelReplies, ExecuteTools, Cancel, store, Running, Emitting, Ended
  <1>3. SUFFICES ASSUME t \notin removed
                 PROVE  /\ SentBy(t, g) = SentBy(t, f)
                        /\ g.pc = "call" => g.snapshot = messages[session[t]] \/
                                            (f.pc = "call" /\ g.snapshot = f.snapshot)
    BY <1>2 DEF ExactInv
  <1>4. CASE CheckSession(t) \/ MaterializeSession(t) \/ Cancel(t)
    <2>1. g.pc = f.pc /\ g.asked = f.asked /\ g.delivered = f.delivered /\ g.snapshot = f.snapshot
      BY <1>1, <1>4 DEF CheckSession, MaterializeSession, Cancel, Frame
    <2> QED
      BY <2>1 DEF SentBy, Rounds
  <1>5. CASE ReadMessages(t)
    <2>1. /\ g.pc = "call" /\ f.pc = "read" /\ g.asked = f.asked
          /\ g.snapshot = messages[session[t]]
      BY <1>1, <1>5 DEF ReadMessages, Frame
    <2> QED
      BY <2>1 DEF SentBy, Rounds
  <1>6. CASE ReadFails(t)
    <2>1. g.pc = "blind" /\ f.pc = "read" /\ g.asked = f.asked
      BY <1>1, <1>6 DEF ReadFails, Frame
    <2> QED
      BY <2>1 DEF SentBy, Rounds
  <1>7. CASE ExecuteTools(t) /\ chat'[t].pc # "failed"
    <2>1. g.pc = "results" /\ f.pc = "tools" /\ g.asked = f.asked /\ g.delivered = f.delivered
      BY <1>1, <1>7 DEF ExecuteTools, Return, AtRest, Frame
    <2> QED
      BY <2>1 DEF SentBy, Rounds
  <1>8. ASSUME NEW calls \in Batches, ModelReplies(t, calls)
        PROVE  g.pc = "assistant" /\ SentBy(t, g) = SentBy(t, f)
    <2>1. /\ g.pc = "assistant" /\ f.pc \in {"call", "blind"}
          /\ g.asked = Append(f.asked, calls)
      BY <1>1, <1>8 DEF ModelReplies, Frame
    <2>2. Rounds(g) = Rounds(f) + 1 /\ \A r \in 1..Rounds(f) : g.asked[r] = f.asked[r]
      BY <1>1, <2>1 DEF Rounds
    <2>3. Rounds(g) - 1 = Rounds(f)
      BY <1>1, <2>2
    <2>4. FirstRounds(t, g.asked, Rounds(f)) = FirstRounds(t, f.asked, Rounds(f))
      BY <2>2, SameRounds
    <2> QED
      BY <2>1, <2>3, <2>4 DEF SentBy
  <1> QED
    BY <1>4, <1>5, <1>6, <1>7, <1>8 DEF Quiet

(* A message of one turn adds nothing to the part of another.              *)
LEMMA InsertKeepsExactOfOthers ==
  ASSUME IInv, OneAtATime, NEW t \in Turns, InsertMessage(t), NEW u \in Turns \ {t}, ExactInv(u)
  PROVE  ExactInv(u)'
  <1> DEFINE m == CurrentMessage(t)
             log == messages[session[u]]
             new == messages'[session[u]]
  <1>1. LocalInv /\ chat[t].pc \in Emitting /\ session[t] \in Sessions
    BY DEF IInv, LocalInv, InsertMessage, Emitting
  <1>2. m \in Message /\ m.turn = t
    BY <1>1, CurrentIsMessage
  <1>3. chat'[u] = chat[u] /\ UNCHANGED <<session, removed>>
    BY <1>1, MessageHandledIsSound DEF InsertMessage, FrameStep
  <1>4. CASE session[u] \notin Sessions
    BY <1>1, <1>3, <1>4, ExactAtRest DEF LocalInv
  <1>6. CASE OneRunPerThread
    <2>1. Running(t)
      BY <1>1 DEF Running, Emitting, Ended
    <2>2. CASE ~Running(u)
      BY <1>3, <2>2, ExactAtRest DEF Running
    <2>3. CASE Running(u)
      <3>1. session[u] # session[t]
        BY <1>6, <2>1, <2>3 DEF OneAtATime
      <3>2. messages'[session[u]] = messages[session[u]]
        BY <1>1, <1>4, <3>1, <2>3 DEF InsertMessage, LocalInv, TypeOK, Running
      <3> QED
        BY <1>3, <3>2, ExactUntouched
    <2> QED
      BY <2>2, <2>3
  <1>5. CASE session[u] \in Sessions /\ ~OneRunPerThread
    <2>1. log \in Seq(Message) /\ (new = log \/ new = Append(log, m))
      BY <1>1, <1>5, LogParts DEF InsertMessage, LocalInv, TypeOK
    <2> HIDE DEF m
    <2>2. Alone(m, {u}) = <<>>
      BY <1>2 DEF Alone
    <2>3. MessagesOf(new, {u}) = MessagesOf(log, {u})
      <3> DEFINE only == {u}
                 part == MessagesOf(log, only)
      <3>1. Alone(m, only) = <<>>
        BY <2>2
      <3> HIDE DEF log, new, only
      <3>2. part \in Seq(Message)
        BY <2>1, MessagesOfType
      <3>3. CASE new = Append(log, m)
        <4>1. MessagesOf(new, only) = part \o Alone(m, only)
          BY <1>2, <2>1, <3>3, MessagesOfAppend
        <4> HIDE DEF part
        <4>2. part \o <<>> = part
          BY <3>2
        <4> QED
          BY <3>1, <4>1, <4>2 DEF part, only
      <3> QED
        BY <2>1, <3>3 DEF part, only
    <2> QED
      BY <1>3, <1>5, <2>3, ExactUntouched DEF PartOf
  <1> QED
    BY <1>4, <1>5, <1>6

(* What a turn will have stored once the message it hands over is stored.  *)
LEMMA InsertKeepsExact ==
  ASSUME IInv, NEW t \in Turns, InsertMessage(t), ExactInv(t)
  PROVE  ExactInv(t)'
  <1> DEFINE f == chat[t]
             g == chat'[t]
             m == CurrentMessage(t)
             log == messages[session[t]]
             new == messages'[session[t]]
             n == Rounds(f)
             d == f.delivered
  <1>1. LocalInv /\ f.pc \in Emitting /\ session[t] \in Sessions
    BY DEF IInv, LocalInv, InsertMessage, Emitting
  <1>2. /\ f \in Frame /\ FrameOK(f) /\ n \in Nat /\ d \in Nat
        /\ \A r \in 1..n : f.asked[r] \in Nat
    BY <1>1, FrameFacts
  <1>3. m \in Message /\ m.turn = t /\ log \in Seq(Message) /\ new = Append(log, m)
    BY <1>1, LogParts, CurrentIsMessage DEF InsertMessage, LocalInv, TypeOK
  <1>4. session' = session /\ removed' = removed
    BY DEF InsertMessage
  <1>5. SUFFICES ASSUME t \notin removed, Running(t)'
                 PROVE  Fits(t, SentBy(t, g), new) /\ g.pc # "call"
    BY <1>4 DEF ExactInv
  <1>6. /\ g.asked = f.asked /\ g.pc = AfterMessage(t)
        /\ g.delivered = IF MoreResults(t) THEN d + 1 ELSE 0
    BY <1>1, <1>5, HandledMovesOn DEF InsertMessage
  <1>7. g.pc # "call"
    BY <1>1, <1>6 DEF AfterMessage, Emitting
  <1>11. Fits(t, SentBy(t, f), log)
    BY <1>1, <1>4, <1>5 DEF ExactInv, Running, Emitting, Ended
  <1>8. PartOf(log, t) = SentBy(t, f) /\ SentBy(t, f) \in Seq(Message)
    <2>1. PartOf(log, t) = SentBy(t, f)
      BY <1>11 DEF Fits
    <2> QED
      BY <1>3, <2>1, MessagesOfType DEF PartOf
  <1>9. PartOf(new, t) = SentBy(t, f) \o <<m>>
    <2> DEFINE only == {t}
    <2>1. Alone(m, only) = <<m>>
      BY <1>3 DEF Alone
    <2> HIDE DEF log, new, m, only
    <2>2. MessagesOf(new, only) = MessagesOf(log, only) \o Alone(m, only)
      BY <1>3, MessagesOfAppend
    <2> QED
      BY <1>8, <2>1, <2>2 DEF PartOf, only
  <1> HIDE DEF log, new
  <1>10. SentBy(t, f) \o <<m>> = SentBy(t, g)
    <2>1. CASE f.pc = "user"
      <3>1. g.pc = "read" /\ n = 0 /\ Rounds(g) = 0 /\ m = UserMessage(t)
        BY <1>2, <1>6, <2>1 DEF AfterMessage, FrameOK, Rounds, CurrentMessage
      <3>2. SentBy(t, f) = <<>> /\ SentBy(t, g) = FirstRounds(t, g.asked, 0)
        BY <2>1, <3>1 DEF SentBy
      <3>3. <<>> \o <<m>> = <<m>>
        OBVIOUS
      <3> HIDE DEF m, f, g
      <3> QED
        BY <3>1, <3>2, <3>3, NoRoundYet
    <2>2. CASE f.pc = "assistant"
      <3> DEFINE calls == f.asked[n]
                 before == FirstRounds(t, f.asked, n - 1)
      <3>1. /\ n >= 1 /\ n - 1 \in Nat /\ n = (n - 1) + 1 /\ calls \in Nat
            /\ m = AssistantMessage(t, n, calls)
        BY <1>2, <2>2 DEF FrameOK, CurrentMessage, Rounds, Round, LastBatch
      <3>2. SentBy(t, f) = before /\ before \in Seq(Message)
        BY <1>8, <2>2 DEF SentBy
      <3>3. CASE calls = 0
        <4>1. g.pc = "finish" /\ Rounds(g) = n
          BY <1>6, <2>2, <3>3 DEF AfterMessage, LastBatch, Round, Rounds
        <4>2. SentBy(t, g) = FirstRounds(t, f.asked, n)
          BY <1>6, <4>1 DEF SentBy
        <4>3. RoundOf(t, n, calls) = <<m>>
          <5>1. <<m>> \o <<>> = <<m>>
            OBVIOUS
          <5> HIDE DEF m, n
          <5> QED
            BY <3>1, <3>3, <5>1, ResultsNone DEF RoundOf
        <4> HIDE DEF n, f, m
        <4>4. FirstRounds(t, f.asked, n) = before \o RoundOf(t, n, calls)
          BY <1>2, <3>1, OneMoreRound
        <4> HIDE DEF before, calls
        <4> QED
          BY <3>2, <4>2, <4>3, <4>4
      <3>4. CASE calls # 0
        <4>1. g.pc = "tools" /\ Rounds(g) = n /\ g.delivered = 0
          BY <1>6, <2>2, <3>4 DEF AfterMessage, LastBatch, Round, Rounds, MoreResults
        <4>2. SentBy(t, g) = before \o (<<m>> \o ResultsOf(t, n, 0))
          BY <1>6, <3>1, <4>1 DEF SentBy
        <4>3. <<m>> \o <<>> = <<m>>
          OBVIOUS
        <4> HIDE DEF m, before, n
        <4> QED
          BY <3>2, <4>2, <4>3, ResultsNone
      <3> QED
        BY <3>3, <3>4
    <2>3. CASE f.pc = "results"
      <3> DEFINE calls == f.asked[n]
                 before == FirstRounds(t, f.asked, n - 1)
                 answer == <<AssistantMessage(t, n, calls)>>
                 more == d + 1
      <3>1. /\ n >= 1 /\ n - 1 \in Nat /\ n = (n - 1) + 1 /\ calls \in Nat /\ d < calls
            /\ m = ToolMessage(t, n, more) /\ more = d + 1
        BY <1>2, <2>3 DEF FrameOK, CurrentMessage, Rounds, Round, LastBatch
      <3>2. SentBy(t, f) = before \o (answer \o ResultsOf(t, n, d))
        BY <2>3 DEF SentBy
      <3>3. ResultsOf(t, n, more) = Append(ResultsOf(t, n, d), m)
        <4> HIDE DEF n, d, m, more
        <4> QED
          BY <1>2, <3>1, ResultsGrow
      <3>4. /\ before \in Seq(Message)
            /\ answer \in Seq(Message)
            /\ ResultsOf(t, n, d) \in Seq(Message)
        <4>1. n - 1 \in Nat /\ \A r \in 1..(n - 1) : f.asked[r] \in Nat
          BY <1>2, <3>1
        <4>2. AssistantMessage(t, n, calls) \in Message
          BY <1>2, <3>1, MessagesAreMessages
        <4>3. ResultsOf(t, n, d) \in Seq(Message)
          BY <1>2, ResultsType
        <4>4. before \in Seq(Message)
          BY <4>1, FirstRoundsType
        <4> QED
          BY <4>2, <4>3, <4>4
      <3>5. SentBy(t, f) \o <<m>> = before \o (answer \o ResultsOf(t, n, more))
        <4> DEFINE results == ResultsOf(t, n, d)
        <4>1. /\ before \in Seq(Message) /\ answer \in Seq(Message) /\ results \in Seq(Message)
              /\ m \in Message
          BY <1>3, <3>4
        <4> HIDE DEF before, answer, results, m
        <4>2. Append(results, m) = results \o <<m>> /\ <<m>> \in Seq(Message)
          BY <4>1
        <4> DEFINE last == <<m>>
        <4>3. last \in Seq(Message)
          BY <4>2
        <4> HIDE DEF last
        <4> DEFINE both == answer \o results
        <4>4. both \in Seq(Message)
          BY <4>1
        <4>5. both \o last = answer \o (results \o last)
          BY <4>1, <4>3, Joined
        <4>6. (before \o both) \o last = before \o (both \o last)
          <5> DEFINE S == Seq(Message)
          <5>1. before \in S /\ both \in S /\ last \in S
            BY <4>1, <4>3, <4>4
          <5> HIDE DEF both, f, n, d
          <5> QED
            BY <5>1, Joined
        <4> QED
          BY <3>2, <3>3, <4>2, <4>5, <4>6 DEF results, last
      <3>6. CASE more < calls
        <4>1. g.pc = "results" /\ Rounds(g) = n /\ g.delivered = more
          BY <1>6, <2>3, <3>6 DEF AfterMessage, LastBatch, Round, Rounds, MoreResults
        <4>2. SentBy(t, g) = before \o (answer \o ResultsOf(t, n, more))
          BY <1>6, <4>1 DEF SentBy
        <4> QED
          BY <3>5, <4>2
      <3>7. CASE ~(more < calls)
        <4>1. more = calls
          BY <1>2, <3>1, <3>7
        <4>2. g.pc \in {"read", "giveup"} /\ Rounds(g) = n
          BY <1>6, <2>3, <3>7 DEF AfterMessage, LastBatch, Round, Rounds, MoreResults
        <4>3. SentBy(t, g) = FirstRounds(t, f.asked, n)
          BY <1>6, <4>2 DEF SentBy
        <4>4. RoundOf(t, n, calls) = answer \o ResultsOf(t, n, more)
          BY <4>1 DEF RoundOf
        <4> HIDE DEF n, f
        <4>5. FirstRounds(t, f.asked, n) = before \o RoundOf(t, n, calls)
          BY <1>2, <3>1, OneMoreRound
        <4> HIDE DEF before, calls, answer
        <4> QED
          BY <3>5, <4>3, <4>4, <4>5
      <3> QED
        BY <3>6, <3>7
    <2> QED
      BY <1>1, <2>1, <2>2, <2>3 DEF Emitting
  <1>12. OneRunPerThread => \E before \in Seq(Message) : new = before \o SentBy(t, g)
    <2> SUFFICES ASSUME OneRunPerThread
                 PROVE  \E before \in Seq(Message) : new = before \o SentBy(t, g)
      OBVIOUS
    <2> DEFINE sent == SentBy(t, f)
               last == <<m>>
    <2>1. PICK before \in Seq(Message) : log = before \o sent
      BY <1>11 DEF Fits
    <2>2. new = log \o last /\ last \in Seq(Message)
      BY <1>3
    <2> HIDE DEF sent, last, m, f, g, n, d
    <2>3. (before \o sent) \o last = before \o (sent \o last)
      BY <1>8, <2>2, Joined DEF sent
    <2>4. new = before \o SentBy(t, g)
      BY <1>10, <2>1, <2>2, <2>3 DEF sent, last
    <2> QED
      BY <2>4
  <1> QED
    BY <1>7, <1>9, <1>10, <1>12 DEF Fits

(* A turn begins in a session no other turn is running in.                 *)
LEMMA OneAtATimeStep ==
  ASSUME LocalInv, OneAtATime, [Next]_vars
  PROVE  OneAtATime'
  <1>1. SUFFICES ASSUME OneRunPerThread, NEW t \in Turns, NEW u \in Turns, t # u,
                        Running(t)', Running(u)'
                 PROVE  session'[t] # session'[u]
    BY DEF OneAtATime
  <1>2. ASSUME NEW v \in Turns, NEW s \in Sessions, Begin(v, s)
        PROVE  session'[t] # session'[u]
    <2>1. /\ \A w \in Turns : Running(w) => session[w] # s
          /\ session' = [session EXCEPT ![v] = s]
          /\ \A w \in Turns \ {v} : chat'[w] = chat[w]
      BY <1>1, <1>2 DEF Begin, Return, LocalInv, TypeOK
    <2> QED
      BY <1>1, <2>1 DEF OneAtATime, Running, LocalInv, TypeOK
  <1>3. CASE UNCHANGED session /\ \A w \in Turns : Running(w)' => Running(w)
    BY <1>1, <1>3 DEF OneAtATime
  <1>4. ASSUME NEW v \in Turns, Progress(v) \/ Cancel(v)
        PROVE  UNCHANGED session /\ \A w \in Turns : Running(w)' => Running(w)
    <2>1. UNCHANGED session /\ Running(v)
      BY <1>4 DEF Progress, CheckSession, MaterializeSession, SkipMessage, InsertMessage,
         MessageFails, ReadMessages, ReadFails, ModelReplies, ModelFails, ExecuteTools,
         CompleteTurn, GiveUpTurn, Cancel, store, Running, Emitting, Ended
    <2>2. \A w \in Turns \ {v} : chat'[w] = chat[w]
      BY <1>4 DEF Progress, CheckSession, MaterializeSession, SkipMessage, InsertMessage,
         MessageFails, ReadMessages, ReadFails, ModelReplies, ModelFails, ExecuteTools,
         CompleteTurn, GiveUpTurn, Cancel, Return, MessageHandled, LocalInv, TypeOK
    <2> QED
      BY <2>1, <2>2 DEF Running
  <1>5. ASSUME NEW p \in Processes, Crash(p)
        PROVE  UNCHANGED session /\ \A w \in Turns : Running(w)' => Running(w)
    BY <1>5 DEF Crash, AtRest, Running, Ended
  <1>6. ASSUME NEW c \in Clis, NEW s \in Sessions, RemoveSession(c, s)
        PROVE  UNCHANGED session /\ \A w \in Turns : Running(w)' => Running(w)
    BY <1>6 DEF RemoveSession, Running
  <1>7. CASE UNCHANGED vars
    BY <1>3, <1>7 DEF vars, Running
  <1> QED
    BY <1>2, <1>3, <1>4, <1>5, <1>6, <1>7 DEF Next

(* A turn that has not begun has no message in any log.                    *)
LEMMA BeginsWithNothing ==
  ASSUME IInv, NEW t \in Turns, chat[t].pc = "idle", NEW s \in Sessions
  PROVE  Fits(t, <<>>, messages[s])
  <1> DEFINE log == messages[s]
             only == {t}
  <1>1. log \in Seq(Message)
    BY LogParts DEF IInv
  <1>2. \A i \in DOMAIN log : log[i].turn # t
    BY DEF IInv, MessagesPlaced
  <1>3. TurnsOf(log) \cap only = {}
    BY <1>2 DEF TurnsOf
  <1> HIDE DEF log, only
  <1>4. MessagesOf(log, only) = <<>>
    BY <1>1, <1>3, MessagesOfNone
  <1>5. log \o <<>> = log
    BY <1>1
  <1> QED
    BY <1>1, <1>4, <1>5 DEF Fits, PartOf, log, only

(* Every step keeps what the logs hold of each running turn.               *)
LEMMA ExactStep ==
  ASSUME IInv, OneAtATime, [Next]_vars, \A u \in Turns : ExactInv(u)
  PROVE  \A u \in Turns : ExactInv(u)'
  <1>0. SUFFICES ASSUME NEW u \in Turns PROVE ExactInv(u)'
    OBVIOUS
  <1>1. LocalInv /\ ExactInv(u)
    BY DEF IInv
  <1>2. CASE UNCHANGED vars
    BY <1>1, <1>2, ExactUntouched DEF vars, store
  <1>3. ASSUME NEW t \in Turns, NEW s \in Sessions, Begin(t, s) PROVE ExactInv(u)'
    <2>1. /\ UNCHANGED <<messages, removed>>
          /\ chat[t].pc = "idle"
          /\ u # t => chat'[u] = chat[u] /\ session'[u] = session[u]
          /\ session'[t] = s
          /\ chat'[t].pc \in {"user", "failed"}
      BY <1>1, <1>3 DEF Begin, Return, AtRest, store, LocalInv, TypeOK, Frame
    <2>2. CASE u # t
      BY <1>1, <2>1, <2>2, ExactUntouched
    <2>3. CASE u = t
      <3>1. Fits(t, <<>>, messages[s])
        BY <2>1, BeginsWithNothing
      <3> QED
        BY <2>1, <2>3, <3>1 DEF ExactInv, SentBy, Running, Ended
    <2> QED
      BY <2>2, <2>3
  <1>4. ASSUME NEW t \in Turns, Progress(t) \/ Cancel(t) PROVE ExactInv(u)'
    <2>1. CASE InsertMessage(t)
      BY <1>1, <2>1, InsertKeepsExact, InsertKeepsExactOfOthers
    <2>2. CASE CompleteTurn(t) \/ GiveUpTurn(t)
      <3>1. /\ UNCHANGED <<messages, session, removed>>
            /\ \E outcome \in Ended : Return(t, outcome)
        BY <2>2 DEF CompleteTurn, GiveUpTurn, Ended
      <3>2. /\ u # t => chat'[u] = chat[u]
            /\ chat'[t].pc \in Ended
        BY <1>1, <3>1 DEF Return, AtRest, LocalInv, TypeOK
      <3> QED
        BY <1>1, <3>1, <3>2, ExactUntouched, ExactAtRest
    <2>3. CASE Quiet(t) \/ Silent(t)
      <3>1. UNCHANGED <<messages, history, session, removed>>
        BY <2>3 DEF Quiet, Silent, CheckSession, MaterializeSession, SkipMessage, MessageFails,
               ReadMessages, ReadFails, ModelReplies, ModelFails, ExecuteTools, Cancel, store
      <3>2. u # t => chat'[u] = chat[u]
        BY <1>1, <2>3, <3>1, FrameStepsKeepLocal DEF Quiet, Silent, FrameStep
      <3>3. CASE u # t
        BY <1>1, <3>1, <3>2, <3>3, ExactUntouched
      <3>4. CASE u = t /\ Quiet(t)
        BY <1>1, <3>4, QuietKeepsExact
      <3>5. CASE u = t /\ ~Quiet(t)
        <4>1. SkipMessage(t) => t \in removed
          BY DEF IInv, SessionInv, SkipMessage
        <4>2. ~SkipMessage(t) => Return(t, "failed")
          BY <1>1, <2>3, <3>5 DEF Silent, Quiet, MessageFails, ModelFails, ExecuteTools,
                                 LocalInv, TypeOK, Frame
        <4>3. ~SkipMessage(t) => chat'[t].pc \in Ended
          BY <1>1, <4>2 DEF Return, AtRest, Ended, LocalInv, TypeOK
        <4>4. CASE SkipMessage(t)
          BY <3>1, <3>5, <4>1, <4>4 DEF ExactInv
        <4> QED
          BY <3>5, <4>3, <4>4, ExactAtRest
      <3> QED
        BY <3>3, <3>4, <3>5
    <2> QED
      BY <1>4, <2>1, <2>2, <2>3 DEF Progress, Quiet, Silent
  <1>5. ASSUME NEW p \in Processes, Crash(p) PROVE ExactInv(u)'
    <2>1. /\ chat'[u] = chat[u] \/ chat'[u].pc = "dead"
          /\ UNCHANGED <<messages, session, removed>>
      BY <1>1, <1>5 DEF Crash, AtRest, LocalInv, TypeOK, store
    <2> QED
      BY <1>1, <2>1, ExactUntouched, ExactAtRest DEF Ended
  <1>6. ASSUME NEW c \in Clis, NEW s \in Sessions, RemoveSession(c, s) PROVE ExactInv(u)'
    <2>1. /\ UNCHANGED <<session, chat>>
          /\ removed' = removed \cup TurnsOn(s)
          /\ messages'[s] = <<>>
          /\ session[u] # s => messages'[session[u]] = messages[session[u]]
      BY <1>1, <1>6 DEF RemoveSession, DeleteSession, LocalInv, TypeOK
    <2>2. CASE session[u] # s
      BY <1>1, <2>1, <2>2, ExactUntouched
    <2>3. CASE session[u] = s /\ u \in TurnsOn(s)
      BY <2>1, <2>3 DEF ExactInv
    <2>4. CASE session[u] = s /\ u \notin TurnsOn(s)
      <3>1. chat[u].pc = "user" \/ ~Running(u)
        BY <2>4 DEF TurnsOn
      <3>2. Fits(u, <<>>, <<>>)
        <4>1. PartOf(<<>>, u) = <<>>
          BY MessagesOfEmpty DEF PartOf
        <4>2. <<>> \in Seq(Message) /\ <<>> \o <<>> = <<>>
          OBVIOUS
        <4> QED
          BY <4>1, <4>2 DEF Fits
      <3> QED
        BY <2>1, <2>4, <3>1, <3>2 DEF ExactInv, SentBy, Running
    <2> QED
      BY <2>2, <2>3, <2>4
  <1> QED
    BY <1>2, <1>3, <1>4, <1>5, <1>6 DEF Next

(* At every moment the store holds what each running turn has sent.        *)
LEMMA ExactlySent == Spec => [](IInv /\ \A u \in Turns : ExactInv(u))
  <1> DEFINE Exact == \A u \in Turns : ExactInv(u)
  <1>1. Init => Exact /\ OneAtATime
    BY DEF Init, ExactInv, OneAtATime, Running, AtRest
  <1>2. IInv /\ OneAtATime /\ Exact /\ [Next]_vars => Exact'
    BY ExactStep
  <1>3. IInv /\ OneAtATime /\ [Next]_vars => OneAtATime'
    BY OneAtATimeStep DEF IInv
  <1> HIDE DEF Exact
  <1>4. Spec => [](IInv /\ Exact)
    BY <1>1, <1>2, <1>3, InvInit, InvStep, PTL DEF Spec
  <1> QED
    BY <1>4 DEF Exact
-----------------------------------------------------------------------------
(* The messages of some turns, as a set.                                   *)
Belonging(turns) == {m \in Message : m.turn \in turns}

(* Such messages are of the store, and of these turns.                     *)
LEMMA BelongingParts ==
  ASSUME NEW turns, NEW q \in Seq(Belonging(turns))
  PROVE  q \in Seq(Message) /\ TurnsOf(q) \subseteq turns
  <1>1. \A i \in DOMAIN q : q[i] \in Belonging(turns)
    OBVIOUS
  <1>2. \A i \in DOMAIN q : q[i] \in Message /\ q[i].turn \in turns
    BY <1>1 DEF Belonging
  <1>3. q = [i \in 1..Len(q) |-> q[i]] /\ Len(q) \in Nat /\ DOMAIN q = 1..Len(q)
    OBVIOUS
  <1>4. q \in Seq(Message)
    BY <1>2, <1>3
  <1> QED
    BY <1>2, <1>4 DEF TurnsOf

(* They hold nothing of any other turn.                                    *)
LEMMA NotBelonging ==
  ASSUME NEW turns, NEW q \in Seq(Belonging(turns)), NEW t, t \notin turns
  PROVE  PartOf(q, t) = <<>>
  <1> DEFINE only == {t}
  <1>1. q \in Seq(Message) /\ TurnsOf(q) \subseteq turns
    BY BelongingParts
  <1>2. TurnsOf(q) \cap only = {}
    BY <1>1
  <1> HIDE DEF only
  <1>3. MessagesOf(q, only) = <<>>
    BY <1>1, <1>2, MessagesOfNone
  <1> QED
    BY <1>3 DEF PartOf, only

(* The summaries of a row are messages of its turn.                        *)
LEMMA SummaryType ==
  ASSUME NEW row \in HistoryRow, NEW turns, row.turn \in turns
  PROVE  SummaryOf(row) \in Seq(Belonging(turns))
  <1> DEFINE user == UserMessage(row.turn)
             answer == AnswerSummary(row.turn)
             B == Belonging(turns)
  <1>1. row.turn \in Turns
    BY DEF HistoryRow
  <1>2. user \in Message /\ answer \in Message /\ user.turn = row.turn /\ answer.turn = row.turn
    BY <1>1, MessagesAreMessages DEF UserMessage, AnswerSummary, AssistantMessage
  <1>3. user \in B /\ answer \in B
    BY <1>2 DEF Belonging
  <1> HIDE DEF user, answer, B
  <1>4. (IF row.question THEN <<user>> ELSE <<>>) \o (IF row.answer THEN <<answer>> ELSE <<>>) \in Seq(B)
    BY <1>3
  <1> QED
    BY <1>4 DEF SummaryOf, user, answer, B

(* The summaries of the rows of some turns are messages of these.          *)
LEMMA SummariesType ==
  ASSUME NEW rows \in Seq(HistoryRow), NEW turns
  PROVE  Summaries(rows, turns) \in Seq(Belonging(turns))
  <1> DEFINE each == [i \in DOMAIN rows |-> IF rows[i].turn \in turns THEN SummaryOf(rows[i]) ELSE <<>>]
             B == Belonging(turns)
             T == Seq(B)
  <1>1. /\ Len(rows) \in Nat /\ DOMAIN rows = 1..Len(rows)
        /\ \A i \in 1..Len(rows) : rows[i] \in HistoryRow
    OBVIOUS
  <1>2. \A i \in 1..Len(rows) :
          (IF rows[i].turn \in turns THEN SummaryOf(rows[i]) ELSE <<>>) \in T
    <2> SUFFICES ASSUME NEW i \in 1..Len(rows), rows[i].turn \in turns
                 PROVE  SummaryOf(rows[i]) \in T
      OBVIOUS
    <2> QED
      BY <1>1, SummaryType
  <1> HIDE DEF T
  <1>3. each \in Seq(T)
    BY <1>1, <1>2
  <1> HIDE DEF each
  <1>4. FlattenSeq(each) \in Seq(B)
    BY <1>3, FlattenType DEF T
  <1> QED
    BY <1>4 DEF Summaries, each

(* The ways to line up a finite set: sequences of its elements in which    *)
(* each has one place.                                                     *)
LEMMA LinedUp ==
  ASSUME NEW S, IsFiniteSet(S), NEW q \in SetToSeqs(S)
  PROVE  /\ q \in Seq(S)
         /\ \A x \in S : \E i \in DOMAIN q : q[i] = x
         /\ \A i, j \in DOMAIN q : q[i] = q[j] => i = j
  <1> DEFINE n == Cardinality(S)
  <1>1. n \in Nat
    BY FS_CardinalityType
  <1>2. q \in [1..n -> S] /\ \A i, j \in 1..n : i # j => q[i] # q[j]
    BY DEF SetToSeqs
  <1>3. q \in Seq(S)
    BY <1>1, <1>2
  <1>4. \A x \in S : \E i \in 1..n : q[i] = x
    <2>1. IsFiniteSet(1..n) /\ Cardinality(1..n) = n
      BY <1>1, FS_Interval
    <2>2. q \in Injection(1..n, S)
      BY <1>2 DEF Injection, IsInjective
    <2>3. q \in Surjection(1..n, S)
      BY <2>1, <2>2, FS_Injection
    <2> QED
      BY <2>3 DEF Surjection
  <1> QED
    BY <1>2, <1>3, <1>4
-----------------------------------------------------------------------------
(* What is placed before the detailed messages of a context.               *)
LEMMA HistoryType ==
  ASSUME NEW rows \in Seq(HistoryRow), NEW detailed, NEW current,
         NEW shown, shown = TurnsOf(rows) \ (detailed \cup {current})
  PROVE  HistoryTurnsAsMessages(rows, detailed, current) \in Seq(Belonging(shown))
  BY SummariesType DEF HistoryTurnsAsMessages

Picked(rows, order) == [k \in DOMAIN order |-> rows[order[k]]]

(* Some places of the rows, once each, all those of some turns among them. *)
Covers(order, rows, turns) ==
  /\ \A i \in DOMAIN rows : rows[i].turn \in turns => \E k \in DOMAIN order : order[k] = i
  /\ \A k, l \in DOMAIN order : order[k] = order[l] => k = l

(* The selected turns that are not in the log.                             *)
Lacking(detailed, available, current) == detailed \ (available \cup {current})

(* The walk over the Go map visits each row of the turns that lack once.   *)
LEMMA FallbackOrder ==
  ASSUME NEW rows \in Seq(HistoryRow), NEW detailed, NEW available, NEW current,
         NEW fallback \in FallbackSummaries(rows, detailed, available, current)
  PROVE  \E order \in Seq(DOMAIN rows) :
           /\ Covers(order, rows, Lacking(detailed, available, current))
           /\ fallback = Summaries(Picked(rows, order), Lacking(detailed, available, current))
  <1> DEFINE lacking == {i \in DOMAIN rows : rows[i].turn \in Lacking(detailed, available, current)}
  <1>1. PICK order \in SetToSeqs(lacking) :
               fallback = Summaries(Picked(rows, order), Lacking(detailed, available, current))
    BY DEF FallbackSummaries, Lacking, Picked
  <1>2. IsFiniteSet(lacking)
    <2>1. DOMAIN rows = 1..Len(rows) /\ Len(rows) \in Nat
      OBVIOUS
    <2>2. IsFiniteSet(DOMAIN rows)
      BY <2>1, FS_Interval
    <2> QED
      BY <2>2, FS_Subset
  <1>3. /\ order \in Seq(lacking)
        /\ \A x \in lacking : \E i \in DOMAIN order : order[i] = x
        /\ \A i, j \in DOMAIN order : order[i] = order[j] => i = j
    <2> HIDE DEF lacking
    <2> QED
      BY <1>2, LinedUp
  <1>4. order \in Seq(DOMAIN rows)
    BY <1>3
  <1>5. Covers(order, rows, Lacking(detailed, available, current))
    BY <1>3 DEF Covers
  <1> QED
    BY <1>1, <1>4, <1>5

LEMMA PickedRows ==
  ASSUME NEW rows \in Seq(HistoryRow), NEW order \in Seq(DOMAIN rows)
  PROVE  Picked(rows, order) \in Seq(HistoryRow)
  <1>1. /\ DOMAIN order = 1..Len(order) /\ Len(order) \in Nat
        /\ \A k \in 1..Len(order) : order[k] \in DOMAIN rows
        /\ \A i \in DOMAIN rows : rows[i] \in HistoryRow
    OBVIOUS
  <1> QED
    BY <1>1 DEF Picked

(* The fallback has messages of the turns that lack and no others.         *)
LEMMA FallbackType ==
  ASSUME NEW rows \in Seq(HistoryRow), NEW detailed, NEW available, NEW current,
         NEW fallback \in FallbackSummaries(rows, detailed, available, current)
  PROVE  fallback \in Seq(Belonging(Lacking(detailed, available, current)))
  <1>1. PICK order \in Seq(DOMAIN rows) :
           /\ Covers(order, rows, Lacking(detailed, available, current))
           /\ fallback = Summaries(Picked(rows, order), Lacking(detailed, available, current))
    BY FallbackOrder
  <1> DEFINE picked == Picked(rows, order)
  <1>2. picked \in Seq(HistoryRow)
    BY PickedRows
  <1> HIDE DEF picked
  <1>3. Summaries(picked, Lacking(detailed, available, current)) \in Seq(Belonging(Lacking(detailed, available, current)))
    BY <1>2, SummariesType
  <1> QED
    BY <1>1, <1>3 DEF picked

(* Both are messages of the store's kind.                                  *)
LEMMA ToldMessages ==
  ASSUME NEW rows \in Seq(HistoryRow), NEW detailed, NEW current
  PROVE  HistoryTurnsAsMessages(rows, detailed, current) \in Seq(Message)
  <1> DEFINE turns == TurnsOf(rows) \ (detailed \cup {current})
             told == HistoryTurnsAsMessages(rows, detailed, current)
  <1>1. told \in Seq(Belonging(turns))
    BY HistoryType
  <1> HIDE DEF turns, told
  <1>2. told \in Seq(Message)
    BY <1>1, BelongingParts
  <1> QED
    BY <1>2 DEF told

LEMMA FallbackMessages ==
  ASSUME NEW rows \in Seq(HistoryRow), NEW detailed, NEW available, NEW current,
         NEW fallback \in FallbackSummaries(rows, detailed, available, current)
  PROVE  fallback \in Seq(Message)
  <1> DEFINE turns == Lacking(detailed, available, current)
  <1>1. fallback \in Seq(Belonging(turns))
    BY FallbackType
  <1> HIDE DEF turns
  <1> QED
    BY <1>1, BelongingParts

(* A turn has all its messages among the detailed ones, or none.           *)
LEMMA DetailedPart ==
  ASSUME NEW log \in Seq(Message), NEW detailed, NEW u, u # NoTurn
  PROVE  PartOf(DetailedMessages(log, detailed), u) = IF u \in detailed THEN PartOf(log, u) ELSE <<>>
  <1> DEFINE some == detailed \cup {NoTurn}
             only == {u}
             both == some \cap only
             none == {}
  <1>1. u \in detailed => both = only
    OBVIOUS
  <1>2. u \notin detailed => both = none
    OBVIOUS
  <1>3. TurnsOf(log) \cap none = {}
    OBVIOUS
  <1> HIDE DEF some, only, none
  <1>4. MessagesOf(MessagesOf(log, some), only) = MessagesOf(log, both)
    BY MessagesOfMessages
  <1> HIDE DEF both
  <1>5. MessagesOf(log, none) = <<>>
    BY <1>3, MessagesOfNone
  <1> QED
    BY <1>1, <1>2, <1>4, <1>5 DEF PartOf, DetailedMessages, some, only

LEMMA DetailedType ==
  ASSUME NEW log \in Seq(Message), NEW detailed
  PROVE  DetailedMessages(log, detailed) \in Seq(Message)
  <1> DEFINE some == detailed \cup {NoTurn}
  <1> HIDE DEF some
  <1>1. MessagesOf(log, some) \in Seq(Message)
    BY MessagesOfType
  <1> QED
    BY <1>1 DEF DetailedMessages, some

(* A turn in a merged context: in the history part, the fallback and the   *)
(* log.                                                                    *)
LEMMA MergedParts ==
  ASSUME NEW log \in Seq(Message), NEW rows \in Seq(HistoryRow), NEW t, NEW full,
         NEW context \in MergedContexts(log, rows, t, full), NEW u, u # NoTurn,
         NEW detailed, detailed = SelectDetailedTurnIDs(log, rows, t, full)
  PROVE  \E fallback \in FallbackSummaries(rows, detailed, AvailableDetailed(log, detailed), t) :
           Joins(PartOf(context, u), PartOf(HistoryTurnsAsMessages(rows, detailed, t), u),
                 PartOf(fallback, u), IF u \in detailed THEN PartOf(log, u) ELSE <<>>)
  <1> DEFINE available == AvailableDetailed(log, detailed)
             told == HistoryTurnsAsMessages(rows, detailed, t)
             shown == DetailedMessages(log, detailed)
  <1>1. PICK fallback \in FallbackSummaries(rows, detailed, available, t) :
               Joins(context, told, fallback, shown)
    BY DEF MergedContexts, Joins
  <1>2. told \in Seq(Message)
    BY ToldMessages
  <1>3. fallback \in Seq(Message)
    <2> HIDE DEF available
    <2> QED
      BY <1>1, FallbackMessages
  <1>4. shown \in Seq(Message)
    BY DetailedType
  <1>5. PartOf(shown, u) = IF u \in detailed THEN PartOf(log, u) ELSE <<>>
    BY DetailedPart
  <1>6. Joins(PartOf(context, u), PartOf(told, u), PartOf(fallback, u), PartOf(shown, u))
    <2> HIDE DEF told, shown
    <2> QED
      BY <1>1, <1>2, <1>3, <1>4, PartOfThree
  <1> HIDE DEF told, shown, available
  <1>7. Joins(PartOf(context, u), PartOf(told, u), PartOf(fallback, u),
              IF u \in detailed THEN PartOf(log, u) ELSE <<>>)
    BY <1>5, <1>6
  <1> QED
    BY <1>1, <1>7 DEF told, available

(* In every context built from both reads the turn at work has exactly the *)
(* messages of its log.                                                    *)
LEMMA MergedOwn ==
  ASSUME NEW log \in Seq(Message), NEW rows \in Seq(HistoryRow), NEW t \in Turns, NEW full,
         NEW context \in MergedContexts(log, rows, t, full)
  PROVE  PartOf(context, t) = PartOf(log, t)
  <1> DEFINE detailed == SelectDetailedTurnIDs(log, rows, t, full)
             available == AvailableDetailed(log, detailed)
             told == HistoryTurnsAsMessages(rows, detailed, t)
  <1>1. t # NoTurn /\ t \in detailed
    BY ConstantsAssumption DEF SelectDetailedTurnIDs
  <1> HIDE DEF detailed
  <1>2. PICK fallback \in FallbackSummaries(rows, detailed, available, t) :
               Joins(PartOf(context, t), PartOf(told, t), PartOf(fallback, t),
                     IF t \in detailed THEN PartOf(log, t) ELSE <<>>)
    <2>1. detailed = SelectDetailedTurnIDs(log, rows, t, full)
      BY DEF detailed
    <2> QED
      BY <1>1, <2>1, MergedParts
  <1>3. PartOf(told, t) = <<>>
    <2> DEFINE turns == TurnsOf(rows) \ (detailed \cup {t})
    <2>1. told \in Seq(Belonging(turns)) /\ t \notin turns
      BY HistoryType
    <2> HIDE DEF turns, told
    <2> QED
      BY <2>1, NotBelonging
  <1>4. PartOf(fallback, t) = <<>>
    <2> DEFINE turns == Lacking(detailed, available, t)
    <2>1. t \notin turns
      BY DEF Lacking
    <2> HIDE DEF available
    <2>2. fallback \in Seq(Belonging(turns))
      BY <1>2, FallbackType
    <2> HIDE DEF turns
    <2> QED
      BY <2>1, <2>2, NotBelonging
  <1> DEFINE own == PartOf(log, t)
  <1>5. own \in Seq(Message)
    BY PartType
  <1>6. PartOf(context, t) = (<<>> \o <<>>) \o own
    <2> HIDE DEF told
    <2> QED
      BY <1>1, <1>2, <1>3, <1>4 DEF Joins
  <1> HIDE DEF own
  <1>7. (<<>> \o <<>>) \o own = own
    BY <1>5
  <1> QED
    BY <1>6, <1>7 DEF own
-----------------------------------------------------------------------------
(* The history of a session: finitely many rows, at most one of each turn. *)
RowsOnce ==
  \A s \in Sessions : /\ IsFiniteSet(history[s])
                      /\ \A h, k \in history[s] : h.turn = k.turn => h = k

(* A record replaces the one of the same turn, if any.                     *)
LEMMA RowsOnceStep ==
  ASSUME LocalInv, RowsOnce, [Next]_vars
  PROVE  RowsOnce'
  <1>1. CASE UNCHANGED history
    BY <1>1 DEF RowsOnce
  <1>2. ASSUME NEW t \in Turns, CompleteTurn(t) \/ GiveUpTurn(t), UpsertRow(t) PROVE RowsOnce'
    <2>1. PICK answered \in BOOLEAN :
            history' = [history EXCEPT ![session[t]] =
                          {h \in @ : h.turn # t} \cup {TurnRow(t, answered)}]
      BY <1>2 DEF UpsertRow
    <2> DEFINE row == TurnRow(t, answered)
               others == {h \in history[session[t]] : h.turn # t}
               new == others \cup {row}
    <2>2. row.turn = t
      BY DEF TurnRow, Row
    <2>3. \A s \in Sessions : history'[s] = history[s] \/ (s = session[t] /\ history'[s] = new)
      BY <2>1 DEF LocalInv, TypeOK
    <2>4. session[t] \in Sessions
      BY <1>2 DEF LocalInv, CompleteTurn, GiveUpTurn
    <2>5. IsFiniteSet(new)
      <3>1. IsFiniteSet(others)
        BY <2>4, FS_Subset DEF RowsOnce
      <3> HIDE DEF others, row
      <3> QED
        BY <3>1, FS_AddElement
    <2>6. \A h, k \in new : h.turn = k.turn => h = k
      BY <2>2, <2>4 DEF RowsOnce
    <2> HIDE DEF new
    <2> QED
      BY <2>3, <2>5, <2>6 DEF RowsOnce
  <1>3. ASSUME NEW c \in Clis, NEW s \in Sessions, RemoveSession(c, s) PROVE RowsOnce'
    <2>1. \A r \in Sessions : history'[r] = history[r] \/ history'[r] = {}
      BY <1>3 DEF RemoveSession, DeleteSession, LocalInv, TypeOK
    <2> QED
      BY <2>1, FS_EmptySet DEF RowsOnce
  <1>4. CASE UNCHANGED vars
    BY <1>1, <1>4 DEF vars, store
  <1>5. ASSUME NEW t \in Turns, NEW s \in Sessions, Begin(t, s) PROVE RowsOnce'
    BY <1>1, <1>5 DEF Begin, store
  <1>6. ASSUME NEW t \in Turns, Progress(t) \/ Cancel(t) PROVE RowsOnce'
    <2>1. CASE CompleteTurn(t) \/ GiveUpTurn(t)
      BY <1>1, <1>2, <2>1 DEF CompleteTurn, GiveUpTurn
    <2>2. CASE ~(CompleteTurn(t) \/ GiveUpTurn(t))
      BY <1>1, <1>6, <2>2 DEF Progress, CheckSession, MaterializeSession, SkipMessage, InsertMessage,
         MessageFails, ReadMessages, ReadFails, ModelReplies, ModelFails, ExecuteTools, Cancel, store
    <2> QED
      BY <2>1, <2>2
  <1>7. ASSUME NEW p \in Processes, Crash(p) PROVE RowsOnce'
    BY <1>1, <1>7 DEF Crash, store
  <1> QED
    BY <1>3, <1>4, <1>5, <1>6, <1>7 DEF Next

(* What BuildContextMessages is given: a log and its rows, in any order.   *)
LEMMA ContextOf ==
  ASSUME LocalInv, RowsOnce, NEW t \in Turns, AboutToCall(t), NEW context \in Contexts(t)
  PROVE  /\ chat[t].snapshot \in Seq(Message)
         /\ \E rows \in SetToSeqs(history[session[t]]), mode \in ContextModes :
              /\ rows \in Seq(HistoryRow)
              /\ \/ context = chat[t].snapshot
                 \/ context \in MergedContexts(chat[t].snapshot, rows, t, mode)
  <1>1. chat[t] \in Frame /\ session[t] \in Sessions
    BY DEF LocalInv, TypeOK, AboutToCall
  <1>2. PICK mode \in ContextModes, rows \in SetToSeqs(history[session[t]]), read \in BOOLEAN :
               context \in BuildContextMessages(chat[t].snapshot, rows, t, mode, read)
    BY DEF Contexts, ContextsIn
  <1>3. rows \in Seq(history[session[t]])
    BY <1>1, LinedUp DEF RowsOnce
  <1>4. history[session[t]] \subseteq HistoryRow
    BY <1>1 DEF LocalInv, TypeOK
  <1>5. rows \in Seq(HistoryRow)
    BY <1>3, <1>4
  <1>6. context = chat[t].snapshot \/ context \in MergedContexts(chat[t].snapshot, rows, t, mode)
    BY <1>2 DEF BuildContextMessages
  <1>7. chat[t].snapshot \in Seq(Message)
    BY <1>1 DEF Frame
  <1> QED
    BY <1>2, <1>5, <1>6, <1>7

(* All that the properties of the contexts rest on.                        *)
LEMMA ContextInvariant == Spec => [](IInv /\ RowsOnce /\ \A u \in Turns : ExactInv(u))
  <1>1. Init => RowsOnce
    BY FS_EmptySet DEF Init, RowsOnce
  <1>2. IInv /\ RowsOnce /\ [Next]_vars => RowsOnce'
    BY RowsOnceStep DEF IInv
  <1> DEFINE Exact == \A u \in Turns : ExactInv(u)
  <1>3. Spec => [](IInv /\ Exact)
    BY ExactlySent
  <1> HIDE DEF Exact
  <1>4. Spec => [](IInv /\ RowsOnce /\ Exact)
    BY <1>1, <1>2, <1>3, PTL DEF Spec
  <1> QED
    BY <1>4 DEF Exact

(* A turn that is about to call the model has stored what Chat has been    *)
(* through, exchange by exchange.                                          *)
LEMMA SentIsExchange ==
  ASSUME NEW t \in Turns, AboutToCall(t)
  PROVE  SentBy(t, chat[t]) = Exchange(t)
  BY DEF AboutToCall, SentBy, Exchange, FirstRounds, RoundsOf, RoundOf, ResultsOf, Rounds, Round

(* A call made after its read of the messages succeeded, for a turn whose  *)
(* session was not removed under it, shows the model every message of that *)
(* turn, once and in order: whatever else is stored in the session, in     *)
(* every context mode and however the read of the history ends.            *)
THEOREM OwnTranscriptIsShown == Spec => []OwnTranscriptIntact
  <1> DEFINE Exact == \A u \in Turns : ExactInv(u)
  <1>1. ASSUME IInv, RowsOnce, Exact PROVE OwnTranscriptIntact
    <2>1. SUFFICES ASSUME NEW t \in Turns \ removed, AboutToCall(t), NEW context \in Contexts(t)
                   PROVE  PartOf(context, t) = Exchange(t)
      BY DEF OwnTranscriptIntact
    <2> DEFINE log == chat[t].snapshot
    <2>2. PartOf(log, t) = Exchange(t)
      <3>1. ExactInv(t) /\ Running(t)
        BY <1>1, <2>1 DEF AboutToCall, Running, Ended
      <3> QED
        BY <2>1, <3>1, SentIsExchange DEF ExactInv, Fits, AboutToCall
    <2>3. /\ log \in Seq(Message)
          /\ \E rows \in SetToSeqs(history[session[t]]), mode \in ContextModes :
               /\ rows \in Seq(HistoryRow)
               /\ context = log \/ context \in MergedContexts(log, rows, t, mode)
      BY <1>1, <2>1, ContextOf DEF IInv
    <2>4. PartOf(context, t) = PartOf(log, t)
      BY <2>3, MergedOwn
    <2> QED
      BY <2>2, <2>4
  <1>2. Spec => [](IInv /\ RowsOnce /\ Exact)
    BY ContextInvariant
  <1> HIDE DEF Exact
  <1> QED
    BY <1>1, <1>2, PTL
-----------------------------------------------------------------------------
(* The summaries of the rows, one by one.                                  *)
EachSummary(rows, turns) ==
  [i \in DOMAIN rows |-> IF rows[i].turn \in turns THEN SummaryOf(rows[i]) ELSE <<>>]

LEMMA EachSummaryType ==
  ASSUME NEW rows \in Seq(HistoryRow), NEW turns
  PROVE  EachSummary(rows, turns) \in Seq(Seq(Message))
  <1>1. /\ Len(rows) \in Nat /\ DOMAIN rows = 1..Len(rows)
        /\ \A i \in 1..Len(rows) : rows[i] \in HistoryRow
    OBVIOUS
  <1>2. \A i \in 1..Len(rows) : SummaryOf(rows[i]) \in Seq(Message)
    <2> SUFFICES ASSUME NEW i \in 1..Len(rows) PROVE SummaryOf(rows[i]) \in Seq(Message)
      OBVIOUS
    <2> DEFINE only == {rows[i].turn}
    <2>1. rows[i].turn \in only /\ rows[i] \in HistoryRow
      BY <1>1
    <2> HIDE DEF only
    <2>2. SummaryOf(rows[i]) \in Seq(Belonging(only))
      BY <2>1, SummaryType
    <2> QED
      BY <2>2, BelongingParts
  <1> DEFINE T == Seq(Message)
  <1>3. \A i \in 1..Len(rows) : (IF rows[i].turn \in turns THEN SummaryOf(rows[i]) ELSE <<>>) \in T
    BY <1>2
  <1> HIDE DEF T
  <1> QED
    BY <1>1, <1>3 DEF EachSummary, T

(* Of a row that stands alone among the rows for its turn.                 *)
LEMMA SummaryOfTurn ==
  ASSUME NEW rows \in Seq(HistoryRow), NEW turns, NEW k \in DOMAIN rows, rows[k].turn \in turns,
         \A i \in DOMAIN rows : rows[i].turn = rows[k].turn => i = k
  PROVE  PartOf(Summaries(rows, turns), rows[k].turn) = SummaryOf(rows[k])
  <1> DEFINE u == rows[k].turn
             only == {u}
             each == EachSummary(rows, turns)
             parts == Parted(each, only)
  <1>1. \A i \in DOMAIN rows : rows[i] \in HistoryRow
    OBVIOUS
  <1>2. each \in Seq(Seq(Message)) /\ parts \in Seq(Seq(Message))
    <2>1. each \in Seq(Seq(Message))
      BY EachSummaryType
    <2> HIDE DEF each, only
    <2> QED
      BY <2>1, PartedType
  <1>3. DOMAIN each = DOMAIN rows /\ DOMAIN parts = DOMAIN rows
    BY DEF EachSummary, Parted
  <1>4. each[k] = SummaryOf(rows[k])
    BY DEF EachSummary
  <1>5. \A i \in DOMAIN rows : parts[i] = MessagesOf(each[i], only)
    BY <1>3 DEF Parted
  <1>6. ASSUME NEW i \in DOMAIN rows, i # k PROVE parts[i] = <<>>
    <2> DEFINE others == {rows[i].turn}
    <2>1. u \notin others
      BY <1>6
    <2>2. each[i] = <<>> \/ each[i] = SummaryOf(rows[i])
      BY DEF EachSummary
    <2>3. SummaryOf(rows[i]) \in Seq(Belonging(others))
      BY <1>1, SummaryType
    <2>4. <<>> \in Seq(Belonging(others))
      OBVIOUS
    <2> HIDE DEF others, each, only, u
    <2>5. each[i] \in Seq(Belonging(others))
      BY <2>2, <2>3, <2>4
    <2>6. PartOf(each[i], u) = <<>>
      BY <2>1, <2>5, NotBelonging
    <2> QED
      BY <1>5, <2>6 DEF PartOf, only
  <1>7. parts[k] = SummaryOf(rows[k])
    <2>1. u \in only /\ rows[k] \in HistoryRow
      BY <1>1
    <2> HIDE DEF only
    <2>2. SummaryOf(rows[k]) \in Seq(Belonging(only))
      BY <2>1, SummaryType
    <2> DEFINE summary == SummaryOf(rows[k])
    <2> HIDE DEF summary
    <2>3. summary \in Seq(Message) /\ TurnsOf(summary) \subseteq only
      BY <2>2, BelongingParts DEF summary
    <2>4. MessagesOf(summary, only) = summary
      BY <2>3, MessagesOfAll
    <2> QED
      BY <1>4, <1>5, <2>4 DEF summary
  <1>8. FlattenSeq(parts) = parts[k]
    <2> HIDE DEF parts
    <2> QED
      BY <1>2, <1>3, <1>6, FlattenOnly
  <1>9. MessagesOf(FlattenSeq(each), only) = FlattenSeq(parts)
    <2> HIDE DEF each, only
    <2> QED
      BY <1>2, MessagesOfFlatten
  <1>10. Summaries(rows, turns) = FlattenSeq(each)
    BY DEF Summaries, EachSummary
  <1> HIDE DEF each, parts, only
  <1>11. MessagesOf(Summaries(rows, turns), only) = SummaryOf(rows[k])
    BY <1>7, <1>8, <1>9, <1>10
  <1> QED
    BY <1>11 DEF PartOf, only

(* Of a turn that has no row, or that is not asked for.                    *)
LEMMA NoSummaryOfTurn ==
  ASSUME NEW rows \in Seq(HistoryRow), NEW turns, NEW u, \A i \in DOMAIN rows : rows[i].turn # u
  PROVE  PartOf(Summaries(rows, turns), u) = <<>>
  <1> DEFINE some == turns \cap TurnsOf(rows)
  <1>1. u \notin some
    BY DEF TurnsOf
  <1>2. \A i \in DOMAIN rows : rows[i].turn \in turns <=> rows[i].turn \in some
    BY DEF TurnsOf
  <1>3. Summaries(rows, turns) = Summaries(rows, some)
    <2> HIDE DEF some
    <2> QED
      BY <1>2 DEF Summaries
  <1>4. Summaries(rows, some) \in Seq(Belonging(some))
    <2> HIDE DEF some
    <2> QED
      BY SummariesType
  <1> HIDE DEF some
  <1> QED
    BY <1>1, <1>3, <1>4, NotBelonging

(* The history part says of a turn that is not detailed what its row says. *)
LEMMA ToldPart ==
  ASSUME NEW rows \in Seq(HistoryRow), NEW detailed, NEW t, NEW u, u # t, u \notin detailed,
         \A i, j \in DOMAIN rows : rows[i].turn = rows[j].turn => i = j
  PROVE  /\ \A k \in DOMAIN rows : rows[k].turn = u =>
              PartOf(HistoryTurnsAsMessages(rows, detailed, t), u) = SummaryOf(rows[k])
         /\ (\A k \in DOMAIN rows : rows[k].turn # u) =>
              PartOf(HistoryTurnsAsMessages(rows, detailed, t), u) = <<>>
  <1> DEFINE turns == TurnsOf(rows) \ (detailed \cup {t})
  <1>1. \A k \in DOMAIN rows : rows[k].turn = u => rows[k].turn \in turns
    BY DEF TurnsOf
  <1>2. HistoryTurnsAsMessages(rows, detailed, t) = Summaries(rows, turns)
    BY DEF HistoryTurnsAsMessages
  <1> HIDE DEF turns
  <1>3. ASSUME NEW k \in DOMAIN rows, rows[k].turn = u
        PROVE  PartOf(Summaries(rows, turns), u) = SummaryOf(rows[k])
    BY <1>1, <1>3, SummaryOfTurn
  <1>4. (\A k \in DOMAIN rows : rows[k].turn # u) => PartOf(Summaries(rows, turns), u) = <<>>
    BY NoSummaryOfTurn
  <1> QED
    BY <1>2, <1>3, <1>4

(* The fallback says the same of a turn that was selected but is not there.*)
LEMMA FallbackPart ==
  ASSUME NEW rows \in Seq(HistoryRow), NEW detailed, NEW available, NEW t, NEW u,
         u \in Lacking(detailed, available, t),
         \A i, j \in DOMAIN rows : rows[i].turn = rows[j].turn => i = j,
         NEW fallback \in FallbackSummaries(rows, detailed, available, t)
  PROVE  /\ \A k \in DOMAIN rows : rows[k].turn = u => PartOf(fallback, u) = SummaryOf(rows[k])
         /\ (\A k \in DOMAIN rows : rows[k].turn # u) => PartOf(fallback, u) = <<>>
  <1> DEFINE turns == Lacking(detailed, available, t)
  <1>1. PICK order \in Seq(DOMAIN rows) :
               Covers(order, rows, turns) /\ fallback = Summaries(Picked(rows, order), turns)
    BY FallbackOrder
  <1> DEFINE picked == Picked(rows, order)
  <1>2. picked \in Seq(HistoryRow)
    BY PickedRows
  <1>3. /\ DOMAIN picked = DOMAIN order
        /\ \A l \in DOMAIN order : order[l] \in DOMAIN rows /\ picked[l] = rows[order[l]]
    BY DEF Picked
  <1> HIDE DEF picked, turns
  <1>4. ASSUME NEW k \in DOMAIN rows, rows[k].turn = u
        PROVE  PartOf(fallback, u) = SummaryOf(rows[k])
    <2>1. PICK l \in DOMAIN order : order[l] = k
      BY <1>1, <1>4 DEF Covers, turns
    <2>2. l \in DOMAIN picked /\ picked[l] = rows[k]
      BY <1>3, <2>1
    <2>3. \A i \in DOMAIN picked : picked[i].turn = picked[l].turn => i = l
      BY <1>1, <1>3, <2>1, <2>2 DEF Covers
    <2>4. picked[l].turn \in turns
      BY <1>4, <2>2 DEF turns
    <2>5. PartOf(Summaries(picked, turns), picked[l].turn) = SummaryOf(picked[l])
      BY <1>2, <2>2, <2>3, <2>4, SummaryOfTurn
    <2> QED
      BY <1>1, <1>4, <2>2, <2>5 DEF picked
  <1>5. ASSUME \A k \in DOMAIN rows : rows[k].turn # u PROVE PartOf(fallback, u) = <<>>
    <2>1. \A i \in DOMAIN picked : picked[i].turn # u
      BY <1>3, <1>5
    <2>2. PartOf(Summaries(picked, turns), u) = <<>>
      BY <1>2, <2>1, NoSummaryOfTurn
    <2> QED
      BY <1>1, <2>2 DEF picked
  <1> QED
    BY <1>4, <1>5

OneRowEach(rows) == \A i, j \in DOMAIN rows : rows[i].turn = rows[j].turn => i = j

(* In every context built from both reads another turn appears once.       *)
LEMMA MergedEarlier ==
  ASSUME NEW log \in Seq(Message), NEW rows \in Seq(HistoryRow), NEW t \in Turns, NEW full,
         NEW context \in MergedContexts(log, rows, t, full), NEW u \in Turns \ {t},
         OneRowEach(rows)
  PROVE  /\ \A k \in DOMAIN rows : rows[k].turn = u =>
              PartOf(context, u) \in {PartOf(log, u), SummaryOf(rows[k])}
         /\ (\A k \in DOMAIN rows : rows[k].turn # u) => PartOf(context, u) \in {<<>>, PartOf(log, u)}
  <1> DEFINE detailed == SelectDetailedTurnIDs(log, rows, t, full)
             available == AvailableDetailed(log, detailed)
             told == HistoryTurnsAsMessages(rows, detailed, t)
             own == PartOf(log, u)
             said(part) == /\ \A k \in DOMAIN rows : rows[k].turn = u => part = SummaryOf(rows[k])
                           /\ (\A k \in DOMAIN rows : rows[k].turn # u) => part = <<>>
  <1>1. u # NoTurn /\ u # t
    BY ConstantsAssumption
  <1>2. detailed = SelectDetailedTurnIDs(log, rows, t, full)
    OBVIOUS
  <1> HIDE DEF detailed
  <1>3. PICK fallback \in FallbackSummaries(rows, detailed, available, t) :
               Joins(PartOf(context, u), PartOf(told, u), PartOf(fallback, u),
                     IF u \in detailed THEN own ELSE <<>>)
    BY <1>1, <1>2, MergedParts
  <1>4. u \notin detailed => said(PartOf(told, u))
    BY <1>1, ToldPart DEF OneRowEach
  <1>5. u \in Lacking(detailed, available, t) => said(PartOf(fallback, u))
    <2> HIDE DEF available, told
    <2> QED
      BY <1>3, FallbackPart DEF OneRowEach
  <1>6. u \in detailed => PartOf(told, u) = <<>>
    <2> SUFFICES ASSUME u \in detailed PROVE PartOf(told, u) = <<>>
      OBVIOUS
    <2> DEFINE turns == TurnsOf(rows) \ (detailed \cup {t})
    <2>1. told \in Seq(Belonging(turns)) /\ u \notin turns
      BY HistoryType
    <2> HIDE DEF turns, told
    <2> QED
      BY <2>1, NotBelonging
  <1>7. u \notin Lacking(detailed, available, t) => PartOf(fallback, u) = <<>>
    <2> DEFINE turns == Lacking(detailed, available, t)
    <2> HIDE DEF available, told
    <2>1. fallback \in Seq(Belonging(turns))
      BY <1>3, FallbackType
    <2> HIDE DEF turns
    <2>2. u \notin turns => PartOf(fallback, u) = <<>>
      BY <2>1, NotBelonging
    <2> QED
      BY <2>2 DEF turns
  <1>8. u \in detailed /\ u \in Lacking(detailed, available, t) => own = <<>>
    <2> DEFINE only == {u}
    <2>1. u \in detailed /\ u \in Lacking(detailed, available, t) => TurnsOf(log) \cap only = {}
      BY <1>1 DEF Lacking, AvailableDetailed
    <2> HIDE DEF only, available
    <2>2. TurnsOf(log) \cap only = {} => MessagesOf(log, only) = <<>>
      BY MessagesOfNone
    <2> QED
      BY <2>1, <2>2 DEF PartOf, only
  <1>9. u \notin detailed => u \notin Lacking(detailed, available, t)
    BY DEF Lacking
  <1>10. own \in Seq(Message) /\ PartOf(told, u) \in Seq(Message) /\ PartOf(fallback, u) \in Seq(Message)
    <2>1. told \in Seq(Message)
      BY ToldMessages
    <2>2. fallback \in Seq(Message)
      <3> HIDE DEF available
      <3> QED
        BY <1>3, FallbackMessages
    <2> HIDE DEF told, available
    <2> QED
      BY <2>1, <2>2, PartType
  <1> DEFINE a == PartOf(told, u)
             b == PartOf(fallback, u)
             whole == PartOf(context, u)
  <1> HIDE DEF told, available, own, a, b, whole
  <1>11. CASE u \notin detailed
    <2>1. b = <<>> /\ Joins(whole, a, b, <<>>)
      BY <1>3, <1>7, <1>9, <1>11 DEF a, b, whole
    <2>2. whole = a
      BY <1>10, <2>1, JoinsAlone DEF a
    <2> QED
      BY <1>4, <1>11, <2>2 DEF a, whole, own
  <1>12. CASE u \in detailed /\ u \in Lacking(detailed, available, t)
    <2>1. a = <<>> /\ own = <<>> /\ Joins(whole, a, b, <<>>)
      BY <1>3, <1>6, <1>8, <1>12 DEF a, b, whole
    <2>2. whole = b
      BY <1>10, <2>1, JoinsAlone DEF b
    <2> QED
      BY <1>5, <1>12, <2>2 DEF b, whole, own
  <1>13. CASE u \in detailed /\ u \notin Lacking(detailed, available, t)
    <2>1. a = <<>> /\ b = <<>> /\ Joins(whole, a, b, own)
      BY <1>3, <1>6, <1>7, <1>13 DEF a, b, whole
    <2>2. whole = own
      BY <1>10, <2>1, JoinsAlone
    <2> QED
      BY <2>2 DEF whole, own
  <1> QED
    BY <1>11, <1>12, <1>13

(* After a read of the messages that succeeded, and where no session was   *)
(* removed under a turn of it, a call shows another turn that has a row    *)
(* exactly once, as what was read of its messages or as a summary of one   *)
(* of its rows, and a turn without a row as what was read of it or not at  *)
(* all, whatever the order of the rows and of the fallback.                *)
THEOREM EarlierTurnsReachTheModelOnce == Spec => []EarlierTurnsShownOnce
  <1> DEFINE Exact == \A u \in Turns : ExactInv(u)
  <1>1. ASSUME IInv, RowsOnce PROVE EarlierTurnsShownOnce
    <2>1. SUFFICES ASSUME NEW t \in Turns, AboutToCall(t), NEW context \in Contexts(t),
                          NEW u \in Turns \ {t}
                   PROVE  LET stored == PartOf(chat[t].snapshot, u)
                              shown  == PartOf(context, u)
                              rows   == {h \in history[session[t]] : h.turn = u}
                          IN  shown \in IF rows = {} THEN {<<>>, stored}
                                        ELSE {stored} \cup {SummaryOf(h) : h \in rows}
      BY DEF EarlierTurnsShownOnce
    <2> DEFINE log == chat[t].snapshot
               table == history[session[t]]
    <2>2. /\ log \in Seq(Message)
          /\ \E rows \in SetToSeqs(table), mode \in ContextModes :
               /\ rows \in Seq(HistoryRow)
               /\ context = log \/ context \in MergedContexts(log, rows, t, mode)
      BY <1>1, <2>1, ContextOf DEF IInv
    <2>3. PICK rows \in SetToSeqs(table), mode \in ContextModes :
               /\ rows \in Seq(HistoryRow)
               /\ context = log \/ context \in MergedContexts(log, rows, t, mode)
      BY <2>2
    <2>4. /\ IsFiniteSet(table)
          /\ \A h, k \in table : h.turn = k.turn => h = k
      BY <1>1, <2>1 DEF IInv, LocalInv, RowsOnce, AboutToCall
    <2> HIDE DEF log, table
    <2>5. /\ rows \in Seq(table)
          /\ \A x \in table : \E i \in DOMAIN rows : rows[i] = x
          /\ \A i, j \in DOMAIN rows : rows[i] = rows[j] => i = j
      BY <2>3, <2>4, LinedUp
    <2>6. OneRowEach(rows)
      BY <2>4, <2>5 DEF OneRowEach
    <2>7. \A i \in DOMAIN rows : rows[i] \in table
      BY <2>5
    <2>8. \/ PartOf(context, u) = PartOf(log, u)
          \/ /\ \A k \in DOMAIN rows : rows[k].turn = u =>
                  PartOf(context, u) \in {PartOf(log, u), SummaryOf(rows[k])}
             /\ (\A k \in DOMAIN rows : rows[k].turn # u) =>
                  PartOf(context, u) \in {<<>>, PartOf(log, u)}
      BY <2>2, <2>3, <2>6, MergedEarlier
    <2>9. CASE {h \in table : h.turn = u} = {}
      BY <2>7, <2>8, <2>9 DEF log, table
    <2>10. ASSUME NEW h \in table, h.turn = u
           PROVE  PartOf(context, u) \in {PartOf(log, u), SummaryOf(h)}
      BY <2>5, <2>8, <2>10
    <2> QED
      BY <2>9, <2>10 DEF log, table
  <1>2. Spec => [](IInv /\ RowsOnce /\ Exact)
    BY ContextInvariant
  <1> HIDE DEF Exact
  <1> QED
    BY <1>1, <1>2, PTL
-----------------------------------------------------------------------------
(* What begins a sequence does not change how it ends.                     *)
Ends(b, all) == \E a \in Seq(Message) : all = a \o b

LEMMA EndOfEnd ==
  ASSUME NEW a \in Seq(Message), NEW b, NEW c \in Seq(Message), Ends(c, b)
  PROVE  Ends(c, a \o b)
  <1>1. PICK d \in Seq(Message) : b = d \o c
    BY DEF Ends
  <1>2. a \o (d \o c) = (a \o d) \o c
    BY Joined
  <1>3. a \o d \in Seq(Message)
    OBVIOUS
  <1> QED
    BY <1>1, <1>2, <1>3 DEF Ends

(* A log that ends with all of a turn still does once the messages of      *)
(* other turns are dropped.                                                *)
LEMMA DetailedEnd ==
  ASSUME NEW log \in Seq(Message), NEW own \in Seq(Message), NEW t, PartOf(log, t) = own,
         Ends(own, log), NEW detailed, t \in detailed
  PROVE  Ends(own, DetailedMessages(log, detailed))
  <1> DEFINE some == detailed \cup {NoTurn}
             only == {t}
             both == only \cap some
  <1>1. both = only
    OBVIOUS
  <1>2. PICK before \in Seq(Message) : log = before \o own
    BY DEF Ends
  <1>3. MessagesOf(log, only) = own
    BY DEF PartOf
  <1> HIDE DEF some, only
  <1>4. MessagesOf(MessagesOf(log, only), some) = MessagesOf(log, both)
    BY MessagesOfMessages
  <1> HIDE DEF both
  <1>5. MessagesOf(own, some) = own
    BY <1>1, <1>3, <1>4
  <1>6. MessagesOf(before \o own, some) = MessagesOf(before, some) \o MessagesOf(own, some)
    BY MessagesOfJoin
  <1>7. MessagesOf(before, some) \in Seq(Message)
    BY MessagesOfType
  <1>8. MessagesOf(log, some) = MessagesOf(before, some) \o own
    BY <1>2, <1>5, <1>6
  <1> QED
    BY <1>7, <1>8 DEF Ends, DetailedMessages, some

(* So it does in every context built from both reads.                      *)
LEMMA MergedEnd ==
  ASSUME NEW log \in Seq(Message), NEW rows \in Seq(HistoryRow), NEW t, NEW full,
         NEW context \in MergedContexts(log, rows, t, full),
         NEW own \in Seq(Message), PartOf(log, t) = own, Ends(own, log)
  PROVE  Ends(own, context)
  <1> DEFINE detailed == SelectDetailedTurnIDs(log, rows, t, full)
             available == AvailableDetailed(log, detailed)
             told == HistoryTurnsAsMessages(rows, detailed, t)
             shown == DetailedMessages(log, detailed)
  <1>1. PICK fallback \in FallbackSummaries(rows, detailed, available, t) :
               Joins(context, told, fallback, shown)
    BY DEF MergedContexts, Joins
  <1>2. t \in detailed
    BY DEF SelectDetailedTurnIDs
  <1> HIDE DEF detailed
  <1>3. Ends(own, shown)
    BY <1>2, DetailedEnd
  <1>4. told \in Seq(Message)
    BY ToldMessages
  <1>5. fallback \in Seq(Message)
    <2> HIDE DEF available
    <2> QED
      BY <1>1, FallbackMessages
  <1> DEFINE first == told \o fallback
  <1> HIDE DEF told, shown
  <1>6. first \in Seq(Message)
    BY <1>4, <1>5
  <1>7. context = first \o shown
    BY <1>1 DEF Joins
  <1> HIDE DEF first
  <1> QED
    BY <1>3, <1>6, <1>7, EndOfEnd

(* With one run of a thread at a time, the turn at work comes last and in  *)
(* one piece in every context it may be given.                             *)
THEOREM OwnTranscriptComesLast ==
  ASSUME OneRunPerThread
  PROVE  Spec => []OwnTranscriptIsSuffix
  <1> DEFINE Exact == \A u \in Turns : ExactInv(u)
  <1>1. ASSUME IInv, RowsOnce, Exact PROVE OwnTranscriptIsSuffix
    <2>1. SUFFICES ASSUME NEW t \in Turns \ removed, AboutToCall(t), NEW context \in Contexts(t)
                   PROVE  IsSuffix(Exchange(t), context)
      BY DEF OwnTranscriptIsSuffix
    <2> DEFINE log == chat[t].snapshot
               own == Exchange(t)
    <2>2. /\ log \in Seq(Message)
          /\ \E rows \in SetToSeqs(history[session[t]]), mode \in ContextModes :
               /\ rows \in Seq(HistoryRow)
               /\ context = log \/ context \in MergedContexts(log, rows, t, mode)
      BY <1>1, <2>1, ContextOf DEF IInv
    <2>3. PartOf(log, t) = own /\ Ends(own, log)
      <3>1. ExactInv(t) /\ Running(t)
        BY <1>1, <2>1 DEF AboutToCall, Running, Ended
      <3> QED
        BY <2>1, <3>1, SentIsExchange DEF ExactInv, Fits, AboutToCall, Ends
    <2>4. own \in Seq(Message)
      BY <2>2, <2>3, PartType
    <2> HIDE DEF own, log
    <2>5. Ends(own, context)
      BY <2>2, <2>3, <2>4, MergedEnd
    <2>6. PICK a \in Seq(Message) : context = a \o own
      BY <2>5 DEF Ends
    <2> QED
      BY <2>4, <2>6, EndIsSuffix DEF own
  <1>2. Spec => [](IInv /\ RowsOnce /\ Exact)
    BY ContextInvariant
  <1> HIDE DEF Exact
  <1> QED
    BY <1>1, <1>2, PTL

------------------------------------------------------------------------------
(***************************************************************************)
(* Sequences of messages in order: every call is followed at once by its   *)
(* results, and no result is without its call.                             *)
(***************************************************************************)

(* The results of a call are all there, at once and in order, and there    *)
(* are no others.                                                          *)
AnsweredAt(c, i) ==
  c[i].role = "assistant" =>
    /\ i + c[i].n <= Len(c)
    /\ \A k \in 1..c[i].n : c[i + k] = ToolMessage(c[i].turn, c[i].round, k)

AskedAt(c, i) ==
  c[i].role = "tool" =>
    /\ c[i].n \in 1..(i - 1)
    /\ LET call == c[i - c[i].n]
       IN  /\ call.role = "assistant" /\ call.turn = c[i].turn /\ call.round = c[i].round
           /\ c[i].n <= call.n

Orderly(c) == \A i \in DOMAIN c : AnsweredAt(c, i) /\ AskedAt(c, i)

WellBegun(c) == c # <<>> => c[1].role = "user"

OrderlySeqs == {c \in Seq(Message) : Orderly(c)}
FineSeqs == {c \in Seq(Message) : Orderly(c) /\ WellBegun(c)}

LEMMA MessageParts ==
  ASSUME NEW m \in Message
  PROVE  /\ m.role \in {"user", "assistant", "tool"}
         /\ m.turn \in Turns /\ m.round \in Nat /\ m.n \in Nat
         /\ m = [role |-> m.role, turn |-> m.turn, round |-> m.round, n |-> m.n]
  BY DEF Message

LEMMA JoinPlaces ==
  ASSUME NEW S, NEW a \in Seq(S), NEW b \in Seq(S), NEW all, all = a \o b
  PROVE  /\ all \in Seq(S) /\ Len(a) \in Nat /\ Len(b) \in Nat
         /\ DOMAIN a = 1..Len(a) /\ DOMAIN b = 1..Len(b)
         /\ Len(all) = Len(a) + Len(b) /\ DOMAIN all = 1..(Len(a) + Len(b))
         /\ \A i \in 1..Len(a) : all[i] = a[i]
         /\ \A i \in 1..Len(b) : all[Len(a) + i] = b[i]
  OBVIOUS

LEMMA OrderlyJoin ==
  ASSUME NEW a \in OrderlySeqs, NEW b \in OrderlySeqs, NEW all, all = a \o b
  PROVE  all \in OrderlySeqs
  <1> DEFINE m == Len(a)
             n == Len(b)
  <1>1. a \in Seq(Message) /\ b \in Seq(Message) /\ Orderly(a) /\ Orderly(b)
    BY DEF OrderlySeqs
  <1>2. /\ all \in Seq(Message) /\ m \in Nat /\ n \in Nat
        /\ DOMAIN a = 1..m /\ DOMAIN b = 1..n /\ Len(all) = m + n /\ DOMAIN all = 1..(m + n)
        /\ \A i \in 1..m : all[i] = a[i]
        /\ \A i \in 1..n : all[m + i] = b[i]
    BY <1>1, JoinPlaces
  <1>3. /\ \A i \in 1..m : a[i] \in Message /\ a[i].n \in Nat
        /\ \A i \in 1..n : b[i] \in Message /\ b[i].n \in Nat
    BY <1>1, <1>2, MessageParts
  <1> HIDE DEF m, n
  <1>4. ASSUME NEW i \in 1..m PROVE AnsweredAt(all, i) /\ AskedAt(all, i)
    <2>1. AnsweredAt(a, i) /\ AskedAt(a, i) /\ all[i] = a[i]
      BY <1>1, <1>2 DEF Orderly
    <2>2. AnsweredAt(all, i)
      <3> SUFFICES ASSUME a[i].role = "assistant"
                   PROVE  /\ i + a[i].n <= m + n
                          /\ \A k \in 1..a[i].n : all[i + k] = ToolMessage(a[i].turn, a[i].round, k)
        BY <1>2, <2>1 DEF AnsweredAt
      <3>1. i + a[i].n <= m /\ \A k \in 1..a[i].n : a[i + k] = ToolMessage(a[i].turn, a[i].round, k)
        BY <2>1 DEF AnsweredAt, m
      <3>2. \A k \in 1..a[i].n : i + k \in 1..m
        BY <1>2, <1>3, <3>1
      <3> QED
        BY <1>2, <1>3, <3>1, <3>2
    <2>3. AskedAt(all, i)
      <3> SUFFICES ASSUME a[i].role = "tool" PROVE AskedAt(all, i)
        BY <2>1 DEF AskedAt
      <3>1. a[i].n \in 1..(i - 1) /\ i - a[i].n \in 1..m
        BY <1>2, <2>1 DEF AskedAt
      <3>2. all[i - a[i].n] = a[i - a[i].n]
        BY <1>2, <3>1
      <3> QED
        BY <2>1, <3>1, <3>2 DEF AskedAt
    <2> QED
      BY <2>2, <2>3
  <1>5. ASSUME NEW j \in 1..n, NEW i, i = m + j PROVE AnsweredAt(all, i) /\ AskedAt(all, i)
    <2>1. AnsweredAt(b, j) /\ AskedAt(b, j) /\ all[i] = b[j]
      BY <1>1, <1>2, <1>5 DEF Orderly
    <2>2. AnsweredAt(all, i)
      <3> SUFFICES ASSUME b[j].role = "assistant"
                   PROVE  /\ i + b[j].n <= m + n
                          /\ \A k \in 1..b[j].n : all[i + k] = ToolMessage(b[j].turn, b[j].round, k)
        BY <1>2, <2>1 DEF AnsweredAt
      <3>1. j + b[j].n <= n /\ \A k \in 1..b[j].n : b[j + k] = ToolMessage(b[j].turn, b[j].round, k)
        BY <2>1 DEF AnsweredAt, n
      <3>2. \A k \in 1..b[j].n : j + k \in 1..n /\ i + k = m + (j + k)
        BY <1>2, <1>3, <1>5, <3>1
      <3>3. i + b[j].n <= m + n
        BY <1>2, <1>3, <1>5, <3>1
      <3> QED
        BY <1>2, <3>1, <3>2, <3>3
    <2>3. AskedAt(all, i)
      <3> SUFFICES ASSUME b[j].role = "tool" PROVE AskedAt(all, i)
        BY <2>1 DEF AskedAt
      <3>1. b[j].n \in 1..(j - 1)
        BY <2>1 DEF AskedAt
      <3>2. j - b[j].n \in 1..n /\ i - b[j].n = m + (j - b[j].n) /\ b[j].n \in 1..(i - 1)
        BY <1>2, <1>3, <1>5, <3>1
      <3>3. all[i - b[j].n] = b[j - b[j].n]
        BY <1>2, <3>2
      <3> QED
        BY <2>1, <3>2, <3>3 DEF AskedAt
    <2> QED
      BY <2>2, <2>3
  <1>6. \A i \in 1..(m + n) : i \in 1..m \/ (i - m \in 1..n /\ i = m + (i - m))
    BY <1>2
  <1>7. Orderly(all)
    BY <1>2, <1>4, <1>5, <1>6 DEF Orderly
  <1> QED
    BY <1>2, <1>7 DEF OrderlySeqs

LEMMA FineParts ==
  ASSUME NEW c
  PROVE  c \in FineSeqs <=> c \in OrderlySeqs /\ WellBegun(c)
  BY DEF FineSeqs, OrderlySeqs

LEMMA FineJoin ==
  ASSUME NEW a \in FineSeqs, NEW b \in OrderlySeqs, NEW all, all = a \o b,
         a = <<>> => WellBegun(b)
  PROVE  all \in FineSeqs
  <1>1. a \in OrderlySeqs /\ WellBegun(a) /\ a \in Seq(Message) /\ b \in Seq(Message)
    BY FineParts DEF OrderlySeqs
  <1>2. all \in OrderlySeqs
    BY <1>1, OrderlyJoin
  <1>3. WellBegun(all)
    <2>1. CASE a = <<>>
      <3>1. all = b
        BY <1>1, <2>1
      <3> QED
        BY <2>1, <3>1
    <2>2. CASE a # <<>>
      <3>1. all[1] = a[1]
        BY <1>1, <2>2
      <3> QED
        BY <1>1, <2>2, <3>1 DEF WellBegun
    <2> QED
      BY <2>1, <2>2
  <1> QED
    BY <1>2, <1>3, FineParts

LEMMA EmptyIsFine == <<>> \in FineSeqs /\ <<>> \in OrderlySeqs
  BY DEF FineSeqs, OrderlySeqs, Orderly, WellBegun

(* What is true of the pieces and kept by joining is true of the whole.    *)
LEMMA FlattenKept ==
  ASSUME NEW S, NEW T, T \subseteq Seq(S), <<>> \in T, \A a, b \in T : a \o b \in T
  PROVE  \A ss \in Seq(T) : FlattenSeq(ss) \in T
  <1> DEFINE fine == {ss \in Seq(T) : FlattenSeq(ss) \in T}
  <1>1. <<>> \in fine
    BY FlattenEmpty
  <1>2. ASSUME NEW ss \in Seq(T), NEW s \in T, ss \in fine PROVE Append(ss, s) \in fine
    <2>1. FlattenSeq(ss) \in T /\ Append(ss, s) \in Seq(T)
      BY <1>2
    <2>2. ss \in Seq(Seq(S)) /\ s \in Seq(S) /\ FlattenSeq(ss) \in Seq(S)
      BY <2>1
    <2>3. FlattenSeq(Append(ss, s)) = FlattenSeq(ss) \o s
      BY <2>2, FlattenAppend
    <2>4. FlattenSeq(ss) \o s \in T
      BY <2>1
    <2> QED
      BY <2>1, <2>3, <2>4
  <1> HIDE DEF fine
  <1>3. \A ss \in Seq(T) : ss \in fine
    BY <1>1, <1>2, BySequences
  <1> QED
    BY <1>3 DEF fine

LEMMA FlattenOrderly == \A ss \in Seq(OrderlySeqs) : FlattenSeq(ss) \in OrderlySeqs
  <1>1. OrderlySeqs \subseteq Seq(Message)
    BY DEF OrderlySeqs
  <1>2. \A a, b \in OrderlySeqs : a \o b \in OrderlySeqs
    BY OrderlyJoin
  <1> QED
    BY <1>1, <1>2, EmptyIsFine, FlattenKept

LEMMA FlattenFine == \A ss \in Seq(FineSeqs) : FlattenSeq(ss) \in FineSeqs
  <1>1. FineSeqs \subseteq Seq(Message)
    BY DEF FineSeqs
  <1>2. \A a, b \in FineSeqs : a \o b \in FineSeqs
    <2> SUFFICES ASSUME NEW a \in FineSeqs, NEW b \in FineSeqs PROVE a \o b \in FineSeqs
      OBVIOUS
    <2>1. b \in OrderlySeqs /\ WellBegun(b)
      BY FineParts
    <2> QED
      BY <2>1, FineJoin
  <1> QED
    BY <1>1, <1>2, EmptyIsFine, FlattenKept
-----------------------------------------------------------------------------
LEMMA UserIsFine ==
  ASSUME NEW t \in Turns
  PROVE  <<UserMessage(t)>> \in FineSeqs
  <1> DEFINE m == UserMessage(t)
  <1>1. m \in Message /\ m.role = "user"
    BY MessagesAreMessages DEF UserMessage
  <1> DEFINE c == <<m>>
  <1>2. c \in Seq(Message) /\ DOMAIN c = 1..1 /\ c[1] = m
    BY <1>1
  <1>3. c[1].role = "user" /\ \A i \in DOMAIN c : i = 1
    BY <1>1, <1>2
  <1> HIDE DEF m, c
  <1>4. Orderly(c) /\ WellBegun(c)
    BY <1>2, <1>3 DEF Orderly, WellBegun, AnsweredAt, AskedAt
  <1>5. c \in FineSeqs
    BY <1>2, <1>4 DEF FineSeqs
  <1> QED
    BY <1>5 DEF c, m

LEMMA RoundIsOrderly ==
  ASSUME NEW t \in Turns, NEW r \in Nat, NEW calls \in Nat
  PROVE  RoundOf(t, r, calls) \in OrderlySeqs
  <1> DEFINE m == AssistantMessage(t, r, calls)
             call == <<m>>
             results == ResultsOf(t, r, calls)
             c == RoundOf(t, r, calls)
  <1>1. /\ m \in Message /\ m.role = "assistant" /\ m.turn = t /\ m.round = r /\ m.n = calls
        /\ call \in Seq(Message) /\ Len(call) = 1 /\ call[1] = m
    BY MessagesAreMessages DEF AssistantMessage
  <1>2. /\ results \in Seq(Message) /\ Len(results) = calls
        /\ \A k \in 1..calls : results[k] = ToolMessage(t, r, k)
    BY ResultsType DEF ResultsOf
  <1>3. c = call \o results
    BY DEF RoundOf
  <1> HIDE DEF m, call, results, c
  <1>4. /\ c \in Seq(Message) /\ Len(c) = 1 + calls /\ DOMAIN c = 1..(1 + calls)
        /\ c[1] = m
        /\ \A k \in 1..calls : c[1 + k] = ToolMessage(t, r, k)
    <2>1. /\ c \in Seq(Message)
          /\ DOMAIN call = 1..Len(call) /\ DOMAIN results = 1..Len(results)
          /\ Len(c) = Len(call) + Len(results) /\ DOMAIN c = 1..(Len(call) + Len(results))
          /\ \A i \in 1..Len(call) : c[i] = call[i]
          /\ \A i \in 1..Len(results) : c[Len(call) + i] = results[i]
      <3>1. call \in Seq(Message) /\ results \in Seq(Message)
        BY <1>1, <1>2
      <3> HIDE <1>1, <1>2
      <3> QED
        BY <3>1, <1>3, JoinPlaces
    <2> QED
      BY <1>1, <1>2, <2>1
  <1>5. AnsweredAt(c, 1) /\ AskedAt(c, 1)
    BY <1>1, <1>4 DEF AnsweredAt, AskedAt
  <1>6. ASSUME NEW k \in 1..calls, NEW i, i = 1 + k PROVE AnsweredAt(c, i) /\ AskedAt(c, i)
    <2> DEFINE result == ToolMessage(t, r, k)
    <2>3. result.role = "tool" /\ result.n = k /\ result.turn = t /\ result.round = r
      BY DEF ToolMessage
    <2>4. c[i] = result
      BY <1>4, <1>6
    <2>1. c[i].role = "tool" /\ c[i].n = k /\ c[i].turn = t /\ c[i].round = r
      BY <2>3, <2>4
    <2>2. i - k = 1 /\ k \in 1..(i - 1)
      BY <1>6
    <2> QED
      BY <1>1, <1>4, <2>1, <2>2 DEF AnsweredAt, AskedAt
  <1>7. \A i \in 1..(1 + calls) : i = 1 \/ (i - 1 \in 1..calls /\ i = 1 + (i - 1))
    OBVIOUS
  <1>8. Orderly(c)
    BY <1>4, <1>5, <1>6, <1>7 DEF Orderly
  <1> QED
    BY <1>4, <1>8 DEF OrderlySeqs, c

LEMMA FirstRoundsFine ==
  ASSUME NEW t \in Turns, NEW asked, NEW n \in Nat, \A r \in 1..n : asked[r] \in Nat
  PROVE  FirstRounds(t, asked, n) \in FineSeqs
  <1> DEFINE rounds == RoundsOf(t, asked, n)
             user == <<UserMessage(t)>>
  <1>1. \A r \in 1..n : RoundOf(t, r, asked[r]) \in OrderlySeqs
    <2> SUFFICES ASSUME NEW r \in 1..n PROVE RoundOf(t, r, asked[r]) \in OrderlySeqs
      OBVIOUS
    <2>1. r \in Nat /\ asked[r] \in Nat
      OBVIOUS
    <2> QED
      BY <2>1, RoundIsOrderly
  <1>2. rounds \in Seq(OrderlySeqs)
    BY <1>1 DEF RoundsOf
  <1>3. FlattenSeq(rounds) \in OrderlySeqs
    BY <1>2, FlattenOrderly
  <1>4. user \in FineSeqs /\ user # <<>>
    BY UserIsFine
  <1>5. FirstRounds(t, asked, n) = user \o FlattenSeq(rounds)
    BY DEF FirstRounds
  <1> HIDE DEF rounds, user
  <1> QED
    BY <1>3, <1>4, <1>5, FineJoin

LEMMA SummaryIsFine ==
  ASSUME NEW row \in HistoryRow, row.question
  PROVE  SummaryOf(row) \in FineSeqs
  <1> DEFINE user == <<UserMessage(row.turn)>>
             answer == IF row.answer THEN <<AnswerSummary(row.turn)>> ELSE <<>>
  <1>1. row.turn \in Turns
    BY DEF HistoryRow
  <1>2. user \in FineSeqs /\ user # <<>>
    BY <1>1, UserIsFine
  <1>3. <<AnswerSummary(row.turn)>> = RoundOf(row.turn, 0, 0)
    <2> DEFINE m == AnswerSummary(row.turn)
    <2>1. m = AssistantMessage(row.turn, 0, 0)
      BY DEF AnswerSummary
    <2> HIDE DEF m
    <2>2. <<m>> \o <<>> = <<m>>
      OBVIOUS
    <2> QED
      BY <2>1, <2>2, ResultsNone DEF RoundOf, m
  <1>4. answer \in OrderlySeqs
    BY <1>1, <1>3, RoundIsOrderly, EmptyIsFine
  <1>5. SummaryOf(row) = user \o answer
    BY DEF SummaryOf
  <1> HIDE DEF user, answer
  <1> QED
    BY <1>2, <1>4, <1>5, FineJoin

LEMMA SummariesAreFine ==
  ASSUME NEW rows \in Seq(HistoryRow), \A i \in DOMAIN rows : rows[i].question, NEW turns
  PROVE  Summaries(rows, turns) \in FineSeqs
  <1> DEFINE each == EachSummary(rows, turns)
  <1>1. /\ Len(rows) \in Nat /\ DOMAIN rows = 1..Len(rows)
        /\ \A i \in 1..Len(rows) : rows[i] \in HistoryRow /\ rows[i].question
    OBVIOUS
  <1>2. \A i \in 1..Len(rows) : SummaryOf(rows[i]) \in FineSeqs
    BY <1>1, SummaryIsFine
  <1>3. \A i \in 1..Len(rows) : (IF rows[i].turn \in turns THEN SummaryOf(rows[i]) ELSE <<>>) \in FineSeqs
    BY <1>2, EmptyIsFine
  <1>4. each \in Seq(FineSeqs)
    BY <1>1, <1>3 DEF EachSummary
  <1>5. Summaries(rows, turns) = FlattenSeq(each)
    BY DEF Summaries, EachSummary
  <1> HIDE DEF each
  <1> QED
    BY <1>4, <1>5, FlattenFine

------------------------------------------------------------------------------
(***************************************************************************)
(* The requests of the OpenAI and OpenRouter clients, which mirror what they *)
(* are given message by message.                                           *)
(***************************************************************************)

(* A call or its result, by whatever block it is known.                    *)
Token(t, r, k) == [kind |-> "any", turn |-> t, round |-> r, n |-> k]
Calls(t, r, n) == {Token(t, r, k) : k \in 1..n}

Block == [kind : {"text", "use", "result"}, turn : Turns, round : Nat, n : Nat]

Found(content, kind) ==
  {[b EXCEPT !.kind = "any"] : b \in {c \in ToSet(content) : c.kind = kind}}

TokenOf(b) == Token(b.turn, b.round, b.n)

LEMMA FoundIsSome ==
  ASSUME NEW content \in Seq(Block), NEW kind, NEW x
  PROVE  x \in Found(content, kind) <=>
           \E i \in DOMAIN content : content[i].kind = kind /\ x = TokenOf(content[i])
  <1>1. \A i \in DOMAIN content : content[i] \in Block
    OBVIOUS
  <1>2. \A b \in Block : [b EXCEPT !.kind = "any"] = TokenOf(b)
    BY DEF Block, TokenOf, Token
  <1>3. x \in Found(content, kind) <=>
          \E b \in ToSet(content) : b.kind = kind /\ x = [b EXCEPT !.kind = "any"]
    BY DEF Found
  <1>4. ToSet(content) = {content[i] : i \in DOMAIN content}
    BY DEF ToSet
  <1> QED
    BY <1>1, <1>2, <1>3, <1>4

LEMMA FoundInNothing ==
  ASSUME NEW kind
  PROVE  Found(<<>>, kind) = {}
  <1>1. <<>> \in Seq(Block) /\ DOMAIN <<>> = {}
    OBVIOUS
  <1>2. \A x : x \notin Found(<<>>, kind)
    BY <1>1, FoundIsSome
  <1> QED
    BY <1>2

LEMMA FoundInOne ==
  ASSUME NEW b \in Block, NEW kind
  PROVE  Found(<<b>>, kind) = IF b.kind = kind THEN {TokenOf(b)} ELSE {}
  <1> DEFINE c == <<b>>
  <1>1. c \in Seq(Block) /\ DOMAIN c = 1..1 /\ c[1] = b
    OBVIOUS
  <1> HIDE DEF c
  <1>2. \A i \in DOMAIN c : i = 1
    BY <1>1
  <1>3. \A x : x \in Found(c, kind) <=> b.kind = kind /\ x = TokenOf(b)
    BY <1>1, <1>2, FoundIsSome
  <1>4. Found(c, kind) = IF b.kind = kind THEN {TokenOf(b)} ELSE {}
    BY <1>3
  <1> QED
    BY <1>4 DEF c

LEMMA FoundInBoth ==
  ASSUME NEW a \in Seq(Block), NEW b \in Seq(Block), NEW kind
  PROVE  Found(a \o b, kind) = Found(a, kind) \cup Found(b, kind)
  <1> DEFINE all == a \o b
             m == Len(a)
             n == Len(b)
  <1>1. /\ all \in Seq(Block) /\ m \in Nat /\ n \in Nat
        /\ DOMAIN a = 1..m /\ DOMAIN b = 1..n /\ DOMAIN all = 1..(m + n)
        /\ \A i \in 1..m : all[i] = a[i]
        /\ \A i \in 1..n : all[m + i] = b[i]
    BY JoinPlaces
  <1> HIDE DEF all, m, n
  <1>2. \A i \in 1..(m + n) : i \in 1..m \/ (i - m \in 1..n /\ i = m + (i - m))
    BY <1>1
  <1>3. /\ \A i \in 1..m : i \in 1..(m + n)
        /\ \A i \in 1..n : m + i \in 1..(m + n)
    BY <1>1
  <1>4. ASSUME NEW x PROVE x \in Found(all, kind) <=> x \in Found(a, kind) \/ x \in Found(b, kind)
    <2>1. ASSUME x \in Found(all, kind) PROVE x \in Found(a, kind) \/ x \in Found(b, kind)
      <3>1. PICK i \in 1..(m + n) : all[i].kind = kind /\ x = TokenOf(all[i])
        BY <1>1, <2>1, FoundIsSome
      <3>2. CASE i \in 1..m
        <4>1. a[i].kind = kind /\ x = TokenOf(a[i])
          BY <1>1, <3>1, <3>2
        <4> QED
          BY <1>1, <3>2, <4>1, FoundIsSome
      <3>3. CASE i - m \in 1..n /\ i = m + (i - m)
        <4>1. all[i] = b[i - m]
          BY <1>1, <3>3
        <4>2. b[i - m].kind = kind /\ x = TokenOf(b[i - m])
          BY <3>1, <4>1
        <4> QED
          BY <1>1, <3>3, <4>2, FoundIsSome
      <3> QED
        BY <1>2, <3>2, <3>3
    <2>2. ASSUME x \in Found(a, kind) PROVE x \in Found(all, kind)
      <3>1. PICK i \in 1..m : a[i].kind = kind /\ x = TokenOf(a[i])
        BY <1>1, <2>2, FoundIsSome
      <3>2. all[i] = a[i] /\ i \in 1..(m + n)
        BY <1>1, <1>3
      <3> QED
        BY <1>1, <3>1, <3>2, FoundIsSome
    <2>3. ASSUME x \in Found(b, kind) PROVE x \in Found(all, kind)
      <3>0. \E i \in DOMAIN b : b[i].kind = kind /\ x = TokenOf(b[i])
        BY <2>3, FoundIsSome
      <3>1. PICK i \in 1..n : b[i].kind = kind /\ x = TokenOf(b[i])
        BY <1>1, <3>0
      <3>2. all[m + i] = b[i] /\ m + i \in 1..(m + n)
        BY <1>1, <1>3
      <3> QED
        BY <1>1, <3>1, <3>2, FoundIsSome
    <2> QED
      BY <2>1, <2>2, <2>3
  <1>5. Found(all, kind) = Found(a, kind) \cup Found(b, kind)
    BY <1>4
  <1> QED
    BY <1>5 DEF all

LEMMA BlocksAreBlocks ==
  ASSUME NEW m \in Message
  PROVE  /\ Text(m) \in Block /\ Text(m).kind = "text"
         /\ ToolResult(m) \in Block /\ ToolResult(m).kind = "result"
         /\ TokenOf(ToolResult(m)) = Token(m.turn, m.round, m.n)
         /\ \A k \in Nat : /\ ToolUse(m, k) \in Block /\ ToolUse(m, k).kind = "use"
                           /\ TokenOf(ToolUse(m, k)) = Token(m.turn, m.round, k)
  BY MessageParts DEF Text, ToolUse, ToolResult, Block, TokenOf

LEMMA UsesOfMessage ==
  ASSUME NEW m \in Message
  PROVE  /\ ToolUses(m) \in Seq(Block)
         /\ Found(ToolUses(m), "use") = Calls(m.turn, m.round, m.n)
         /\ Found(ToolUses(m), "result") = {}
         /\ \A i \in DOMAIN ToolUses(m) : ToolUses(m)[i].kind = "use"
         /\ m.n > 0 => ToolUses(m) # <<>>
  <1> DEFINE uses == ToolUses(m)
  <1>1. m.n \in Nat
    BY MessageParts
  <1>2. /\ uses \in Seq(Block) /\ DOMAIN uses = 1..m.n
        /\ \A k \in 1..m.n : uses[k] = ToolUse(m, k)
    BY <1>1, BlocksAreBlocks DEF ToolUses
  <1>3. \A k \in 1..m.n : k \in Nat /\ uses[k].kind = "use" /\ TokenOf(uses[k]) = Token(m.turn, m.round, k)
    BY <1>1, <1>2, BlocksAreBlocks
  <1> HIDE DEF uses
  <1>4. ASSUME NEW x PROVE x \in Found(uses, "use") <=> x \in Calls(m.turn, m.round, m.n)
    <2>0. x \in Found(uses, "use") <=> \E i \in DOMAIN uses : uses[i].kind = "use" /\ x = TokenOf(uses[i])
      <3>1. uses \in Seq(Block)
        BY <1>2
      <3> HIDE <1>2, <1>3
      <3> QED
        BY <3>1, FoundIsSome
    <2>1. x \in Found(uses, "use") <=> \E i \in 1..m.n : uses[i].kind = "use" /\ x = TokenOf(uses[i])
      BY <1>2, <2>0
    <2>2. x \in Calls(m.turn, m.round, m.n) <=> \E i \in 1..m.n : x = Token(m.turn, m.round, i)
      BY DEF Calls
    <2> QED
      BY <1>3, <2>1, <2>2
  <1>5. ASSUME NEW x PROVE x \notin Found(uses, "result")
    <2>0. x \in Found(uses, "result") <=> \E i \in DOMAIN uses : uses[i].kind = "result" /\ x = TokenOf(uses[i])
      <3>1. uses \in Seq(Block)
        BY <1>2
      <3> HIDE <1>2, <1>3
      <3> QED
        BY <3>1, FoundIsSome
    <2>1. x \in Found(uses, "result") <=> \E i \in 1..m.n : uses[i].kind = "result" /\ x = TokenOf(uses[i])
      BY <1>2, <2>0
    <2> QED
      BY <1>3, <2>1
  <1>6. m.n > 0 => uses # <<>>
    BY <1>1, <1>2
  <1>7. Found(uses, "use") = Calls(m.turn, m.round, m.n) /\ Found(uses, "result") = {}
    BY <1>4, <1>5
  <1> QED
    BY <1>2, <1>3, <1>6, <1>7 DEF uses

LEMMA TextOfMessage ==
  ASSUME NEW m \in Message, NEW blank, NEW text,
         text = <<Text(m)>> \/ text = TextOf(m, blank)
  PROVE  /\ text \in Seq(Block)
         /\ Found(text, "use") = {} /\ Found(text, "result") = {}
         /\ \A i \in DOMAIN text : text[i].kind = "text"
  <1> DEFINE b == Text(m)
  <1>1. b \in Block /\ b.kind = "text"
    BY BlocksAreBlocks
  <1>2. text = <<b>> \/ text = <<>>
    BY DEF TextOf
  <1> HIDE DEF b
  <1>3. CASE text = <<>>
    BY <1>3, FoundInNothing
  <1>4. CASE text = <<b>>
    <2>1. DOMAIN text = 1..1 /\ text[1] = b /\ text \in Seq(Block)
      BY <1>1, <1>4
    <2>2. \A i \in 1..1 : i = 1
      OBVIOUS
    <2>3. Found(text, "use") = {} /\ Found(text, "result") = {}
      BY <1>1, <1>4, FoundInOne
    <2> QED
      BY <1>1, <2>1, <2>2, <2>3
  <1> QED
    BY <1>2, <1>3, <1>4

LEMMA ResultOfMessage ==
  ASSUME NEW m \in Message
  PROVE  /\ <<ToolResult(m)>> \in Seq(Block)
         /\ Found(<<ToolResult(m)>>, "use") = {}
         /\ Found(<<ToolResult(m)>>, "result") = {Token(m.turn, m.round, m.n)}
         /\ \A i \in DOMAIN <<ToolResult(m)>> : <<ToolResult(m)>>[i].kind = "result"
  <1> DEFINE b == ToolResult(m)
             c == <<b>>
  <1>1. b \in Block /\ b.kind = "result" /\ TokenOf(b) = Token(m.turn, m.round, m.n)
    BY BlocksAreBlocks
  <1> HIDE DEF b
  <1>2. c \in Seq(Block) /\ DOMAIN c = 1..1 /\ c[1] = b /\ \A i \in 1..1 : i = 1
    BY <1>1
  <1>3. Found(c, "use") = {} /\ Found(c, "result") = {Token(m.turn, m.round, m.n)}
    BY <1>1, FoundInOne
  <1> HIDE DEF c
  <1>4. /\ c \in Seq(Block) /\ Found(c, "use") = {} /\ Found(c, "result") = {Token(m.turn, m.round, m.n)}
        /\ \A i \in DOMAIN c : c[i].kind = "result"
    BY <1>1, <1>2, <1>3
  <1> QED
    BY <1>4 DEF c, b
-----------------------------------------------------------------------------
(* OpenAI and OpenRouter.                                                  *)
Mirrors(param, m) ==
  /\ param.role = m.role
  /\ Uses(param) = IF m.role = "assistant" THEN Calls(m.turn, m.round, m.n) ELSE {}
  /\ Results(param) = IF m.role = "tool" THEN {Token(m.turn, m.round, m.n)} ELSE {}

LEMMA ParamBlocks ==
  ASSUME NEW role, NEW content
  PROVE  /\ Param(role, content).role = role /\ Param(role, content).content = content
         /\ Uses(Param(role, content)) = Found(content, "use")
         /\ Results(Param(role, content)) = Found(content, "result")
  BY DEF Param, Uses, Results, BlocksOf, Found

LEMMA CallsAreMany ==
  ASSUME NEW t, NEW r, NEW n \in Nat
  PROVE  IsFiniteSet(Calls(t, r, n)) /\ Cardinality(Calls(t, r, n)) = n
  <1> DEFINE f == [k \in 1..n |-> Token(t, r, k)]
  <1>1. f \in Bijection(1..n, Calls(t, r, n))
    BY DEF Bijection, Injection, Surjection, IsInjective, Calls, Token
  <1>2. ExistsBijection(1..n, Calls(t, r, n))
    BY <1>1 DEF ExistsBijection
  <1> QED
    BY <1>2, FS_CountingElements, FS_NatBijection

LEMMA NoCalls ==
  /\ \A t, r : Calls(t, r, 0) = {}
  /\ Cardinality({}) = 0
  <1>1. 1..0 = {}
    OBVIOUS
  <1> QED
    BY <1>1, FS_EmptySet DEF Calls

(* What each client makes of a message.                                    *)
LEMMA ContentOfMessage ==
  ASSUME NEW m \in Message, NEW text, NEW blank,
         text = <<Text(m)>> \/ text = TextOf(m, blank),
         NEW content, content = text \o ToolUses(m)
  PROVE  /\ content \in Seq(Block)
         /\ Found(content, "use") = Calls(m.turn, m.round, m.n)
         /\ Found(content, "result") = {}
  <1>1. /\ text \in Seq(Block) /\ Found(text, "use") = {} /\ Found(text, "result") = {}
    BY TextOfMessage
  <1>2. /\ ToolUses(m) \in Seq(Block) /\ Found(ToolUses(m), "use") = Calls(m.turn, m.round, m.n)
        /\ Found(ToolUses(m), "result") = {}
    BY UsesOfMessage
  <1>3. content \in Seq(Block)
    BY <1>1, <1>2
  <1>4. \A kind : Found(content, kind) = Found(text, kind) \cup Found(ToolUses(m), kind)
    BY <1>1, <1>2, FoundInBoth
  <1> QED
    BY <1>1, <1>2, <1>3, <1>4

LEMMA ClientsMirror ==
  ASSUME NEW m \in Message, NEW blank
  PROVE  Mirrors(OpenAIParam(m), m) /\ Mirrors(OpenRouterParam(m, blank), m)
  <1> DEFINE asks == <<Text(m)>> \o ToolUses(m)
             says == TextOf(m, blank) \o ToolUses(m)
             text == <<Text(m)>>
             maybe == TextOf(m, blank)
             result == <<ToolResult(m)>>
  <1>1. /\ Found(asks, "use") = Calls(m.turn, m.round, m.n) /\ Found(asks, "result") = {}
        /\ Found(says, "use") = Calls(m.turn, m.round, m.n) /\ Found(says, "result") = {}
    BY ContentOfMessage
  <1>2. /\ Found(text, "use") = {} /\ Found(text, "result") = {}
        /\ Found(maybe, "use") = {} /\ Found(maybe, "result") = {}
    BY TextOfMessage
  <1>3. Found(result, "use") = {} /\ Found(result, "result") = {Token(m.turn, m.round, m.n)}
    BY ResultOfMessage
  <1>4. CASE m.role = "user"
    <2>1. OpenAIParam(m) = Param("user", text) /\ OpenRouterParam(m, blank) \in {Param("user", text), Param("user", maybe)}
      BY <1>4 DEF OpenAIParam, OpenRouterParam
    <2> HIDE DEF text, maybe
    <2> QED
      BY <1>2, <1>4, <2>1, ParamBlocks DEF Mirrors
  <1>5. CASE m.role = "assistant"
    <2>1. OpenAIParam(m) = Param("assistant", asks) /\ OpenRouterParam(m, blank) = Param("assistant", says)
      BY <1>5 DEF OpenAIParam, OpenRouterParam
    <2> HIDE DEF asks, says
    <2> QED
      BY <1>1, <1>5, <2>1, ParamBlocks DEF Mirrors
  <1>6. CASE m.role = "tool"
    <2>1. OpenAIParam(m) = Param("tool", result) /\ OpenRouterParam(m, blank) = Param("tool", result)
      BY <1>6 DEF OpenAIParam, OpenRouterParam
    <2> HIDE DEF result
    <2> QED
      BY <1>3, <1>6, <2>1, ParamBlocks DEF Mirrors
  <1> QED
    BY <1>4, <1>5, <1>6, MessageParts

LEMMA MirrorIsAccepted ==
  ASSUME NEW c \in FineSeqs, c # <<>>,
         NEW request, DOMAIN request = DOMAIN c, \A i \in DOMAIN c : Mirrors(request[i], c[i])
  PROVE  ChatAccepts(request)
  <1> DEFINE n == Len(c)
  <1>1. /\ c \in Seq(Message) /\ n \in Nat /\ n >= 1 /\ DOMAIN c = 1..n
        /\ \A i \in 1..n : c[i] \in Message /\ c[i].n \in Nat
    BY MessageParts DEF FineSeqs
  <1>2. /\ \A i \in 1..n : AnsweredAt(c, i) /\ AskedAt(c, i)
        /\ DOMAIN request = 1..n
    BY <1>1 DEF FineSeqs, Orderly
  <1>3. Len(request) = n
    BY <1>1, <1>2
  <1>4. request # <<>>
    BY <1>1, <1>2
  <1>5. /\ \A i \in 1..n : Mirrors(request[i], c[i])
    BY <1>1
  <1> HIDE DEF n
  <1>6. ASSUME NEW i \in 1..n, NEW calls, calls = Cardinality(Uses(request[i]))
        PROVE  /\ i + calls <= n
               /\ UNION {Results(request[j]) : j \in (i + 1)..(i + calls)} = Uses(request[i])
    <2>1. CASE c[i].role = "assistant"
      <3> DEFINE t == c[i].turn
                 r == c[i].round
                 k == c[i].n
      <3>1. Uses(request[i]) = Calls(t, r, k) /\ k \in Nat
        BY <1>1, <1>5, <2>1 DEF Mirrors
      <3> HIDE DEF t, r, k
      <3>2. calls = k
        BY <1>6, <3>1, CallsAreMany
      <3>3. i + k <= n /\ \A j \in 1..k : c[i + j] = ToolMessage(t, r, j)
        BY <1>2, <2>1 DEF AnsweredAt, n, t, r, k
      <3>4. ASSUME NEW j \in 1..k PROVE Results(request[i + j]) = {Token(t, r, j)}
        <4> DEFINE m == ToolMessage(t, r, j)
        <4>1. m.role = "tool" /\ m.turn = t /\ m.round = r /\ m.n = j
          BY DEF ToolMessage
        <4>0. c[i + j] = m
          BY <3>3
        <4>2. i + j \in 1..n /\ c[i + j] = m
          <5>1. i \in Nat /\ i >= 1 /\ j \in Nat /\ j >= 1 /\ j <= k /\ i + k <= n
            BY <3>1, <3>3
          <5>2. i + j \in 1..n
            BY <1>1, <3>1, <5>1
          <5> QED
            BY <4>0, <5>2
        <4>3. Mirrors(request[i + j], c[i + j])
          BY <1>5, <4>2
        <4> HIDE DEF m
        <4> QED
          BY <4>1, <4>2, <4>3 DEF Mirrors
      <3>5. \A j \in (i + 1)..(i + k) : j - i \in 1..k /\ i + (j - i) = j
        BY <3>1
      <3>6. \A j \in 1..k : i + j \in (i + 1)..(i + k)
        BY <3>1
      <3>7. ASSUME NEW x PROVE (\E j \in (i + 1)..(i + k) : x \in Results(request[j])) <=> x \in Calls(t, r, k)
        <4>1. x \in Calls(t, r, k) <=> \E j \in 1..k : x = Token(t, r, j)
          BY DEF Calls
        <4>2. ASSUME NEW j \in (i + 1)..(i + k), x \in Results(request[j]) PROVE x \in Calls(t, r, k)
          <5>1. Results(request[i + (j - i)]) = {Token(t, r, j - i)} /\ j - i \in 1..k
            BY <3>4, <3>5
          <5> QED
            BY <3>5, <4>1, <4>2, <5>1
        <4>3. ASSUME NEW j \in 1..k, x = Token(t, r, j) PROVE \E h \in (i + 1)..(i + k) : x \in Results(request[h])
          <5>1. x \in Results(request[i + j])
            BY <3>4, <4>3
          <5> QED
            BY <3>6, <5>1
        <4> QED
          BY <4>1, <4>2, <4>3
      <3>8. UNION {Results(request[j]) : j \in (i + 1)..(i + k)} = Calls(t, r, k)
        BY <3>7
      <3> QED
        BY <3>1, <3>2, <3>3, <3>8
    <2>2. CASE c[i].role # "assistant"
      <3>1. Uses(request[i]) = {}
        BY <1>5, <2>2 DEF Mirrors
      <3>2. calls = 0
        BY <1>6, <3>1, NoCalls
      <3>3. (i + 1)..(i + 0) = {}
        OBVIOUS
      <3> QED
        BY <1>1, <3>1, <3>2, <3>3
    <2> QED
      BY <2>1, <2>2
  <1>7. ASSUME NEW i \in 1..n, request[i].role = "tool"
        PROVE  \E j \in 1..(i - 1) :
                 /\ Results(request[i]) \subseteq Uses(request[j])
                 /\ \A k \in (j + 1)..(i - 1) : request[k].role = "tool"
    <2> DEFINE j == i - c[i].n
    <2>1. Mirrors(request[i], c[i]) /\ c[i].role = "tool"
      BY <1>5, <1>7 DEF Mirrors
    <2>2. /\ c[i].n \in 1..(i - 1)
          /\ c[j].role = "assistant" /\ c[j].turn = c[i].turn /\ c[j].round = c[i].round
          /\ c[i].n <= c[j].n
      BY <1>2, <2>1 DEF AskedAt
    <2>3. j \in 1..(i - 1) /\ j \in 1..n /\ c[j].n \in Nat /\ c[i].n \in 1..c[j].n
      BY <1>1, <2>2
    <2> HIDE DEF j
    <2>4. Uses(request[j]) = Calls(c[i].turn, c[i].round, c[j].n)
      BY <1>5, <2>2, <2>3 DEF Mirrors
    <2>5. Results(request[i]) = {Token(c[i].turn, c[i].round, c[i].n)}
      BY <2>1 DEF Mirrors
    <2>6. Results(request[i]) \subseteq Uses(request[j])
      BY <2>3, <2>4, <2>5 DEF Calls
    <2>7. ASSUME NEW k \in (j + 1)..(i - 1) PROVE request[k].role = "tool"
      <3>0. i = j + c[i].n /\ j \in Nat /\ c[i].n \in Nat /\ c[j].n \in Nat /\ c[i].n <= c[j].n
        BY <1>1, <2>2, <2>3 DEF j
      <3>1. k - j \in 1..c[j].n /\ j + (k - j) = k /\ k \in 1..n
        <4> DEFINE a == c[i].n
                   b == c[j].n
        <4>1. i = j + a /\ j \in Nat /\ a \in Nat /\ b \in Nat /\ a <= b /\ j >= 1 /\ i <= n
          BY <1>1, <2>3, <3>0
        <4> HIDE DEF a, b
        <4>2. k - j \in 1..b /\ j + (k - j) = k /\ k \in 1..n
          BY <1>1, <4>1
        <4> QED
          BY <4>2 DEF b
      <3>2. c[j + (k - j)] = ToolMessage(c[j].turn, c[j].round, k - j)
        BY <1>2, <2>2, <2>3, <3>1 DEF AnsweredAt
      <3>3. c[k].role = "tool"
        BY <3>1, <3>2 DEF ToolMessage
      <3> QED
        BY <1>5, <3>1, <3>3 DEF Mirrors
    <2> QED
      BY <2>3, <2>6, <2>7
  <1> QED
    BY <1>2, <1>3, <1>4, <1>6, <1>7 DEF ChatAccepts

LEMMA ChatRequestsAccepted ==
  ASSUME NEW c \in FineSeqs, c # <<>>, NEW blank
  PROVE  ChatAccepts(OpenAIRequest(c)) /\ ChatAccepts(OpenRouterRequest(c, blank))
  <1>1. \A i \in DOMAIN c : c[i] \in Message
    BY DEF FineSeqs
  <1>2. /\ DOMAIN OpenAIRequest(c) = DOMAIN c
        /\ \A i \in DOMAIN c : Mirrors(OpenAIRequest(c)[i], c[i])
    BY <1>1, ClientsMirror DEF OpenAIRequest
  <1>3. /\ DOMAIN OpenRouterRequest(c, blank) = DOMAIN c
        /\ \A i \in DOMAIN c : Mirrors(OpenRouterRequest(c, blank)[i], c[i])
    BY <1>1, ClientsMirror DEF OpenRouterRequest
  <1> QED
    BY <1>2, <1>3, MirrorIsAccepted

------------------------------------------------------------------------------
(***************************************************************************)
(* The requests of the Anthropic client, which drop what is blank and merge *)
(* what follows in one role: an induction over the messages.               *)
(***************************************************************************)

(* The request made of the first n messages, as a function of n.           *)
MadeOf(f, c, blank, n) ==
  f = [i \in 0..n |-> IF i = 0 THEN <<>> ELSE AppendMerged(f[i - 1], AnthropicParam(c[i], blank))]

LEMMA MadeExists ==
  ASSUME NEW c, NEW blank
  PROVE  \A n \in Nat : \E f : MadeOf(f, c, blank, n)
  <1> DEFINE fine == {n \in Nat : \E f : MadeOf(f, c, blank, n)}
  <1>1. 0 \in fine
    <2> DEFINE f == [i \in 0..0 |-> <<>>]
    <2>1. f = [i \in 0..0 |-> IF i = 0 THEN <<>> ELSE AppendMerged(f[i - 1], AnthropicParam(c[i], blank))]
      OBVIOUS
    <2>2. MadeOf(f, c, blank, 0)
      BY <2>1 DEF MadeOf
    <2> QED
      BY <2>2
  <1>2. ASSUME NEW n \in Nat, n \in fine PROVE n + 1 \in fine
    <2>1. PICK f : MadeOf(f, c, blank, n)
      BY <1>2
    <2> DEFINE last == AppendMerged(f[n], AnthropicParam(c[n + 1], blank))
               g == [i \in 0..(n + 1) |-> IF i = n + 1 THEN last ELSE f[i]]
    <2>2. DOMAIN g = 0..(n + 1) /\ g[n + 1] = last /\ \A i \in 0..n : g[i] = f[i]
      <3> HIDE DEF last
      <3>1. n + 1 \in 0..(n + 1) /\ \A i \in 0..n : i \in 0..(n + 1) /\ i # n + 1
        OBVIOUS
      <3> QED
        BY <3>1
    <2>3. ASSUME NEW i \in 0..(n + 1)
          PROVE  g[i] = IF i = 0 THEN <<>> ELSE AppendMerged(g[i - 1], AnthropicParam(c[i], blank))
      <3>1. CASE i = n + 1
        <4>1. n \in 0..n /\ (n + 1) - 1 = n /\ n + 1 # 0
          OBVIOUS
        <4> HIDE DEF g
        <4> QED
          BY <2>2, <3>1, <4>1
      <3>2. CASE i \in 0..n
        <4>1. f[i] = IF i = 0 THEN <<>> ELSE AppendMerged(f[i - 1], AnthropicParam(c[i], blank))
          BY <2>1, <3>2 DEF MadeOf
        <4>2. i # 0 => i - 1 \in 0..n
          BY <3>2
        <4> HIDE DEF g
        <4> QED
          BY <2>2, <3>2, <4>1, <4>2
      <3> QED
        BY <3>1, <3>2
    <2>4. g = [i \in 0..(n + 1) |-> IF i = 0 THEN <<>> ELSE AppendMerged(g[i - 1], AnthropicParam(c[i], blank))]
      <3> DEFINE h == [i \in 0..(n + 1) |-> IF i = 0 THEN <<>> ELSE AppendMerged(g[i - 1], AnthropicParam(c[i], blank))]
      <3>1. g = [i \in 0..(n + 1) |-> g[i]]
        OBVIOUS
      <3> HIDE DEF g
      <3> QED
        BY <2>3, <3>1
    <2> HIDE DEF g
    <2>5. MadeOf(g, c, blank, n + 1)
      BY <2>4 DEF MadeOf
    <2>6. \E h : MadeOf(h, c, blank, n + 1)
      BY <2>5
    <2>7. n + 1 \in Nat
      OBVIOUS
    <2> QED
      BY <2>6, <2>7
  <1> HIDE DEF fine
  <1>3. \A n \in Nat : n \in fine
    BY <1>1, <1>2, ByNumbers
  <1> QED
    BY <1>3 DEF fine

LEMMA AnthropicIsMade ==
  ASSUME NEW c, NEW blank, Len(c) \in Nat
  PROVE  \E f : MadeOf(f, c, blank, Len(c)) /\ AnthropicRequest(c, blank) = f[Len(c)]
  <1> DEFINE n == Len(c)
             f == CHOOSE f : f = [i \in 0..n |-> IF i = 0 THEN <<>>
                                    ELSE AppendMerged(f[i - 1], AnthropicParam(c[i], blank))]
  <1>1. \E g : g = [i \in 0..n |-> IF i = 0 THEN <<>>
                                    ELSE AppendMerged(g[i - 1], AnthropicParam(c[i], blank))]
    <2> HIDE DEF n
    <2>1. n \in Nat
      BY DEF n
    <2>2. PICK g : MadeOf(g, c, blank, n)
      BY <2>1, MadeExists
    <2>3. g = [i \in 0..n |-> IF i = 0 THEN <<>>
                                ELSE AppendMerged(g[i - 1], AnthropicParam(c[i], blank))]
      BY <2>2 DEF MadeOf
    <2> HIDE DEF f
    <2> QED
      BY <2>3, Zenon
  <1>2. f = [i \in 0..n |-> IF i = 0 THEN <<>>
                              ELSE AppendMerged(f[i - 1], AnthropicParam(c[i], blank))]
    BY <1>1
  <1>3. AnthropicRequest(c, blank) = f[n]
    BY DEF AnthropicRequest
  <1> QED
    BY <1>2, <1>3 DEF MadeOf
-----------------------------------------------------------------------------
ParamSet == [role : {"user", "assistant"}, content : Seq(Block)]

OnlyResults(content) == \A i \in DOMAIN content : content[i].kind = "result"

(* One message of a request to Anthropic, by itself.                       *)
Clean(p) ==
  /\ p \in ParamSet /\ p.content # <<>> /\ ResultsFirst(p.content)
  /\ p.role = "user" => Uses(p) = {}
  /\ p.role = "assistant" => Results(p) = {}

(* A request in the making: all is answered but for the end.               *)
Sound(q) ==
  /\ q \in Seq(ParamSet) /\ q # <<>>
  /\ q[1].role = "user" /\ Results(q[1]) = {}
  /\ \A i \in 1..(Len(q) - 1) : q[i].role # q[i + 1].role
  /\ \A i \in 1..(Len(q) - 2) : Uses(q[i]) = Results(q[i + 1])
  /\ \A i \in DOMAIN q : Clean(q[i])

Answered(q) == Len(q) > 1 => Uses(q[Len(q) - 1]) = Results(q[Len(q)])

(* Nothing is left to answer; the last message asks for n tools; k of them *)
(* are answered.                                                           *)
Settled(q) == Answered(q) /\ Uses(q[Len(q)]) = {}

Asking(q, t, r, n) ==
  Answered(q) /\ q[Len(q)].role = "assistant" /\ Uses(q[Len(q)]) = Calls(t, r, n)

Answering(q, t, r, n, k) ==
  /\ Len(q) > 1 /\ q[Len(q)].role = "user"
  /\ Uses(q[Len(q) - 1]) = Calls(t, r, n)
  /\ Results(q[Len(q)]) = Calls(t, r, k)
  /\ OnlyResults(q[Len(q)].content)

LEMMA NoResultFound ==
  ASSUME NEW content \in Seq(Block), Found(content, "result") = {}
  PROVE  \A i \in DOMAIN content : content[i].kind # "result"
  BY FoundIsSome

(* What was said and what is said next, as one message.                    *)
Grown(p, new, grown) ==
  grown.role = p.role /\ grown.content = p.content \o new.content

LEMMA GrownIsClean ==
  ASSUME NEW p, Clean(p), NEW new, Clean(new), new.role = p.role,
         NEW grown \in ParamSet, Grown(p, new, grown),
         Results(new) = {} \/ OnlyResults(p.content)
  PROVE  /\ Clean(grown)
         /\ Uses(grown) = Uses(p) \cup Uses(new)
         /\ Results(grown) = Results(p) \cup Results(new)
         /\ OnlyResults(p.content) /\ OnlyResults(new.content) => OnlyResults(grown.content)
  <1> DEFINE a == p.content
             b == new.content
             all == grown.content
             m == Len(a)
             n == Len(b)
  <1>1. /\ a \in Seq(Block) /\ b \in Seq(Block) /\ a # <<>> /\ all = a \o b
        /\ ResultsFirst(a) /\ ResultsFirst(b)
    BY DEF Clean, ParamSet, Grown
  <1>2. \A kind : Found(all, kind) = Found(a, kind) \cup Found(b, kind)
    <2> HIDE DEF a, b, all
    <2> QED
      BY <1>1, FoundInBoth
  <1>3. /\ Uses(p) = Found(a, "use") /\ Results(p) = Found(a, "result")
        /\ Uses(new) = Found(b, "use") /\ Results(new) = Found(b, "result")
        /\ Uses(grown) = Found(all, "use") /\ Results(grown) = Found(all, "result")
    BY DEF Uses, Results, BlocksOf, Found
  <1>4. /\ Uses(grown) = Uses(p) \cup Uses(new)
        /\ Results(grown) = Results(p) \cup Results(new)
    BY <1>2, <1>3
  <1>5. /\ all \in Seq(Block) /\ m \in Nat /\ n \in Nat /\ DOMAIN all = 1..(m + n)
        /\ DOMAIN a = 1..m /\ DOMAIN b = 1..n
        /\ \A i \in 1..m : all[i] = a[i]
        /\ \A i \in 1..n : all[m + i] = b[i]
    <2> HIDE DEF a, b, all
    <2> QED
      BY <1>1, JoinPlaces
  <1> HIDE DEF m, n
  <1>6. \A i \in 1..(m + n) : i \in 1..m \/ (i - m \in 1..n /\ i = m + (i - m))
    BY <1>5
  <1>7. OnlyResults(a) /\ OnlyResults(b) => OnlyResults(all)
    <2> HIDE DEF a, b, all
    <2> SUFFICES ASSUME OnlyResults(a), OnlyResults(b), NEW i \in 1..(m + n) PROVE all[i].kind = "result"
      BY <1>5 DEF OnlyResults
    <2>1. CASE i \in 1..m
      BY <1>5, <2>1 DEF OnlyResults
    <2>2. CASE i - m \in 1..n /\ i = m + (i - m)
      <3>1. all[i] = b[i - m]
        BY <1>5, <2>2
      <3> QED
        BY <1>5, <2>2, <3>1 DEF OnlyResults
    <2> QED
      BY <1>6, <2>1, <2>2
  <1>8. ResultsFirst(all)
    <2>1. (\A i \in DOMAIN b : b[i].kind # "result") \/ OnlyResults(a)
      <3>1. CASE Results(new) = {}
        <4>1. Found(b, "result") = {} /\ b \in Seq(Block)
          BY <1>1, <1>3, <3>1
        <4> QED
          BY <4>1, NoResultFound
      <3> QED
        BY <3>1
    <2> HIDE DEF a, b, all
    <2> SUFFICES ASSUME NEW i \in 1..(m + n), NEW j \in 1..(m + n),
                        all[i].kind = "result", all[j].kind # "result"
                 PROVE  i < j
      BY <1>5 DEF ResultsFirst
    <2>2. CASE i \in 1..m /\ j \in 1..m
      BY <1>1, <1>5, <2>2 DEF ResultsFirst
    <2>3. CASE i \in 1..m /\ j \notin 1..m
      BY <1>5, <2>3
    <2>4. CASE i \notin 1..m
      <3>1. i - m \in 1..n /\ i = m + (i - m)
        BY <1>6, <2>4
      <3>2. all[i] = b[i - m]
        BY <1>5, <3>1
      <3>3. OnlyResults(a)
        BY <1>5, <2>1, <3>1, <3>2
      <3>4. j \notin 1..m
        BY <1>5, <3>3 DEF OnlyResults
      <3>5. j - m \in 1..n /\ j = m + (j - m)
        BY <1>6, <3>4
      <3>6. all[j] = b[j - m]
        BY <1>5, <3>5
      <3>7. i - m < j - m
        BY <1>1, <1>5, <3>1, <3>2, <3>5, <3>6 DEF ResultsFirst
      <3> QED
        BY <1>5, <3>1, <3>5, <3>7
    <2> QED
      BY <2>2, <2>3, <2>4
  <1>9. all # <<>>
    <2>1. m >= 1
      BY <1>1, <1>5 DEF m
    <2>2. 1 \in DOMAIN all
      BY <1>5, <2>1
    <2> HIDE DEF all
    <2> QED
      BY <2>2
  <1>10. Clean(grown)
    <2>1. /\ p.role = "user" => Uses(p) = {} /\ Uses(new) = {}
          /\ p.role = "assistant" => Results(p) = {} /\ Results(new) = {}
          /\ grown.role = p.role
      BY DEF Clean, Grown
    <2> QED
      BY <1>4, <1>8, <1>9, <2>1 DEF Clean
  <1> QED
    BY <1>4, <1>7, <1>10 DEF Grown
-----------------------------------------------------------------------------
(* A message of the other role comes behind a request.                     *)
Behind(q, p, longer) ==
  /\ longer \in Seq(ParamSet) /\ Len(longer) = Len(q) + 1
  /\ \A i \in 1..Len(q) : longer[i] = q[i]
  /\ longer[Len(q) + 1] = p

(* The last message of a request grows.                                    *)
Swollen(q, p, larger) ==
  /\ larger \in Seq(ParamSet) /\ Len(larger) = Len(q)
  /\ \A i \in 1..(Len(q) - 1) : larger[i] = q[i]
  /\ Grown(q[Len(q)], p, larger[Len(q)])

LEMMA AppendMergedIs ==
  ASSUME NEW q \in Seq(ParamSet), NEW p \in ParamSet, p.content # <<>>
  PROVE  /\ q = <<>> \/ q[Len(q)].role # p.role => Behind(q, p, AppendMerged(q, p))
         /\ q # <<>> /\ q[Len(q)].role = p.role => Swollen(q, p, AppendMerged(q, p))
  <1> DEFINE new == AppendMerged(q, p)
             n == Len(q)
  <1>1. n \in Nat /\ DOMAIN q = 1..n /\ \A i \in 1..n : q[i] \in ParamSet
    OBVIOUS
  <1>2. CASE q = <<>> \/ q[n].role # p.role
    <2>1. new = Append(q, p)
      BY <1>2 DEF AppendMerged, Last
    <2> QED
      BY <1>2, <2>1 DEF Behind
  <1>3. CASE q # <<>> /\ q[n].role = p.role
    <2> DEFINE last == [q[n] EXCEPT !.content = @ \o p.content]
    <2>1. new = [q EXCEPT ![n] = last]
      BY <1>3 DEF AppendMerged, Last
    <2>2. n \in 1..n /\ q[n] \in ParamSet
      BY <1>1, <1>3
    <2>3. last \in ParamSet /\ Grown(q[n], p, last)
      <3> DEFINE before == q[n]
                 all == before.content \o p.content
      <3>1. before \in ParamSet /\ before.content \in Seq(Block) /\ p.content \in Seq(Block)
        BY <2>2 DEF ParamSet
      <3>2. all \in Seq(Block)
        BY <3>1
      <3>3. last = [before EXCEPT !.content = all]
        OBVIOUS
      <3> HIDE DEF before, all, last
      <3>4. last \in ParamSet /\ last.role = before.role /\ last.content = all
        BY <3>1, <3>2, <3>3 DEF ParamSet
      <3> QED
        BY <3>4 DEF Grown, before, all
    <2> HIDE DEF last
    <2>4. new \in Seq(ParamSet) /\ Len(new) = n /\ new[n] = last /\ \A i \in 1..(n - 1) : new[i] = q[i]
      BY <1>1, <2>1, <2>2, <2>3
    <2> QED
      BY <1>3, <2>3, <2>4 DEF Swollen
  <1> QED
    BY <1>2, <1>3

LEMMA SoundBehind ==
  ASSUME NEW q, Sound(q), Answered(q), NEW p, Clean(p), p.role # q[Len(q)].role,
         NEW longer, Behind(q, p, longer)
  PROVE  /\ Sound(longer)
         /\ Len(longer) > 1 /\ longer[Len(longer)] = p
         /\ longer[Len(longer) - 1] = q[Len(q)]
  <1> DEFINE n == Len(q)
  <1>1. /\ q \in Seq(ParamSet) /\ n \in Nat /\ n >= 1 /\ DOMAIN q = 1..n
        /\ q[1].role = "user" /\ Results(q[1]) = {}
        /\ \A i \in 1..(n - 1) : q[i].role # q[i + 1].role
        /\ \A i \in 1..(n - 2) : Uses(q[i]) = Results(q[i + 1])
        /\ \A i \in 1..n : Clean(q[i])
    BY DEF Sound
  <1>2. n > 1 => Uses(q[n - 1]) = Results(q[n])
    BY DEF Answered
  <1> HIDE DEF n
  <1>3. /\ longer \in Seq(ParamSet) /\ Len(longer) = n + 1 /\ DOMAIN longer = 1..(n + 1)
        /\ \A i \in 1..n : longer[i] = q[i]
        /\ longer[n + 1] = p
    BY <1>1 DEF Behind, n
  <1>4. /\ Len(longer) > 1 /\ longer[Len(longer)] = p
        /\ longer[Len(longer) - 1] = q[n] /\ longer[1] = q[1] /\ longer # <<>>
    BY <1>1, <1>3
  <1>5. ASSUME NEW i \in 1..n PROVE longer[i].role # longer[i + 1].role
    <2>1. CASE i = n
      BY <1>1, <1>3, <2>1 DEF n
    <2>2. CASE i # n
      <3>1. i \in 1..(n - 1) /\ i + 1 \in 1..n
        BY <1>1, <2>2
      <3> QED
        BY <1>1, <1>3, <3>1
    <2> QED
      BY <2>1, <2>2
  <1>6. ASSUME NEW i \in 1..(n - 1) PROVE Uses(longer[i]) = Results(longer[i + 1])
    <2>0. i \in 1..n /\ i + 1 \in 1..n
      BY <1>1
    <2>1. longer[i] = q[i] /\ longer[i + 1] = q[i + 1]
      BY <1>3, <2>0
    <2>2. CASE i = n - 1
      <3>1. i + 1 = n /\ n > 1
        BY <1>1, <2>0, <2>2
      <3> QED
        BY <1>2, <2>1, <2>2, <3>1
    <2>3. CASE i # n - 1
      <3>1. i \in 1..(n - 2)
        BY <1>1, <2>3
      <3> QED
        BY <1>1, <2>1, <3>1
    <2> QED
      BY <2>2, <2>3
  <1>7. ASSUME NEW i \in 1..(n + 1) PROVE Clean(longer[i])
    <2>1. i \in 1..n \/ i = n + 1
      BY <1>1
    <2> QED
      BY <1>1, <1>3, <2>1
  <1>8. Len(longer) - 1 = n /\ Len(longer) - 2 = n - 1
    BY <1>1, <1>3
  <1>9. Sound(longer)
    BY <1>1, <1>3, <1>4, <1>5, <1>6, <1>7, <1>8 DEF Sound
  <1> QED
    BY <1>4, <1>9 DEF n

LEMMA SoundSwollen ==
  ASSUME NEW q, Sound(q), NEW p, NEW larger, Swollen(q, p, larger),
         Clean(larger[Len(q)]), Len(q) = 1 => Results(larger[1]) = {}
  PROVE  /\ Sound(larger) /\ Len(larger) = Len(q)
         /\ Len(q) > 1 => larger[Len(q) - 1] = q[Len(q) - 1]
         /\ larger[Len(q)].role = q[Len(q)].role
  <1> DEFINE n == Len(q)
  <1>1. /\ q \in Seq(ParamSet) /\ n \in Nat /\ n >= 1 /\ DOMAIN q = 1..n
        /\ q[1].role = "user" /\ Results(q[1]) = {}
        /\ \A i \in 1..(n - 1) : q[i].role # q[i + 1].role
        /\ \A i \in 1..(n - 2) : Uses(q[i]) = Results(q[i + 1])
        /\ \A i \in 1..n : Clean(q[i])
    BY DEF Sound
  <1>2. Clean(larger[n]) /\ (n = 1 => Results(larger[1]) = {})
    OBVIOUS
  <1> HIDE DEF n
  <1>3. /\ larger \in Seq(ParamSet) /\ Len(larger) = n /\ DOMAIN larger = 1..n
        /\ \A i \in 1..(n - 1) : larger[i] = q[i]
        /\ larger[n].role = q[n].role
    BY <1>1 DEF Swollen, Grown, n
  <1>4. \A i \in 1..n : larger[i].role = q[i].role
    <2>1. \A i \in 1..n : i = n \/ i \in 1..(n - 1)
      BY <1>1
    <2> QED
      BY <1>3, <2>1
  <1>5. /\ larger # <<>> /\ larger[1].role = "user" /\ Results(larger[1]) = {}
    <2>1. 1 \in 1..n /\ (n = 1 \/ 1 \in 1..(n - 1))
      BY <1>1
    <2> QED
      BY <1>1, <1>2, <1>3, <1>4, <2>1
  <1>6. ASSUME NEW i \in 1..(n - 1) PROVE larger[i].role # larger[i + 1].role
    <2>1. i \in 1..n /\ i + 1 \in 1..n
      BY <1>1
    <2> QED
      BY <1>1, <1>4, <2>1
  <1>7. ASSUME NEW i \in 1..(n - 2) PROVE Uses(larger[i]) = Results(larger[i + 1])
    <2>1. i \in 1..(n - 1) /\ i + 1 \in 1..(n - 1)
      BY <1>1
    <2> QED
      BY <1>1, <1>3, <2>1
  <1>8. ASSUME NEW i \in 1..n PROVE Clean(larger[i])
    <2>1. i = n \/ i \in 1..(n - 1)
      BY <1>1
    <2> QED
      BY <1>1, <1>2, <1>3, <2>1
  <1>9. Sound(larger)
    BY <1>3, <1>5, <1>6, <1>7, <1>8 DEF Sound
  <1>10. n > 1 => n - 1 \in 1..(n - 1)
    BY <1>1
  <1> QED
    BY <1>3, <1>9, <1>10 DEF n

LEMMA SoundParts ==
  ASSUME NEW q, Sound(q)
  PROVE  /\ q \in Seq(ParamSet) /\ q # <<>> /\ Len(q) \in Nat /\ Len(q) >= 1
         /\ q[Len(q)] \in ParamSet /\ Clean(q[Len(q)])
         /\ q[1].role = "user" /\ Results(q[1]) = {}
  <1>1. q \in Seq(ParamSet) /\ q # <<>> /\ \A i \in DOMAIN q : Clean(q[i])
    BY DEF Sound
  <1>2. Len(q) \in Nat /\ Len(q) >= 1 /\ Len(q) \in DOMAIN q
    BY <1>1
  <1> QED
    BY <1>1, <1>2 DEF Sound

(* Where nothing is left to answer, something is said that answers nothing.*)
LEMMA SaidNext ==
  ASSUME NEW q, Sound(q), Settled(q), NEW p, Clean(p), Results(p) = {},
         NEW new, new = AppendMerged(q, p)
  PROVE  /\ Sound(new) /\ Answered(new)
         /\ new[Len(new)].role = p.role /\ Uses(new[Len(new)]) = Uses(p)
  <1> DEFINE n == Len(q)
             last == q[n]
  <1>1. /\ q \in Seq(ParamSet) /\ q # <<>> /\ n \in Nat /\ n >= 1
        /\ last \in ParamSet /\ Clean(last) /\ q[1].role = "user" /\ Results(q[1]) = {}
    BY SoundParts
  <1>2. p \in ParamSet /\ p.content # <<>>
    BY DEF Clean
  <1>3. Answered(q) /\ Uses(last) = {}
    BY DEF Settled
  <1> HIDE DEF n, last
  <1>4. CASE last.role # p.role
    <2>1. Behind(q, p, new)
      BY <1>1, <1>2, <1>4, AppendMergedIs DEF last, n
    <2>2. /\ Sound(new) /\ Len(new) > 1 /\ new[Len(new)] = p /\ new[Len(new) - 1] = last
      BY <1>3, <1>4, <2>1, SoundBehind DEF last, n
    <2>3. Answered(new)
      BY <1>3, <2>2 DEF Answered
    <2> QED
      BY <2>2, <2>3
  <1>5. CASE last.role = p.role
    <2>1. Swollen(q, p, new)
      BY <1>1, <1>2, <1>5, AppendMergedIs DEF last, n
    <2> DEFINE grown == new[n]
    <2>2. grown \in ParamSet /\ Grown(last, p, grown)
      <3>1. n \in DOMAIN new /\ new \in Seq(ParamSet)
        BY <1>1, <2>1 DEF Swollen, n
      <3> QED
        BY <2>1, <3>1 DEF Swollen, last, n
    <2> HIDE DEF grown
    <2>3. /\ Clean(grown) /\ Uses(grown) = Uses(last) \cup Uses(p)
          /\ Results(grown) = Results(last) \cup Results(p)
      BY <1>1, <1>5, <2>2, GrownIsClean
    <2>4. Results(grown) = Results(last) /\ Uses(grown) = Uses(p)
      BY <1>3, <2>3
    <2>5. n = 1 => Results(new[1]) = {}
      BY <1>1, <2>4 DEF grown, last
    <2>6. /\ Sound(new) /\ Len(new) = n
          /\ n > 1 => new[n - 1] = q[n - 1]
          /\ grown.role = last.role
      <3>1. Clean(new[Len(q)]) /\ (Len(q) = 1 => Results(new[1]) = {})
        BY <2>3, <2>5 DEF grown, n
      <3> QED
        BY <2>1, <3>1, SoundSwollen DEF n, grown, last
    <2>7. Answered(new)
      BY <1>3, <2>4, <2>6 DEF Answered, n, last, grown
    <2>8. new[Len(new)] = grown
      BY <2>6 DEF grown
    <2> QED
      BY <1>5, <2>4, <2>6, <2>7, <2>8
  <1> QED
    BY <1>4, <1>5

LEMMA AnthropicContent ==
  ASSUME NEW m \in Message, NEW blank, NEW p, p = AnthropicParam(m, blank)
  PROVE  /\ m.role = "user" => Clean(p) /\ p.role = "user" /\ Results(p) = {}
         /\ m.role = "assistant" =>
              /\ p \in ParamSet /\ p.role = "assistant"
              /\ Uses(p) = Calls(m.turn, m.round, m.n) /\ Results(p) = {}
              /\ p.content # <<>> => Clean(p)
              /\ m.n > 0 => p.content # <<>>
         /\ m.role = "tool" =>
              /\ Clean(p) /\ p.role = "user" /\ OnlyResults(p.content)
              /\ Results(p) = {Token(m.turn, m.round, m.n)}
  <1>1. CASE m.role = "user"
    <2> DEFINE text == <<Text(m)>>
    <2>1. p = Param("user", text)
      BY <1>1 DEF AnthropicParam, TextOf, HasText
    <2>2. text \in Seq(Block) /\ text # <<>> /\ Found(text, "use") = {} /\ Found(text, "result") = {}
          /\ \A i \in DOMAIN text : text[i].kind = "text"
      BY TextOfMessage
    <2> HIDE DEF text
    <2>3. /\ p.role = "user" /\ p.content = text /\ p \in ParamSet
          /\ Uses(p) = Found(text, "use") /\ Results(p) = Found(text, "result")
      BY <2>1, <2>2, ParamBlocks DEF ParamSet, Param
    <2>4. ResultsFirst(text)
      BY <2>2 DEF ResultsFirst
    <2> QED
      BY <1>1, <2>2, <2>3, <2>4 DEF Clean
  <1>2. CASE m.role = "assistant"
    <2> DEFINE text == TextOf(m, blank)
               uses == ToolUses(m)
               all == text \o uses
    <2>1. p = Param("assistant", all)
      BY <1>2 DEF AnthropicParam
    <2>2. /\ text \in Seq(Block) /\ uses \in Seq(Block) /\ (m.n > 0 => uses # <<>>)
      BY TextOfMessage, UsesOfMessage
    <2>3. /\ all \in Seq(Block)
          /\ Found(all, "use") = Calls(m.turn, m.round, m.n) /\ Found(all, "result") = {}
      BY ContentOfMessage
    <2> HIDE DEF text, uses
    <2>4. m.n > 0 => all # <<>>
      BY <2>2
    <2> HIDE DEF all
    <2>5. /\ p.role = "assistant" /\ p.content = all /\ p \in ParamSet
          /\ Uses(p) = Found(all, "use") /\ Results(p) = Found(all, "result")
      BY <2>1, <2>3, ParamBlocks DEF ParamSet, Param
    <2>6. ResultsFirst(all)
      BY <2>3, NoResultFound DEF ResultsFirst
    <2> QED
      BY <1>2, <2>3, <2>4, <2>5, <2>6 DEF Clean
  <1>3. CASE m.role = "tool"
    <2> DEFINE result == <<ToolResult(m)>>
    <2>1. p = Param("user", result)
      BY <1>3 DEF AnthropicParam
    <2>2. /\ result \in Seq(Block) /\ result # <<>> /\ Found(result, "use") = {}
          /\ Found(result, "result") = {Token(m.turn, m.round, m.n)}
          /\ \A i \in DOMAIN result : result[i].kind = "result"
      BY ResultOfMessage
    <2> HIDE DEF result
    <2>3. /\ p.role = "user" /\ p.content = result /\ p \in ParamSet
          /\ Uses(p) = Found(result, "use") /\ Results(p) = Found(result, "result")
      BY <2>1, <2>2, ParamBlocks DEF ParamSet, Param
    <2>4. ResultsFirst(result) /\ OnlyResults(result)
      BY <2>2 DEF ResultsFirst, OnlyResults
    <2> QED
      BY <1>3, <2>2, <2>3, <2>4 DEF Clean
  <1> QED
    BY <1>1, <1>2, <1>3, MessageParts
-----------------------------------------------------------------------------
LEMMA OneCall ==
  /\ \A t, r : Calls(t, r, 1) = {Token(t, r, 1)}
  /\ \A t, r : \A k \in Nat : Calls(t, r, k + 1) = Calls(t, r, k) \cup {Token(t, r, k + 1)}
  <1>1. 1..1 = {1} /\ \A k \in Nat : 1..(k + 1) = (1..k) \cup {k + 1}
    OBVIOUS
  <1>2. ASSUME NEW t, NEW r PROVE Calls(t, r, 1) = {Token(t, r, 1)}
    BY <1>1 DEF Calls
  <1>3. ASSUME NEW t, NEW r, NEW k \in Nat
        PROVE  Calls(t, r, k + 1) = Calls(t, r, k) \cup {Token(t, r, k + 1)}
    BY <1>1 DEF Calls
  <1> QED
    BY <1>2, <1>3

LEMMA FirstResult ==
  ASSUME NEW q, Sound(q), NEW t, NEW r, NEW n, Asking(q, t, r, n),
         NEW p, Clean(p), p.role = "user", OnlyResults(p.content), Results(p) = {Token(t, r, 1)},
         NEW new, new = AppendMerged(q, p)
  PROVE  Sound(new) /\ Answering(new, t, r, n, 1)
  <1>1. /\ q \in Seq(ParamSet) /\ q[Len(q)].role # p.role
        /\ p \in ParamSet /\ p.content # <<>>
    BY SoundParts DEF Clean, Asking
  <1>2. Behind(q, p, new)
    BY <1>1, AppendMergedIs
  <1>3. /\ Sound(new) /\ Len(new) > 1 /\ new[Len(new)] = p /\ new[Len(new) - 1] = q[Len(q)]
    <2>1. Answered(q)
      BY DEF Asking
    <2> QED
      BY <1>1, <1>2, <2>1, SoundBehind
  <1>4. Results(p) = Calls(t, r, 1)
    BY OneCall
  <1> QED
    BY <1>3, <1>4 DEF Asking, Answering

LEMMA NextResult ==
  ASSUME NEW q, Sound(q), NEW t, NEW r, NEW n, NEW k \in Nat, Answering(q, t, r, n, k),
         NEW p, Clean(p), p.role = "user", OnlyResults(p.content), Results(p) = {Token(t, r, k + 1)},
         NEW new, new = AppendMerged(q, p)
  PROVE  Sound(new) /\ Answering(new, t, r, n, k + 1)
  <1> DEFINE len == Len(q)
             last == q[len]
             grown == new[len]
  <1>1. /\ q \in Seq(ParamSet) /\ q # <<>> /\ len \in Nat /\ len > 1 /\ last \in ParamSet /\ Clean(last)
        /\ last.role = "user" /\ p \in ParamSet /\ p.content # <<>>
        /\ OnlyResults(last.content) /\ Results(last) = Calls(t, r, k)
        /\ Uses(q[len - 1]) = Calls(t, r, n)
    BY SoundParts DEF Clean, Answering
  <1>2. Swollen(q, p, new)
    BY <1>1, AppendMergedIs
  <1>3. grown \in ParamSet /\ Grown(last, p, grown)
    <2>1. len \in DOMAIN new /\ new \in Seq(ParamSet)
      BY <1>1, <1>2 DEF Swollen
    <2> QED
      BY <1>2, <2>1 DEF Swollen
  <1> HIDE DEF last, grown
  <1>4. /\ Clean(grown) /\ Results(grown) = Results(last) \cup Results(p)
        /\ OnlyResults(grown.content)
    BY <1>1, <1>3, GrownIsClean
  <1>5. Results(grown) = Calls(t, r, k + 1)
    BY <1>1, <1>4, OneCall
  <1>6. /\ Sound(new) /\ Len(new) = len
        /\ new[len - 1] = q[len - 1] /\ new[len].role = last.role
    <2>1. Clean(new[Len(q)]) /\ (Len(q) = 1 => Results(new[1]) = {})
      <3>1. Clean(new[Len(q)])
        BY <1>4 DEF grown
      <3>2. len # 1
        <4>1. len \in Nat /\ len > 1
          BY SoundParts DEF Answering
        <4> HIDE DEF len
        <4> QED
          BY <4>1
      <3> QED
        BY <3>1, <3>2
    <2> QED
      BY <1>1, <1>2, <2>1, SoundSwollen DEF last
  <1> QED
    BY <1>1, <1>4, <1>5, <1>6 DEF Answering, grown

LEMMA LastResult ==
  ASSUME NEW q, Sound(q), NEW t, NEW r, NEW n, Answering(q, t, r, n, n)
  PROVE  Settled(q) /\ q[Len(q)].role = "user"
  BY SoundParts DEF Clean, Answering, Settled, Answered

(* The request made of the messages of c up to the i-th.                   *)
Reached(q, c, i) ==
  /\ Sound(q)
  /\ c[i].role = "user" => Settled(q) /\ q[Len(q)].role = "user"
  /\ c[i].role = "assistant" /\ c[i].n = 0 => Settled(q)
  /\ c[i].role = "assistant" /\ c[i].n > 0 => Asking(q, c[i].turn, c[i].round, c[i].n)
  /\ c[i].role = "tool" => Answering(q, c[i].turn, c[i].round, c[i - c[i].n].n, c[i].n)

LEMMA FirstReached ==
  ASSUME NEW c \in FineSeqs, c # <<>>, NEW blank, NEW new,
         new = AppendMerged(<<>>, AnthropicParam(c[1], blank))
  PROVE  Reached(new, c, 1)
  <1> DEFINE p == AnthropicParam(c[1], blank)
             none == <<>>
  <1>1. c[1] \in Message /\ c[1].role = "user"
    BY DEF FineSeqs, WellBegun
  <1>2. Clean(p) /\ p.role = "user" /\ Results(p) = {} /\ p \in ParamSet /\ p.content # <<>> /\ Uses(p) = {}
    BY <1>1, AnthropicContent DEF Clean
  <1> HIDE DEF p
  <1>3. none \in Seq(ParamSet) /\ Len(none) = 0
    OBVIOUS
  <1>4. Behind(none, p, new)
    BY <1>2, <1>3, AppendMergedIs DEF p
  <1>5. new \in Seq(ParamSet) /\ Len(new) = 1 /\ DOMAIN new = 1..1 /\ new[1] = p
    BY <1>3, <1>4 DEF Behind
  <1>6. \A i \in 1..1 : i = 1
    OBVIOUS
  <1>7. 1..0 = {} /\ 1..(1 - 1) = {} /\ 1..(1 - 2) = {} /\ ~(1 > 1)
    OBVIOUS
  <1>8. new # <<>> /\ \A i \in DOMAIN new : Clean(new[i])
    BY <1>2, <1>5, <1>6
  <1>9. Sound(new)
    BY <1>2, <1>5, <1>7, <1>8 DEF Sound
  <1>10. Settled(new) /\ new[Len(new)].role = "user"
    BY <1>2, <1>5, <1>7 DEF Settled, Answered
  <1> QED
    BY <1>1, <1>9, <1>10 DEF Reached

LEMMA NextReached ==
  ASSUME NEW c \in FineSeqs, NEW i \in Nat, i >= 1, i + 1 \in DOMAIN c, NEW blank,
         NEW q, Reached(q, c, i), NEW new, new = AppendMerged(q, AnthropicParam(c[i + 1], blank))
  PROVE  Reached(new, c, i + 1)
  <1> DEFINE m == c[i + 1]
             p == AnthropicParam(m, blank)
  <1>1. /\ c \in Seq(Message) /\ Len(c) \in Nat /\ DOMAIN c = 1..Len(c)
        /\ \A j \in DOMAIN c : AnsweredAt(c, j) /\ AskedAt(c, j)
    BY DEF FineSeqs, Orderly
  <1>2. /\ i \in DOMAIN c /\ c[i] \in Message /\ m \in Message
        /\ c[i].n \in Nat /\ m.n \in Nat
        /\ c[i].role \in {"user", "assistant", "tool"} /\ m.role \in {"user", "assistant", "tool"}
    BY <1>1, MessageParts
  <1>3. Sound(q) /\ new = AppendMerged(q, p)
    BY DEF Reached
  <1>4. ASSUME m.role # "tool" PROVE Settled(q)
    <2>1. CASE c[i].role = "user"
      BY <2>1 DEF Reached
    <2>2. CASE c[i].role = "assistant"
      <3>1. c[i].n = 0
        <4> SUFFICES ASSUME c[i].n >= 1 PROVE FALSE
          BY <1>2
        <4>1. AnsweredAt(c, i) /\ 1 \in 1..c[i].n
          BY <1>1, <1>2
        <4>2. m = ToolMessage(c[i].turn, c[i].round, 1)
          BY <2>2, <4>1 DEF AnsweredAt
        <4> QED
          BY <1>4, <4>2 DEF ToolMessage
      <3> QED
        BY <2>2, <3>1 DEF Reached
    <2>3. CASE c[i].role = "tool"
      <3> DEFINE k == c[i].n
                 j == i - k
                 n == c[j].n
      <3>1. /\ k \in 1..(i - 1) /\ c[j].role = "assistant"
            /\ c[j].turn = c[i].turn /\ c[j].round = c[i].round /\ k <= n
        BY <1>1, <1>2, <2>3 DEF AskedAt
      <3>2. j \in DOMAIN c /\ n \in Nat
        <4>1. j \in DOMAIN c
          BY <1>1, <1>2, <3>1
        <4> HIDE DEF j
        <4>2. c[j] \in Message
          BY <1>1, <4>1
        <4> QED
          BY <4>1, <4>2, MessageParts
      <3>3. n = k
        <4> SUFFICES ASSUME k < n PROVE FALSE
          BY <1>2, <3>1, <3>2
        <4>1. k + 1 \in 1..n /\ j + (k + 1) = i + 1
          BY <1>2, <3>1, <3>2
        <4> HIDE DEF k, j, n
        <4>2. c[j + (k + 1)] = ToolMessage(c[j].turn, c[j].round, k + 1)
          BY <1>1, <3>1, <3>2, <4>1 DEF AnsweredAt, n
        <4>3. m = ToolMessage(c[j].turn, c[j].round, k + 1)
          BY <4>1, <4>2
        <4> QED
          BY <1>4, <4>3 DEF ToolMessage
      <3>4. Answering(q, c[i].turn, c[i].round, n, k)
        BY <2>3 DEF Reached
      <3> HIDE DEF k, j, n
      <3> QED
        BY <1>3, <3>3, <3>4, LastResult
    <2> QED
      BY <1>2, <2>1, <2>2, <2>3
  <1>5. CASE m.role = "user"
    <2>1. Clean(p) /\ p.role = "user" /\ Results(p) = {} /\ Uses(p) = {}
      BY <1>2, <1>5, AnthropicContent DEF Clean
    <2> HIDE DEF p, m
    <2>2. /\ Sound(new) /\ Answered(new)
          /\ new[Len(new)].role = p.role /\ Uses(new[Len(new)]) = Uses(p)
      BY <1>3, <1>4, <1>5, <2>1, SaidNext
    <2>3. Sound(new) /\ Settled(new) /\ new[Len(new)].role = "user"
      BY <2>1, <2>2 DEF Settled
    <2> QED
      BY <1>5, <2>3 DEF Reached, m
  <1>6. CASE m.role = "assistant"
    <2>1. /\ p \in ParamSet /\ p.role = "assistant"
          /\ Uses(p) = Calls(m.turn, m.round, m.n) /\ Results(p) = {}
          /\ p.content # <<>> => Clean(p)
          /\ m.n > 0 => p.content # <<>>
      BY <1>2, <1>6, AnthropicContent
    <2> HIDE DEF p, m
    <2>2. CASE p.content = <<>>
      <3>1. new = q /\ m.n = 0
        <4>1. new = q
          BY <1>3, <2>2 DEF AppendMerged
        <4>2. m.n = 0
          <5>1. m.n \in Nat /\ ~(m.n > 0)
            BY <1>2, <2>1, <2>2 DEF m
          <5> QED
            BY <5>1
        <4> QED
          BY <4>1, <4>2
      <3> QED
        BY <1>3, <1>4, <1>6, <3>1 DEF Reached, m
    <2>3. CASE p.content # <<>>
      <3>1. /\ Sound(new) /\ Answered(new)
            /\ new[Len(new)].role = p.role /\ Uses(new[Len(new)]) = Uses(p)
        BY <1>3, <1>4, <1>6, <2>1, <2>3, SaidNext
      <3>2. m.n = 0 => Settled(new)
        BY <2>1, <3>1, NoCalls DEF Settled
      <3>3. Asking(new, m.turn, m.round, m.n)
        BY <2>1, <3>1 DEF Asking
      <3> QED
        BY <1>6, <3>1, <3>2, <3>3 DEF Reached, m
    <2> QED
      BY <2>2, <2>3
  <1>7. CASE m.role = "tool"
    <2> DEFINE k == m.n
               j == (i + 1) - k
               n == c[j].n
               t == m.turn
               r == m.round
    <2>1. /\ Clean(p) /\ p.role = "user" /\ OnlyResults(p.content)
          /\ Results(p) = {Token(t, r, k)}
      BY <1>2, <1>7, AnthropicContent
    <2>2. /\ k \in 1..((i + 1) - 1) /\ c[j].role = "assistant"
          /\ c[j].turn = t /\ c[j].round = r /\ k <= n
      <3>1. AskedAt(c, i + 1)
        BY <1>1
      <3> QED
        BY <1>7, <3>1 DEF AskedAt
    <2>3. j \in DOMAIN c /\ n \in Nat
      <3>1. j \in DOMAIN c
        BY <1>1, <1>2, <2>2
      <3> HIDE DEF j
      <3>2. c[j] \in Message
        BY <1>1, <3>1
      <3> QED
        BY <3>1, <3>2, MessageParts
    <2>4. Sound(new) /\ Answering(new, t, r, n, k)
      <3>1. CASE k = 1
        <4>1. j = i
          BY <3>1
        <4>2. c[i].role = "assistant" /\ c[i].turn = t /\ c[i].round = r /\ c[i].n = n /\ n > 0
          BY <2>2, <2>3, <3>1, <4>1
        <4>3. Asking(q, t, r, n)
          BY <4>2 DEF Reached
        <4> HIDE DEF p, n, k, t, r, j
        <4> QED
          BY <1>3, <2>1, <3>1, <4>3, FirstResult
      <3>2. CASE k # 1
        <4>1. k - 1 \in Nat /\ k - 1 \in 1..n /\ j + (k - 1) = i /\ (k - 1) + 1 = k /\ i - (k - 1) = j
          BY <1>2, <2>2, <2>3, <3>2
        <4>2. c[i] = ToolMessage(t, r, k - 1)
          <5> HIDE DEF p, n, k, t, r, j
          <5>1. AnsweredAt(c, j)
            BY <1>1, <2>3
          <5>2. c[j + (k - 1)] = ToolMessage(t, r, k - 1)
            BY <2>2, <4>1, <5>1 DEF AnsweredAt, n
          <5> QED
            BY <4>1, <5>2
        <4> HIDE DEF p, n, k, t, r, j
        <4>3. c[i].role = "tool" /\ c[i].turn = t /\ c[i].round = r /\ c[i].n = k - 1
          BY <4>2 DEF ToolMessage
        <4>4. Answering(q, t, r, c[i - (k - 1)].n, k - 1)
          BY <4>3 DEF Reached
        <4>5. Answering(q, t, r, n, k - 1)
          BY <4>1, <4>4 DEF n
        <4>6. Sound(new) /\ Answering(new, t, r, n, (k - 1) + 1)
          BY <1>3, <2>1, <4>1, <4>5, NextResult
        <4> QED
          BY <4>1, <4>6
      <3> QED
        BY <3>1, <3>2
    <2> QED
      BY <1>7, <2>4 DEF Reached
  <1> QED
    BY <1>2, <1>5, <1>6, <1>7

LEMMA AnthropicRequestAccepted ==
  ASSUME NEW c \in FineSeqs, c # <<>>, c[Len(c)].role # "assistant", NEW blank
  PROVE  AnthropicAccepts(AnthropicRequest(c, blank))
  <1> DEFINE n == Len(c)
             request == AnthropicRequest(c, blank)
  <1>1. /\ c \in Seq(Message) /\ n \in Nat /\ n >= 1 /\ DOMAIN c = 1..n
        /\ \A i \in 1..n : AnsweredAt(c, i) /\ AskedAt(c, i)
    BY DEF FineSeqs, Orderly
  <1>2. PICK f : MadeOf(f, c, blank, n) /\ request = f[n]
    BY <1>1, AnthropicIsMade
  <1>3. /\ f[0] = <<>>
        /\ \A i \in Nat : i + 1 \in 1..n => f[i + 1] = AppendMerged(f[i], AnthropicParam(c[i + 1], blank))
    <2>1. 0 \in 0..n /\ \A i \in Nat : i + 1 \in 1..n => i + 1 \in 0..n /\ i + 1 # 0 /\ (i + 1) - 1 = i
      BY <1>1
    <2> HIDE DEF n, request
    <2>2. f[0] = <<>>
      BY <1>2, <2>1 DEF MadeOf
    <2>3. ASSUME NEW i \in Nat, i + 1 \in 1..n
          PROVE  f[i + 1] = AppendMerged(f[i], AnthropicParam(c[i + 1], blank))
      <3>1. f[i + 1] = IF i + 1 = 0 THEN <<>> ELSE AppendMerged(f[(i + 1) - 1], AnthropicParam(c[i + 1], blank))
        BY <1>2, <2>1, <2>3 DEF MadeOf
      <3> QED
        BY <2>1, <2>3, <3>1
    <2> QED
      BY <2>2, <2>3
  <1> HIDE DEF request
  <1> DEFINE fine == {i \in Nat : i \in 1..n => Reached(f[i], c, i)}
  <1>4. 0 \in fine
    OBVIOUS
  <1>5. ASSUME NEW i \in Nat, i \in fine PROVE i + 1 \in fine
    <2> SUFFICES ASSUME i + 1 \in 1..n PROVE Reached(f[i + 1], c, i + 1)
      OBVIOUS
    <2>1. f[i + 1] = AppendMerged(f[i], AnthropicParam(c[i + 1], blank))
      BY <1>3
    <2>2. CASE i = 0
      <3>1. f[i + 1] = AppendMerged(<<>>, AnthropicParam(c[1], blank)) /\ i + 1 = 1
        BY <1>3, <2>1, <2>2
      <3> HIDE DEF n, fine
      <3> QED
        BY <3>1, FirstReached
    <2>3. CASE i # 0
      <3>1. i >= 1 /\ i \in 1..n /\ i + 1 \in DOMAIN c
        BY <1>1, <2>3
      <3>2. Reached(f[i], c, i)
        BY <1>5, <3>1
      <3> HIDE DEF n, fine
      <3> QED
        BY <2>1, <3>1, <3>2, NextReached
    <2> QED
      BY <2>2, <2>3
  <1> HIDE DEF fine
  <1>6. \A i \in Nat : i \in fine
    BY <1>4, <1>5, ByNumbers
  <1>7. Reached(request, c, n)
    BY <1>1, <1>2, <1>6 DEF fine
  <1>8. Sound(request) /\ Settled(request) /\ request[Len(request)].role = "user"
    <2>1. c[n] \in Message /\ c[n].role \in {"user", "tool"}
      BY <1>1, MessageParts
    <2>2. CASE c[n].role = "user"
      BY <1>7, <2>2 DEF Reached
    <2>3. CASE c[n].role = "tool"
      <3> DEFINE k == c[n].n
                 j == n - k
                 all == c[j].n
      <3>1. /\ k \in 1..(n - 1) /\ c[j].role = "assistant" /\ k <= all
        BY <1>1, <2>3 DEF AskedAt
      <3>2. j \in DOMAIN c /\ all \in Nat
        <4>1. j \in DOMAIN c
          BY <1>1, <3>1
        <4> HIDE DEF j
        <4>2. c[j] \in Message
          BY <1>1, <4>1
        <4> QED
          BY <4>1, <4>2, MessageParts
      <3>3. j + all <= n
        BY <1>1, <3>1, <3>2 DEF AnsweredAt
      <3>4. all = k
        BY <1>1, <3>1, <3>2, <3>3
      <3>5. Answering(request, c[n].turn, c[n].round, all, k)
        BY <1>7, <2>3 DEF Reached
      <3> HIDE DEF all, k, n
      <3> QED
        BY <1>7, <3>4, <3>5, LastResult DEF Reached
    <2> QED
      BY <2>1, <2>2, <2>3
  <1> DEFINE last == Len(request)
  <1>9. /\ request \in Seq(ParamSet) /\ request # <<>> /\ last \in Nat /\ last >= 1
        /\ DOMAIN request = 1..last
    BY <1>8, SoundParts
  <1>10. /\ Head(request) = request[1] /\ Last(request) = request[last]
    BY <1>9 DEF Last
  <1>11. ASSUME NEW i \in 1..(last - 1) PROVE Uses(request[i]) = Results(request[i + 1])
    <2>1. CASE i = last - 1
      <3>1. last > 1 /\ i + 1 = last
        BY <1>9, <2>1
      <3>2. Uses(request[last - 1]) = Results(request[last])
        BY <1>8, <3>1 DEF Settled, Answered
      <3> QED
        BY <2>1, <3>1, <3>2
    <2>2. CASE i # last - 1
      <3>1. i \in 1..(last - 2)
        <4>1. last \in Nat
          BY <1>9
        <4> HIDE DEF last
        <4> QED
          BY <2>2, <4>1
      <3> QED
        BY <1>8, <3>1 DEF Sound
    <2> QED
      BY <2>1, <2>2
  <1>12. /\ \A i \in DOMAIN request : request[i].content # <<>> /\ ResultsFirst(request[i].content)
         /\ \A i \in 1..(last - 1) : request[i].role # request[i + 1].role
         /\ request[1].role = "user" /\ Results(request[1]) = {}
    BY <1>8 DEF Sound, Clean
  <1>13. AnthropicAccepts(request)
    BY <1>8, <1>9, <1>10, <1>11, <1>12 DEF AnthropicAccepts
  <1> QED
    BY <1>13 DEF request

(* Every provider accepts what a well-ordered context becomes.             *)
LEMMA FineContextsAccepted ==
  ASSUME NEW c \in FineSeqs, c # <<>>, c[Len(c)].role # "assistant", NEW blank
  PROVE  Accepted(c, blank)
  BY AnthropicRequestAccepted, ChatRequestsAccepted DEF Accepted

------------------------------------------------------------------------------
(***************************************************************************)
(* Logs in which no turn was broken into, when the turns of a conversation *)
(* run one at a time, and what the stored and the read log have in common. *)
(***************************************************************************)

(* A turn without a part has no message.                                   *)
LEMMA NoPart ==
  ASSUME NEW t
  PROVE  \A log \in Seq(Message) : PartOf(log, t) = <<>> => t \notin TurnsOf(log)
  <1> DEFINE fine == {log \in Seq(Message) : PartOf(log, t) = <<>> => t \notin TurnsOf(log)}
             only == {t}
  <1>1. <<>> \in fine
    <2>1. TurnsOf(<<>>) = {} /\ <<>> \in Seq(Message)
      BY DEF TurnsOf
    <2> QED
      BY <2>1
  <1>2. ASSUME NEW log \in Seq(Message), NEW m \in Message, log \in fine PROVE Append(log, m) \in fine
    <2> DEFINE longer == Append(log, m)
    <2>1. longer \in Seq(Message) /\ Lengthened(longer, log, m)
      BY DEF Lengthened
    <2>2. TurnsOf(longer) = TurnsOf(log) \cup {m.turn}
      BY <2>1, TurnsOfAppend
    <2>3. longer = Append(log, m)
      OBVIOUS
    <2> HIDE DEF longer, only
    <2> DEFINE old == MessagesOf(log, only)
               more == Alone(m, only)
    <2>4. MessagesOf(longer, only) = old \o more
      BY <2>3, MessagesOfAppend
    <2>5. old \in Seq(Message) /\ more \in Seq(Message)
      BY MessagesOfType, AloneType
    <2> HIDE DEF old
    <2>6. m.turn = t => more = <<m>>
      BY DEF only, Alone
    <2> HIDE DEF more
    <2>7. SUFFICES ASSUME PartOf(longer, t) = <<>> PROVE t \notin TurnsOf(longer)
      BY <2>1 DEF longer
    <2>8. old \o more = <<>>
      BY <2>4, <2>7 DEF PartOf, only
    <2>9. old = <<>> /\ more = <<>>
      <3>1. Len(old \o more) = Len(old) + Len(more) /\ Len(old) \in Nat /\ Len(more) \in Nat
        BY <2>5
      <3>2. Len(old) = 0 /\ Len(more) = 0
        BY <2>8, <3>1
      <3> QED
        BY <2>5, <3>2
    <2>10. m.turn # t
      BY <2>6, <2>9
    <2>11. t \notin TurnsOf(log)
      BY <1>2, <2>9 DEF PartOf, old, only
    <2> QED
      BY <2>2, <2>10, <2>11
  <1> HIDE DEF fine
  <1>3. \A log \in Seq(Message) : log \in fine
    BY <1>1, <1>2, BySequences
  <1> QED
    BY <1>3 DEF fine

(* Only the turns that are there matter.                                   *)
LEMMA SameTurns ==
  ASSUME NEW log \in Seq(Message), NEW some, NEW others,
         some \cap TurnsOf(log) = others \cap TurnsOf(log)
  PROVE  MessagesOf(log, some) = MessagesOf(log, others)
  <1> DEFINE turns == TurnsOf(log)
             both == turns \cap some
  <1>1. both = turns \cap others
    OBVIOUS
  <1>2. MessagesOf(log, turns) = log
    BY MessagesOfAll
  <1> HIDE DEF turns
  <1>3. MessagesOf(MessagesOf(log, turns), some) = MessagesOf(log, both)
    BY MessagesOfMessages
  <1> HIDE DEF both
  <1>4. MessagesOf(MessagesOf(log, turns), others) = MessagesOf(log, both)
    BY <1>1, MessagesOfMessages
  <1> QED
    BY <1>2, <1>3, <1>4

(* The part of a turn is of no other turn.                                 *)
LEMMA PartOfOne ==
  ASSUME NEW log \in Seq(Message), NEW t, NEW u, u # t
  PROVE  u \notin TurnsOf(PartOf(log, t))
  <1> DEFINE only == {t}
             other == {u}
             none == only \cap other
             part == MessagesOf(log, only)
  <1>1. none = {}
    OBVIOUS
  <1>2. TurnsOf(log) \cap none = {}
    BY <1>1
  <1>3. part \in Seq(Message)
    BY MessagesOfType
  <1> HIDE DEF only, other
  <1>4. MessagesOf(part, other) = MessagesOf(log, none)
    BY MessagesOfMessages
  <1> HIDE DEF none, part
  <1>5. MessagesOf(log, none) = <<>>
    BY <1>2, MessagesOfNone
  <1>6. PartOf(part, u) = <<>>
    BY <1>4, <1>5 DEF PartOf, other
  <1>7. u \notin TurnsOf(part)
    BY <1>3, <1>6, NoPart
  <1> QED
    BY <1>7 DEF PartOf, part, only

(* Where a turn comes last and in one piece, so do its messages among those*)
(* of some turns.                                                          *)
Follows(all, first, last) == all = first \o last

LEMMA LastTurn ==
  ASSUME NEW log \in Seq(Message), NEW t, NEW sent \in Seq(Message),
         Ends(sent, log), PartOf(log, t) = sent, NEW some, t \in some,
         NEW rest, rest = some \ {t}
  PROVE  Follows(MessagesOf(log, some), MessagesOf(log, rest), sent)
  <1> DEFINE only == {t}
  <1>0. PICK before \in Seq(Message) : log = before \o sent
    BY DEF Ends
  <1>1. MessagesOf(log, only) = sent
    BY DEF PartOf
  <1>2. ASSUME NEW u, u # t PROVE u \notin TurnsOf(sent)
    BY <1>2, PartOfOne
  <1>3. \A turns : MessagesOf(log, turns) = MessagesOf(before, turns) \o MessagesOf(sent, turns)
    BY <1>0, MessagesOfJoin
  <1>4. MessagesOf(sent, some) = sent
    <2>1. TurnsOf(sent) \subseteq some
      BY <1>2
    <2> QED
      BY <2>1, MessagesOfAll
  <1>5. MessagesOf(sent, only) = sent
    <2>1. TurnsOf(sent) \subseteq only
      BY <1>2
    <2> QED
      BY <2>1, MessagesOfAll
  <1>6. MessagesOf(sent, rest) = <<>>
    <2>1. TurnsOf(sent) \cap rest = {}
      BY <1>2
    <2> QED
      BY <2>1, MessagesOfNone
  <1> HIDE DEF only
  <1>7. t \notin TurnsOf(before)
    <2> DEFINE own == MessagesOf(before, only)
    <2>1. own \in Seq(Message)
      BY MessagesOfType
    <2>2. sent = own \o sent
      BY <1>1, <1>3, <1>5
    <2> HIDE DEF own
    <2>3. own = <<>>
      <3>1. Len(own \o sent) = Len(own) + Len(sent) /\ Len(own) \in Nat /\ Len(sent) \in Nat
        BY <2>1
      <3>2. Len(own) = 0
        BY <2>2, <3>1
      <3> QED
        BY <2>1, <3>2
    <2> QED
      BY <2>3, NoPart DEF own, PartOf, only
  <1>8. MessagesOf(before, some) = MessagesOf(before, rest)
    <2>1. some \cap TurnsOf(before) = rest \cap TurnsOf(before)
      BY <1>7
    <2> QED
      BY <2>1, SameTurns
  <1>9. MessagesOf(before, rest) \o <<>> = MessagesOf(before, rest)
    <2> DEFINE part == MessagesOf(before, rest)
    <2>1. part \in Seq(Message)
      BY MessagesOfType
    <2> HIDE DEF part
    <2>2. part \o <<>> = part
      BY <2>1
    <2> QED
      BY <2>2 DEF part
  <1>10. MessagesOf(log, rest) = MessagesOf(before, rest)
    BY <1>3, <1>6, <1>9
  <1> QED
    BY <1>3, <1>4, <1>8, <1>10 DEF Follows
-----------------------------------------------------------------------------
(* A row is written with the question of its turn.                         *)
RowsAsk == \A s \in Sessions : \A h \in history[s] : h.question

(* A session is removed under turns that have begun.                       *)
RemovedHaveBegun == \A t \in removed : chat[t].pc # "idle"

(* Without overlap, what a turn has read for a call is still what is stored*)
(* when it makes the call.                                                 *)
ReadIsStored ==
  OneRunPerThread => \A t \in Turns \ removed :
    AboutToCall(t) => chat[t].snapshot = messages[session[t]]

(* Without overlap and removals, the messages of any of the recorded turns *)
(* of a session make a well-ordered context.                               *)
LogIsFine(s) ==
  {u \in removed : session[u] = s} = {} =>
    \A some \in SUBSET {h.turn : h \in history[s]} : MessagesOf(messages[s], some) \in FineSeqs

LogsAreFine == OneRunPerThread => \A s \in Sessions : LogIsFine(s)

(* What a step does to the rest of the state, by what it does to history.  *)
LEMMA RowsAskStep ==
  ASSUME LocalInv, RowsAsk, [Next]_vars
  PROVE  RowsAsk'
  <1>1. CASE UNCHANGED history
    BY <1>1 DEF RowsAsk
  <1>2. ASSUME NEW t \in Turns, UpsertRow(t) PROVE RowsAsk'
    <2>1. PICK answered \in BOOLEAN :
            history' = [history EXCEPT ![session[t]] =
                          {h \in @ : h.turn # t} \cup {TurnRow(t, answered)}]
      BY <1>2 DEF UpsertRow
    <2> DEFINE row == TurnRow(t, answered)
               new == {h \in history[session[t]] : h.turn # t} \cup {row}
    <2>2. row.question
      BY DEF TurnRow, Row
    <2>3. \A s \in Sessions : history'[s] = history[s] \/ (s = session[t] /\ history'[s] = new)
      BY <2>1 DEF LocalInv, TypeOK
    <2> HIDE DEF row
    <2> QED
      BY <2>2, <2>3 DEF RowsAsk
  <1>3. ASSUME NEW c \in Clis, NEW s \in Sessions, RemoveSession(c, s) PROVE RowsAsk'
    <2>1. \A r \in Sessions : history'[r] = history[r] \/ history'[r] = {}
      BY <1>3 DEF RemoveSession, DeleteSession, LocalInv, TypeOK
    <2> QED
      BY <2>1 DEF RowsAsk
  <1>4. CASE UNCHANGED vars
    BY <1>1, <1>4 DEF vars, store
  <1>5. ASSUME NEW t \in Turns, NEW s \in Sessions, Begin(t, s) PROVE RowsAsk'
    BY <1>1, <1>5 DEF Begin, store
  <1>6. ASSUME NEW t \in Turns, Progress(t) \/ Cancel(t) PROVE RowsAsk'
    <2>1. CASE CompleteTurn(t) \/ GiveUpTurn(t)
      BY <1>1, <1>2, <2>1 DEF CompleteTurn, GiveUpTurn
    <2>2. CASE ~(CompleteTurn(t) \/ GiveUpTurn(t))
      BY <1>1, <1>6, <2>2 DEF Progress, CheckSession, MaterializeSession, SkipMessage, InsertMessage,
         MessageFails, ReadMessages, ReadFails, ModelReplies, ModelFails, ExecuteTools, Cancel, store
    <2> QED
      BY <2>1, <2>2
  <1>7. ASSUME NEW p \in Processes, Crash(p) PROVE RowsAsk'
    BY <1>1, <1>7 DEF Crash, store
  <1> QED
    BY <1>3, <1>4, <1>5, <1>6, <1>7 DEF Next

(* A turn that makes a step makes none of another turn.                    *)
LEMMA OneTurnSteps ==
  ASSUME LocalInv, NEW t \in Turns, Progress(t) \/ Cancel(t)
  PROVE  /\ UNCHANGED <<session, removed>> /\ Running(t)
         /\ \A u \in Turns \ {t} : chat'[u] = chat[u]
  <1>1. UNCHANGED <<session, removed>> /\ Running(t)
    BY DEF Progress, CheckSession, MaterializeSession, SkipMessage, InsertMessage,
       MessageFails, ReadMessages, ReadFails, ModelReplies, ModelFails, ExecuteTools,
       CompleteTurn, GiveUpTurn, Cancel, store, Running, Emitting, Ended
  <1>2. \A u \in Turns \ {t} : chat'[u] = chat[u]
    BY DEF Progress, CheckSession, MaterializeSession, SkipMessage, InsertMessage,
       MessageFails, ReadMessages, ReadFails, ModelReplies, ModelFails, ExecuteTools,
       CompleteTurn, GiveUpTurn, Cancel, Return, MessageHandled, LocalInv, TypeOK
  <1> QED
    BY <1>1, <1>2

(* What it may come to: only a read of the log leads to a call.            *)
LEMMA CallFollowsRead ==
  ASSUME LocalInv, NEW t \in Turns, Progress(t) \/ Cancel(t)
  PROVE  /\ chat'[t].pc # "idle"
         /\ chat'[t].pc = "call" =>
              \/ ReadMessages(t) /\ chat'[t].snapshot = messages[session[t]]
              \/ chat[t].pc = "call" /\ chat'[t].snapshot = chat[t].snapshot /\ UNCHANGED store
  <1> DEFINE f == chat[t]
             g == chat'[t]
  <1>1. f \in Frame /\ chat \in [Turns -> Frame]
    BY FrameFacts DEF LocalInv, TypeOK
  <1>2. CASE CheckSession(t) \/ MaterializeSession(t)
    BY <1>1, <1>2 DEF CheckSession, MaterializeSession, Frame, Emitting
  <1>3. CASE Cancel(t)
    BY <1>1, <1>3 DEF Cancel, Frame, Running
  <1>4. CASE SkipMessage(t) \/ InsertMessage(t)
    <2>1. f.pc \in Emitting /\ MessageHandled(t)
      BY <1>4 DEF SkipMessage, InsertMessage
    <2>2. g.pc = AfterMessage(t) \/ g.pc = "failed"
      BY <1>1, <2>1 DEF MessageHandled, Return, AtRest, Frame
    <2>3. AfterMessage(t) \notin {"idle", "call"}
      BY <2>1 DEF AfterMessage, Emitting
    <2> QED
      BY <2>2, <2>3
  <1>5. CASE MessageFails(t) \/ ModelFails(t)
    BY <1>1, <1>5 DEF MessageFails, ModelFails, Return, AtRest
  <1>6. CASE ReadMessages(t)
    BY <1>1, <1>6 DEF ReadMessages, Frame
  <1>7. CASE ReadFails(t)
    BY <1>1, <1>7 DEF ReadFails, Frame
  <1>8. ASSUME NEW calls \in Batches, ModelReplies(t, calls) PROVE g.pc = "assistant"
    BY <1>1, <1>8 DEF ModelReplies, Frame
  <1>9. CASE ExecuteTools(t)
    BY <1>1, <1>9 DEF ExecuteTools, Return, AtRest, Frame
  <1>10. CASE CompleteTurn(t) \/ GiveUpTurn(t)
    BY <1>1, <1>10 DEF CompleteTurn, GiveUpTurn, Return, AtRest
  <1> QED
    BY <1>2, <1>3, <1>4, <1>5, <1>6, <1>7, <1>8, <1>9, <1>10 DEF Progress

LEMMA RemovedHaveBegunStep ==
  ASSUME LocalInv, RemovedHaveBegun, [Next]_vars
  PROVE  RemovedHaveBegun'
  <1> SUFFICES ASSUME NEW u \in removed' PROVE chat'[u].pc # "idle"
    BY DEF RemovedHaveBegun
  <1>1. CASE UNCHANGED vars
    BY <1>1 DEF RemovedHaveBegun, vars
  <1>2. ASSUME NEW t \in Turns, NEW s \in Sessions, Begin(t, s) PROVE chat'[u].pc # "idle"
    BY <1>2 DEF Begin, Return, AtRest, RemovedHaveBegun, LocalInv, TypeOK, Frame
  <1>3. ASSUME NEW t \in Turns, Progress(t) \/ Cancel(t) PROVE chat'[u].pc # "idle"
    <2>1. u \in removed /\ u \in Turns
      BY <1>3, OneTurnSteps DEF LocalInv, TypeOK
    <2>2. u # t => chat'[u] = chat[u]
      BY <1>3, <2>1, OneTurnSteps
    <2>3. u = t => chat'[u].pc # "idle"
      BY <1>3, CallFollowsRead
    <2> QED
      BY <2>1, <2>2, <2>3 DEF RemovedHaveBegun
  <1>4. ASSUME NEW p \in Processes, Crash(p) PROVE chat'[u].pc # "idle"
    BY <1>4 DEF Crash, AtRest, RemovedHaveBegun, LocalInv, TypeOK
  <1>5. ASSUME NEW c \in Clis, NEW s \in Sessions, RemoveSession(c, s) PROVE chat'[u].pc # "idle"
    BY <1>5 DEF RemoveSession, TurnsOn, Running, RemovedHaveBegun
  <1> QED
    BY <1>1, <1>2, <1>3, <1>4, <1>5 DEF Next

LEMMA ReadIsStoredStep ==
  ASSUME LocalInv, OneAtATime, ReadIsStored, [Next]_vars
  PROVE  ReadIsStored'
  <1> SUFFICES ASSUME OneRunPerThread, NEW u \in Turns, u \notin removed', chat'[u].pc = "call"
               PROVE  chat'[u].snapshot = messages'[session'[u]]
    BY DEF ReadIsStored, AboutToCall
  <1>1. CASE u \notin removed /\ chat'[u] = chat[u] /\ session'[u] = session[u]
             /\ messages'[session[u]] = messages[session[u]]
    BY <1>1 DEF ReadIsStored, AboutToCall
  <1>2. CASE UNCHANGED vars
    BY <1>1, <1>2 DEF vars, store
  <1>3. ASSUME NEW t \in Turns, NEW s \in Sessions, Begin(t, s)
        PROVE  chat'[u].snapshot = messages'[session'[u]]
    <2>1. chat'[t].pc \in {"user", "failed"} /\ UNCHANGED <<messages, removed>>
          /\ \A v \in Turns \ {t} : chat'[v] = chat[v] /\ session'[v] = session[v]
      BY <1>3 DEF Begin, Return, AtRest, LocalInv, TypeOK, Frame, store
    <2> QED
      BY <1>1, <2>1
  <1>4. ASSUME NEW t \in Turns, Progress(t) \/ Cancel(t)
        PROVE  chat'[u].snapshot = messages'[session'[u]]
    <2>1. /\ UNCHANGED <<session, removed>> /\ Running(t)
          /\ \A v \in Turns \ {t} : chat'[v] = chat[v]
      BY <1>4, OneTurnSteps
    <2>2. CASE u = t
      <3>1. CASE ReadMessages(t) /\ chat'[t].snapshot = messages[session[t]]
        BY <2>1, <2>2, <3>1 DEF ReadMessages, store
      <3>2. CASE chat[t].pc = "call" /\ chat'[t].snapshot = chat[t].snapshot /\ UNCHANGED store
        BY <2>1, <2>2, <3>2 DEF ReadIsStored, AboutToCall, store
      <3> QED
        BY <1>4, <2>2, <3>1, <3>2, CallFollowsRead
    <2>3. CASE u # t
      <3>1. chat'[u] = chat[u] /\ Running(u)
        BY <2>1, <2>3 DEF Running, Ended
      <3>2. session[u] # session[t]
        BY <2>1, <2>3, <3>1 DEF OneAtATime
      <3>3. messages'[session[u]] = messages[session[u]]
        <4>1. session[u] \in Sessions
          BY <3>1 DEF LocalInv, Running
        <4>2. CASE InsertMessage(t)
          BY <3>2, <4>1, <4>2 DEF InsertMessage, LocalInv, TypeOK
        <4>3. CASE ~InsertMessage(t)
          BY <1>4, <4>3 DEF Progress, CheckSession, MaterializeSession, SkipMessage,
             MessageFails, ReadMessages, ReadFails, ModelReplies, ModelFails, ExecuteTools,
             CompleteTurn, GiveUpTurn, Cancel, store
        <4> QED
          BY <4>2, <4>3
      <3> QED
        BY <1>1, <2>1, <3>1, <3>3
    <2> QED
      BY <2>2, <2>3
  <1>5. ASSUME NEW p \in Processes, Crash(p) PROVE chat'[u].snapshot = messages'[session'[u]]
    <2>1. chat'[u] = chat[u] /\ UNCHANGED <<messages, session, removed>>
      BY <1>5 DEF Crash, AtRest, LocalInv, TypeOK, store
    <2> QED
      BY <1>1, <2>1
  <1>6. ASSUME NEW c \in Clis, NEW s \in Sessions, RemoveSession(c, s)
        PROVE  chat'[u].snapshot = messages'[session'[u]]
    <2>1. /\ UNCHANGED <<session, chat>> /\ removed' = removed \cup TurnsOn(s)
          /\ session[u] # s => messages'[session[u]] = messages[session[u]]
      BY <1>6 DEF RemoveSession, DeleteSession, LocalInv, TypeOK
    <2>2. session[u] = s => u \in TurnsOn(s)
      BY <2>1 DEF TurnsOn, Running, Ended
    <2> QED
      BY <1>1, <2>1, <2>2
  <1> QED
    BY <1>2, <1>3, <1>4, <1>5, <1>6 DEF Next

(* A log whose session keeps its rows, and its messages of the turns that  *)
(* have one.                                                               *)
LEMMA LogUntouched ==
  ASSUME NEW s, LogIsFine(s),
         {u \in removed' : session'[u] = s} = {} => {u \in removed : session[u] = s} = {},
         {h.turn : h \in history'[s]} \subseteq {h.turn : h \in history[s]},
         messages'[s] = messages[s]
  PROVE  LogIsFine(s)'
  <1> DEFINE turns == {h.turn : h \in history[s]}
             now == {h.turn : h \in history'[s]}
             intact == {u \in removed : session[u] = s} = {}
             still == {u \in removed' : session'[u] = s} = {}
  <1>1. /\ intact => \A some \in SUBSET turns : MessagesOf(messages[s], some) \in FineSeqs
        /\ still => intact
        /\ now \subseteq turns
    BY DEF LogIsFine
  <1> HIDE DEF turns, now, intact, still
  <1>2. still => \A some \in SUBSET now : MessagesOf(messages'[s], some) \in FineSeqs
    BY <1>1
  <1> QED
    BY <1>2 DEF LogIsFine, now, still

------------------------------------------------------------------------------
(***************************************************************************)
(* Every step keeps such logs.                                             *)
(***************************************************************************)

(* The messages of a running turn come to a log without those of the turns *)
(* that have a row.                                                        *)
LEMMA InsertKeepsLogs ==
  ASSUME IInv, NEW t \in Turns, InsertMessage(t), NEW s \in Sessions, LogIsFine(s)
  PROVE  LogIsFine(s)'
  <1> DEFINE m == CurrentMessage(t)
             log == messages[s]
             new == messages'[s]
             turns == {h.turn : h \in history[s]}
  <1>1. /\ LocalInv /\ chat[t].pc \in Emitting /\ session[t] \in Sessions
        /\ UNCHANGED <<sessions, history, session, removed>>
        /\ messages' = [messages EXCEPT ![session[t]] = Append(@, m)]
    BY DEF IInv, LocalInv, InsertMessage, Emitting
  <1>2. m \in Message /\ m.turn = t /\ log \in Seq(Message)
    BY <1>1, CurrentIsMessage, LogParts
  <1>3. CASE s # session[t]
    BY <1>1, <1>3, LogUntouched DEF LocalInv, TypeOK
  <1>4. CASE s = session[t]
    <2>1. new = Append(log, m)
      BY <1>1, <1>4 DEF LocalInv, TypeOK
    <2>2. t \notin turns
      <3>1. chat[t].pc \notin Ended
        BY <1>1 DEF Emitting, Ended
      <3> QED
        BY <3>1 DEF IInv, RowsPlaced
    <2>3. ASSUME NEW some \in SUBSET turns PROVE MessagesOf(new, some) = MessagesOf(log, some)
      <3> DEFINE part == MessagesOf(log, some)
      <3>1. part \in Seq(Message)
        BY <1>2, MessagesOfType
      <3>2. Alone(m, some) = <<>>
        BY <1>2, <2>2 DEF Alone
      <3> HIDE DEF m, log, new
      <3>3. MessagesOf(new, some) = part \o Alone(m, some)
        BY <1>2, <2>1, MessagesOfAppend
      <3> HIDE DEF part
      <3>4. part \o <<>> = part
        BY <3>1
      <3> QED
        BY <3>2, <3>3, <3>4 DEF part
    <2>4. {u \in removed' : session'[u] = s} = {u \in removed : session[u] = s} /\ history'[s] = history[s]
      BY <1>1
    <2> DEFINE intact == {u \in removed : session[u] = s} = {}
    <2>5. intact => \A some \in SUBSET turns : MessagesOf(log, some) \in FineSeqs
      BY DEF LogIsFine
    <2> HIDE DEF log, new, turns
    <2>6. intact => \A some \in SUBSET turns : MessagesOf(new, some) \in FineSeqs
      BY <2>3, <2>5
    <2> QED
      BY <2>4, <2>6 DEF LogIsFine, new, turns
  <1> QED
    BY <1>3, <1>4

(* A turn is recorded when its messages, a legal exchange, come last.      *)
LEMMA RecordKeepsLogs ==
  ASSUME IInv, OneRunPerThread, NEW t \in Turns, ExactInv(t), CompleteTurn(t) \/ GiveUpTurn(t),
         UpsertRow(t), NEW s \in Sessions, LogIsFine(s)
  PROVE  LogIsFine(s)'
  <1> DEFINE log == messages[s]
             turns == {h.turn : h \in history[s]}
             now == {h.turn : h \in history'[s]}
             sent == SentBy(t, chat[t])
             intact == {u \in removed : session[u] = s} = {}
  <1>1. /\ LocalInv /\ chat[t].pc \in {"finish", "giveup"}
        /\ UNCHANGED <<messages, session, removed>>
    BY DEF IInv, CompleteTurn, GiveUpTurn
  <1>2. PICK answered \in BOOLEAN :
          history' = [history EXCEPT ![session[t]] =
                        {h \in @ : h.turn # t} \cup {TurnRow(t, answered)}]
    BY DEF UpsertRow
  <1>4. CASE s # session[t]
    <2>1. history'[s] = history[s]
      BY <1>1, <1>2, <1>4 DEF LocalInv, TypeOK
    <2> QED
      BY <1>1, <2>1, LogUntouched
  <1>5. CASE s = session[t]
    <2>1. now \ {t} \subseteq turns
      <3> DEFINE row == TurnRow(t, answered)
      <3>1. history'[s] = {h \in history[s] : h.turn # t} \cup {row}
        BY <1>1, <1>2, <1>5 DEF LocalInv, TypeOK
      <3>2. row.turn = t
        BY DEF TurnRow, Row
      <3> HIDE DEF row
      <3> QED
        BY <3>1, <3>2
    <2>2. log \in Seq(Message)
      BY <1>1, LogParts
    <2>3. intact => \A some \in SUBSET turns : MessagesOf(log, some) \in FineSeqs
      BY DEF LogIsFine
    <2>4. intact => Fits(t, sent, log)
      <3>1. intact => t \notin removed
        BY <1>5
      <3>2. Running(t)
        BY <1>1 DEF Running, Ended
      <3> HIDE DEF sent, intact
      <3> QED
        BY <1>5, <3>1, <3>2 DEF ExactInv, sent
    <2>5. sent \in FineSeqs
      <3>1. sent = FirstRounds(t, chat[t].asked, Rounds(chat[t]))
        BY <1>1 DEF SentBy
      <3>2. Rounds(chat[t]) \in Nat /\ \A r \in 1..Rounds(chat[t]) : chat[t].asked[r] \in Nat
        BY <1>1, FrameFacts
      <3> HIDE DEF sent
      <3> QED
        BY <3>1, <3>2, FirstRoundsFine
    <2> HIDE DEF log, turns, now, sent, intact
    <2>6. ASSUME intact, NEW some \in SUBSET now PROVE MessagesOf(log, some) \in FineSeqs
      <3> DEFINE rest == some \ {t}
      <3>1. rest \in SUBSET turns
        BY <2>1
      <3>2. MessagesOf(log, rest) \in FineSeqs
        BY <2>3, <2>6, <3>1
      <3>3. CASE t \notin some
        <4>1. rest = some
          BY <3>3
        <4> QED
          BY <3>2, <4>1
      <3>4. CASE t \in some
        <4>1. PartOf(log, t) = sent /\ Ends(sent, log)
          BY <2>4, <2>6 DEF Fits, Ends
        <4>2. sent \in OrderlySeqs /\ WellBegun(sent) /\ sent \in Seq(Message)
          BY <2>5, FineParts DEF OrderlySeqs
        <4>3. rest = some \ {t}
          OBVIOUS
        <4> DEFINE first == MessagesOf(log, rest)
        <4> HIDE DEF rest
        <4>4. Follows(MessagesOf(log, some), first, sent)
          BY <2>2, <3>4, <4>1, <4>2, <4>3, LastTurn
        <4>5. first \in FineSeqs
          BY <3>2
        <4> HIDE DEF first
        <4>6. first \o sent \in FineSeqs
          BY <4>2, <4>5, FineJoin
        <4> QED
          BY <4>4, <4>6 DEF Follows
      <3> QED
        BY <3>3, <3>4
    <2>7. {u \in removed' : session'[u] = s} = {u \in removed : session[u] = s} /\ messages'[s] = messages[s]
      BY <1>1
    <2> QED
      BY <2>6, <2>7 DEF LogIsFine, log, now, intact
  <1> QED
    BY <1>4, <1>5

LEMMA LogsAreFineStep ==
  ASSUME IInv, RemovedHaveBegun, \A u \in Turns : ExactInv(u), LogsAreFine, [Next]_vars
  PROVE  LogsAreFine'
  <1> SUFFICES ASSUME OneRunPerThread, NEW s \in Sessions PROVE LogIsFine(s)'
    BY DEF LogsAreFine
  <1>1. LogIsFine(s) /\ LocalInv
    BY DEF LogsAreFine, IInv
  <1>2. CASE UNCHANGED <<messages, history, session, removed>>
    BY <1>1, <1>2, LogUntouched
  <1>3. CASE UNCHANGED vars
    BY <1>2, <1>3 DEF vars, store
  <1>4. ASSUME NEW t \in Turns, NEW r \in Sessions, Begin(t, r) PROVE LogIsFine(s)'
    <2>1. /\ UNCHANGED <<messages, history, removed>> /\ chat[t].pc = "idle"
          /\ \A u \in Turns \ {t} : session'[u] = session[u]
      BY <1>1, <1>4 DEF Begin, store, LocalInv, TypeOK
    <2>2. \A u \in removed : u \in Turns /\ session'[u] = session[u]
      BY <1>1, <2>1 DEF RemovedHaveBegun, LocalInv, TypeOK
    <2>3. {u \in removed' : session'[u] = s} = {u \in removed : session[u] = s}
      BY <2>1, <2>2
    <2> QED
      BY <1>1, <2>1, <2>3, LogUntouched
  <1>5. ASSUME NEW t \in Turns, Progress(t) \/ Cancel(t) PROVE LogIsFine(s)'
    <2>1. UNCHANGED <<session, removed>>
      BY <1>1, <1>5, OneTurnSteps
    <2>2. CASE InsertMessage(t)
      BY <1>1, <2>2, InsertKeepsLogs
    <2>3. CASE (CompleteTurn(t) \/ GiveUpTurn(t)) /\ UpsertRow(t)
      BY <1>1, <2>3, RecordKeepsLogs
    <2>4. CASE ~InsertMessage(t) /\ ~((CompleteTurn(t) \/ GiveUpTurn(t)) /\ UpsertRow(t))
      <3>1. UNCHANGED <<messages, history>>
        BY <1>5, <2>4 DEF Progress, CheckSession, MaterializeSession, SkipMessage,
           MessageFails, ReadMessages, ReadFails, ModelReplies, ModelFails, ExecuteTools,
           CompleteTurn, GiveUpTurn, Cancel, store
      <3> QED
        BY <1>2, <2>1, <3>1
    <2> QED
      BY <2>2, <2>3, <2>4
  <1>6. ASSUME NEW p \in Processes, Crash(p) PROVE LogIsFine(s)'
    BY <1>2, <1>6 DEF Crash, store
  <1>7. ASSUME NEW c \in Clis, NEW r \in Sessions, RemoveSession(c, r) PROVE LogIsFine(s)'
    <2>1. /\ UNCHANGED session /\ removed \subseteq removed'
          /\ s = r => messages'[s] = <<>> /\ history'[s] = {}
          /\ s # r => messages'[s] = messages[s] /\ history'[s] = history[s]
      BY <1>1, <1>7 DEF RemoveSession, DeleteSession, LocalInv, TypeOK
    <2>2. CASE s # r
      <3>1. {u \in removed' : session'[u] = s} = {} => {u \in removed : session[u] = s} = {}
        BY <2>1
      <3> QED
        BY <1>1, <2>1, <2>2, <3>1, LogUntouched
    <2>3. CASE s = r
      <3> DEFINE now == {h.turn : h \in history'[s]}
      <3>1. \A some \in SUBSET now : MessagesOf(messages'[s], some) \in FineSeqs
        BY <2>1, <2>3, MessagesOfEmpty, EmptyIsFine
      <3> QED
        BY <3>1 DEF LogIsFine
    <2> QED
      BY <2>2, <2>3
  <1> QED
    BY <1>3, <1>4, <1>5, <1>6, <1>7 DEF Next

------------------------------------------------------------------------------
(***************************************************************************)
(* The contexts built of such logs, and what is requested with them.       *)
(***************************************************************************)

(* The last word is not the assistant's.                                   *)
HeardLast(c) == c # <<>> /\ c[Len(c)].role # "assistant"

LEMMA HeardAtEnd ==
  ASSUME NEW a \in Seq(Message), NEW b \in Seq(Message), HeardLast(b),
         NEW all, Follows(all, a, b)
  PROVE  HeardLast(all)
  <1> DEFINE m == Len(a)
             n == Len(b)
  <1>1. /\ Len(all) = m + n /\ m \in Nat /\ n \in Nat
        /\ \A i \in 1..n : all[m + i] = b[i]
    <2>1. all = a \o b
      BY DEF Follows
    <2> QED
      BY <2>1, JoinPlaces
  <1>2. n >= 1 /\ b[n].role # "assistant"
    BY DEF HeardLast
  <1> HIDE DEF m, n
  <1>3. all[m + n] = b[n] /\ m + n >= 1
    BY <1>1, <1>2
  <1> QED
    BY <1>1, <1>2, <1>3 DEF HeardLast

LEMMA RoundIsHeard ==
  ASSUME NEW t \in Turns, NEW r \in Nat, NEW calls \in Nat, calls >= 1
  PROVE  HeardLast(RoundOf(t, r, calls))
  <1> DEFINE ask == <<AssistantMessage(t, r, calls)>>
             results == ResultsOf(t, r, calls)
  <1>1. ask \in Seq(Message)
    BY MessagesAreMessages
  <1>2. results \in Seq(Message)
    BY ResultsType
  <1>3. HeardLast(results)
    <2>1. Len(results) = calls /\ calls \in 1..calls
      BY DEF ResultsOf
    <2>2. results[calls] = ToolMessage(t, r, calls)
      BY <2>1 DEF ResultsOf
    <2> HIDE DEF results
    <2> QED
      BY <2>1, <2>2 DEF HeardLast, ToolMessage
  <1>4. Follows(RoundOf(t, r, calls), ask, results)
    BY DEF RoundOf, Follows
  <1> HIDE DEF ask, results
  <1> QED
    BY <1>1, <1>2, <1>3, <1>4, HeardAtEnd

(* Before a call the user, or a tool, has spoken last.                     *)
LEMMA RoundsAreHeard ==
  ASSUME NEW t \in Turns, NEW asked, NEW n \in Nat, \A r \in 1..n : asked[r] \in Nat,
         n >= 1 => asked[n] >= 1
  PROVE  HeardLast(FirstRounds(t, asked, n))
  <1>1. CASE n = 0
    <2> DEFINE m == UserMessage(t)
               c == <<m>>
    <2>1. FirstRounds(t, asked, n) = c
      BY <1>1, NoRoundYet
    <2>2. m.role = "user"
      BY DEF UserMessage
    <2> HIDE DEF m
    <2>3. HeardLast(c)
      BY <2>2 DEF HeardLast
    <2> QED
      BY <2>1, <2>3
  <1>2. CASE n # 0
    <2> DEFINE k == n - 1
    <2>1. k \in Nat /\ n = k + 1 /\ n \in 1..n /\ asked[n] \in Nat /\ asked[n] >= 1
          /\ \A r \in 1..k : asked[r] \in Nat
      BY <1>2
    <2> HIDE DEF k
    <2> DEFINE first == FirstRounds(t, asked, k)
               last == RoundOf(t, n, asked[n])
    <2>2. Follows(FirstRounds(t, asked, n), first, last)
      BY <2>1, OneMoreRound DEF Follows
    <2>3. first \in Seq(Message)
      BY <2>1, FirstRoundsType
    <2>4. last \in Seq(Message)
      BY <2>1, RoundType
    <2>5. HeardLast(last)
      BY <2>1, RoundIsHeard
    <2> HIDE DEF first, last
    <2> QED
      BY <2>2, <2>3, <2>4, <2>5, HeardAtEnd
  <1> QED
    BY <1>1, <1>2

(* The default mode: the recorded turns that were cut in detail, the others*)
(* as summaries, the turn at work at the end.                              *)
LEMMA LeanContextIsFine ==
  ASSUME NEW log \in Seq(Message), NEW rows \in Seq(HistoryRow), NEW t \in Turns,
         \A i \in DOMAIN rows : rows[i].question,
         NEW sent \in FineSeqs, HeardLast(sent), Ends(sent, log), PartOf(log, t) = sent,
         \A i \in DOMAIN rows : rows[i].turn # t,
         \A some \in SUBSET TurnsOf(rows) : MessagesOf(log, some) \in FineSeqs,
         NEW context \in MergedContexts(log, rows, t, 0)
  PROVE  context \in FineSeqs /\ HeardLast(context)
  <1> DEFINE detailed == SelectDetailedTurnIDs(log, rows, t, 0)
             available == AvailableDetailed(log, detailed)
             told == HistoryTurnsAsMessages(rows, detailed, t)
             shown == DetailedMessages(log, detailed)
             cut == {rows[i].turn : i \in {k \in DOMAIN rows : rows[k].status = "incomplete"}}
  <1>1. PICK fallback \in FallbackSummaries(rows, detailed, available, t) :
               Joins(context, told, fallback, shown)
    BY DEF MergedContexts, Joins
  <1>2. detailed = {t} \cup cut
    BY DEF SelectDetailedTurnIDs
  <1>3. cut \subseteq TurnsOf(rows) /\ t \notin cut
    BY DEF TurnsOf
  <1> HIDE DEF detailed, cut
  <1>4. told \in FineSeqs
    BY SummariesAreFine DEF HistoryTurnsAsMessages
  <1>5. fallback \in FineSeqs
    <2> DEFINE turns == Lacking(detailed, available, t)
    <2>1. PICK order \in Seq(DOMAIN rows) : fallback = Summaries(Picked(rows, order), turns)
      <3> HIDE DEF available
      <3> QED
        BY <1>1, FallbackOrder
    <2> HIDE DEF turns
    <2> DEFINE picked == Picked(rows, order)
    <2>2. picked \in Seq(HistoryRow)
      BY PickedRows
    <2>3. \A i \in DOMAIN picked : picked[i].question
      BY DEF Picked
    <2> HIDE DEF picked
    <2>4. Summaries(picked, turns) \in FineSeqs
      BY <2>2, <2>3, SummariesAreFine
    <2> QED
      BY <2>1, <2>4 DEF picked
  <1>6. sent \in Seq(Message) /\ sent \in OrderlySeqs /\ WellBegun(sent)
    BY FineParts DEF OrderlySeqs
  <1> DEFINE some == detailed \cup {NoTurn}
             rest == some \ {t}
             older == MessagesOf(log, rest)
  <1>7. Follows(MessagesOf(log, some), older, sent)
    <2>1. t \in some /\ rest = some \ {t}
      BY <1>2
    <2> HIDE DEF some, rest
    <2> QED
      BY <1>6, <2>1, LastTurn
  <1>8. older \in FineSeqs
    <2>1. NoTurn \notin TurnsOf(log)
      <3>1. \A i \in DOMAIN log : log[i] \in Message
        OBVIOUS
      <3> QED
        BY <3>1, MessageParts, ConstantsAssumption DEF TurnsOf
    <2>2. rest \cap TurnsOf(log) = cut \cap TurnsOf(log)
      BY <1>2, <1>3, <2>1
    <2> HIDE DEF rest
    <2>3. MessagesOf(log, rest) = MessagesOf(log, cut)
      BY <2>2, SameTurns
    <2> QED
      BY <1>3, <2>3
  <1>9. shown = MessagesOf(log, some)
    BY DEF DetailedMessages
  <1> HIDE DEF told, shown, some, rest, older, available
  <1>10. /\ told \in Seq(Message) /\ fallback \in Seq(Message) /\ older \in Seq(Message)
         /\ told \in OrderlySeqs /\ fallback \in OrderlySeqs /\ older \in OrderlySeqs
         /\ WellBegun(told) /\ WellBegun(fallback) /\ WellBegun(older)
    BY <1>4, <1>5, <1>8, FineParts DEF OrderlySeqs
  <1>11. shown \in FineSeqs /\ HeardLast(shown)
    <2>1. Follows(shown, older, sent)
      BY <1>7, <1>9
    <2>2. shown \in FineSeqs
      BY <1>6, <1>8, <2>1, FineJoin DEF Follows
    <2>3. HeardLast(shown)
      BY <1>6, <1>10, <2>1, HeardAtEnd
    <2> QED
      BY <2>2, <2>3
  <1>12. shown \in OrderlySeqs /\ WellBegun(shown) /\ shown \in Seq(Message)
    BY <1>11, FineParts DEF OrderlySeqs
  <1> DEFINE first == told \o fallback
  <1>13. first \in FineSeqs
    BY <1>4, <1>10, FineJoin
  <1>14. Follows(context, first, shown)
    BY <1>1 DEF Joins, Follows
  <1> HIDE DEF first
  <1>15. first \in Seq(Message)
    BY <1>13, FineParts DEF OrderlySeqs
  <1>16. context \in FineSeqs
    BY <1>12, <1>13, <1>14, FineJoin DEF Follows
  <1>17. HeardLast(context)
    BY <1>11, <1>12, <1>14, <1>15, HeardAtEnd
  <1> QED
    BY <1>16, <1>17
-----------------------------------------------------------------------------
(* In the default mode, where no two turns of a session overlap and none   *)
(* was removed under a turn, every provider accepts every request, for any *)
(* number of turns, rounds and calls, after any cancelled, failed, crashed *)
(* and exhausted turns, whichever answers are empty.                       *)
THEOREM ProvidersAcceptLeanRequests ==
  ASSUME OneRunPerThread
  PROVE  Spec => []LeanRequestsAccepted
  <1> DEFINE Exact == \A u \in Turns : ExactInv(u)
             Inv == RowsAsk /\ RemovedHaveBegun /\ ReadIsStored /\ LogsAreFine
  <1>1. ASSUME IInv, RowsOnce, Exact, Inv PROVE LeanRequestsAccepted
    <2>1. SUFFICES ASSUME NEW t \in Turns, AboutToCall(t), Undisturbed(t),
                          NEW rows \in SetToSeqs(history[session[t]]),
                          NEW context \in BuildContextMessages(chat[t].snapshot, rows, t, 0, TRUE),
                          NEW blank
                   PROVE  Accepted(context, blank)
      BY DEF LeanRequestsAccepted
    <2> DEFINE s == session[t]
               log == messages[s]
               table == history[s]
               sent == SentBy(t, chat[t])
               f == chat[t]
    <2>2. LocalInv /\ s \in Sessions /\ t \notin removed /\ Running(t)
      BY <1>1, <2>1 DEF IInv, LocalInv, AboutToCall, Undisturbed, Running, Ended
    <2>3. log \in Seq(Message) /\ f.snapshot = log
      BY <1>1, <2>1, <2>2, LogParts DEF ReadIsStored
    <2>4. /\ rows \in Seq(table)
          /\ \A x \in table : \E i \in DOMAIN rows : rows[i] = x
      <3>1. IsFiniteSet(table)
        BY <1>1, <2>2 DEF RowsOnce
      <3> QED
        BY <2>1, <3>1, LinedUp
    <2>5. /\ table \subseteq HistoryRow
          /\ \A h \in table : h.question /\ h.turn # t
      <3>1. table \subseteq HistoryRow
        BY <2>2 DEF LocalInv, TypeOK
      <3>2. \A h \in table : h.question
        BY <1>1, <2>2 DEF RowsAsk
      <3>3. \A h \in table : h.turn # t
        BY <1>1, <2>2 DEF IInv, RowsPlaced, Running
      <3> QED
        BY <3>1, <3>2, <3>3
    <2>6. /\ rows \in Seq(HistoryRow)
          /\ \A i \in DOMAIN rows : rows[i] \in table
      BY <2>4, <2>5
    <2>7. \A some \in SUBSET {h.turn : h \in table} : MessagesOf(log, some) \in FineSeqs
      BY <1>1, <2>1, <2>2 DEF LogsAreFine, LogIsFine, Undisturbed
    <2>8. PartOf(log, t) = sent /\ Ends(sent, log)
      <3>1. Fits(t, sent, log)
        BY <1>1, <2>2 DEF ExactInv
      <3> HIDE DEF sent, log
      <3> QED
        BY <3>1 DEF Fits, Ends
    <2>9. sent \in FineSeqs /\ HeardLast(sent)
      <3> DEFINE n == Rounds(f)
      <3>1. sent = FirstRounds(t, f.asked, n)
        BY <2>1 DEF AboutToCall, SentBy
      <3>2. n \in Nat /\ (\A r \in 1..n : f.asked[r] \in Nat) /\ FrameOK(f)
        BY <2>2, FrameFacts
      <3>3. n >= 1 => f.asked[n] >= 1
        BY <2>1, <3>2 DEF FrameOK, AboutToCall
      <3> HIDE DEF sent, f, n
      <3> QED
        BY <3>1, <3>2, <3>3, FirstRoundsFine, RoundsAreHeard
    <2>10. context \in MergedContexts(log, rows, t, 0)
      BY <2>1, <2>3 DEF BuildContextMessages
    <2> HIDE DEF log, table, sent, f, s
    <2>11. TurnsOf(rows) \subseteq {h.turn : h \in table}
      BY <2>6 DEF TurnsOf
    <2>12. \A i \in DOMAIN rows : rows[i].question /\ rows[i].turn # t
      BY <2>5, <2>6
    <2>13. \A some \in SUBSET TurnsOf(rows) : MessagesOf(log, some) \in FineSeqs
      BY <2>7, <2>11
    <2>14. context \in FineSeqs /\ HeardLast(context)
      BY <2>3, <2>6, <2>8, <2>9, <2>10, <2>12, <2>13, LeanContextIsFine
    <2> QED
      BY <2>14, FineContextsAccepted DEF HeardLast
  <1>2. Init => OneAtATime /\ Inv
    <2>1. Init => RowsAsk /\ RemovedHaveBegun /\ ReadIsStored /\ OneAtATime
      BY DEF Init, RowsAsk, RemovedHaveBegun, ReadIsStored, AboutToCall, AtRest, OneAtATime, Running
    <2>2. ASSUME Init PROVE LogsAreFine
      <3>1. ASSUME NEW s \in Sessions PROVE LogIsFine(s)
        <4>1. messages[s] = <<>>
          BY <2>2 DEF Init
        <4> QED
          BY <4>1, MessagesOfEmpty, EmptyIsFine DEF LogIsFine
      <3> QED
        BY <3>1 DEF LogsAreFine
    <2> QED
      BY <2>1, <2>2
  <1>3. IInv /\ OneAtATime /\ [Next]_vars => OneAtATime'
    BY OneAtATimeStep DEF IInv
  <1>4. IInv /\ OneAtATime /\ Exact /\ Inv /\ [Next]_vars => Inv'
    BY RowsAskStep, RemovedHaveBegunStep, ReadIsStoredStep, LogsAreFineStep DEF IInv
  <1>5. Spec => [](IInv /\ RowsOnce /\ Exact)
    BY ContextInvariant
  <1> HIDE DEF Exact, Inv
  <1> QED
    BY <1>1, <1>2, <1>3, <1>4, <1>5, PTL DEF Spec
=============================================================================
