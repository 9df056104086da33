--------------------------- MODULE McpSessionsProofs ---------------------------
(***************************************************************************)
(* Proofs about McpSessions, for every set of servers and of calls and any *)
(* number of sessions. None of the properties is inductive: that a session *)
(* is not closed twice or forgotten depends on who owns it. IInv says so:  *)
(* a session belongs to one server, as the one its row of the map names,   *)
(* as the one a reconnection is bringing or as the one it displaced; and a *)
(* reconnection is in progress only while a call waits for it, so that a   *)
(* terminal that reads a line has none.                                    *)
(***************************************************************************)
EXTENDS McpSessions, FiniteSetTheorems, TLAPS

(* Numbers are given to sessions as they are opened.                       *)
IdsKnown ==
  /\ open \subseteq 1..opened
  /\ \A s \in Servers : /\ sessions[s] \in 0..opened
                        /\ flight[s].session \in 0..opened
                        /\ flight[s].displaced \in 0..opened

Bringing(s) == flight[s].step \in {"list", "store"}

FlightOK(s) ==
  /\ flight[s].step \in {"none", "dial"} => flight[s].session = NoSession
  /\ flight[s].step # "close" => flight[s].displaced = NoSession
  /\ Bringing(s) => flight[s].session \in open
  /\ flight[s].step = "close" =>
       flight[s].session = sessions[s] \/ flight[s].session \notin open
  /\ flight[s].step # "none" => Waiting(s) # {}

OneOwner(s, u) ==
  /\ s # u /\ sessions[s] # NoSession => sessions[s] # sessions[u]
  /\ Bringing(s) => flight[s].session # sessions[u]
  /\ s # u /\ Bringing(s) /\ Bringing(u) => flight[s].session # flight[u].session
  /\ flight[s].displaced # NoSession =>
       /\ flight[s].displaced # sessions[u]
       /\ Bringing(u) => flight[s].displaced # flight[u].session

(* Nothing happens before ConnectAll.                                      *)
StartInv ==
  stage = "starting" =>
    /\ opened = 0
    /\ forgotten = {}
    /\ \A c \in Calls : call[c].pc = "idle"

(* No call of a removed server is under way, and none begins.              *)
ForgottenInv ==
  \A s \in forgotten :
    /\ row[s] = "removed"
    /\ \A c \in Calls : Active(c) => call[c].server # s

Unlisted == \A s \in Servers : status[s] = "none" => sessions[s] = NoSession

Ownership ==
  /\ IdsKnown
  /\ \A s \in Servers : FlightOK(s)
  /\ \A s, u \in Servers : OneOwner(s, u)
  /\ StoredSessionsAreOpen
  /\ NoSessionLeaked

Bookkeeping ==
  /\ StartInv
  /\ ForgottenInv
  /\ Unlisted
  /\ RemovedServersAreForgotten
  /\ StatusIsTrue

IInv == TypeOK /\ Ownership /\ Bookkeeping
-----------------------------------------------------------------------------
LEMMA Initially == Init => IInv
  <1> SUFFICES ASSUME Init
               PROVE  IInv
    OBVIOUS
  <1> USE SessionsAssumption
  <1>1. TypeOK
    <2>1. (CHOOSE s \in Servers : TRUE) \in Servers
      OBVIOUS
    <2>2. call \in [Calls -> Call]
      <3>1. [pc |-> "idle", server |-> CHOOSE s \in Servers : TRUE,
             session |-> NoSession, failedOn |-> NoSession,
             leads |-> FALSE, cancelled |-> FALSE] \in Call
        BY <2>1 DEF Call, Places
      <3> QED
        BY <3>1 DEF Init
    <2>3. flight \in [Servers -> Flight]
      <3>1. NoFlight \in Flight
        BY DEF Flight, NoFlight
      <3> QED
        BY <3>1 DEF Init
    <2>4. opened \in 0..MaxSessions /\ open \in SUBSET SessionIds /\ dead \in SUBSET SessionIds
      <3>1. opened = 0 /\ open = {} /\ dead = {}
        BY DEF Init
      <3> QED
        BY <3>1
    <2>5. /\ row \in [Servers -> {"to come", "present", "removed"}]
          /\ sessions \in [Servers -> SessionIds \cup {NoSession}]
          /\ status \in [Servers -> Statuses]
      BY DEF Init, Statuses
    <2>6. offered \in SUBSET Servers /\ stage = "starting" /\ forgotten \in SUBSET Servers
      BY DEF Init
    <2> QED
      BY <2>2, <2>3, <2>4, <2>5, <2>6 DEF TypeOK
  <1>2. Ownership
    <2>1. \A s \in Servers : flight[s] = NoFlight /\ sessions[s] = NoSession
      BY DEF Init
    <2>2. IdsKnown /\ StoredSessionsAreOpen /\ NoSessionLeaked
      <3>1. opened = 0 /\ open = {}
        BY DEF Init
      <3> QED
        BY <2>1, <3>1 DEF IdsKnown, StoredSessionsAreOpen, NoSessionLeaked, NoFlight, NoSession
    <2>3. \A s, u \in Servers : FlightOK(s) /\ OneOwner(s, u)
      BY <2>1 DEF FlightOK, OneOwner, Bringing, NoFlight
    <2> QED
      BY <2>2, <2>3 DEF Ownership
  <1>3. Bookkeeping
    BY DEF Init, Bookkeeping, StartInv, ForgottenInv, Unlisted,
           RemovedServersAreForgotten, StatusIsTrue
  <1> QED
    BY <1>1, <1>2, <1>3 DEF IInv

(* A step of a call that changes nothing else, and does not let down a     *)
(* reconnection the call waits for.                                        *)
LEMMA CallMoves ==
  ASSUME IInv, stage # "starting",
         UNCHANGED <<row, manager, wire, flight, stage, forgotten>>,
         call' \in [Calls -> Call],
         \A s \in Servers : Waiting(s) # {} => Waiting(s)' # {},
         \A c \in Calls : Active(c)' => call'[c].server \notin forgotten
  PROVE  IInv'
  <1>1. TypeOK'
    BY DEF IInv, TypeOK, manager, wire
  <1>2. Ownership'
    <2>1. IdsKnown' /\ StoredSessionsAreOpen' /\ NoSessionLeaked'
      BY DEF IInv, Ownership, IdsKnown, StoredSessionsAreOpen, NoSessionLeaked, manager, wire
    <2>2. \A s \in Servers : FlightOK(s)'
      BY DEF IInv, Ownership, FlightOK, Bringing, manager, wire
    <2>3. \A s, u \in Servers : OneOwner(s, u)'
      BY DEF IInv, Ownership, OneOwner, Bringing, manager, wire
    <2> QED
      BY <2>1, <2>2, <2>3 DEF Ownership
  <1>3. Bookkeeping'
    BY DEF IInv, Bookkeeping, StartInv, ForgottenInv, Unlisted, RemovedServersAreForgotten,
           StatusIsTrue, manager, wire
  <1> QED
    BY <1>1, <1>2, <1>3 DEF IInv

LEMMA ExecuteKeeps ==
  ASSUME IInv, NEW c \in Calls, NEW s \in Servers, Execute(c, s)
  PROVE  IInv'
  <1>1. call' \in [Calls -> Call]
    <2>1. call \in [Calls -> Call]
      BY DEF IInv, TypeOK
    <2>2. call' = [call EXCEPT ![c].pc = "ensure", ![c].server = s]
      BY DEF Execute
    <2>3. "ensure" \in Places
      BY DEF Places
    <2> QED
      BY <2>1, <2>2, <2>3 DEF Call
  <1>2. \A u \in Servers : Waiting(u) # {} => Waiting(u)' # {}
    BY DEF IInv, TypeOK, Execute, Waiting
  <1>3. \A d \in Calls : Active(d)' => call'[d].server \notin forgotten
    <2>1. call \in [Calls -> Call]
      BY DEF IInv, TypeOK
    <2>2. s \notin forgotten
      BY DEF Execute, IInv, Bookkeeping, RemovedServersAreForgotten
    <2>3. \A d \in Calls : Active(d) => call[d].server \notin forgotten
      BY DEF IInv, Bookkeeping, ForgottenInv
    <2> QED
      BY <2>1, <2>2, <2>3 DEF Execute, Active, Call
  <1>4. stage # "starting"
    BY SessionsAssumption DEF Execute
  <1> QED
    BY <1>1, <1>2, <1>3, <1>4, CallMoves DEF Execute

LEMMA CallGoesOn ==
  ASSUME IInv, NEW c \in Calls,
         LoadConfig(c) \/ TakeSession(c) \/ ToolAnswers(c) \/ ToolFails(c) \/ ConnectionFails(c)
  PROVE  IInv'
  <1> USE DEF LoadConfig, TakeSession, ToolAnswers, ToolFails, ConnectionFails, Goto
  <1>1. call[c] \in Call /\ call[c].pc \notin Over \cup {"idle", "waiting"}
    BY DEF IInv, TypeOK, Over
  <1>2. UNCHANGED <<row, manager, wire, flight, stage, forgotten>>
    OBVIOUS
  <1>3. /\ call' \in [Calls -> Call]
        /\ call'[c].server = call[c].server
        /\ \A d \in Calls \ {c} : call'[d] = call[d]
    <2>1. sessions[call[c].server] \in SessionIds \cup {NoSession}
      BY <1>1 DEF IInv, TypeOK, Call
    <2>2. call \in [Calls -> Call]
      BY DEF IInv, TypeOK
    <2>3. CASE LoadConfig(c) \/ ToolAnswers(c) \/ ToolFails(c)
      <3>1. \/ call' = [call EXCEPT ![c].pc = "take"]
            \/ call' = [call EXCEPT ![c].pc = "join"]
            \/ call' = [call EXCEPT ![c].pc = "done"]
            \/ call' = [call EXCEPT ![c].pc = "failed"]
        BY <2>3
      <3> QED
        BY <2>2, <3>1 DEF Call, Places
    <2>4. CASE TakeSession(c)
      <3> DEFINE n == sessions[call[c].server]
                 place == IF n = NoSession THEN "join" ELSE "first"
      <3>1. call' = [call EXCEPT ![c].pc = place, ![c].session = n]
        BY <2>4
      <3>2. place \in Places /\ n \in SessionIds \cup {NoSession}
        BY <2>1 DEF Places
      <3> HIDE DEF place, n
      <3> QED
        BY <2>2, <3>1, <3>2 DEF Call
    <2>5. CASE ConnectionFails(c)
      BY <2>2, <2>5 DEF Call, Places
    <2> QED
      BY <2>3, <2>4, <2>5
  <1> HIDE DEF LoadConfig, TakeSession, ToolAnswers, ToolFails, ConnectionFails, Goto
  <1>5. ASSUME NEW u \in Servers, Waiting(u) # {} PROVE Waiting(u)' # {}
    <2>1. PICK d \in Calls : call[d].pc = "waiting" /\ call[d].server = u
      BY <1>5 DEF Waiting
    <2>2. call'[d] = call[d]
      BY <1>1, <1>3, <2>1
    <2>3. d \in Waiting(u)'
      BY <2>1, <2>2 DEF Waiting
    <2> QED
      BY <2>3
  <1>6. ASSUME NEW d \in Calls, Active(d)' PROVE call'[d].server \notin forgotten
    <2>1. Active(d)
      BY <1>1, <1>3, <1>6 DEF Active
    <2>2. call[d].server \notin forgotten
      BY <2>1 DEF IInv, Bookkeeping, ForgottenInv
    <2> QED
      BY <1>3, <2>2
  <1>7. stage # "starting"
    BY <1>1 DEF IInv, Bookkeeping, StartInv
  <1> QED
    BY <1>2, <1>3, <1>5, <1>6, <1>7, CallMoves

LEMMA CancelKeeps ==
  ASSUME IInv, NEW c \in Calls, Cancel(c)
  PROVE  IInv'
  <1>1. /\ call \in [Calls -> Call]
        /\ call' = [call EXCEPT ![c].cancelled = TRUE]
        /\ UNCHANGED <<row, manager, wire, flight, stage, forgotten>>
    BY DEF IInv, TypeOK, Cancel
  <1>2. call' \in [Calls -> Call]
    BY <1>1 DEF Call
  <1>3. \A d \in Calls : call'[d].pc = call[d].pc /\ call'[d].server = call[d].server
    BY <1>1 DEF Call
  <1>4. \A u \in Servers : Waiting(u)' = Waiting(u)
    BY <1>3 DEF Waiting
  <1>5. \A d \in Calls : Active(d)' => call'[d].server \notin forgotten
    BY <1>3 DEF IInv, Bookkeeping, ForgottenInv, Active
  <1>6. stage # "starting"
    BY DEF Cancel, Active, IInv, Bookkeeping, StartInv
  <1> QED
    BY <1>1, <1>2, <1>4, <1>5, <1>6, CallMoves

(* Facts about the variables the steps of a reconnection need.             *)
LEMMA Parts ==
  ASSUME IInv, NEW s \in Servers
  PROVE  /\ flight[s] \in Flight
         /\ flight[s].step \in {"none", "dial", "list", "store", "close"}
         /\ flight[s].session \in Nat /\ flight[s].displaced \in Nat
         /\ sessions[s] \in Nat
         /\ opened \in Nat /\ opened <= MaxSessions
         /\ open \subseteq 1..opened
  <1>1. flight[s] \in Flight /\ sessions[s] \in SessionIds \cup {NoSession} /\ opened \in 0..MaxSessions
    BY DEF IInv, TypeOK
  <1>2. SessionIds \cup {NoSession} \subseteq Nat
    BY SessionsAssumption DEF SessionIds, NoSession
  <1>3. open \subseteq 1..opened
    BY DEF IInv, Ownership, IdsKnown
  <1> QED
    BY <1>1, <1>2, <1>3, SessionsAssumption DEF Flight

LEMMA JoinKeeps ==
  ASSUME IInv, NEW c \in Calls, Join(c)
  PROVE  IInv'
  <1> DEFINE s == call[c].server
  <1>1. /\ call \in [Calls -> Call] /\ flight \in [Servers -> Flight]
        /\ s \in Servers
        /\ call[c].pc = "join"
    BY DEF IInv, TypeOK, Join, Call
  <1>2. /\ call' = [call EXCEPT ![c].pc = "waiting", ![c].leads = (flight[s].step = "none")]
        /\ UNCHANGED <<row, sessions, status, offered, opened, open, dead, stage, forgotten>>
    BY DEF Join, manager, wire
  <1>3. /\ flight' \in [Servers -> Flight]
        /\ \A u \in Servers \ {s} : flight'[u] = flight[u]
        /\ flight'[s].session = flight[s].session
        /\ flight'[s].displaced = flight[s].displaced
        /\ flight'[s].step = IF flight[s].step = "none" THEN "dial" ELSE flight[s].step
    BY <1>1 DEF Join, Flight
  <1>4. TypeOK'
    <2> DEFINE first == flight[s].step = "none"
    <2>1. first \in BOOLEAN /\ "waiting" \in Places
      BY DEF Places
    <2>2. call' = [call EXCEPT ![c].pc = "waiting", ![c].leads = first]
      BY <1>2
    <2> HIDE DEF first
    <2>3. call' \in [Calls -> Call]
      BY <1>1, <2>1, <2>2 DEF Call
    <2> QED
      BY <1>2, <1>3, <2>3 DEF IInv, TypeOK
  <1>5. \A u \in Servers : Waiting(u) # {} => Waiting(u)' # {}
    BY <1>1, <1>2 DEF Waiting, Call
  <1>6. Waiting(s)' # {}
    BY <1>1, <1>2 DEF Waiting, Call
  <1>7. Ownership'
    <2>1. IdsKnown' /\ StoredSessionsAreOpen' /\ NoSessionLeaked'
      BY <1>2, <1>3 DEF IInv, Ownership, IdsKnown, StoredSessionsAreOpen, NoSessionLeaked
    <2>2. ASSUME NEW u \in Servers PROVE FlightOK(u)'
      BY <1>1, <1>2, <1>3, <1>5, <1>6 DEF IInv, Ownership, FlightOK, Bringing
    <2>3. ASSUME NEW u \in Servers, NEW w \in Servers PROVE OneOwner(u, w)'
      BY <1>1, <1>2, <1>3 DEF IInv, Ownership, OneOwner, Bringing
    <2> QED
      BY <2>1, <2>2, <2>3 DEF Ownership
  <1>8. Bookkeeping'
    <2>1. s \notin forgotten /\ stage # "starting"
      BY <1>1 DEF IInv, Bookkeeping, ForgottenInv, StartInv, Active, Over
    <2>2. StartInv' /\ Unlisted' /\ StatusIsTrue'
      BY <1>2, <2>1 DEF IInv, Bookkeeping, StartInv, Unlisted, StatusIsTrue
    <2>3. ForgottenInv'
      BY <1>1, <1>2, <2>1 DEF IInv, Bookkeeping, ForgottenInv, Active, Over
    <2>4. RemovedServersAreForgotten'
      BY <1>2, <1>3, <2>1 DEF IInv, TypeOK, Bookkeeping, RemovedServersAreForgotten
    <2> QED
      BY <2>2, <2>3, <2>4 DEF Bookkeeping
  <1> QED
    BY <1>4, <1>7, <1>8 DEF IInv

(* A server whose reconnection is in progress has not been removed, and    *)
(* the process has started.                                                *)
LEMMA FlightMeansCalls ==
  ASSUME IInv, NEW s \in Servers, flight[s].step # "none"
  PROVE  s \notin forgotten /\ stage # "starting"
  <1>1. PICK c \in Calls : call[c].pc = "waiting" /\ call[c].server = s
    BY DEF IInv, Ownership, FlightOK, Waiting
  <1> QED
    BY <1>1 DEF IInv, Bookkeeping, ForgottenInv, StartInv, Active, Over

(* Calls only end; the reconnection of a listed server moves on.           *)
LEMMA BooksKept ==
  ASSUME IInv, NEW s \in Servers \ forgotten, stage # "starting",
         UNCHANGED <<row, sessions, status, offered, stage, forgotten>>,
         \A u \in Servers \ {s} : flight'[u] = flight[u],
         \A c \in Calls : Active(c)' => Active(c) /\ call'[c].server = call[c].server
  PROVE  Bookkeeping'
  <1>1. StartInv' /\ Unlisted' /\ StatusIsTrue'
    BY DEF IInv, Bookkeeping, StartInv, Unlisted, StatusIsTrue
  <1>2. ForgottenInv'
    BY DEF IInv, Bookkeeping, ForgottenInv
  <1>3. RemovedServersAreForgotten'
    BY DEF IInv, TypeOK, Bookkeeping, RemovedServersAreForgotten
  <1> QED
    BY <1>1, <1>2, <1>3 DEF Bookkeeping

LEMMA DialKeeps ==
  ASSUME IInv, NEW s \in Servers, Dial(s)
  PROVE  IInv'
  <1> DEFINE n == opened + 1
  <1>1. /\ opened' = n /\ open' = open \cup {n}
        /\ n \in SessionIds /\ n \in Nat /\ opened \in Nat /\ n <= MaxSessions /\ n # NoSession
        /\ UNCHANGED <<row, sessions, status, offered, dead, call, stage, forgotten>>
        /\ s \notin forgotten /\ stage # "starting"
    BY Parts, FlightMeansCalls, SessionsAssumption DEF Dial, SessionIds, manager, NoSession
  <1>2. /\ flight' \in [Servers -> Flight]
        /\ \A u \in Servers \ {s} : flight'[u] = flight[u]
        /\ flight'[s].session = n
        /\ flight'[s].displaced = flight[s].displaced
        /\ flight'[s].step = "list"
    BY <1>1 DEF IInv, TypeOK, Dial, Flight
  <1>3. flight[s].step = "dial" /\ flight[s].displaced = NoSession /\ flight[s].session = NoSession
    <2>1. flight[s].step = "dial"
      BY DEF Dial
    <2>2. FlightOK(s)
      BY DEF IInv, Ownership
    <2> QED
      BY <2>1, <2>2 DEF FlightOK
  <1>4. TypeOK'
    <2>1. opened' \in 0..MaxSessions /\ open' \in SUBSET SessionIds
      <3>1. open \in SUBSET SessionIds
        BY DEF IInv, TypeOK
      <3> QED
        BY <1>1, <3>1, SessionsAssumption
    <2> QED
      BY <1>1, <1>2, <2>1 DEF IInv, TypeOK
  <1>5. Ownership'
    <2>1. \A u \in Servers : /\ sessions[u] # n /\ flight[u].session # n /\ flight[u].displaced # n
                             /\ sessions[u] \in 0..opened /\ flight[u].session \in 0..opened
                             /\ flight[u].displaced \in 0..opened
      BY <1>1 DEF IInv, Ownership, IdsKnown
    <2>2. IdsKnown'
      BY <1>1, <1>2, <1>3, <2>1, Parts DEF IdsKnown, NoSession
    <2>3. StoredSessionsAreOpen'
      BY <1>1 DEF IInv, Ownership, StoredSessionsAreOpen
    <2>4. NoSessionLeaked'
      BY <1>1, <1>2, <1>3, Parts DEF IInv, Ownership, NoSessionLeaked, NoSession
    <2>5. ASSUME NEW u \in Servers PROVE FlightOK(u)'
      <3>1. Waiting(u)' = Waiting(u)
        BY <1>1 DEF Waiting
      <3> QED
        BY <1>1, <1>2, <1>3, <2>1, <3>1 DEF IInv, Ownership, FlightOK, Bringing
    <2>6. ASSUME NEW u \in Servers, NEW w \in Servers PROVE OneOwner(u, w)'
      BY <1>1, <1>2, <1>3, <2>1 DEF IInv, Ownership, OneOwner, Bringing
    <2> QED
      BY <2>2, <2>3, <2>4, <2>5, <2>6 DEF Ownership
  <1>6. Bookkeeping'
    BY <1>1, <1>2, BooksKept DEF Active
  <1> QED
    BY <1>4, <1>5, <1>6 DEF IInv

LEMMA ListToolsKeeps ==
  ASSUME IInv, NEW s \in Servers, ListTools(s)
  PROVE  IInv'
  <1>1. /\ UNCHANGED <<row, sessions, status, offered, opened, open, dead, call, stage, forgotten>>
        /\ s \notin forgotten /\ stage # "starting"
        /\ flight[s].step = "list"
    BY FlightMeansCalls DEF ListTools, manager, wire
  <1>2. /\ flight' \in [Servers -> Flight]
        /\ \A u \in Servers \ {s} : flight'[u] = flight[u]
        /\ flight'[s].session = flight[s].session
        /\ flight'[s].displaced = flight[s].displaced
        /\ flight'[s].step = "store"
    BY DEF IInv, TypeOK, ListTools, Flight
  <1>3. TypeOK'
    BY <1>1, <1>2 DEF IInv, TypeOK
  <1>4. Ownership'
    <2>1. IdsKnown' /\ StoredSessionsAreOpen' /\ NoSessionLeaked'
      BY <1>1, <1>2 DEF IInv, Ownership, IdsKnown, StoredSessionsAreOpen, NoSessionLeaked
    <2>2. ASSUME NEW u \in Servers PROVE FlightOK(u)'
      <3>1. Waiting(u)' = Waiting(u)
        BY <1>1 DEF Waiting
      <3> QED
        BY <1>1, <1>2, <3>1 DEF IInv, Ownership, FlightOK, Bringing
    <2>3. ASSUME NEW u \in Servers, NEW w \in Servers PROVE OneOwner(u, w)'
      BY <1>1, <1>2 DEF IInv, Ownership, OneOwner, Bringing
    <2> QED
      BY <2>1, <2>2, <2>3 DEF Ownership
  <1>5. Bookkeeping'
    BY <1>1, <1>2, BooksKept DEF Active
  <1> QED
    BY <1>3, <1>4, <1>5 DEF IInv

(* A reconnection ends: its slot is free, and the calls that waited for it *)
(* go their ways.                                                          *)
LEMMA FlightLands ==
  ASSUME IInv, NEW s \in Servers, NEW f,
         f \in [Calls -> Call],
         \A c \in Waiting(s) : f[c].server = s /\ f[c].pc # "waiting",
         \A c \in Calls \ Waiting(s) : f[c] = call[c],
         call' = f, flight' = [flight EXCEPT ![s] = NoFlight]
  PROVE  /\ call' \in [Calls -> Call]
         /\ flight' \in [Servers -> Flight]
         /\ flight'[s] = NoFlight
         /\ \A u \in Servers \ {s} : flight'[u] = flight[u] /\ Waiting(u)' = Waiting(u)
         /\ \A c \in Calls : Active(c)' => Active(c) /\ call'[c].server = call[c].server
  <1>1. flight \in [Servers -> Flight] /\ NoFlight \in Flight
    BY DEF IInv, TypeOK, NoFlight, Flight
  <1>2. ASSUME NEW u \in Servers \ {s} PROVE Waiting(u)' = Waiting(u)
    BY <1>2 DEF Waiting
  <1>3. \A c \in Calls : Active(c)' => Active(c) /\ call'[c].server = call[c].server
    BY DEF Waiting, Active, Over
  <1> QED
    BY <1>1, <1>2, <1>3

LEMMA ReconnectFailsKeeps ==
  ASSUME IInv, NEW s \in Servers, ReconnectFails(s)
  PROVE  IInv'
  <1>1. /\ flight[s].step \in {"dial", "list"}
        /\ open' = open \ {flight[s].session}
        /\ UNCHANGED <<row, sessions, offered, opened, dead, stage, forgotten>>
        /\ s \notin forgotten /\ stage # "starting"
    BY FlightMeansCalls DEF ReconnectFails
  <1>2. /\ status' \in [Servers -> Statuses]
        /\ \A u \in Servers \ {s} : status'[u] = status[u]
        /\ status'[s] # "connected"
        /\ status'[s] = "none" <=> status[s] = "none"
    <2>1. status \in [Servers -> Statuses]
      BY DEF IInv, TypeOK
    <2>2. StatusAfter(IF flight[s].step = "dial" THEN "unreachable" ELSE "unlisted") \in {"failed", "half"}
      BY DEF StatusAfter
    <2> QED
      BY <2>1, <2>2 DEF ReconnectFails, Statuses
  <1>3. /\ call' \in [Calls -> Call]
        /\ flight' \in [Servers -> Flight]
        /\ flight'[s] = NoFlight
        /\ \A u \in Servers \ {s} : flight'[u] = flight[u] /\ Waiting(u)' = Waiting(u)
        /\ \A c \in Calls : Active(c)' => Active(c) /\ call'[c].server = call[c].server
    <2> DEFINE f == [c \in Calls |->
                       IF c \in Waiting(s) THEN [call[c] EXCEPT !.pc = "failed"] ELSE call[c]]
    <2>1. call \in [Calls -> Call]
      BY DEF IInv, TypeOK
    <2>2. f \in [Calls -> Call]
      BY <2>1 DEF Call, Places
    <2>3. /\ \A c \in Waiting(s) : f[c].server = s /\ f[c].pc # "waiting"
          /\ \A c \in Calls \ Waiting(s) : f[c] = call[c]
      BY <2>1 DEF Waiting, Call
    <2>4. call' = f /\ flight' = [flight EXCEPT ![s] = NoFlight]
      BY DEF ReconnectFails
    <2> HIDE DEF f
    <2> QED
      BY <2>2, <2>3, <2>4, FlightLands
  <1>4. TypeOK'
    BY <1>1, <1>2, <1>3 DEF IInv, TypeOK
  <1>5. Ownership'
    <2>1. /\ flight[s].displaced = NoSession
          /\ flight[s].session \in open => Bringing(s)
          /\ NoSession \notin open
      BY <1>1, Parts DEF IInv, Ownership, FlightOK, Bringing, NoSession
    <2>2. IdsKnown'
      <3>1. IdsKnown /\ opened \in Nat
        BY Parts DEF IInv, Ownership
      <3>2. flight'[s].session = 0 /\ flight'[s].displaced = 0
        BY <1>3 DEF NoFlight, NoSession
      <3>3. open' \subseteq 1..opened'
        BY <1>1, <3>1 DEF IdsKnown
      <3>4. ASSUME NEW u \in Servers
            PROVE  /\ sessions'[u] \in 0..opened'
                   /\ flight'[u].session \in 0..opened'
                   /\ flight'[u].displaced \in 0..opened'
        <4>1. CASE u = s
          BY <1>1, <3>1, <3>2, <4>1 DEF IdsKnown
        <4>2. CASE u # s
          BY <1>1, <1>3, <3>1, <4>2 DEF IdsKnown
        <4> QED
          BY <4>1, <4>2
      <3> QED
        BY <3>3, <3>4 DEF IdsKnown
    <2>3. StoredSessionsAreOpen'
      BY <1>1, <2>1 DEF IInv, Ownership, StoredSessionsAreOpen, OneOwner
    <2>4. NoSessionLeaked'
      BY <1>1, <1>3, <2>1 DEF IInv, Ownership, NoSessionLeaked
    <2>5. ASSUME NEW u \in Servers PROVE FlightOK(u)'
      <3>1. CASE u = s
        BY <1>3, <3>1 DEF FlightOK, Bringing, NoFlight
      <3>2. CASE u # s
        BY <1>1, <1>3, <2>1, <3>2 DEF IInv, Ownership, FlightOK, OneOwner, Bringing
      <3> QED
        BY <3>1, <3>2
    <2>6. ASSUME NEW u \in Servers, NEW w \in Servers PROVE OneOwner(u, w)'
      BY <1>1, <1>3 DEF IInv, Ownership, OneOwner, Bringing, NoFlight
    <2> QED
      BY <2>2, <2>3, <2>4, <2>5, <2>6 DEF Ownership
  <1>6. Bookkeeping'
    <2>1. StartInv' /\ Unlisted' /\ StatusIsTrue'
      BY <1>1, <1>2 DEF IInv, TypeOK, Bookkeeping, StartInv, Unlisted, StatusIsTrue
    <2>2. ForgottenInv'
      BY <1>1, <1>3 DEF IInv, Bookkeeping, ForgottenInv
    <2>3. RemovedServersAreForgotten'
      BY <1>1, <1>2, <1>3 DEF IInv, TypeOK, Bookkeeping, RemovedServersAreForgotten
    <2> QED
      BY <2>1, <2>2, <2>3 DEF Bookkeeping
  <1> QED
    BY <1>4, <1>5, <1>6 DEF IInv

LEMMA StoreKeeps ==
  ASSUME IInv, NEW s \in Servers, StoreConnectionState(s)
  PROVE  IInv'
  <1>1. /\ flight[s].step = "store"
        /\ UNCHANGED <<row, opened, open, dead, call, stage, forgotten>>
        /\ offered' = offered \cup {s}
        /\ s \notin forgotten /\ stage # "starting"
        /\ Bringing(s)
    BY FlightMeansCalls DEF StoreConnectionState, Bringing, wire
  <1>2. /\ sessions' \in [Servers -> SessionIds \cup {NoSession}]
        /\ sessions'[s] = flight[s].session
        /\ \A u \in Servers \ {s} : sessions'[u] = sessions[u]
        /\ status' \in [Servers -> Statuses]
        /\ status'[s] = "connected"
        /\ \A u \in Servers \ {s} : status'[u] = status[u]
    BY DEF IInv, TypeOK, StoreConnectionState, Flight, Statuses
  <1>3. /\ flight' \in [Servers -> Flight]
        /\ \A u \in Servers \ {s} : flight'[u] = flight[u]
        /\ flight'[s].session = flight[s].session
        /\ flight'[s].displaced = sessions[s]
        /\ flight'[s].step = "close"
    BY DEF IInv, TypeOK, StoreConnectionState, Flight
  <1>4. /\ flight[s].displaced = NoSession
        /\ flight[s].session \in open
        /\ flight[s].session # NoSession
    BY <1>1, Parts DEF IInv, Ownership, FlightOK, NoSession
  <1>5. TypeOK'
    BY <1>1, <1>2, <1>3 DEF IInv, TypeOK
  <1>6. Ownership'
    <2>1. IdsKnown' /\ StoredSessionsAreOpen'
      BY <1>1, <1>2, <1>3, <1>4 DEF IInv, Ownership, IdsKnown, StoredSessionsAreOpen
    <2>2. NoSessionLeaked'
      <3> SUFFICES ASSUME NEW n \in open
                   PROVE  \E u \in Servers : n \in {sessions'[u], flight'[u].session, flight'[u].displaced}
        BY <1>1 DEF NoSessionLeaked
      <3>1. PICK u \in Servers : n \in {sessions[u], flight[u].session, flight[u].displaced}
        BY DEF IInv, Ownership, NoSessionLeaked
      <3>2. n # NoSession
        BY Parts DEF NoSession
      <3> QED
        BY <1>2, <1>3, <1>4, <3>1, <3>2
    <2>3. ASSUME NEW u \in Servers PROVE FlightOK(u)'
      <3>1. Waiting(u)' = Waiting(u)
        BY <1>1 DEF Waiting
      <3> QED
        BY <1>1, <1>2, <1>3, <3>1 DEF IInv, Ownership, FlightOK, Bringing
    <2>4. ASSUME NEW u \in Servers, NEW w \in Servers PROVE OneOwner(u, w)'
      <3>1. \A x, y \in Servers : OneOwner(x, y)
        BY DEF IInv, Ownership
      <3>2. CASE u = s
        BY <1>1, <1>2, <1>3, <1>4, <3>1, <3>2 DEF OneOwner, Bringing
      <3>3. CASE u # s
        BY <1>1, <1>2, <1>3, <1>4, <3>1, <3>3 DEF OneOwner, Bringing
      <3> QED
        BY <3>2, <3>3
    <2> QED
      BY <2>1, <2>2, <2>3, <2>4 DEF Ownership
  <1>7. Bookkeeping'
    <2>1. StartInv' /\ Unlisted' /\ StatusIsTrue'
      BY <1>1, <1>2, <1>4 DEF IInv, TypeOK, Bookkeeping, StartInv, Unlisted, StatusIsTrue
    <2>2. ForgottenInv'
      BY <1>1 DEF IInv, Bookkeeping, ForgottenInv, Active
    <2>3. RemovedServersAreForgotten'
      <3>1. RemovedServersAreForgotten /\ forgotten \subseteq Servers
        BY DEF IInv, TypeOK, Bookkeeping
      <3> QED
        BY <1>1, <1>2, <1>3, <3>1, SMTT(30) DEF RemovedServersAreForgotten
    <2> QED
      BY <2>1, <2>2, <2>3 DEF Bookkeeping
  <1> QED
    BY <1>5, <1>6, <1>7 DEF IInv

LEMMA CloseDisplacedKeeps ==
  ASSUME IInv, NEW s \in Servers, CloseDisplaced(s)
  PROVE  IInv'
  <1>1. /\ flight[s].step = "close"
        /\ open' = open \ {flight[s].displaced}
        /\ UNCHANGED <<row, sessions, status, offered, opened, dead, stage, forgotten>>
        /\ s \notin forgotten /\ stage # "starting"
    BY FlightMeansCalls DEF CloseDisplaced, manager
  <1>2. /\ call' \in [Calls -> Call]
        /\ flight' \in [Servers -> Flight]
        /\ flight'[s] = NoFlight
        /\ \A u \in Servers \ {s} : flight'[u] = flight[u] /\ Waiting(u)' = Waiting(u)
        /\ \A c \in Calls : Active(c)' => Active(c) /\ call'[c].server = call[c].server
    <2> DEFINE place(c) == IF call[c].failedOn = NoSession THEN "first" ELSE "second"
               f == [c \in Calls |->
                       IF c \in Waiting(s)
                       THEN [call[c] EXCEPT !.pc = place(c), !.session = flight[s].session]
                       ELSE call[c]]
    <2>1. call \in [Calls -> Call] /\ flight[s].session \in SessionIds \cup {NoSession}
      BY DEF IInv, TypeOK, Flight
    <2>2. \A c \in Calls : place(c) \in Places /\ place(c) # "waiting"
      BY DEF Places
    <2>3. call' = f /\ flight' = [flight EXCEPT ![s] = NoFlight]
      BY DEF CloseDisplaced
    <2> HIDE DEF place
    <2>4. f \in [Calls -> Call]
      BY <2>1, <2>2 DEF Call
    <2>5. /\ \A c \in Waiting(s) : f[c].server = s /\ f[c].pc # "waiting"
          /\ \A c \in Calls \ Waiting(s) : f[c] = call[c]
      BY <2>1, <2>2 DEF Waiting, Call
    <2> HIDE DEF f
    <2> QED
      BY <2>3, <2>4, <2>5, FlightLands
  <1>3. TypeOK'
    BY <1>1, <1>2 DEF IInv, TypeOK
  <1>4. Ownership'
    <2>1. NoSession \notin open
      BY Parts DEF NoSession
    <2>2. IdsKnown'
      <3>1. IdsKnown /\ opened \in Nat
        BY Parts DEF IInv, Ownership
      <3>2. flight'[s].session = 0 /\ flight'[s].displaced = 0
        BY <1>2 DEF NoFlight, NoSession
      <3>3. open' \subseteq 1..opened'
        BY <1>1, <3>1 DEF IdsKnown
      <3>4. ASSUME NEW u \in Servers
            PROVE  /\ sessions'[u] \in 0..opened'
                   /\ flight'[u].session \in 0..opened'
                   /\ flight'[u].displaced \in 0..opened'
        <4>1. CASE u = s
          BY <1>1, <3>1, <3>2, <4>1 DEF IdsKnown
        <4>2. CASE u # s
          BY <1>1, <1>2, <3>1, <4>2 DEF IdsKnown
        <4> QED
          BY <4>1, <4>2
      <3> QED
        BY <3>3, <3>4 DEF IdsKnown
    <2>3. StoredSessionsAreOpen'
      BY <1>1 DEF IInv, Ownership, StoredSessionsAreOpen, OneOwner
    <2>4. NoSessionLeaked'
      <3> SUFFICES ASSUME NEW n \in open, n # flight[s].displaced
                   PROVE  \E u \in Servers : n \in {sessions'[u], flight'[u].session, flight'[u].displaced}
        BY <1>1 DEF NoSessionLeaked
      <3>1. PICK u \in Servers : n \in {sessions[u], flight[u].session, flight[u].displaced}
        BY DEF IInv, Ownership, NoSessionLeaked
      <3>2. n = flight[s].session => n = sessions[s]
        BY <1>1 DEF IInv, Ownership, FlightOK
      <3> QED
        BY <1>1, <1>2, <3>1, <3>2
    <2>5. ASSUME NEW u \in Servers PROVE FlightOK(u)'
      <3>1. CASE u = s
        BY <1>2, <3>1 DEF FlightOK, Bringing, NoFlight
      <3>2. CASE u # s
        BY <1>1, <1>2, <2>1, <3>2 DEF IInv, Ownership, FlightOK, OneOwner, Bringing
      <3> QED
        BY <3>1, <3>2
    <2>6. ASSUME NEW u \in Servers, NEW w \in Servers PROVE OneOwner(u, w)'
      BY <1>1, <1>2 DEF IInv, Ownership, OneOwner, Bringing, NoFlight
    <2> QED
      BY <2>2, <2>3, <2>4, <2>5, <2>6 DEF Ownership
  <1>5. Bookkeeping'
    BY <1>1, <1>2, BooksKept
  <1> QED
    BY <1>3, <1>4, <1>5 DEF IInv

LEMMA LoseConnectionKeeps ==
  ASSUME IInv, NEW n \in SessionIds, LoseConnection(n)
  PROVE  IInv'
  <1>1. /\ dead' = dead \cup {n}
        /\ UNCHANGED <<row, sessions, status, offered, opened, open, call, flight, stage, forgotten>>
    BY DEF LoseConnection, manager
  <1>2. TypeOK'
    BY <1>1 DEF IInv, TypeOK
  <1>3. Ownership'
    BY <1>1 DEF IInv, Ownership, IdsKnown, FlightOK, OneOwner, Bringing, Waiting,
           StoredSessionsAreOpen, NoSessionLeaked
  <1>4. Bookkeeping'
    BY <1>1 DEF IInv, Bookkeeping, StartInv, ForgottenInv, Unlisted, RemovedServersAreForgotten,
           StatusIsTrue, Active
  <1> QED
    BY <1>2, <1>3, <1>4 DEF IInv

LEMMA RowRemovedKeeps ==
  ASSUME IInv, NEW s \in Servers, RowRemovedElsewhere(s)
  PROVE  IInv'
  <1>1. /\ row' = [row EXCEPT ![s] = "removed"]
        /\ UNCHANGED <<sessions, status, offered, opened, open, dead, call, flight, stage, forgotten>>
    BY DEF RowRemovedElsewhere, manager, wire
  <1>2. TypeOK'
    BY <1>1 DEF IInv, TypeOK
  <1>3. Ownership'
    BY <1>1 DEF IInv, Ownership, IdsKnown, FlightOK, OneOwner, Bringing, Waiting,
           StoredSessionsAreOpen, NoSessionLeaked
  <1>4. StartInv' /\ Unlisted' /\ RemovedServersAreForgotten' /\ StatusIsTrue'
    BY <1>1 DEF IInv, Bookkeeping, StartInv, Unlisted, RemovedServersAreForgotten, StatusIsTrue
  <1>5. ForgottenInv'
    BY <1>1 DEF IInv, TypeOK, Bookkeeping, ForgottenInv, Active
  <1> QED
    BY <1>2, <1>3, <1>4, <1>5 DEF IInv, Bookkeeping
-----------------------------------------------------------------------------
(* A terminal that waits for a line has no reconnection in progress.       *)
LEMMA QuietPrompt ==
  ASSUME IInv, AtPrompt
  PROVE  /\ \A s \in Servers : flight[s] = NoFlight
         /\ \A c \in Calls : ~Active(c)
         /\ stage = "terminal"
  <1>1. \A c \in Calls : ~Active(c)
    BY DEF AtPrompt
  <1>2. ASSUME NEW s \in Servers PROVE flight[s] = NoFlight
    <2>1. flight[s].step = "none"
      BY <1>1 DEF IInv, Ownership, FlightOK, Waiting, Active, Over
    <2>2. flight[s].session = NoSession /\ flight[s].displaced = NoSession
      BY <2>1 DEF IInv, Ownership, FlightOK
    <2>3. flight[s] \in Flight
      BY DEF IInv, TypeOK
    <2> QED
      BY <2>1, <2>2, <2>3 DEF Flight, NoFlight
  <1> QED
    BY <1>1, <1>2 DEF AtPrompt

LEMMA Counted ==
  ASSUME IInv
  PROVE  /\ opened \in Nat /\ opened <= MaxSessions
         /\ open \subseteq 1..opened
         /\ open \subseteq SessionIds
         /\ NoSession \notin open
  <1>1. opened \in 0..MaxSessions /\ open \subseteq SessionIds
    BY DEF IInv, TypeOK
  <1>2. open \subseteq 1..opened
    BY DEF IInv, Ownership, IdsKnown
  <1> QED
    BY <1>1, <1>2, SessionsAssumption DEF NoSession

(* Ownership where no reconnection is in progress.                         *)
LEMMA QuietOwnership ==
  ASSUME UNCHANGED flight,
         \A s \in Servers : flight[s] = NoFlight,
         opened' \in Nat,
         open' \subseteq 1..opened',
         \A s \in Servers : sessions'[s] # NoSession => sessions'[s] \in open',
         \A s, u \in Servers : s # u /\ sessions'[s] # NoSession => sessions'[s] # sessions'[u],
         \A n \in open' : \E s \in Servers : n = sessions'[s]
  PROVE  Ownership'
  <1>1. IdsKnown'
    <2>1. ASSUME NEW s \in Servers PROVE sessions'[s] \in 0..opened'
      <3>1. CASE sessions'[s] = NoSession
        BY <3>1 DEF NoSession
      <3>2. CASE sessions'[s] # NoSession
        <4>1. sessions'[s] \in 1..opened'
          BY <3>2
        <4> QED
          BY <4>1
      <3> QED
        BY <3>1, <3>2
    <2>2. ASSUME NEW s \in Servers
          PROVE  flight'[s].session \in 0..opened' /\ flight'[s].displaced \in 0..opened'
      <3>1. flight'[s].session = 0 /\ flight'[s].displaced = 0
        BY DEF NoFlight, NoSession
      <3> QED
        BY <3>1
    <2> QED
      BY <2>1, <2>2 DEF IdsKnown
  <1>2. ASSUME NEW s \in Servers PROVE FlightOK(s)'
    BY DEF FlightOK, Bringing, NoFlight
  <1>3. ASSUME NEW s \in Servers, NEW u \in Servers PROVE OneOwner(s, u)'
    BY DEF OneOwner, Bringing, NoFlight
  <1>4. StoredSessionsAreOpen' /\ NoSessionLeaked'
    BY DEF StoredSessionsAreOpen, NoSessionLeaked
  <1> QED
    BY <1>1, <1>2, <1>3, <1>4 DEF Ownership

LEMMA QuietFacts ==
  ASSUME IInv, \A s \in Servers : flight[s] = NoFlight
  PROVE  /\ opened \in Nat
         /\ open \subseteq 1..opened
         /\ \A s \in Servers : sessions[s] # NoSession => sessions[s] \in open
         /\ \A s, u \in Servers : s # u /\ sessions[s] # NoSession =>
              sessions[s] # sessions[u]
         /\ \A n \in open : \E s \in Servers : n = sessions[s]
  <1>1. opened \in Nat /\ open \subseteq 1..opened
    BY Counted
  <1>2. NoSession \notin open
    BY Counted
  <1> QED
    BY <1>1, <1>2 DEF IInv, Ownership, StoredSessionsAreOpen, OneOwner, NoSessionLeaked, NoFlight

LEMMA AddServerKeeps ==
  ASSUME IInv, NEW s \in Servers, AddServer(s)
  PROVE  IInv'
  <1> DEFINE n == opened + 1
  <1>1. /\ stage = "terminal" /\ \A u \in Servers : flight[u] = NoFlight
        /\ \A c \in Calls : ~Active(c)
    BY QuietPrompt DEF AddServer
  <1>2. /\ opened' = n /\ open' = open \cup {n} /\ n <= MaxSessions
        /\ sessions' = [sessions EXCEPT ![s] = n]
        /\ status' = [status EXCEPT ![s] = "connected"]
        /\ offered' = offered \cup {s}
        /\ row' \in {row, [row EXCEPT ![s] = "present"]}
        /\ UNCHANGED <<dead, call, flight, stage, forgotten>>
        /\ row[s] = "to come" /\ status[s] = "none"
        /\ opened \in Nat
    <2>1. opened < MaxSessions
      BY DEF AddServer
    <2>2. opened \in Nat
      BY Counted
    <2>3. n <= MaxSessions
      BY <2>1, <2>2, SessionsAssumption
    <2> HIDE DEF n
    <2>4. opened' = n
      BY DEF AddServer, n
    <2> QED
      BY <2>2, <2>3, <2>4 DEF AddServer
  <1>3. n \in SessionIds /\ n # NoSession /\ n \notin open /\ s \notin forgotten /\ sessions[s] = NoSession
    <2>1. n \in SessionIds /\ n # NoSession /\ n \notin open
      <3>1. open \subseteq 1..opened
        BY Counted
      <3>2. n \in 1..MaxSessions /\ n # 0 /\ n \notin 1..opened
        <4>1. opened \in Nat /\ opened + 1 <= MaxSessions
          BY <1>2
        <4>2. opened \in Nat /\ MaxSessions \in Nat
          BY <1>2, SessionsAssumption
        <4> QED
          BY <4>1, <4>2
      <3> QED
        BY <3>1, <3>2 DEF SessionIds, NoSession
    <2>2. s \notin forgotten
      BY <1>2 DEF IInv, Bookkeeping, ForgottenInv
    <2>3. sessions[s] = NoSession
      BY <1>2 DEF IInv, Bookkeeping, Unlisted
    <2> QED
      BY <2>1, <2>2, <2>3
  <1>4. TypeOK'
    <2>1. opened' \in 0..MaxSessions
      <3>1. opened' \in 1..MaxSessions
        BY <1>2, <1>3 DEF SessionIds
      <3> QED
        BY <3>1
    <2> HIDE DEF n
    <2>2. open' \in SUBSET SessionIds /\ offered' \in SUBSET Servers
      BY <1>2, <1>3 DEF IInv, TypeOK
    <2>3. /\ row' \in [Servers -> {"to come", "present", "removed"}]
          /\ sessions' \in [Servers -> SessionIds \cup {NoSession}]
          /\ status' \in [Servers -> Statuses]
      <3>1. /\ row \in [Servers -> {"to come", "present", "removed"}]
            /\ sessions \in [Servers -> SessionIds \cup {NoSession}]
            /\ status \in [Servers -> Statuses]
        BY DEF IInv, TypeOK
      <3>2. row' \in [Servers -> {"to come", "present", "removed"}]
        <4>1. row' = row \/ row' = [row EXCEPT ![s] = "present"]
          BY <1>2
        <4> QED
          BY <3>1, <4>1
      <3>3. sessions' \in [Servers -> SessionIds \cup {NoSession}]
        BY <1>2, <1>3, <3>1
      <3>4. status' \in [Servers -> Statuses]
        BY <1>2, <3>1 DEF Statuses
      <3> QED
        BY <3>2, <3>3, <3>4
    <2> QED
      BY <1>2, <2>1, <2>2, <2>3 DEF IInv, TypeOK
  <1>5. sessions \in [Servers -> SessionIds \cup {NoSession}]
    BY DEF IInv, TypeOK
  <1>6. Ownership'
    <2>1. opened' \in Nat /\ open' \subseteq 1..opened'
      <3>1. open \subseteq 1..opened
        BY Counted
      <3>2. n \in Nat /\ n \in 1..n /\ 1..opened \subseteq 1..n
        <4>1. opened \in Nat
          BY <1>2
        <4> QED
          BY <4>1
      <3> HIDE DEF n
      <3> QED
        BY <1>2, <3>1, <3>2
    <2> HIDE DEF n
    <2>2. \A u \in Servers : sessions'[u] # NoSession => sessions'[u] \in open'
      BY <1>1, <1>2, <1>5, QuietFacts
    <2>3. \A u, w \in Servers : u # w /\ sessions'[u] # NoSession => sessions'[u] # sessions'[w]
      <3>1. \A u \in Servers : sessions[u] # n
        BY <1>1, <1>3, QuietFacts
      <3>2. \A u, w \in Servers : u # w /\ sessions[u] # NoSession => sessions[u] # sessions[w]
        BY <1>1, QuietFacts
      <3> QED
        BY <1>2, <1>5, <3>1, <3>2
    <2>4. \A m \in open' : \E u \in Servers : m = sessions'[u]
      <3>1. NoSession \notin open
        BY Counted
      <3>2. \A m \in open : \E u \in Servers : m = sessions[u]
        BY <1>1, QuietFacts
      <3>3. \A u \in Servers \ {s} : sessions'[u] = sessions[u]
        BY <1>2, <1>5
      <3>4. sessions'[s] = n
        BY <1>2, <1>5
      <3>5. ASSUME NEW m \in open PROVE \E u \in Servers : m = sessions'[u]
        <4>1. PICK u \in Servers : m = sessions[u]
          BY <3>2
        <4>2. u # s
          BY <1>3, <3>1, <4>1
        <4> QED
          BY <3>3, <4>1, <4>2
      <3> QED
        BY <1>2, <3>4, <3>5
    <2> QED
      BY <1>1, <1>2, <2>1, <2>2, <2>3, <2>4, QuietOwnership
  <1>7. Bookkeeping'
    <2>1. StartInv' /\ ForgottenInv'
      <3>1. StartInv'
        BY <1>1, <1>2 DEF StartInv
      <3>2. row \in [Servers -> {"to come", "present", "removed"}] /\ forgotten \subseteq Servers
        BY DEF IInv, TypeOK
      <3>3. \A u \in forgotten : row'[u] = row[u]
        BY <1>2, <1>3, <3>2
      <3>4. ForgottenInv'
        BY <1>1, <1>2, <3>3 DEF IInv, Bookkeeping, ForgottenInv, Active
      <3> QED
        BY <3>1, <3>4
    <2> HIDE DEF n
    <2>2. status \in [Servers -> Statuses]
      BY DEF IInv, TypeOK
    <2>3. Unlisted' /\ StatusIsTrue'
      <3>1. /\ \A u \in Servers \ {s} : sessions'[u] = sessions[u] /\ status'[u] = status[u]
            /\ sessions'[s] = n /\ status'[s] = "connected"
        BY <1>2, <1>5, <2>2
      <3>2. offered' = offered \cup {s} /\ stage' = stage /\ offered \subseteq Servers
        BY <1>2 DEF IInv, TypeOK
      <3>3. Unlisted'
        BY <3>1 DEF IInv, Bookkeeping, Unlisted
      <3>4. StatusIsTrue'
        <4>1. StatusIsTrue
          BY DEF IInv, Bookkeeping
        <4> QED
          BY <1>3, <3>1, <3>2, <4>1 DEF StatusIsTrue
      <3> QED
        BY <3>3, <3>4
    <2>4. RemovedServersAreForgotten'
      BY <1>2, <1>3, <1>5, <2>2 DEF IInv, TypeOK, Bookkeeping, RemovedServersAreForgotten
    <2> QED
      BY <2>1, <2>3, <2>4 DEF Bookkeeping
  <1> QED
    BY <1>4, <1>6, <1>7 DEF IInv
LEMMA RemoveServerKeeps ==
  ASSUME IInv, NEW s \in Servers, RemoveServer(s)
  PROVE  IInv'
  <1>1. /\ stage = "terminal" /\ \A u \in Servers : flight[u] = NoFlight
        /\ \A c \in Calls : ~Active(c)
    BY QuietPrompt DEF RemoveServer
  <1>2. /\ row' = [row EXCEPT ![s] = "removed"]
        /\ open' = open \ {sessions[s]}
        /\ sessions' = [sessions EXCEPT ![s] = NoSession]
        /\ status' = [status EXCEPT ![s] = "none"]
        /\ offered' = offered \ {s}
        /\ forgotten' = forgotten \cup {s}
        /\ UNCHANGED <<opened, dead, call, flight, stage>>
    BY DEF RemoveServer, Disconnect
  <1>3. /\ row \in [Servers -> {"to come", "present", "removed"}]
        /\ sessions \in [Servers -> SessionIds \cup {NoSession}]
        /\ status \in [Servers -> Statuses]
        /\ offered \subseteq Servers /\ forgotten \subseteq Servers
    BY DEF IInv, TypeOK
  <1>4. /\ \A u \in Servers \ {s} : /\ row'[u] = row[u]
                                    /\ sessions'[u] = sessions[u]
                                    /\ status'[u] = status[u]
        /\ row'[s] = "removed" /\ sessions'[s] = NoSession /\ status'[s] = "none"
    BY <1>2, <1>3
  <1>5. TypeOK'
    BY <1>2, <1>3 DEF IInv, TypeOK, Statuses
  <1>6. Ownership'
    <2>1. opened' \in Nat /\ open' \subseteq 1..opened'
      BY <1>2, Counted
    <2>2. \A u \in Servers : sessions'[u] # NoSession => sessions'[u] \in open'
      BY <1>1, <1>2, <1>4, QuietFacts
    <2>3. \A u, w \in Servers : u # w /\ sessions'[u] # NoSession => sessions'[u] # sessions'[w]
      BY <1>1, <1>4, QuietFacts
    <2>4. \A m \in open' : \E u \in Servers : m = sessions'[u]
      BY <1>1, <1>2, <1>4, QuietFacts
    <2> QED
      BY <1>1, <1>2, <2>1, <2>2, <2>3, <2>4, QuietOwnership
  <1>7. Bookkeeping'
    <2>1. StartInv'
      BY <1>1, <1>2 DEF StartInv
    <2>2. ForgottenInv'
      BY <1>1, <1>2, <1>3, <1>4 DEF IInv, Bookkeeping, ForgottenInv, Active
    <2>3. Unlisted'
      BY <1>4 DEF IInv, Bookkeeping, Unlisted
    <2>4. RemovedServersAreForgotten'
      <3>1. RemovedServersAreForgotten
        BY DEF IInv, Bookkeeping
      <3>2. s \in Servers /\ s \notin offered' /\ flight'[s] = NoFlight
        BY <1>1, <1>2
      <3>3. ASSUME NEW u \in forgotten, u # s
            PROVE  /\ sessions'[u] = NoSession /\ status'[u] = "none"
                   /\ u \notin offered' /\ flight'[u] = NoFlight
        BY <1>1, <1>2, <1>3, <1>4, <3>1, <3>3 DEF RemovedServersAreForgotten
      <3>4. forgotten' = forgotten \cup {s}
        BY <1>2
      <3> QED
        BY <1>4, <3>2, <3>3, <3>4 DEF RemovedServersAreForgotten
    <2>5. StatusIsTrue'
      <3>1. StatusIsTrue
        BY DEF IInv, Bookkeeping
      <3> QED
        BY <1>2, <1>3, <1>4, <3>1 DEF StatusIsTrue
    <2> QED
      BY <2>1, <2>2, <2>3, <2>4, <2>5 DEF Bookkeeping
  <1> QED
    BY <1>5, <1>6, <1>7 DEF IInv

LEMMA RefreshKeeps ==
  ASSUME IInv, Refresh
  PROVE  IInv'
  <1> DEFINE listed == {s \in Servers : status[s] # "none"}
             asked  == {s \in listed : sessions[s] # NoSession /\ status[s] \in {"connected", "half"}}
  <1>1. /\ stage = "terminal" /\ \A u \in Servers : flight[u] = NoFlight
        /\ \A c \in Calls : ~Active(c)
    BY QuietPrompt DEF Refresh
  <1>2. PICK answering \in SUBSET {s \in asked : Live(sessions[s])} :
          /\ status' = [s \in Servers |-> IF s \in answering THEN "connected"
                                          ELSE IF s \in asked THEN "half" ELSE status[s]]
          /\ offered' = (offered \ listed) \cup answering
    BY DEF Refresh
  <1>3. UNCHANGED <<row, sessions, opened, open, dead, call, flight, stage, forgotten>>
    BY DEF Refresh, wire
  <1>4. /\ status \in [Servers -> Statuses]
        /\ offered \subseteq Servers /\ forgotten \subseteq Servers
    BY DEF IInv, TypeOK
  <1>5. TypeOK'
    <2>1. status' \in [Servers -> Statuses]
      BY <1>2, <1>4 DEF Statuses
    <2>2. offered' \in SUBSET Servers
      BY <1>2, <1>4
    <2> HIDE DEF listed, asked
    <2> QED
      BY <1>3, <2>1, <2>2 DEF IInv, TypeOK
  <1>6. Ownership'
    BY <1>3 DEF IInv, Ownership, IdsKnown, FlightOK, OneOwner, Bringing, Waiting,
           StoredSessionsAreOpen, NoSessionLeaked
  <1>7. Bookkeeping'
    <2>1. /\ \A s \in Servers : (status'[s] = "none") = (status[s] = "none")
          /\ \A s \in answering : s \in Servers /\ sessions[s] # NoSession /\ status[s] # "none"
          /\ \A s \in Servers : status'[s] = "connected" =>
               s \in answering \/ (status[s] = "connected" /\ s \notin asked)
      BY <1>2, <1>4
    <2>2. offered \subseteq listed
      BY <1>4 DEF IInv, Bookkeeping, StatusIsTrue
    <2>3. offered' = answering
      BY <1>2, <2>2
    <2>4. StartInv' /\ ForgottenInv'
      BY <1>1, <1>3 DEF IInv, Bookkeeping, StartInv, ForgottenInv, Active
    <2>5. Unlisted'
      BY <1>3, <2>1 DEF IInv, Bookkeeping, Unlisted
    <2>6. RemovedServersAreForgotten'
      BY <1>3, <1>4, <2>1, <2>3 DEF IInv, Bookkeeping, RemovedServersAreForgotten
    <2>7. StatusIsTrue'
      <3>1. \A s \in Servers : status[s] = "connected" => s \in asked
        BY <1>1 DEF IInv, Bookkeeping, StatusIsTrue
      <3> HIDE DEF asked
      <3> QED
        BY <1>3, <2>1, <2>3, <3>1 DEF StatusIsTrue
    <2> QED
      BY <2>4, <2>5, <2>6, <2>7 DEF Bookkeeping
  <1> QED
    BY <1>5, <1>6, <1>7 DEF IInv

(* Nothing is under way while the process starts.                          *)
LEMMA QuietStart ==
  ASSUME IInv, stage = "starting"
  PROVE  /\ \A s \in Servers : flight[s] = NoFlight
         /\ \A c \in Calls : ~Active(c)
         /\ opened = 0 /\ open = {} /\ forgotten = {}
         /\ \A s \in Servers : sessions[s] = NoSession
  <1>1. /\ \A c \in Calls : call[c].pc = "idle"
        /\ opened = 0 /\ forgotten = {}
    BY DEF IInv, Bookkeeping, StartInv
  <1>2. open = {}
    BY <1>1, Counted
  <1>3. ASSUME NEW s \in Servers PROVE flight[s] = NoFlight
    <2>1. flight[s].step = "none"
      BY <1>1 DEF IInv, Ownership, FlightOK, Waiting
    <2>2. flight[s].session = NoSession /\ flight[s].displaced = NoSession
      BY <2>1 DEF IInv, Ownership, FlightOK
    <2>3. flight[s] \in Flight
      BY DEF IInv, TypeOK
    <2> QED
      BY <2>1, <2>2, <2>3 DEF Flight, NoFlight
  <1>4. \A s \in Servers : sessions[s] = NoSession
    BY <1>2 DEF IInv, Ownership, StoredSessionsAreOpen
  <1> QED
    BY <1>1, <1>2, <1>3, <1>4 DEF Active
LEMMA ConnectAllKeeps ==
  ASSUME IInv, ConnectAll
  PROVE  IInv'
  <1> DEFINE here == {s \in Servers : row[s] = "present"}
  <1>1. /\ \A s \in Servers : flight[s] = NoFlight
        /\ \A c \in Calls : ~Active(c)
        /\ opened = 0 /\ open = {} /\ forgotten = {}
        /\ \A s \in Servers : sessions[s] = NoSession
    BY QuietStart DEF ConnectAll
  <1>2. stage' \in {"terminal", "server"} /\ UNCHANGED <<row, call, flight, forgotten>>
    BY SessionsAssumption DEF ConnectAll
  <1>3. StartInv' /\ ForgottenInv' /\ RemovedServersAreForgotten'
    BY <1>1, <1>2 DEF StartInv, ForgottenInv, RemovedServersAreForgotten
  <1>4. CASE UNCHANGED <<manager, wire>>
    <2>1. UNCHANGED <<sessions, status, offered, opened, open, dead>>
      BY <1>4 DEF manager, wire
    <2>2. TypeOK'
      BY <1>2, <2>1 DEF IInv, TypeOK
    <2>3. Ownership'
      BY <1>2, <2>1 DEF IInv, Ownership, IdsKnown, FlightOK, OneOwner, Bringing, Waiting,
             StoredSessionsAreOpen, NoSessionLeaked
    <2>4. Unlisted' /\ StatusIsTrue'
      <3>1. stage # "down"
        BY DEF ConnectAll
      <3> QED
        BY <2>1, <3>1 DEF IInv, Bookkeeping, Unlisted, StatusIsTrue
    <2> QED
      BY <1>3, <2>2, <2>3, <2>4 DEF IInv, Bookkeeping
  <1>5. ASSUME NEW attempt \in [here -> Attempts],
               NEW reached, reached = {s \in here : attempt[s] = "connected"},
               opened' = Cardinality(reached),
               opened' <= MaxSessions,
               open' = 1..opened',
               NEW id \in Bijection(reached, 1..opened'),
               sessions' = [s \in Servers |-> IF s \in reached THEN id[s] ELSE NoSession],
               status' = [s \in Servers |-> IF s \in here THEN StatusAfter(attempt[s]) ELSE "none"],
               offered' = reached,
               UNCHANGED dead
        PROVE  IInv'
    <2>1. reached \subseteq Servers
      BY <1>5
    <2>2. opened' \in Nat
      BY <1>5, <2>1, SessionsAssumption, FS_Subset, FS_CardinalityType
    <2>3. /\ \A s \in reached : id[s] \in 1..opened'
          /\ \A s, u \in reached : s # u => id[s] # id[u]
          /\ \A n \in 1..opened' : \E s \in reached : id[s] = n
      BY DEF Bijection, Injection, Surjection, IsInjective
    <2>4. /\ \A s \in reached : sessions'[s] = id[s]
          /\ \A s \in Servers \ reached : sessions'[s] = NoSession
      BY <1>5, <2>1
    <2>5. NoSession \notin 1..opened' /\ 1..opened' \subseteq SessionIds
      <3>1. opened' <= MaxSessions
        BY <1>5
      <3> QED
        BY <2>2, <3>1, SessionsAssumption DEF NoSession, SessionIds
    <2>6. TypeOK'
      <3>1. sessions' \in [Servers -> SessionIds \cup {NoSession}]
        BY <1>5, <2>3, <2>5
      <3>2. status' \in [Servers -> Statuses]
        <4>1. \A a \in Attempts : StatusAfter(a) \in Statuses
          BY DEF Attempts, StatusAfter, Statuses
        <4>2. "none" \in Statuses
          BY DEF Statuses
        <4> QED
          BY <1>5, <4>1, <4>2
      <3>3. opened' \in 0..MaxSessions
        BY <1>5, <2>2, SessionsAssumption
      <3>4. open' \in SUBSET SessionIds /\ offered' \in SUBSET Servers
        BY <1>5, <2>1, <2>5
      <3> HIDE DEF here
      <3> QED
        BY <1>2, <1>5, <3>1, <3>2, <3>3, <3>4 DEF IInv, TypeOK
    <2>7. Ownership'
      <3>1. \A s \in Servers : sessions'[s] # NoSession => s \in reached /\ sessions'[s] \in open'
        BY <1>5, <2>3, <2>4
      <3>2. \A s, u \in Servers : s # u /\ sessions'[s] # NoSession => sessions'[s] # sessions'[u]
        BY <2>3, <2>4, <3>1
      <3>3. \A n \in open' : \E s \in Servers : n = sessions'[s]
        BY <1>5, <2>1, <2>3, <2>4
      <3> QED
        BY <1>1, <1>2, <1>5, <2>2, <3>1, <3>2, <3>3, QuietOwnership
    <2>8. Unlisted' /\ StatusIsTrue'
      <3>1. \A s \in Servers : /\ status'[s] = "none" => s \notin here
                               /\ status'[s] = "connected" => s \in reached
        <4>1. \A a \in Attempts : /\ StatusAfter(a) # "none"
                                  /\ StatusAfter(a) = "connected" => a = "connected"
          BY DEF Attempts, StatusAfter
        <4> QED
          BY <1>5, <4>1
      <3>2. Unlisted'
        BY <1>5, <2>4, <3>1 DEF Unlisted
      <3>3. StatusIsTrue'
        BY <1>5, <2>1, <2>3, <2>4, <2>5, <3>1 DEF StatusIsTrue
      <3> QED
        BY <3>2, <3>3
    <2> QED
      BY <1>3, <2>6, <2>7, <2>8 DEF IInv, Bookkeeping
  <1> QED
    <2>1. CASE UNCHANGED <<manager, wire>>
      BY <1>4, <2>1
    <2>2. CASE ~UNCHANGED <<manager, wire>>
      <3> DEFINE Reached(attempt) == {s \in here : attempt[s] = "connected"}
      <3>1. PICK attempt \in [here -> Attempts] :
              /\ opened' = Cardinality(Reached(attempt))
              /\ opened' <= MaxSessions
              /\ open' = 1..opened'
              /\ \E id \in Bijection(Reached(attempt), 1..opened') :
                   sessions' = [s \in Servers |->
                                  IF s \in Reached(attempt) THEN id[s] ELSE NoSession]
              /\ status' = [s \in Servers |->
                              IF s \in here THEN StatusAfter(attempt[s]) ELSE "none"]
              /\ offered' = Reached(attempt)
              /\ UNCHANGED dead
        BY <2>2 DEF ConnectAll
      <3>2. PICK id \in Bijection(Reached(attempt), 1..opened') :
              sessions' = [s \in Servers |-> IF s \in Reached(attempt) THEN id[s] ELSE NoSession]
        BY <3>1
      <3> HIDE DEF here
      <3> QED
        BY <1>5, <3>1, <3>2
    <2> QED
      BY <2>1, <2>2

LEMMA CloseKeeps ==
  ASSUME IInv, Close
  PROVE  IInv'
  <1>1. /\ stage \in {"terminal", "server"} /\ stage' = "down"
        /\ open' = open \ {sessions[s] : s \in Servers}
        /\ sessions' = [s \in Servers |-> NoSession]
        /\ UNCHANGED <<row, status, offered, opened, dead, call, flight, forgotten>>
    BY DEF Close, AtPrompt
  <1>2. \A s \in Servers : sessions'[s] = NoSession
    BY <1>1
  <1>3. \A n \in open' : n \in open /\ \A s \in Servers : n # sessions[s]
    BY <1>1
  <1>4. TypeOK'
    <2>1. sessions' \in [Servers -> SessionIds \cup {NoSession}]
      BY <1>1
    <2>2. open' \in SUBSET SessionIds
      BY <1>1, Counted
    <2> QED
      BY <1>1, <2>1, <2>2 DEF IInv, TypeOK
  <1>5. Ownership'
    <2>1. IdsKnown'
      <3>1. \A s \in Servers : sessions'[s] \in 0..opened'
        BY <1>1, <1>2, Counted DEF NoSession
      <3>2. open' \subseteq 1..opened'
        BY <1>1, Counted
      <3> QED
        BY <1>1, <3>1, <3>2 DEF IInv, Ownership, IdsKnown
    <2>2. ASSUME NEW s \in Servers PROVE FlightOK(s)'
      <3>1. FlightOK(s)
        BY DEF IInv, Ownership
      <3>2. Waiting(s)' = Waiting(s) /\ flight' = flight
        BY <1>1 DEF Waiting
      <3>3. Bringing(s) => \A u \in Servers : flight[s].session # sessions[u]
        BY DEF IInv, Ownership, OneOwner
      <3>4. Bringing(s) => flight[s].session \in open'
        BY <1>1, <3>1, <3>3 DEF FlightOK
      <3>5. flight[s].step = "close" => flight[s].session \notin open'
        BY <1>1, <3>1 DEF FlightOK
      <3> QED
        BY <3>1, <3>2, <3>4, <3>5 DEF FlightOK, Bringing
    <2>3. ASSUME NEW s \in Servers, NEW u \in Servers PROVE OneOwner(s, u)'
      <3>1. Bringing(s) => flight[s].session # NoSession
        BY Counted DEF IInv, Ownership, FlightOK
      <3>2. OneOwner(s, u)
        BY DEF IInv, Ownership
      <3> QED
        BY <1>1, <1>2, <3>1, <3>2 DEF OneOwner, Bringing
    <2>4. StoredSessionsAreOpen' /\ NoSessionLeaked'
      <3>1. NoSessionLeaked
        BY DEF IInv, Ownership
      <3> QED
        BY <1>1, <1>2, <1>3, <3>1 DEF StoredSessionsAreOpen, NoSessionLeaked
    <2> QED
      BY <2>1, <2>2, <2>3, <2>4 DEF Ownership
  <1>6. Bookkeeping'
    <2>1. StartInv' /\ ForgottenInv' /\ Unlisted'
      BY <1>1, <1>2 DEF IInv, Bookkeeping, StartInv, ForgottenInv, Unlisted, Active
    <2>2. RemovedServersAreForgotten'
      <3>1. forgotten \subseteq Servers
        BY DEF IInv, TypeOK
      <3> QED
        BY <1>1, <1>2, <3>1 DEF IInv, Bookkeeping, RemovedServersAreForgotten
    <2>3. StatusIsTrue'
      BY <1>1 DEF IInv, Bookkeeping, StatusIsTrue
    <2> QED
      BY <2>1, <2>2, <2>3 DEF Bookkeeping
  <1> QED
    BY <1>4, <1>5, <1>6 DEF IInv
LEMMA NextKeeps == IInv /\ [Next]_vars => IInv'
  <1> SUFFICES ASSUME IInv, [Next]_vars
               PROVE  IInv'
    OBVIOUS
  <1>1. CASE ConnectAll
    BY <1>1, ConnectAllKeeps
  <1>2. CASE Refresh
    BY <1>2, RefreshKeeps
  <1>3. CASE Close
    BY <1>3, CloseKeeps
  <1>4. ASSUME NEW c \in Calls, NEW s \in Servers, Execute(c, s)
        PROVE  IInv'
    BY <1>4, ExecuteKeeps
  <1>5. ASSUME NEW c \in Calls, Step(c)
        PROVE  IInv'
    <2>1. CASE Join(c)
      BY <2>1, JoinKeeps
    <2> QED
      BY <1>5, <2>1, CallGoesOn DEF Step, CallReturns
  <1>6. ASSUME NEW s \in Servers, AddServer(s)
        PROVE  IInv'
    BY <1>6, AddServerKeeps
  <1>7. ASSUME NEW s \in Servers, RemoveServer(s)
        PROVE  IInv'
    BY <1>7, RemoveServerKeeps
  <1>8. ASSUME NEW s \in Servers, Reconnection(s)
        PROVE  IInv'
    BY <1>8, DialKeeps, ListToolsKeeps, ReconnectFailsKeeps, StoreKeeps, CloseDisplacedKeeps
       DEF Reconnection
  <1>9. ASSUME NEW s \in Servers, RowRemovedElsewhere(s)
        PROVE  IInv'
    BY <1>9, RowRemovedKeeps
  <1>10. ASSUME NEW n \in SessionIds, LoseConnection(n)
         PROVE  IInv'
    BY <1>10, LoseConnectionKeeps
  <1>12. ASSUME NEW c \in Calls, Cancel(c)
         PROVE  IInv'
    BY <1>12, CancelKeeps
  <1>11. CASE UNCHANGED vars
    <2>1. UNCHANGED <<row, sessions, status, offered, opened, open, dead, call, flight, stage,
                      forgotten>>
      BY <1>11 DEF vars, manager, wire
    <2>2. TypeOK'
      BY <2>1 DEF IInv, TypeOK
    <2>3. Ownership'
      BY <2>1 DEF IInv, Ownership, IdsKnown, FlightOK, OneOwner, Bringing, Waiting,
             StoredSessionsAreOpen, NoSessionLeaked
    <2>4. Bookkeeping'
      BY <2>1 DEF IInv, Bookkeeping, StartInv, ForgottenInv, Unlisted, RemovedServersAreForgotten,
             StatusIsTrue, Active
    <2> QED
      BY <2>2, <2>3, <2>4 DEF IInv
  <1> QED
    BY <1>1, <1>2, <1>3, <1>4, <1>5, <1>6, <1>7, <1>8, <1>9, <1>10, <1>11, <1>12 DEF Next
-----------------------------------------------------------------------------
(* Every behaviour of the sessions stays within IInv.                      *)
THEOREM SessionsInvariant == Spec => []IInv
  BY Initially, NextKeeps, PTL DEF Spec

(* The state of the Manager, of its calls and of its reconnections stays   *)
(* within its types, sessions within the bound.                            *)
THEOREM SessionTypes == Spec => []TypeOK
  <1>1. IInv => TypeOK
    BY DEF IInv
  <1> QED
    BY <1>1, SessionsInvariant, PTL

(* storeConnectionState, Disconnect, Close and the closing of displaced    *)
(* sessions never close the session that the map of the Manager holds, in  *)
(* whatever order reconnections of any number of servers run.              *)
THEOREM StoredStayOpen == Spec => []StoredSessionsAreOpen
  <1>1. IInv => StoredSessionsAreOpen
    BY DEF IInv, Ownership
  <1> QED
    BY <1>1, SessionsInvariant, PTL

(* Nothing the Manager does loses track of a session it has opened, even   *)
(* when the process goes down during reconnections.                        *)
THEOREM NoneLeaked == Spec => []NoSessionLeaked
  <1>1. IInv => NoSessionLeaked
    BY DEF IInv, Ownership
  <1> QED
    BY <1>1, SessionsInvariant, PTL

(* "/mcp remove" is final: the tool calls that could bring a server back   *)
(* have returned when the terminal reads the command.                      *)
THEOREM RemovalIsFinal == Spec => []RemovedServersAreForgotten
  <1>1. IInv => RemovedServersAreForgotten
    BY DEF IInv, Bookkeeping
  <1> QED
    BY <1>1, SessionsInvariant, PTL

(* The status "/mcp list" prints is that of the session and of the tools.  *)
THEOREM ListIsTrue == Spec => []StatusIsTrue
  <1>1. IInv => StatusIsTrue
    BY DEF IInv, Bookkeeping
  <1> QED
    BY <1>1, SessionsInvariant, PTL
==============================================================================
