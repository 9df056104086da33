------------------------------ MODULE McpSessions ------------------------------
(***************************************************************************)
(* Sessions with the registered MCP servers, as one process keeps them:    *)
(* mcp.Manager (talk/internal/mcp/manager.go), the adapter through which a *)
(* tool call uses them (tool_adapter.go) and the "/mcp" commands of an     *)
(* interactive session (cmd_mcp.go).                                       *)
(*                                                                         *)
(* Tool calls run concurrently: those of one batch, and in the server      *)
(* those of all requests. Connections are lost at any time; other          *)
(* processes remove rows of the registry they share. The commands of a     *)
(* terminal never overlap a tool call of the same process: the terminal    *)
(* reads its next line when Chat has returned. In the server the request   *)
(* of a call may be cancelled; the context of a terminal never is.         *)
(*                                                                         *)
(* What is abstracted: the tools of a server come and go together; what a  *)
(* tool computes; credentials; and the names of servers (an id is a fresh  *)
(* uuid, so one that was removed does not come back).                      *)
(***************************************************************************)
EXTENDS Integers, FiniteSets, Functions

CONSTANTS
  Servers,       \* ids of servers
  Calls,         \* tool calls: one element per call of Execute
  MaxSessions,   \* bound: sessions this process opens
  MaxListed,     \* bound: MCP servers in the registry when a server starts
  Kinds          \* what processes there are: of "terminal", "server"

ASSUME SessionsAssumption ==
  /\ Servers # {} /\ IsFiniteSet(Servers)
  /\ MaxSessions \in Nat /\ MaxListed \in Nat
  /\ Kinds \subseteq {"terminal", "server"}

SessionIds == 1..MaxSessions
NoSession  == 0

VARIABLES
  row,       \* table mcp_servers: rows to come, present and removed
  sessions,  \* Manager.sessions
  status,    \* Manager.statuses: Connected and Error of each listed server
  offered,   \* servers whose tools are in Manager.tools
  opened,    \* sessions opened so far
  open,      \* those this process has not closed
  dead,      \* those whose connection is lost
  call,      \* the calls of Execute
  flight,    \* reconnectGroup: the reconnection in progress for each server
  stage,     \* "starting"; up, as a terminal or a server; or "down"
  forgotten  \* history variable: servers removed at this terminal

manager == <<sessions, status, offered>>
wire    == <<opened, open, dead>>
vars    == <<row, manager, wire, call, flight, stage, forgotten>>

(* "half": Connected is true and Error is set, as when the tools of a      *)
(* server could not be listed.                                             *)
Statuses == {"none", "connected", "half", "failed"}

Places == {"idle", "ensure", "take", "first", "reconnect", "join", "waiting", "second",
           "done", "failed"}
Over   == {"done", "failed"}
Call   == [pc : Places, server : Servers, session : SessionIds \cup {NoSession},
           failedOn : SessionIds \cup {NoSession},
           leads : BOOLEAN,      \* it runs the reconnection it waits for, with its context
           cancelled : BOOLEAN]  \* its context is done
Flight == [step : {"none", "dial", "list", "store", "close"},
           session : SessionIds \cup {NoSession}, displaced : SessionIds \cup {NoSession}]
NoFlight == [step |-> "none", session |-> NoSession, displaced |-> NoSession]

TypeOK ==
  /\ row \in [Servers -> {"to come", "present", "removed"}]
  /\ sessions \in [Servers -> SessionIds \cup {NoSession}]
  /\ status \in [Servers -> Statuses]
  /\ offered \in SUBSET Servers
  /\ opened \in 0..MaxSessions
  /\ open \in SUBSET SessionIds
  /\ dead \in SUBSET SessionIds
  /\ call \in [Calls -> Call]
  /\ flight \in [Servers -> Flight]
  /\ stage \in {"starting", "terminal", "server", "down"}
  /\ forgotten \in SUBSET Servers

Init ==
  /\ row \in [Servers -> {"to come", "present"}]
  /\ sessions = [s \in Servers |-> NoSession]
  /\ status = [s \in Servers |-> "none"]
  /\ offered = {}
  /\ opened = 0
  /\ open = {}
  /\ dead = {}
  /\ call = [c \in Calls |-> [pc |-> "idle", server |-> CHOOSE s \in Servers : TRUE,
                             session |-> NoSession, failedOn |-> NoSession,
                             leads |-> FALSE, cancelled |-> FALSE]]
  /\ flight = [s \in Servers |-> NoFlight]
  /\ stage = "starting"
  /\ forgotten = {}

Active(c) == call[c].pc \notin Over \cup {"idle"}

(* The terminal is waiting for a line.                                     *)
AtPrompt == stage = "terminal" /\ \A c \in Calls : ~Active(c)

Live(n) == n \in open \ dead
-----------------------------------------------------------------------------
(* What connectServer comes back with: nothing reached, a session whose    *)
(* tools could not be listed (closed again), or a session.                 *)
Attempts == {"unreachable", "unlisted", "connected"}

(* Faulty: a status the readers do not know.                               *)
StatusOfAttempt(attempt) == IF attempt = "unreachable" THEN "failed" ELSE attempt

(* Faulty: the error of the listing is not recorded.                       *)
StatusWithoutError(attempt) == IF attempt = "unreachable" THEN "failed" ELSE "connected"

(* The status connectServer returns in each case.                          *)
StatusAfter(attempt) ==
  CASE attempt = "unreachable" -> "failed"
    [] attempt = "unlisted"    -> "half"
    [] attempt = "connected"   -> "connected"

(* ConnectAll, with which a terminal and the server start: the servers of  *)
(* the registry, one after the other; a failure is recorded and leaves no  *)
(* session. Nothing else runs yet. (If the registry cannot be read, no     *)
(* server is listed.)                                                      *)
ConnectAll ==
  /\ stage = "starting"
  /\ stage' \in Kinds
  /\ stage' = "server" => Cardinality({s \in Servers : row[s] = "present"}) <= MaxListed
  /\ \/ UNCHANGED <<manager, wire>>
     \/ LET here == {s \in Servers : row[s] = "present"} IN
        \E attempt \in [here -> Attempts] :
          LET reached == {s \in here : attempt[s] = "connected"} IN
          /\ opened' = Cardinality(reached)
          /\ opened' <= MaxSessions
          /\ open' = 1..opened'
          /\ \E id \in Bijection(reached, 1..opened') :
               sessions' = [s \in Servers |-> IF s \in reached THEN id[s] ELSE NoSession]
          /\ status' = [s \in Servers |-> IF s \in here THEN StatusAfter(attempt[s]) ELSE "none"]
          /\ offered' = reached
          /\ UNCHANGED dead
  /\ UNCHANGED <<row, call, flight, forgotten>>

(* "/mcp add": Connect under a fresh id, then the row. A server that could *)
(* not be reached leaves nothing; a row that could not be written leaves   *)
(* the session and its tools.                                              *)
AddServer(s) ==
  /\ AtPrompt
  /\ row[s] = "to come"
  /\ status[s] = "none"
  /\ opened < MaxSessions
  /\ opened' = opened + 1
  /\ open' = open \cup {opened'}
  /\ sessions' = [sessions EXCEPT ![s] = opened']
  /\ status' = [status EXCEPT ![s] = "connected"]
  /\ offered' = offered \cup {s}
  /\ row' \in {row, [row EXCEPT ![s] = "present"]}
  /\ UNCHANGED <<dead, call, flight, stage, forgotten>>

(* Disconnect: the session, the status and the tools of the server go.     *)
Disconnect(s) ==
  /\ open' = open \ {sessions[s]}
  /\ sessions' = [sessions EXCEPT ![s] = NoSession]
  /\ status' = [status EXCEPT ![s] = "none"]
  /\ offered' = offered \ {s}

(* Faulty: the command does not wait for the tool calls.                   *)
RemoveServerAtOnce(s) ==
  /\ stage = "terminal"
  /\ row[s] = "present"
  /\ row' = [row EXCEPT ![s] = "removed"]
  /\ Disconnect(s)
  /\ forgotten' = forgotten \cup {s}
  /\ UNCHANGED <<opened, dead, call, flight, stage>>

(* "/mcp remove": the row first; if it is gone already, or cannot be       *)
(* deleted, nothing else happens.                                          *)
RemoveServer(s) ==
  /\ AtPrompt
  /\ row[s] = "present"
  /\ row' = [row EXCEPT ![s] = "removed"]
  /\ Disconnect(s)
  /\ forgotten' = forgotten \cup {s}
  /\ UNCHANGED <<opened, dead, call, flight, stage>>

(* "/mcp refresh": servers marked connected that have a session are asked  *)
(* for their tools again; every other listed server loses its tools.       *)
Refresh ==
  /\ AtPrompt
  /\ LET listed == {s \in Servers : status[s] # "none"}
         asked  == {s \in listed : sessions[s] # NoSession /\ status[s] \in {"connected", "half"}}
     IN  \E answering \in SUBSET {s \in asked : Live(sessions[s])} :
           /\ status' = [s \in Servers |-> IF s \in answering THEN "connected"
                                           ELSE IF s \in asked THEN "half" ELSE status[s]]
           /\ offered' = (offered \ listed) \cup answering
  /\ UNCHANGED <<row, sessions, wire, call, flight, stage, forgotten>>

(* Close, when the process ends: the terminal has returned to its prompt,  *)
(* the server may still have requests at work.                             *)
Close ==
  /\ AtPrompt \/ stage = "server"
  /\ stage' = "down"
  /\ open' = open \ {sessions[s] : s \in Servers}
  /\ sessions' = [s \in Servers |-> NoSession]
  /\ UNCHANGED <<row, status, offered, opened, dead, call, flight, forgotten>>
-----------------------------------------------------------------------------
Goto(c, place) == call' = [call EXCEPT ![c].pc = place]

(* A tool of s is called.                                                  *)
Execute(c, s) ==
  /\ call[c].pc = "idle"
  /\ stage \in Kinds
  /\ s \in offered
  /\ call' = [call EXCEPT ![c].pc = "ensure", ![c].server = s]
  /\ UNCHANGED <<row, manager, wire, flight, stage, forgotten>>

(* EnsureConnected and Reconnect begin with the row of the server: one     *)
(* another process has removed cannot be called any more. The read itself  *)
(* may fail, and does when the context is done.                            *)
LoadConfig(c) ==
  /\ call[c].pc \in {"ensure", "reconnect"}
  /\ \/ row[call[c].server] = "present" /\ ~call[c].cancelled
        /\ Goto(c, IF call[c].pc = "ensure" THEN "take" ELSE "join")
     \/ Goto(c, "failed")
  /\ UNCHANGED <<row, manager, wire, flight, stage, forgotten>>

TakeSession(c) ==
  /\ call[c].pc = "take"
  /\ LET n == sessions[call[c].server] IN
     call' = [call EXCEPT ![c].pc = IF n = NoSession THEN "join" ELSE "first",
                          ![c].session = n]
  /\ UNCHANGED <<row, manager, wire, flight, stage, forgotten>>

(* CallTool comes back: with a result (an error of the tool is one), or    *)
(* with an error. An error that isReconnectableCallError knows comes from  *)
(* a connection that is lost or that this process has closed.              *)
ToolAnswers(c) ==
  /\ call[c].pc \in {"first", "second"}
  /\ Live(call[c].session)
  /\ Goto(c, "done")
  /\ UNCHANGED <<row, manager, wire, flight, stage, forgotten>>

ToolFails(c) ==
  /\ call[c].pc \in {"first", "second"}
  /\ Goto(c, "failed")
  /\ UNCHANGED <<row, manager, wire, flight, stage, forgotten>>

ConnectionFails(c) ==
  /\ call[c].pc = "first"
  /\ ~Live(call[c].session)
  /\ call' = [call EXCEPT ![c].pc = "reconnect", ![c].failedOn = call[c].session]
  /\ UNCHANGED <<row, manager, wire, flight, stage, forgotten>>

(* singleflight: the first to come starts the reconnection and runs it     *)
(* with its own context; the others wait for the one in progress, at       *)
(* whatever step it is, and cannot leave it when they are cancelled.       *)
Join(c) ==
  /\ call[c].pc = "join"
  /\ LET s     == call[c].server
         first == flight[s].step = "none"
     IN  /\ call' = [call EXCEPT ![c].pc = "waiting", ![c].leads = first]
         /\ flight' = IF first THEN [flight EXCEPT ![s].step = "dial"] ELSE flight
  /\ UNCHANGED <<row, manager, wire, stage, forgotten>>
-----------------------------------------------------------------------------
Waiting(s) == {c \in Calls : call[c].pc = "waiting" /\ call[c].server = s}

Dial(s) ==
  /\ flight[s].step = "dial"
  /\ opened < MaxSessions
  /\ opened' = opened + 1
  /\ open' = open \cup {opened'}
  /\ flight' = [flight EXCEPT ![s].step = "list", ![s].session = opened']
  /\ UNCHANGED <<row, manager, dead, call, stage, forgotten>>

ListTools(s) ==
  /\ flight[s].step = "list"
  /\ Live(flight[s].session)
  /\ flight' = [flight EXCEPT ![s].step = "store"]
  /\ UNCHANGED <<row, manager, wire, call, stage, forgotten>>

(* Faulty: a session whose tools could not be listed is left open.         *)
ReconnectFailsOpen(s) ==
  /\ flight[s].step \in {"dial", "list"}
  /\ status' = [status EXCEPT ![s] =
       IF @ = "none" THEN @ ELSE StatusAfter(IF flight[s].step = "dial" THEN "unreachable" ELSE "unlisted")]
  /\ call' = [c \in Calls |-> IF c \in Waiting(s) THEN [call[c] EXCEPT !.pc = "failed"] ELSE call[c]]
  /\ flight' = [flight EXCEPT ![s] = NoFlight]
  /\ UNCHANGED <<row, sessions, offered, wire, stage, forgotten>>


(* The server is not reached, or does not list its tools; a context that   *)
(* is done has the same effect. applyReconnectFailure touches the status   *)
(* only: the session that was found broken stays where it was.             *)
ReconnectFails(s) ==
  /\ flight[s].step \in {"dial", "list"}
  /\ status' = [status EXCEPT ![s] =
       IF @ = "none" THEN @ ELSE StatusAfter(IF flight[s].step = "dial" THEN "unreachable" ELSE "unlisted")]
  /\ open' = open \ {flight[s].session}
  /\ call' = [c \in Calls |-> IF c \in Waiting(s) THEN [call[c] EXCEPT !.pc = "failed"] ELSE call[c]]
  /\ flight' = [flight EXCEPT ![s] = NoFlight]
  /\ UNCHANGED <<row, sessions, offered, opened, dead, stage, forgotten>>

(* Faulty: the displaced session is closed, the new one is not stored.     *)
KeepDisplaced(s) ==
  /\ flight[s].step = "store"
  /\ status' = [status EXCEPT ![s] = "connected"]
  /\ offered' = offered \cup {s}
  /\ flight' = [flight EXCEPT ![s].step = "close", ![s].displaced = sessions[s]]
  /\ UNCHANGED <<row, sessions, wire, call, stage, forgotten>>

(* storeConnectionState, under the lock.                                   *)
StoreConnectionState(s) ==
  /\ flight[s].step = "store"
  /\ sessions' = [sessions EXCEPT ![s] = flight[s].session]
  /\ status' = [status EXCEPT ![s] = "connected"]
  /\ offered' = offered \cup {s}
  /\ flight' = [flight EXCEPT ![s].step = "close", ![s].displaced = sessions[s]]
  /\ UNCHANGED <<row, wire, call, stage, forgotten>>

(* Outside the lock: the displaced session is closed, which may take a     *)
(* while, and only then do the calls that wait receive the new one.        *)
CloseDisplaced(s) ==
  /\ flight[s].step = "close"
  /\ open' = open \ {flight[s].displaced}
  /\ call' = [c \in Calls |->
       IF c \in Waiting(s)
       THEN [call[c] EXCEPT !.pc = IF call[c].failedOn = NoSession THEN "first" ELSE "second",
                            !.session = flight[s].session]
       ELSE call[c]]
  /\ flight' = [flight EXCEPT ![s] = NoFlight]
  /\ UNCHANGED <<row, manager, opened, dead, stage, forgotten>>
-----------------------------------------------------------------------------
(* A network error, or the restart of the server.                          *)
LoseConnection(n) ==
  /\ Live(n)
  /\ dead' = dead \cup {n}
  /\ UNCHANGED <<row, manager, opened, open, call, flight, stage, forgotten>>

(* Another process removes the row of a server.                            *)
RowRemovedElsewhere(s) ==
  /\ row[s] = "present"
  /\ row' = [row EXCEPT ![s] = "removed"]
  /\ UNCHANGED <<manager, wire, call, flight, stage, forgotten>>

(* The client of a request of the server goes away, or its time is over.   *)
Cancel(c) ==
  /\ stage # "terminal"
  /\ Active(c)
  /\ ~call[c].cancelled
  /\ call' = [call EXCEPT ![c].cancelled = TRUE]
  /\ UNCHANGED <<row, manager, wire, flight, stage, forgotten>>

CallReturns(c) == ToolAnswers(c) \/ ToolFails(c) \/ ConnectionFails(c)

Step(c) ==
  \/ LoadConfig(c) \/ TakeSession(c)
  \/ CallReturns(c)
  \/ Join(c)

Reconnection(s) ==
  \/ Dial(s) \/ ListTools(s) \/ ReconnectFails(s)
  \/ StoreConnectionState(s) \/ CloseDisplaced(s)

Next ==
  \/ ConnectAll \/ Refresh \/ Close
  \/ \E c \in Calls : (\E s \in Servers : Execute(c, s)) \/ Step(c) \/ Cancel(c)
  \/ \E s \in Servers : \/ AddServer(s) \/ RemoveServer(s)
                        \/ Reconnection(s)
                        \/ RowRemovedElsewhere(s)
  \/ \E n \in SessionIds : LoseConnection(n)

(* The context a reconnection runs with, its leader's, is done.            *)
LeaderCancelled(s) == \E c \in Waiting(s) : call[c].leads /\ call[c].cancelled

(* The reconnection waits for its server, and nothing sets a term to that: *)
(* for the list of its tools, unless the leader is cancelled, or for the   *)
(* end of the displaced session. (The dial has a deadline of 15 seconds.)  *)
HeldByServer(s) ==
  \/ flight[s].step = "list" /\ ~LeaderCancelled(s)
  \/ flight[s].step = "close" /\ flight[s].displaced # NoSession

(* Only what the process does alone, what has a deadline and what is       *)
(* cancelled is sure to go on; a server may keep a tool call, the list of  *)
(* its tools or the closing of a session for ever.                         *)
Spec ==
  /\ Init
  /\ [][Next]_vars
  /\ \A c \in Calls : /\ WF_vars(LoadConfig(c) \/ TakeSession(c) \/ Join(c))
                      /\ WF_vars(call[c].cancelled /\ CallReturns(c))
  /\ \A s \in Servers : WF_vars(~HeldByServer(s) /\ Reconnection(s))
-----------------------------------------------------------------------------
(* Every session this process has open can be found again: it is the one   *)
(* its server is mapped to, or a reconnection is about to store it, close  *)
(* it, or close it because it was displaced. However calls, failures and   *)
(* commands interleave, none is left behind (manager.go:214-248, 396-443). *)
NoSessionLeaked ==
  \A n \in open : \E s \in Servers :
    n \in {sessions[s], flight[s].session, flight[s].displaced}

(* EnsureConnected never hands out a session this process has closed: what *)
(* the map holds may have been lost by the network, but was not closed     *)
(* here, whichever reconnection displaced whichever session.               *)
StoredSessionsAreOpen ==
  \A s \in Servers : sessions[s] # NoSession => sessions[s] \in open

(* A server removed at this terminal is forgotten for good: no late        *)
(* reconnection brings back its session, its tools or its status.          *)
RemovedServersAreForgotten ==
  \A s \in forgotten :
    /\ sessions[s] = NoSession
    /\ status[s] = "none"
    /\ s \notin offered
    /\ flight[s] = NoFlight

(* What "/mcp list" shows: a server said to be connected, without an       *)
(* error, has a session and offers its tools, until the process goes down; *)
(* and no tool is offered of a server the list does not show.              *)
StatusIsTrue ==
  /\ stage # "down" => \A s \in Servers : status[s] = "connected" =>
       sessions[s] # NoSession /\ s \in offered
  /\ \A s \in offered : status[s] # "none"


(* The comment of Reconnect (manager.go:122): it recreates the session. As *)
(* long as the process is up, a call whose connection failed is given      *)
(* another session to retry on.                                            *)
ReconnectRecreates ==
  stage \in Kinds =>
    \A c \in Calls : call[c].pc = "second" => call[c].session # call[c].failedOn
=============================================================================
