------------------------------- MODULE TalkCommand -------------------------------
(***************************************************************************)
(* The program "talk": without a subcommand it is an interactive session,  *)
(* with "serve" it is the server (newRootCmd, talk/cmd/cli/main.go:30-54). *)
(* The two are never one process. Here a run of the program is the server, *)
(* or it is terminals that share their files.                              *)
(***************************************************************************)
EXTENDS ServeProcess

CONSTANTS Terminals, Ids, NoId, Texts, TooLong, NoText, MaxLines

VARIABLES command, table, file, place, scope, manager, listed, entries

terminals == <<table, file, place, scope, manager, listed, entries>>

Terminal == INSTANCE TerminalSession

ASSUME TerminalAssumption == Terminal!Sound

TalkInit ==
  /\ command \in {"session", "serve"}
  /\ Init
  /\ Terminal!Init

Serve   == command = "serve" /\ Next /\ UNCHANGED <<command, terminals>>
Session == command = "session" /\ Terminal!Next /\ UNCHANGED <<command, vars>>

TalkNext == Serve \/ Session

TalkSpec == TalkInit /\ [][TalkNext]_<<command, vars, terminals>> /\ Fairness

-----------------------------------------------------------------------------
(* What the server and the terminals keep has its type.                    *)
TypesOK == TypeOK /\ Terminal!TypeOK

HistoryIsKept   == Terminal!HistoryIsKept
SessionsAsShown == Terminal!SessionsAsShown
=============================================================================
