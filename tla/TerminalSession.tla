----------------------------- MODULE TerminalSession -----------------------------
(***************************************************************************)
(* The interactive session: its loop (talk/cmd/cli/main.go), its "/session"*)
(* commands (cmd_session.go), the lines it reads and remembers (reader.go) *)
(* and the session it lets the manager talk in (SetScope).                 *)
(*                                                                         *)
(* Each terminal is one goroutine, but several may run at a time: they     *)
(* share the table of sessions and the file of the lines typed. A list is  *)
(* shown by one step and a number chosen from it by another.               *)
(*                                                                         *)
(* What is abstracted: a turn is one step (module ChatTurns has its own),  *)
(* "/mcp" is in module McpSessions, and the model, the thinking level and  *)
(* what is only printed are left out. Of a line its text is kept, which a  *)
(* command has as well as a question; of what a failing write leaves, that *)
(* it is no line anybody typed.                                            *)
(***************************************************************************)
EXTENDS Naturals, SequencesExt

CONSTANTS
  Terminals,
  Ids,        \* of sessions, used again when nothing refers to them
  NoId,
  Texts,      \* what lines may say
  TooLong,    \* those of 64 KiB or more, which a bufio.Scanner does not read
  NoText,     \* stands for what failing writes left
  MaxLines    \* bound: lines in the file

(* What the constants must satisfy (assumed in TalkCommand).               *)
Sound ==
  /\ NoId \notin Ids
  /\ TooLong \subseteq Texts /\ NoText \notin Texts
  /\ MaxLines \in Nat

VARIABLES
  table,    \* ids of the sessions stored, newest first
  file      \* ~/.talk/history
VARIABLES   \* of each terminal:
  place,    \* off, or what its prompt asks for
  scope,    \* App.Scope: the session shown as current
  manager,  \* the session ids of the manager and of its context builder
  listed,   \* the sessions on show, while a number is asked for
  entries   \* historyEntries; the last of them is lastPersisted

(* A line of the file: the text it ends with, NoText while it has no end;  *)
(* whether a failing write left something before that; and whether it has  *)
(* grown too long.                                                         *)
Line == [end : Texts \cup {NoText}, spoiled : BOOLEAN, long : BOOLEAN]

termvars == <<table, file, place, scope, manager, listed, entries>>

TypeOK ==
  /\ table \in Seq(Ids)
  /\ file \in Seq(Line) /\ Len(file) <= MaxLines
  /\ place \in [Terminals -> {"off", "prompt", "switch", "remove"}]
  /\ scope \in [Terminals -> Ids \cup {NoId}]
  /\ manager \in [Terminals -> [stores : Ids \cup {NoId}, reads : Ids \cup {NoId}]]
  /\ listed \in [Terminals -> Seq(Ids)]
  /\ entries \in [Terminals -> Seq(Texts \cup {NoText})]

Init ==
  /\ table = <<>>
  /\ file = <<>>
  /\ place = [t \in Terminals |-> "off"]
  /\ scope = [t \in Terminals |-> NoId]
  /\ manager = [t \in Terminals |-> [stores |-> NoId, reads |-> NoId]]
  /\ listed = [t \in Terminals |-> <<>>]
  /\ entries = [t \in Terminals |-> <<>>]
-----------------------------------------------------------------------------
InUse == ToSet(table) \cup UNION {ToSet(listed[t]) \cup {scope[t]} : t \in Terminals}

(* GenerateSessionID: an id nobody has.                                    *)
Fresh == CHOOSE id \in Ids : id \notin InUse

(* Faulty: the context builder goes on reading the old session.            *)
SetScopeHalf(t, id) ==
  /\ scope' = [scope EXCEPT ![t] = id]
  /\ manager' = [manager EXCEPT ![t].stores = id]

(* App.Scope and SetScope of the manager.                                  *)
SetScope(t, id) ==
  /\ scope' = [scope EXCEPT ![t] = id]
  /\ manager' = [manager EXCEPT ![t] = [stores |-> id, reads |-> id]]

Repeated(t, text) == entries[t] # <<>> /\ text = Last(entries[t])

Unfinished == file # <<>> /\ Last(file).end = NoText

(* The file is appended to: what is written goes on where a failing write  *)
(* stopped, if one did.                                                    *)
AppendToFile(end, text) ==
  LET others == IF Unfinished THEN Front(file) ELSE file IN
  /\ Len(others) < MaxLines
  /\ \E long \in BOOLEAN :
       /\ (Unfinished /\ Last(file).long) \/ end \in TooLong => long
       /\ long => Unfinished \/ text \in TooLong
       /\ file' = Append(others, [end |-> end, spoiled |-> Unfinished \/ end = NoText, long |-> long])

(* persistHistory: a line that repeats the last one of its terminal is not *)
(* written.                                                                *)
Write(t, text) == ~Repeated(t, text) /\ AppendToFile(text, text)

(* WriteString fails after a part of the line.                             *)
WriteFails(t, text) == ~Repeated(t, text) /\ AppendToFile(NoText, text)

(* Faulty: a line is remembered whether it could be written or not.        *)
RememberUnsaved(t) ==
  \/ UNCHANGED <<file, entries>>
  \/ \E text \in Texts :
       /\ Write(t, text) \/ WriteFails(t, text)
       /\ entries' = [entries EXCEPT ![t] = Append(@, text)]

(* ReadLine: a line is remembered when it has been written. One that is    *)
(* blank, repeated or could not be written is used and not remembered.     *)
ReadLine(t) ==
  \/ UNCHANGED <<file, entries>>
  \/ \E text \in Texts :
       \/ Write(t, text) /\ entries' = [entries EXCEPT ![t] = Append(@, text)]
       \/ WriteFails(t, text) /\ UNCHANGED entries

GoTo(t, p) == place' = [place EXCEPT ![t] = p]

(* loadHistoryEntries: it fails for good when a line is too long.          *)
Loadable == \A i \in DOMAIN file : ~file[i].long

EntryOf(line) == IF line.spoiled THEN NoText ELSE line.end

(* run: the lines of earlier sessions are loaded; the session is a new one.*)
Start(t) ==
  /\ place[t] = "off"
  /\ Loadable
  /\ Ids \ InUse # {}
  /\ GoTo(t, "prompt")
  /\ entries' = [entries EXCEPT ![t] = [i \in DOMAIN file |-> EntryOf(file[i])]]
  /\ SetScope(t, Fresh)
  /\ UNCHANGED <<table, file, listed>>

(* "/q", the end of the input, or a signal, at any prompt.                 *)
Leave(t) ==
  /\ place[t] # "off"
  /\ \/ UNCHANGED file
     \/ place[t] = "prompt" /\ \E text \in Texts : Write(t, text) \/ WriteFails(t, text)
  /\ GoTo(t, "off")
  /\ entries' = [entries EXCEPT ![t] = <<>>]
  /\ listed' = [listed EXCEPT ![t] = <<>>]
  /\ SetScope(t, NoId)
  /\ UNCHANGED table

(* runSession: a question, whose message makes the row of the session if   *)
(* it is stored and there is none; or a command that leaves all this alone.*)
Chat(t) ==
  /\ place[t] = "prompt"
  /\ ReadLine(t)
  /\ \/ /\ manager[t].stores \notin ToSet(table)
        /\ table' = <<manager[t].stores>> \o table
     \/ UNCHANGED table
  /\ UNCHANGED <<place, scope, manager, listed>>

(* cmdSessionNew                                                           *)
New(t) ==
  /\ place[t] = "prompt"
  /\ Ids \ InUse # {}
  /\ ReadLine(t)
  /\ SetScope(t, Fresh)
  /\ UNCHANGED <<table, place, listed>>

(* cmdSessionList and cmdSessionRemove up to their prompt.                 *)
Show(t) ==
  /\ place[t] = "prompt"
  /\ table # <<>>
  /\ ReadLine(t)
  /\ \E p \in {"switch", "remove"} : GoTo(t, p)
  /\ listed' = [listed EXCEPT ![t] = table]
  /\ UNCHANGED <<table, scope, manager>>

BackToPrompt(t) ==
  /\ GoTo(t, "prompt")
  /\ listed' = [listed EXCEPT ![t] = <<>>]

(* Enter, or no valid choice.                                              *)
Cancel(t) ==
  /\ place[t] \in {"switch", "remove"}
  /\ ReadLine(t)
  /\ BackToPrompt(t)
  /\ UNCHANGED <<table, scope, manager>>

(* Faulty: the number is looked up in the table as it is now.              *)
ChosenNow(t, n) == table[IF n <= Len(table) THEN n ELSE Len(table)]

Chosen(t, n) == listed[t][n]

(* The rest of cmdSessionList.                                             *)
Switch(t) ==
  /\ place[t] = "switch"
  /\ ReadLine(t)
  /\ \/ \E n \in DOMAIN listed[t] : SetScope(t, Chosen(t, n))
     \/ Ids \ InUse # {} /\ SetScope(t, Fresh)
  /\ BackToPrompt(t)
  /\ UNCHANGED table

(* The rest of cmdSessionRemove: not the current session. DeleteSession    *)
(* may fail (Cancel), and does nothing to a row that is gone.              *)
DeleteSession(t) ==
  /\ place[t] = "remove"
  /\ ReadLine(t)
  /\ \E n \in DOMAIN listed[t] :
       /\ Chosen(t, n) # scope[t]
       /\ \/ Chosen(t, n) \notin ToSet(table) /\ UNCHANGED table
          \/ \E i \in DOMAIN table :
               table[i] = Chosen(t, n) /\ table' = RemoveAt(table, i)
  /\ BackToPrompt(t)
  /\ UNCHANGED <<scope, manager>>

Next ==
  \E t \in Terminals :
    \/ Start(t) \/ Leave(t) \/ Chat(t) \/ New(t)
    \/ Show(t) \/ Cancel(t) \/ Switch(t) \/ DeleteSession(t)

Spec == Init /\ [][Next]_termvars
-----------------------------------------------------------------------------
(* What a terminal remembers is in the file, in that order, whoever else   *)
(* writes and fails to: so its next start, or that of another terminal,    *)
(* offers it again, at worst behind what a failing write had left on its   *)
(* line (reader.go:51, 162-181). That leftover is nobody's line.           *)
HistoryIsKept ==
  \A t \in Terminals :
    LET own == {i \in DOMAIN entries[t] : entries[t][i] # NoText} IN
    \E at \in [own -> DOMAIN file] :
      \A i, j \in own :
        file[at[i]].end = entries[t][i] /\ (i < j => at[i] < at[j])

(* A session is stored only as the current one of a terminal, and goes     *)
(* only where it was on show and is not the current one, whatever the      *)
(* others add and remove between a list and the choice from it.            *)
SessionsAsShown ==
  [][/\ \A id \in ToSet(table') \ ToSet(table) :
          \E t \in Terminals : place[t] = "prompt" /\ scope[t] = id
     /\ \A id \in ToSet(table) \ ToSet(table') :
          \E t \in Terminals : place[t] = "remove" /\ place'[t] = "prompt"
                               /\ id \in ToSet(listed[t]) \ {scope[t]}
     /\ \A t \in Terminals :
          /\ place[t] = "switch" /\ place'[t] = "prompt" =>
               scope'[t] = scope[t] \/ scope'[t] \in ToSet(listed[t]) \/ scope'[t] \notin InUse
          /\ manager'[t] = [stores |-> scope'[t], reads |-> scope'[t]]]_termvars
=============================================================================
