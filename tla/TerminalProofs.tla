----------------------------- MODULE TerminalProofs -----------------------------
(***************************************************************************)
(* Theorems about TerminalSession, for any terminals, session ids and      *)
(* lines that satisfy Sound.                                               *)
(***************************************************************************)
EXTENDS TerminalSession, SequenceTheorems, TLAPS

(* The manager talks in the session shown, which is none at no time but    *)
(* before the start and after the end.                                     *)
ScopesAgree ==
  \A t \in Terminals :
    /\ manager[t] = [stores |-> scope[t], reads |-> scope[t]]
    /\ place[t] # "off" => scope[t] \in Ids

IInv == TypeOK /\ ScopesAgree /\ HistoryIsKept

Words == Texts \cup {NoText}

(* Some texts are found in a file, in that order.                          *)
Own(lines) == {i \in DOMAIN lines : lines[i] # NoText}
Kept(lines, in) ==
  \E at \in [Own(lines) -> DOMAIN in] :
    \A i, j \in Own(lines) : in[at[i]].end = lines[i] /\ (i < j => at[i] < at[j])
-----------------------------------------------------------------------------
LEMMA ElementsOf ==
  ASSUME NEW S, NEW s \in Seq(S)
  PROVE  /\ \A x : x \in ToSet(s) <=> \E i \in 1..Len(s) : s[i] = x
         /\ ToSet(s) \subseteq S
         /\ Len(s) \in Nat /\ DOMAIN s = 1..Len(s)
  <1>1. Len(s) \in Nat /\ DOMAIN s = 1..Len(s)
    BY LenProperties
  <1>2. \A i \in 1..Len(s) : s[i] \in S
    BY ElementOfSeq
  <1> QED BY <1>1, <1>2 DEF ToSet

(* A new row comes first.                                                  *)
LEMMA RowAdded ==
  ASSUME NEW S, NEW s \in Seq(S), NEW x \in S
  PROVE  /\ <<x>> \o s \in Seq(S)
         /\ ToSet(<<x>> \o s) = {x} \cup ToSet(s)
  <1> DEFINE u == <<x>> \o s
  <1>1. <<x>> \in Seq(S) /\ Len(<<x>>) = 1 /\ <<x>>[1] = x
    OBVIOUS
  <1>2. /\ u \in Seq(S) /\ Len(u) = 1 + Len(s)
        /\ \A i \in 1..(1 + Len(s)) : u[i] = IF i <= 1 THEN <<x>>[i] ELSE s[i - 1]
    BY <1>1, ConcatProperties
  <1>3. Len(s) \in Nat
    BY ElementsOf
  <1> HIDE DEF u
  <1>4. u[1] = x /\ \A i \in 1..Len(s) : i + 1 \in 1..Len(u) /\ u[i + 1] = s[i]
    BY <1>1, <1>2, <1>3
  <1>5. \A i \in 1..Len(u) : i = 1 \/ (i - 1 \in 1..Len(s) /\ u[i] = s[i - 1])
    BY <1>2, <1>3
  <1>6. ASSUME NEW y \in ToSet(u)
        PROVE  y \in {x} \cup ToSet(s)
    BY <1>2, <1>4, <1>5, <1>6, ElementsOf
  <1>7. ASSUME NEW y \in {x} \cup ToSet(s)
        PROVE  y \in ToSet(u)
    <2>1. 1 \in 1..Len(u)
      BY <1>2, <1>3
    <2> QED BY <1>2, <1>4, <2>1, ElementsOf
  <1> QED BY <1>2, <1>6, <1>7 DEF u

(* A row that goes leaves the others.                                      *)
LEMMA RowRemoved ==
  ASSUME NEW S, NEW s \in Seq(S), NEW n \in 1..Len(s)
  PROVE  /\ RemoveAt(s, n) \in Seq(S)
         /\ ToSet(RemoveAt(s, n)) \subseteq ToSet(s)
         /\ ToSet(s) \subseteq ToSet(RemoveAt(s, n)) \cup {s[n]}
  <1> DEFINE before == SubSeq(s, 1, n - 1)
             after  == SubSeq(s, n + 1, Len(s))
             u      == RemoveAt(s, n)
  <1>1. Len(s) \in Nat /\ n \in Nat /\ 1 <= n /\ n <= Len(s)
    BY ElementsOf
  <1>2. /\ before \in Seq(S) /\ Len(before) = n - 1
        /\ \A i \in 1..(n - 1) : before[i] = s[i]
    <2>1. \A i \in 1..(n - 1) : s[i] \in S
      BY <1>1, ElementOfSeq
    <2> QED BY <1>1, <2>1, SubSeqProperties
  <1>3. /\ after \in Seq(S) /\ Len(after) = Len(s) - n
        /\ \A i \in 1..(Len(s) - n) : after[i] = s[n + i]
    <2>1. \A i \in (n + 1)..Len(s) : s[i] \in S
      BY <1>1, ElementOfSeq
    <2>2. /\ after \in Seq(S)
          /\ Len(after) = IF n + 1 <= Len(s) THEN Len(s) - (n + 1) + 1 ELSE 0
          /\ \A i \in 1..(Len(s) - (n + 1) + 1) : after[i] = s[(n + 1) + i - 1]
      BY <1>1, <2>1, SubSeqProperties
    <2> HIDE DEF after
    <2>3. Len(s) - (n + 1) + 1 = Len(s) - n /\ \A i \in 1..(Len(s) - n) : (n + 1) + i - 1 = n + i
      BY <1>1
    <2>4. Len(after) = Len(s) - n
      <3>1. \A k, m \in Nat : k <= m => (IF k + 1 <= m THEN m - (k + 1) + 1 ELSE 0) = m - k
        OBVIOUS
      <3> QED BY <1>1, <2>2, <3>1
    <2>5. \A i \in 1..(Len(s) - n) : after[i] = s[n + i]
      <3> TAKE i \in 1..(Len(s) - n)
      <3>1. i \in 1..(Len(s) - (n + 1) + 1) /\ (n + 1) + i - 1 = n + i
        BY <1>1, <2>3
      <3>2. after[i] = s[(n + 1) + i - 1]
        BY <2>2, <3>1
      <3> QED BY <3>1, <3>2
    <2> QED BY <2>2, <2>4, <2>5
  <1>4. u = before \o after
    BY DEF RemoveAt
  <1> HIDE DEF before, after, u
  <1>5. /\ u \in Seq(S) /\ Len(u) = Len(s) - 1
        /\ \A i \in 1..Len(u) : u[i] = IF i <= n - 1 THEN before[i] ELSE after[i - (n - 1)]
    <2>1. /\ u \in Seq(S) /\ Len(u) = Len(before) + Len(after)
          /\ \A i \in 1..(Len(before) + Len(after)) :
               u[i] = IF i <= Len(before) THEN before[i] ELSE after[i - Len(before)]
      BY <1>2, <1>3, <1>4, ConcatProperties
    <2>2. Len(before) + Len(after) = Len(s) - 1
      BY <1>1, <1>2, <1>3
    <2> QED BY <1>2, <2>1, <2>2
  <1>6. \A i \in 1..(n - 1) : i \in 1..Len(u) /\ u[i] = s[i]
    <2> TAKE i \in 1..(n - 1)
    <2>1. \A k, m \in Nat : k <= m => \A j \in 1..(k - 1) : j \in 1..(m - 1) /\ j <= k - 1
      OBVIOUS
    <2>2. i \in 1..Len(u) /\ i <= n - 1
      BY <1>1, <1>5, <2>1
    <2> QED BY <1>2, <1>5, <2>2
  <1>7. \A i \in (n + 1)..Len(s) : i - 1 \in 1..Len(u) /\ u[i - 1] = s[i]
    <2> SUFFICES ASSUME NEW i \in (n + 1)..Len(s)
                 PROVE  i - 1 \in 1..Len(u) /\ u[i - 1] = s[i]
      OBVIOUS
    <2>1. /\ i - 1 \in 1..Len(u) /\ ~(i - 1 <= n - 1)
          /\ (i - 1) - (n - 1) = i - n /\ i - n \in 1..(Len(s) - n) /\ n + (i - n) = i
      BY <1>1, <1>5
    <2> QED BY <1>3, <1>5, <2>1
  <1>8. \A i \in 1..Len(s) : i = n \/ i \in 1..(n - 1) \/ i \in (n + 1)..Len(s)
    BY <1>1
  <1>9. \A i \in 1..Len(u) : i \in 1..(n - 1) \/ i + 1 \in (n + 1)..Len(s)
    BY <1>1, <1>5
  <1>10. \A i \in 1..Len(u) : \E j \in 1..Len(s) : u[i] = s[j]
    <2> TAKE i \in 1..Len(u)
    <2>1. CASE i \in 1..(n - 1)
      <3>1. i \in 1..Len(s)
        BY <1>1, <2>1
      <3> QED BY <1>6, <2>1, <3>1
    <2>2. CASE i + 1 \in (n + 1)..Len(s)
      <3>1. i + 1 \in 1..Len(s) /\ (i + 1) - 1 = i
        BY <1>1, <1>5
      <3> QED BY <1>7, <2>2, <3>1
    <2> QED BY <1>9, <2>1, <2>2
  <1>11. \A x \in ToSet(u) : x \in ToSet(s)
    BY <1>5, <1>10, ElementsOf
  <1>12. \A x \in ToSet(s) : x = s[n] \/ x \in ToSet(u)
    <2> SUFFICES ASSUME NEW i \in 1..Len(s)
                 PROVE  s[i] = s[n] \/ \E j \in 1..Len(u) : u[j] = s[i]
      BY <1>5, ElementsOf
    <2> QED BY <1>6, <1>7, <1>8
  <1> QED BY <1>5, <1>11, <1>12 DEF u
-----------------------------------------------------------------------------
(* What is in a file is still there when a line is added, ...              *)
LEMMA KeptLonger ==
  ASSUME NEW lines \in Seq(Words), NEW in \in Seq(Line), NEW line \in Line, Kept(lines, in)
  PROVE  Kept(lines, Append(in, line))
  <1> DEFINE in2 == Append(in, line)
  <1>1. /\ DOMAIN in = 1..Len(in) /\ DOMAIN in2 = 1..Len(in2) /\ Len(in) \in Nat
        /\ Len(in2) = Len(in) + 1 /\ \A i \in 1..Len(in) : in2[i] = in[i]
    BY AppendProperties, LenProperties
  <1> HIDE DEF in2
  <1>2. PICK at \in [Own(lines) -> DOMAIN in] :
          \A i, j \in Own(lines) : in[at[i]].end = lines[i] /\ (i < j => at[i] < at[j])
    BY DEF Kept
  <1>3. at \in [Own(lines) -> DOMAIN in2]
    BY <1>1
  <1>4. \A i \in Own(lines) : in2[at[i]].end = lines[i]
    BY <1>1, <1>2
  <1> QED BY <1>2, <1>3, <1>4 DEF Kept, in2

(* ... so is the text that line ends with, ...                             *)
LEMMA KeptTogether ==
  ASSUME NEW lines \in Seq(Words), NEW in \in Seq(Line), NEW line \in Line, Kept(lines, in)
  PROVE  Kept(Append(lines, line.end), Append(in, line))
  <1> DEFINE text   == line.end
             in2    == Append(in, line)
             lines2 == Append(lines, text)
             m      == Len(lines) + 1
             n      == Len(in) + 1
  <1>0. text \in Words
    BY DEF Line, Words
  <1>1. /\ DOMAIN in = 1..Len(in) /\ DOMAIN in2 = 1..n /\ Len(in) \in Nat
        /\ in2[n] = line /\ \A i \in 1..Len(in) : in2[i] = in[i]
    BY AppendProperties, LenProperties
  <1>2. /\ DOMAIN lines = 1..Len(lines) /\ DOMAIN lines2 = 1..m /\ Len(lines) \in Nat
        /\ lines2[m] = text /\ \A i \in 1..Len(lines) : lines2[i] = lines[i]
    BY <1>0, AppendProperties, LenProperties
  <1> HIDE DEF in2, lines2
  <1>3. PICK at \in [Own(lines) -> DOMAIN in] :
          \A i, j \in Own(lines) : in[at[i]].end = lines[i] /\ (i < j => at[i] < at[j])
    BY DEF Kept
  <1> DEFINE own == Own(lines2)
             at2 == [i \in own |-> IF i = m THEN n ELSE at[i]]
  <1>4. \A i \in own : i \in Nat /\ (i = m \/ (i \in Own(lines) /\ i < m))
    BY <1>2 DEF Own
  <1>5. \A i \in Own(lines) : i # m /\ at[i] \in 1..Len(in) /\ at[i] < n
    BY <1>1, <1>2 DEF Own
  <1>6. n \in 1..n /\ m \in Nat /\ 1..Len(in) \subseteq 1..n
    BY <1>1, <1>2
  <1>7. at2 \in [own -> 1..n]
    BY <1>4, <1>5, <1>6
  <1>8. \A i \in own : in2[at2[i]].end = lines2[i]
    <2> SUFFICES ASSUME NEW i \in own
                 PROVE  in2[at2[i]].end = lines2[i]
      OBVIOUS
    <2>1. CASE i = m
      BY <1>1, <1>2, <2>1
    <2>2. CASE i \in Own(lines)
      <3>1. at2[i] = at[i] /\ in2[at[i]] = in[at[i]]
        BY <1>1, <1>5, <2>2
      <3>2. lines2[i] = lines[i]
        BY <1>2, <2>2 DEF Own
      <3> QED BY <1>3, <2>2, <3>1, <3>2
    <2> QED BY <1>4, <2>1, <2>2
  <1>9. \A i, j \in own : i < j => at2[i] < at2[j]
    <2> SUFFICES ASSUME NEW i \in own, NEW j \in own, i < j
                 PROVE  at2[i] < at2[j]
      OBVIOUS
    <2>1. i \in Own(lines)
      BY <1>4, <1>6
    <2>2. CASE j = m
      BY <1>5, <2>1, <2>2
    <2>3. CASE j \in Own(lines)
      BY <1>3, <1>5, <2>1, <2>3
    <2> QED BY <1>4, <2>2, <2>3
  <1> HIDE DEF at2, m, n
  <1> QED BY <1>1, <1>7, <1>8, <1>9 DEF Kept, lines2, in2

(* ... and a line without an end is nobody's.                              *)
LEMMA KeptBefore ==
  ASSUME NEW lines \in Seq(Words), NEW in \in Seq(Line), in # <<>>, Last(in).end = NoText,
         Kept(lines, in)
  PROVE  Front(in) \in Seq(Line) /\ Kept(lines, Front(in))
  <1> DEFINE f == Front(in)
  <1>1. Len(in) \in Nat /\ Len(in) # 0 /\ DOMAIN in = 1..Len(in)
    BY LenProperties, EmptySeq
  <1>2. /\ f \in Seq(Line) /\ Len(f) = Len(in) - 1 /\ DOMAIN f = 1..(Len(in) - 1)
        /\ \A i \in 1..(Len(in) - 1) : f[i] = in[i]
    <2>1. \A i \in 1..(Len(in) - 1) : in[i] \in Line
      BY <1>1, ElementOfSeq
    <2> QED BY <1>1, <2>1, SubSeqProperties DEF Front
  <1> HIDE DEF f
  <1>3. PICK at \in [Own(lines) -> DOMAIN in] :
          \A i, j \in Own(lines) : in[at[i]].end = lines[i] /\ (i < j => at[i] < at[j])
    BY DEF Kept
  <1>4. \A i \in Own(lines) : at[i] # Len(in)
    BY <1>3 DEF Own, Last
  <1>5. at \in [Own(lines) -> DOMAIN f]
    <2>1. \A i \in Own(lines) : at[i] \in 1..(Len(in) - 1)
      BY <1>1, <1>4
    <2> QED BY <1>2, <2>1
  <1>6. \A i \in Own(lines) : f[at[i]] = in[at[i]]
    BY <1>2, <1>5
  <1>7. Kept(lines, f)
    BY <1>3, <1>5, <1>6 DEF Kept
  <1> QED BY <1>2, <1>7 DEF f

(* A terminal that starts remembers what is in the file, and nothing is in *)
(* every file.                                                             *)
LEMMA KeptAtFirst ==
  ASSUME NEW in \in Seq(Line)
  PROVE  LET loaded == [i \in DOMAIN in |-> EntryOf(in[i])] IN
         loaded \in Seq(Words) /\ Kept(loaded, in) /\ Kept(<<>>, in)
  <1> DEFINE loaded == [i \in DOMAIN in |-> EntryOf(in[i])]
  <1>1. DOMAIN in = 1..Len(in) /\ Len(in) \in Nat
    BY LenProperties
  <1>2. \A i \in DOMAIN in : EntryOf(in[i]) \in Words
    <2>1. \A i \in DOMAIN in : in[i] \in Line
      BY <1>1, ElementOfSeq
    <2> QED BY <2>1 DEF EntryOf, Line, Words
  <1>3. loaded \in Seq(Words)
    BY <1>1, <1>2, IsASeq
  <1>4. Kept(loaded, in)
    <2> DEFINE at == [i \in Own(loaded) |-> i]
    <2>1. at \in [Own(loaded) -> DOMAIN in]
      BY DEF Own
    <2>2. \A i, j \in Own(loaded) : in[at[i]].end = loaded[i] /\ (i < j => at[i] < at[j])
      BY DEF Own, EntryOf
    <2> QED BY <2>1, <2>2 DEF Kept
  <1>5. Kept(<<>>, in)
    <2> DEFINE at == [i \in {} |-> i]
    <2>1. Own(<<>>) = {} /\ at \in [{} -> DOMAIN in]
      BY DEF Own
    <2> QED BY <2>1 DEF Kept
  <1> QED BY <1>3, <1>4, <1>5
-----------------------------------------------------------------------------
LEMMA FreshIsNew == Ids \ InUse # {} => Fresh \in Ids /\ Fresh \notin InUse
  BY DEF Fresh

LEMMA HistoryInFile == HistoryIsKept <=> \A t \in Terminals : Kept(entries[t], file)
  BY DEF HistoryIsKept, Kept, Own

LEMMA ScopeChanges ==
  ASSUME TypeOK, ScopesAgree, NEW t \in Terminals, NEW id \in Ids \cup {NoId}, SetScope(t, id)
  PROVE  /\ scope' \in [Terminals -> Ids \cup {NoId}]
         /\ manager' \in [Terminals -> [stores : Ids \cup {NoId}, reads : Ids \cup {NoId}]]
         /\ \A q \in Terminals : manager'[q] = [stores |-> scope'[q], reads |-> scope'[q]]
         /\ scope'[t] = id /\ \A q \in Terminals \ {t} : scope'[q] = scope[q]
  BY DEF SetScope, TypeOK, ScopesAgree

(* Whether a text is written or fails to be: what was in the file is there *)
(* before the line that is written.                                        *)
LEMMA LineWritten ==
  ASSUME Sound, TypeOK, NEW end \in Words, NEW text \in Texts, AppendToFile(end, text)
  PROVE  /\ file' \in Seq(Line) /\ Len(file') <= MaxLines
         /\ \E others \in Seq(Line), line \in Line :
              /\ file' = Append(others, line) /\ line.end = end
              /\ \A lines \in Seq(Words) : Kept(lines, file) => Kept(lines, others)
  <1> DEFINE others == IF Unfinished THEN Front(file) ELSE file
  <1>1. PICK long \in BOOLEAN :
          file' = Append(others, [end |-> end, spoiled |-> Unfinished \/ end = NoText,
                                  long |-> long])
    BY DEF AppendToFile
  <1> DEFINE line == [end |-> end, spoiled |-> Unfinished \/ end = NoText, long |-> long]
  <1>2. line \in Line
    BY Zenon DEF Line, Words
  <1>3. Len(others) < MaxLines
    BY DEF AppendToFile
  <1>4. file \in Seq(Line)
    BY DEF TypeOK
  <1>5. others \in Seq(Line) /\ \A lines \in Seq(Words) : Kept(lines, file) => Kept(lines, others)
    <2>1. CASE Unfinished
      <3>1. file # <<>> /\ Last(file).end = NoText
        BY <2>1 DEF Unfinished
      <3>2. Kept(<<>>, file) /\ <<>> \in Seq(Words)
        BY <1>4, KeptAtFirst, EmptySeq
      <3>3. Front(file) \in Seq(Line)
        BY <1>4, <3>1, <3>2, KeptBefore
      <3> QED BY <1>4, <2>1, <3>1, <3>3, KeptBefore
    <2>2. CASE ~Unfinished
      BY <1>4, <2>2
    <2> QED BY <2>1, <2>2
  <1>6. line.end = end /\ file' = Append(others, line)
    BY <1>1
  <1> HIDE DEF others, line
  <1>7. file' \in Seq(Line) /\ Len(file') = Len(others) + 1 /\ Len(others) \in Nat
    BY <1>2, <1>5, <1>6, AppendProperties, LenProperties
  <1>8. Len(file') <= MaxLines
    BY <1>3, <1>7 DEF Sound
  <1> QED BY <1>2, <1>5, <1>6, <1>7, <1>8

(* No line anybody wrote is lost, and one that is written is there.        *)
LEMMA LineKept ==
  ASSUME Sound, TypeOK, NEW end \in Words, NEW text \in Texts, AppendToFile(end, text),
         NEW lines \in Seq(Words), Kept(lines, file)
  PROVE  Kept(lines, file') /\ Kept(Append(lines, end), file')
  BY LineWritten, KeptLonger, KeptTogether

LEMMA LineRead ==
  ASSUME Sound, TypeOK, HistoryIsKept, NEW t \in Terminals, ReadLine(t)
  PROVE  /\ file' \in Seq(Line) /\ Len(file') <= MaxLines
         /\ entries' \in [Terminals -> Seq(Words)]
         /\ HistoryIsKept'
  <1>1. CASE UNCHANGED <<file, entries>>
    <2>0. \A q \in Terminals : Kept(entries'[q], file')
      BY <1>1, HistoryInFile
    <2>1. HistoryIsKept'
      BY <2>0 DEF HistoryIsKept, Kept, Own
    <2> QED BY <1>1, <2>1 DEF TypeOK, Words
  <1>2. ASSUME NEW text \in Texts, Write(t, text), entries' = [entries EXCEPT ![t] = Append(@, text)]
        PROVE  /\ file' \in Seq(Line) /\ Len(file') <= MaxLines
               /\ entries' \in [Terminals -> Seq(Words)]
               /\ HistoryIsKept'
    <2>1. AppendToFile(text, text) /\ text \in Words
      BY <1>2 DEF Write, Words
    <2>2. \A q \in Terminals : entries[q] \in Seq(Words)
      BY DEF TypeOK, Words
    <2>3. /\ entries'[t] = Append(entries[t], text)
          /\ \A q \in Terminals \ {t} : entries'[q] = entries[q]
      BY <1>2 DEF TypeOK
    <2>4. Append(entries[t], text) \in Seq(Words)
      BY <2>1, <2>2, AppendProperties
    <2>5. entries' \in [Terminals -> Seq(Words)]
      BY <1>2, <2>4 DEF TypeOK, Words
    <2>6. ASSUME NEW q \in Terminals
          PROVE  Kept(entries'[q], file')
      <3>1. Kept(entries[q], file)
        BY HistoryInFile
      <3>2. Kept(entries[q], file') /\ Kept(Append(entries[q], text), file')
        BY <2>1, <2>2, <3>1, LineKept
      <3> QED BY <2>3, <3>2
    <2>7. HistoryIsKept'
      BY <2>6 DEF HistoryIsKept, Kept, Own
    <2> QED BY <2>1, <2>5, <2>7, LineWritten
  <1>3. ASSUME NEW text \in Texts, WriteFails(t, text), UNCHANGED entries
        PROVE  /\ file' \in Seq(Line) /\ Len(file') <= MaxLines
               /\ entries' \in [Terminals -> Seq(Words)]
               /\ HistoryIsKept'
    <2>1. AppendToFile(NoText, text) /\ NoText \in Words
      BY <1>3 DEF WriteFails, Words
    <2>2. entries \in [Terminals -> Seq(Words)]
      BY DEF TypeOK, Words
    <2>3. \A q \in Terminals : Kept(entries'[q], file')
      BY <1>3, <2>1, <2>2, HistoryInFile, LineKept
    <2>4. HistoryIsKept'
      BY <2>3 DEF HistoryIsKept, Kept, Own
    <2> QED BY <1>3, <2>1, <2>2, <2>4, LineWritten
  <1> QED BY <1>1, <1>2, <1>3 DEF ReadLine
-----------------------------------------------------------------------------
LEMMA StartKeeps ==
  ASSUME Sound, IInv, NEW t \in Terminals, Start(t)
  PROVE  IInv'
  <1> USE DEF IInv
  <1>1. /\ UNCHANGED <<table, file, listed>> /\ SetScope(t, Fresh) /\ Fresh \in Ids
        /\ place' = [place EXCEPT ![t] = "prompt"] /\ entries' = [entries EXCEPT ![t] = [i \in DOMAIN file |-> EntryOf(file[i])]]
    BY FreshIsNew DEF Start, GoTo
  <1> DEFINE loaded == [i \in DOMAIN file |-> EntryOf(file[i])]
  <1>2. file \in Seq(Line) /\ file' = file
    BY <1>1 DEF TypeOK
  <1>3. loaded \in Seq(Words) /\ Kept(loaded, file)
    BY <1>2, KeptAtFirst
  <1>4. entries' = [entries EXCEPT ![t] = loaded]
    BY <1>1
  <1> HIDE DEF loaded
  <1>5. TypeOK' /\ ScopesAgree'
    <2>1. entries' \in [Terminals -> Seq(Words)]
      BY <1>3, <1>4 DEF TypeOK, Words
    <2> QED BY <1>1, <1>2, <2>1, ScopeChanges DEF TypeOK, ScopesAgree, Words
  <1>6. HistoryIsKept'
    <2>1. entries'[t] = loaded /\ \A q \in Terminals \ {t} : entries'[q] = entries[q]
      BY <1>4 DEF TypeOK
    <2>2. \A q \in Terminals : Kept(entries'[q], file')
      BY <1>2, <1>3, <2>1, HistoryInFile
    <2> QED BY <2>2 DEF HistoryIsKept, Kept, Own
  <1> QED BY <1>5, <1>6

LEMMA LeaveKeeps ==
  ASSUME Sound, IInv, NEW t \in Terminals, Leave(t)
  PROVE  IInv'
  <1> USE DEF IInv
  <1>1. /\ UNCHANGED table /\ SetScope(t, NoId) /\ place' = [place EXCEPT ![t] = "off"]
        /\ entries' = [entries EXCEPT ![t] = <<>>] /\ listed' = [listed EXCEPT ![t] = <<>>]
    BY DEF Leave, GoTo
  <1>2. /\ file' \in Seq(Line) /\ Len(file') <= MaxLines
        /\ \A q \in Terminals : Kept(entries[q], file')
    <2>1. CASE UNCHANGED file
      BY <2>1, HistoryInFile DEF TypeOK
    <2>2. ASSUME NEW text \in Texts, Write(t, text) \/ WriteFails(t, text)
          PROVE  /\ file' \in Seq(Line) /\ Len(file') <= MaxLines
                 /\ \A q \in Terminals : Kept(entries[q], file')
      <3>1. PICK end \in Words : AppendToFile(end, text)
        BY <2>2 DEF Write, WriteFails, Words
      <3>2. \A q \in Terminals : entries[q] \in Seq(Words)
        BY DEF TypeOK, Words
      <3> QED BY <3>1, <3>2, HistoryInFile, LineWritten, LineKept
    <2> QED BY <2>1, <2>2 DEF Leave
  <1>3. <<>> \in Seq(Words) /\ <<>> \in Seq(Ids) /\ Kept(<<>>, file')
    BY <1>2, EmptySeq, KeptAtFirst
  <1>4. TypeOK' /\ ScopesAgree'
    BY <1>1, <1>2, <1>3, ScopeChanges DEF TypeOK, ScopesAgree, Words
  <1>5. \A q \in Terminals : Kept(entries'[q], file')
    BY <1>1, <1>2, <1>3 DEF TypeOK
  <1>6. HistoryIsKept'
    BY <1>5 DEF HistoryIsKept, Kept, Own
  <1> QED BY <1>4, <1>6

LEMMA ChatKeeps ==
  ASSUME Sound, IInv, NEW t \in Terminals, Chat(t)
  PROVE  IInv'
  <1> USE DEF IInv
  <1>1. ReadLine(t) /\ UNCHANGED <<place, scope, manager, listed>> /\ place[t] = "prompt"
    BY DEF Chat
  <1>2. table' \in Seq(Ids)
    <2>1. manager[t].stores \in Ids /\ table \in Seq(Ids)
      BY <1>1 DEF ScopesAgree, TypeOK
    <2>2. table' = <<manager[t].stores>> \o table \/ table' = table
      BY DEF Chat
    <2>3. <<manager[t].stores>> \o table \in Seq(Ids)
      BY <2>1, RowAdded
    <2> QED BY <2>1, <2>2, <2>3
  <1>3. TypeOK' /\ HistoryIsKept'
    BY <1>1, <1>2, LineRead DEF TypeOK, Words
  <1>4. ScopesAgree'
    BY <1>1 DEF ScopesAgree
  <1> QED BY <1>3, <1>4

LEMMA NewKeeps ==
  ASSUME Sound, IInv, NEW t \in Terminals, New(t)
  PROVE  IInv'
  <1> USE DEF IInv
  <1>1. ReadLine(t) /\ UNCHANGED <<table, place, listed>> /\ SetScope(t, Fresh) /\ Fresh \in Ids
    BY FreshIsNew DEF New
  <1>2. /\ file' \in Seq(Line) /\ Len(file') <= MaxLines
        /\ entries' \in [Terminals -> Seq(Words)] /\ HistoryIsKept'
    BY <1>1, LineRead
  <1>3. /\ scope' \in [Terminals -> Ids \cup {NoId}]
        /\ manager' \in [Terminals -> [stores : Ids \cup {NoId}, reads : Ids \cup {NoId}]]
        /\ \A q \in Terminals : manager'[q] = [stores |-> scope'[q], reads |-> scope'[q]]
        /\ scope'[t] \in Ids /\ \A q \in Terminals \ {t} : scope'[q] = scope[q]
    BY <1>1, ScopeChanges
  <1>4. TypeOK'
    BY <1>1, <1>2, <1>3 DEF TypeOK, Words
  <1>5. ScopesAgree'
    BY <1>1, <1>3 DEF ScopesAgree
  <1> QED BY <1>2, <1>4, <1>5

LEMMA ShowKeeps ==
  ASSUME Sound, IInv, NEW t \in Terminals, Show(t)
  PROVE  IInv'
  <1> USE DEF IInv
  <1>1. /\ ReadLine(t) /\ UNCHANGED <<table, scope, manager>> /\ place[t] = "prompt"
        /\ \E p \in {"switch", "remove"} : place' = [place EXCEPT ![t] = p]
        /\ listed' = [listed EXCEPT ![t] = table]
    BY DEF Show, GoTo
  <1>2. TypeOK' /\ HistoryIsKept'
    BY <1>1, LineRead DEF TypeOK, Words
  <1>3. ScopesAgree'
    BY <1>1 DEF ScopesAgree, TypeOK
  <1> QED BY <1>2, <1>3

LEMMA ListLeft ==
  ASSUME TypeOK, NEW t \in Terminals, BackToPrompt(t)
  PROVE  /\ place' \in [Terminals -> {"off", "prompt", "switch", "remove"}]
         /\ \A q \in Terminals \ {t} : place'[q] = place[q]
         /\ listed' \in [Terminals -> Seq(Ids)]
  <1>1. <<>> \in Seq(Ids)
    BY EmptySeq
  <1> QED BY <1>1 DEF BackToPrompt, GoTo, TypeOK

LEMMA CancelKeeps ==
  ASSUME Sound, IInv, NEW t \in Terminals, Cancel(t)
  PROVE  IInv'
  <1> USE DEF IInv
  <1>1. /\ ReadLine(t) /\ BackToPrompt(t) /\ UNCHANGED <<table, scope, manager>>
        /\ place[t] # "off"
    BY DEF Cancel
  <1>2. TypeOK' /\ HistoryIsKept'
    BY <1>1, LineRead, ListLeft DEF TypeOK, Words
  <1>3. ScopesAgree'
    BY <1>1, ListLeft DEF ScopesAgree
  <1> QED BY <1>2, <1>3

(* The ids a number may mean are on show.                                  *)
LEMMA ChoiceIsListed ==
  ASSUME TypeOK, NEW t \in Terminals, NEW n \in DOMAIN listed[t]
  PROVE  Chosen(t, n) \in Ids /\ Chosen(t, n) \in ToSet(listed[t])
  <1>1. listed[t] \in Seq(Ids)
    BY DEF TypeOK
  <1> QED BY <1>1, ElementsOf DEF Chosen

LEMMA SwitchKeeps ==
  ASSUME Sound, IInv, NEW t \in Terminals, Switch(t)
  PROVE  IInv'
  <1> USE DEF IInv
  <1>1. ReadLine(t) /\ BackToPrompt(t) /\ UNCHANGED table /\ place[t] # "off"
    BY DEF Switch
  <1>2. PICK id \in Ids : SetScope(t, id)
    BY ChoiceIsListed, FreshIsNew DEF Switch
  <1>3. TypeOK' /\ HistoryIsKept'
    <2>1. /\ file' \in Seq(Line) /\ Len(file') <= MaxLines
          /\ entries' \in [Terminals -> Seq(Words)] /\ HistoryIsKept'
      BY <1>1, LineRead
    <2>2. /\ scope' \in [Terminals -> Ids \cup {NoId}]
          /\ manager' \in [Terminals -> [stores : Ids \cup {NoId}, reads : Ids \cup {NoId}]]
      BY <1>2, ScopeChanges
    <2> QED BY <1>1, <2>1, <2>2, ListLeft DEF TypeOK, Words
  <1>4. ScopesAgree'
    <2>1. /\ \A q \in Terminals : manager'[q] = [stores |-> scope'[q], reads |-> scope'[q]]
          /\ scope'[t] = id /\ \A q \in Terminals \ {t} : scope'[q] = scope[q]
      BY <1>2, ScopeChanges
    <2>2. \A q \in Terminals \ {t} : place'[q] = place[q]
      BY <1>1, ListLeft
    <2> QED BY <2>1, <2>2 DEF ScopesAgree
  <1> QED BY <1>3, <1>4

(* What a removal takes from the table.                                    *)
LEMMA RowGone ==
  ASSUME IInv, NEW t \in Terminals, DeleteSession(t)
  PROVE  /\ table' \in Seq(Ids) /\ ToSet(table') \subseteq ToSet(table)
         /\ \A id \in ToSet(table) \ ToSet(table') : id \in ToSet(listed[t]) \ {scope[t]}
  <1>1. table \in Seq(Ids)
    BY DEF IInv, TypeOK
  <1>2. PICK n \in DOMAIN listed[t] :
          /\ Chosen(t, n) # scope[t]
          /\ \/ Chosen(t, n) \notin ToSet(table) /\ UNCHANGED table
             \/ \E i \in DOMAIN table :
                  table[i] = Chosen(t, n) /\ table' = RemoveAt(table, i)
    BY DEF DeleteSession
  <1>3. Chosen(t, n) \in ToSet(listed[t]) \ {scope[t]}
    BY <1>2, ChoiceIsListed DEF IInv
  <1>4. CASE UNCHANGED table
    BY <1>1, <1>4
  <1>5. CASE \E i \in DOMAIN table : table[i] = Chosen(t, n) /\ table' = RemoveAt(table, i)
    <2>1. PICK i \in 1..Len(table) : table[i] = Chosen(t, n) /\ table' = RemoveAt(table, i)
      BY <1>1, <1>5, ElementsOf
    <2>2. /\ table' \in Seq(Ids) /\ ToSet(table') \subseteq ToSet(table)
          /\ ToSet(table) \subseteq ToSet(table') \cup {Chosen(t, n)}
      BY <1>1, <2>1, RowRemoved
    <2> QED BY <1>3, <2>2
  <1> QED BY <1>2, <1>4, <1>5

LEMMA DeleteSessionKeeps ==
  ASSUME Sound, IInv, NEW t \in Terminals, DeleteSession(t)
  PROVE  IInv'
  <1> USE DEF IInv
  <1>1. /\ ReadLine(t) /\ BackToPrompt(t) /\ UNCHANGED <<scope, manager>>
        /\ place[t] # "off" /\ table' \in Seq(Ids)
    BY RowGone DEF DeleteSession
  <1>2. TypeOK' /\ HistoryIsKept'
    BY <1>1, LineRead, ListLeft DEF TypeOK, Words
  <1>3. ScopesAgree'
    BY <1>1, ListLeft DEF ScopesAgree
  <1> QED BY <1>2, <1>3
-----------------------------------------------------------------------------
LEMMA InitIInv ==
  ASSUME Sound, Init
  PROVE  IInv
  <1>1. <<>> \in Seq(Ids) /\ <<>> \in Seq(Words) /\ <<>> \in Seq(Line) /\ Len(<<>>) = 0 /\ MaxLines \in Nat
    BY EmptySeq DEF Sound
  <1>2. TypeOK /\ ScopesAgree
    BY <1>1 DEF Init, TypeOK, ScopesAgree, Words
  <1>3. \A t \in Terminals : Kept(entries[t], file)
    BY <1>1, KeptAtFirst DEF Init
  <1> QED BY <1>2, <1>3, HistoryInFile DEF IInv

LEMMA NextKeeps ==
  ASSUME Sound, IInv, [Next]_termvars
  PROVE  IInv'
  <1>1. CASE UNCHANGED termvars
    <2>1. TypeOK' /\ ScopesAgree'
      BY <1>1 DEF IInv, TypeOK, ScopesAgree, termvars
    <2>2. \A q \in Terminals : Kept(entries'[q], file')
      BY <1>1, HistoryInFile DEF IInv, termvars
    <2>3. HistoryIsKept'
      BY <2>2 DEF HistoryIsKept, Kept, Own
    <2> QED BY <2>1, <2>3 DEF IInv
  <1> QED BY <1>1, StartKeeps, LeaveKeeps, ChatKeeps, NewKeeps, ShowKeeps, CancelKeeps,
             SwitchKeeps, DeleteSessionKeeps DEF Next

(* The invariant behind the theorems.                                      *)
THEOREM TerminalInvariant ==
  ASSUME Sound
  PROVE  Spec => []IInv
  <1>1. IInv /\ [Next]_termvars => IInv'
    BY NextKeeps
  <1> QED BY <1>1, InitIInv, PTL DEF Spec

(* What terminals keep has its type.                                       *)
THEOREM TerminalTypes ==
  ASSUME Sound
  PROVE  Spec => []TypeOK
  <1> QED BY TerminalInvariant, PTL DEF IInv

(* What any terminal remembers is at the end of lines of the file, in its  *)
(* order, for any number of terminals that write there, whichever of their *)
(* writes fail and leave the beginning of a line.                          *)
THEOREM HistoryIsAlwaysKept ==
  ASSUME Sound
  PROVE  Spec => []HistoryIsKept
  <1> QED BY TerminalInvariant, PTL DEF IInv
-----------------------------------------------------------------------------
(* A step that is as SessionsAsShown says.                                 *)
AsShown ==
  /\ \A id \in ToSet(table') \ ToSet(table) :
       \E t \in Terminals : place[t] = "prompt" /\ scope[t] = id
  /\ \A id \in ToSet(table) \ ToSet(table') :
       \E t \in Terminals : place[t] = "remove" /\ place'[t] = "prompt"
                            /\ id \in ToSet(listed[t]) \ {scope[t]}
  /\ \A t \in Terminals :
       /\ place[t] = "switch" /\ place'[t] = "prompt" =>
            scope'[t] = scope[t] \/ scope'[t] \in ToSet(listed[t]) \/ scope'[t] \notin InUse
       /\ manager'[t] = [stores |-> scope'[t], reads |-> scope'[t]]

LEMMA NextAsShown ==
  ASSUME IInv, IInv', Next
  PROVE  AsShown
  <1> DEFINE Additions ==
               \A id \in ToSet(table') \ ToSet(table) :
                 \E t \in Terminals : place[t] = "prompt" /\ scope[t] = id
             Removals ==
               \A id \in ToSet(table) \ ToSet(table') :
                 \E t \in Terminals : place[t] = "remove" /\ place'[t] = "prompt"
                                      /\ id \in ToSet(listed[t]) \ {scope[t]}
             Switches ==
               \A t \in Terminals :
                 place[t] = "switch" /\ place'[t] = "prompt" =>
                   scope'[t] = scope[t] \/ scope'[t] \in ToSet(listed[t]) \/ scope'[t] \notin InUse
  <1> PICK t \in Terminals :
        \/ Start(t) \/ Leave(t) \/ Chat(t) \/ New(t)
        \/ Show(t) \/ Cancel(t) \/ Switch(t) \/ DeleteSession(t)
    BY DEF Next
  <1>1. Additions /\ Removals
    <2>1. CASE Chat(t)
      <3>1. /\ place[t] = "prompt" /\ scope[t] \in Ids /\ manager[t].stores = scope[t]
            /\ table \in Seq(Ids)
        BY <2>1 DEF Chat, IInv, ScopesAgree, TypeOK
      <3>2. table' = <<scope[t]>> \o table \/ table' = table
        BY <2>1, <3>1 DEF Chat
      <3>3. ToSet(<<scope[t]>> \o table) = {scope[t]} \cup ToSet(table)
        BY <3>1, RowAdded
      <3> QED BY <3>1, <3>2, <3>3
    <2>2. CASE DeleteSession(t)
      <3>1. place[t] = "remove" /\ place'[t] = "prompt"
        BY <2>2 DEF DeleteSession, BackToPrompt, GoTo, IInv, TypeOK
      <3>2. /\ ToSet(table') \subseteq ToSet(table)
            /\ \A id \in ToSet(table) \ ToSet(table') : id \in ToSet(listed[t]) \ {scope[t]}
        BY <2>2, RowGone
      <3> QED BY <3>1, <3>2
    <2>3. CASE Start(t) \/ Leave(t) \/ New(t) \/ Show(t) \/ Cancel(t) \/ Switch(t)
      <3>1. table' = table
        BY <2>3 DEF Start, Leave, New, Show, Cancel, Switch
      <3> QED BY <3>1
    <2> QED BY <2>1, <2>2, <2>3
  <1>2. Switches
    <2> SUFFICES ASSUME NEW q \in Terminals, place[q] = "switch", place'[q] = "prompt"
                 PROVE  scope'[q] = scope[q] \/ scope'[q] \in ToSet(listed[q]) \/ scope'[q] \notin InUse
      OBVIOUS
    <2>1. q = t /\ (Cancel(t) \/ Switch(t))
      BY DEF Start, Leave, Chat, New, Show, Cancel, Switch, DeleteSession, BackToPrompt, GoTo,
             IInv, TypeOK
    <2>2. CASE Cancel(t)
      BY <2>1, <2>2 DEF Cancel
    <2>3. CASE Switch(t)
      <3>1. PICK id : SetScope(t, id) /\ (id \in ToSet(listed[t]) \/ id \notin InUse)
        BY <2>3, ChoiceIsListed, FreshIsNew DEF Switch, IInv
      <3>2. scope'[t] = id
        BY <3>1 DEF SetScope, IInv, TypeOK
      <3> QED BY <2>1, <3>1, <3>2
    <2> QED BY <2>1, <2>2, <2>3
  <1>3. \A q \in Terminals : manager'[q] = [stores |-> scope'[q], reads |-> scope'[q]]
    BY DEF IInv, ScopesAgree
  <1> QED BY <1>1, <1>2, <1>3 DEF AsShown

(* A row comes from the current session of a terminal; one that goes was   *)
(* on show and was not that of the terminal it was removed at; a number    *)
(* means the session that was shown beside it (cmd_session.go:18-146), and *)
(* what is stored and what is read never belong to two sessions.           *)
THEOREM SessionsAlwaysAsShown ==
  ASSUME Sound
  PROVE  Spec => SessionsAsShown
  <1>1. IInv /\ IInv' /\ [Next]_termvars => [AsShown]_termvars
    BY NextAsShown
  <1> QED BY <1>1, TerminalInvariant, PTL DEF Spec, SessionsAsShown, AsShown
=============================================================================
