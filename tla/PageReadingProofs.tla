-------------------------- MODULE PageReadingProofs --------------------------
(***************************************************************************)
(* Proofs about PageReading, for every page, every limit and every number  *)
(* of readers and browsers. PartsMakeThePage is not inductive: it says     *)
(* nothing of where the next part begins, and nothing of which documents a *)
(* reader may still be given. IInv adds both.                              *)
(***************************************************************************)
EXTENDS PageReading, FiniteSetTheorems, WellFoundedInduction, TLAPS

Busy == {"fetch", "check", "wait", "browser"}

Doc(source) == TrimSpace(page[source])

(* The mode and the page decide which documents a reader may be given.     *)
PlacesFit(r) ==
  /\ pc[r] = "fetch" => renderMode # "always"
  /\ pc[r] \in {"check", "wait", "browser"} => renderMode = "always" \/ LooksEmpty
  /\ renderMode = "always" => parts[r] \subseteq {"rendered"}
  /\ renderMode # "always" /\ ~LooksEmpty => parts[r] \subseteq {"http"}

(* What a reader has been given ends where its next part begins.           *)
InOrder(r) ==
  /\ \A i, j \in DOMAIN got[r] : i < j => \A a \in got[r][i], b \in got[r][j] : a < b
  /\ pc[r] # "read" => \A i \in DOMAIN got[r] : \A a \in got[r][i] : a <= start[r]

Covered(r) ==
  \A source \in Sources : parts[r] = {source} =>
    /\ start[r] <= Len(Doc(source))
    /\ AllOf(got[r]) = Letters(Doc(source), 0,
                               IF pc[r] = "read" THEN Len(Doc(source)) ELSE start[r])

ReaderInv(r) ==
  /\ pc[r] \in Busy => limit[r] >= 1
  /\ r \in renderSem <=> pc[r] = "browser"
  /\ parts[r] \subseteq Sources
  /\ parts[r] = {} => got[r] = <<>> /\ start[r] = 0
  /\ pc[r] = "read" => start[r] = 0
  /\ PlacesFit(r)
  /\ InOrder(r)
  /\ Covered(r)

IInv ==
  /\ TypeOK
  /\ IsFiniteSet(renderSem)
  /\ \A r \in Readers : ReaderInv(r)
-----------------------------------------------------------------------------
(* The first and the last of a set of offsets.                             *)
Less == {pair \in Nat \X Nat : pair[1] < pair[2]}

LEMMA LessIsWellFounded == IsWellFoundedOn(Less, Nat)
  BY NatLessThanWellFounded, Zenon DEF OpToRel, Less

LEMMA HasEarliest ==
  ASSUME NEW S \in SUBSET Nat, S # {}
  PROVE  \E i \in S : \A j \in S : i <= j
  <1>1. PICK i \in S : \A j \in S : <<j, i>> \notin Less
    BY LessIsWellFounded, WFMin
  <1>2. \A j \in S : ~(j < i)
    BY <1>1 DEF Less
  <1> QED
    BY <1>2

LEMMA HasLatest ==
  ASSUME NEW S \in SUBSET Nat, S # {}, NEW bound \in Nat, \A i \in S : i <= bound
  PROVE  \E i \in S : \A j \in S : i >= j
  <1> DEFINE T == {n \in Nat : \E i \in S : n = bound - i}
  <1>1. T \in SUBSET Nat /\ T # {}
    <2>1. PICK i \in S : TRUE
      OBVIOUS
    <2>2. bound - i \in Nat
      OBVIOUS
    <2>3. bound - i \in T
      BY <2>2
    <2> QED
      BY <2>3
  <1>2. PICK k \in T : \A l \in T : k <= l
    BY <1>1, HasEarliest
  <1>3. PICK i \in S : k = bound - i
    BY <1>2
  <1>4. \A j \in S : bound - j \in T
    <2>1. \A j \in S : bound - j \in Nat
      OBVIOUS
    <2> QED
      BY <2>1
  <1>5. \A j \in S : bound - i <= bound - j
    BY <1>2, <1>3, <1>4
  <1> QED
    BY <1>5

LEMMA EarliestIsFirst ==
  ASSUME NEW S \in SUBSET Nat, S # {}
  PROVE  Earliest(S) \in S /\ \A j \in S : Earliest(S) <= j
  BY HasEarliest DEF Earliest

LEMMA LatestIsLast ==
  ASSUME NEW S \in SUBSET Nat, S # {}, NEW bound \in Nat, \A i \in S : i <= bound
  PROVE  Latest(S) \in S /\ \A j \in S : Latest(S) >= j
  BY HasLatest DEF Latest

LEMMA DocumentParts ==
  ASSUME NEW doc \in Document
  PROVE  /\ Len(doc) \in Nat
         /\ DOMAIN doc = 1..Len(doc)
         /\ \A i \in 1..Len(doc) : doc[i] \in {"letter", "space", "line"}
  BY DEF Document

(* What is left of a document without the space around it.                 *)
LEMMA TrimmedIsShorter ==
  ASSUME NEW doc \in Document
  PROVE  /\ TrimSpace(doc) \in Document
         /\ Len(TrimSpace(doc)) \in Nat
         /\ Len(TrimSpace(doc)) <= Len(doc)
  <1> DEFINE letters == Letters(doc, 0, Len(doc))
             first == Earliest(letters)
             last == Latest(letters)
  <1>1. Len(doc) \in Nat /\ \A i \in 1..Len(doc) : doc[i] \in {"letter", "space", "line"}
    BY DocumentParts
  <1>2. letters \in SUBSET Nat /\ \A i \in letters : i \in 1..Len(doc)
    BY <1>1 DEF Letters
  <1>3. CASE letters = {}
    <2>1. TrimSpace(doc) = <<>>
      BY <1>3 DEF TrimSpace
    <2> QED
      BY <1>1, <2>1 DEF Document
  <1>4. CASE letters # {}
    <2>1. TrimSpace(doc) = SubSeq(doc, first, last)
      BY <1>4 DEF TrimSpace
    <2> HIDE DEF letters
    <2>2. first \in letters /\ last \in letters
      <3>1. \A i \in letters : i <= Len(doc)
        BY <1>1, <1>2
      <3> QED
        BY <1>1, <1>2, <1>4, <3>1, EarliestIsFirst, LatestIsLast
    <2>3. first \in 1..Len(doc) /\ last \in 1..Len(doc)
      BY <1>2, <2>2
    <2> HIDE DEF first, last
    <2>4. /\ SubSeq(doc, first, last) \in Document
          /\ Len(SubSeq(doc, first, last)) \in Nat
          /\ Len(SubSeq(doc, first, last)) <= Len(doc)
      BY <1>1, <2>3 DEF Document
    <2> QED
      BY <2>1, <2>4
  <1> QED
    BY <1>3, <1>4
-----------------------------------------------------------------------------
(* The arithmetic of chunkEnd: a part ends within the document, and beyond *)
(* its beginning unless nothing is left.                                   *)
LEMMA LatestCut ==
  ASSUME NEW doc, NEW from \in Nat, NEW to \in Nat, NEW separator,
         Len(separator) \in Nat \ {0}, CutsAfter(doc, from, to, separator) # {}
  PROVE  Latest(CutsAfter(doc, from, to, separator)) \in (from + 1)..to
  <1> DEFINE cuts == CutsAfter(doc, from, to, separator)
  <1>1. cuts \subseteq (from + 1)..to
    BY DEF CutsAfter
  <1>2. cuts \in SUBSET Nat /\ \A i \in cuts : i <= to
    BY <1>1
  <1> HIDE DEF cuts
  <1>3. cuts # {}
    BY DEF cuts
  <1>4. Latest(cuts) \in cuts
    BY <1>2, <1>3, LatestIsLast
  <1> QED
    BY <1>1, <1>4 DEF cuts

LEMMA CutIsInWindow ==
  ASSUME NEW doc, NEW from \in Nat, NEW to \in Nat
  PROVE  Cut(doc, from, to) \in (from + 1)..to \cup {to}
  <1> DEFINE cuts(separator) == CutsAfter(doc, from, to, separator)
  <1>1. /\ Len(<<"line", "line">>) \in Nat \ {0}
        /\ Len(<<"line">>) \in Nat \ {0}
        /\ Len(<<"space">>) \in Nat \ {0}
    OBVIOUS
  <1>2. cuts(<<"line", "line">>) # {} => Latest(cuts(<<"line", "line">>)) \in (from + 1)..to
    BY <1>1, LatestCut
  <1>3. cuts(<<"line">>) # {} => Latest(cuts(<<"line">>)) \in (from + 1)..to
    BY <1>1, LatestCut
  <1>4. cuts(<<"space">>) # {} => Latest(cuts(<<"space">>)) \in (from + 1)..to
    BY <1>1, LatestCut
  <1> QED
    BY <1>2, <1>3, <1>4 DEF Cut

LEMMA ChunkEndMovesOn ==
  ASSUME NEW doc \in Document, NEW from \in Nat, NEW lim \in Nat \ {0}, from <= Len(doc)
  PROVE  /\ ChunkEnd(doc, from, lim) \in from..Len(doc)
         /\ ChunkEnd(doc, from, lim) < Len(doc) => ChunkEnd(doc, from, lim) > from
  <1> DEFINE to == from + lim
             window == to - lim \div 3
  <1>1. Len(doc) \in Nat
    BY DocumentParts
  <1>2. CASE to >= Len(doc)
    BY <1>1, <1>2 DEF ChunkEnd
  <1>3. CASE to < Len(doc)
    <2>1. lim \div 3 \in Nat /\ lim \div 3 <= lim
      OBVIOUS
    <2>2. window \in Nat /\ window >= from /\ to \in Nat /\ to > from
      BY <2>1
    <2>3. ChunkEnd(doc, from, lim) = Cut(doc, window, to)
      BY <1>1, <1>3 DEF ChunkEnd
    <2> HIDE DEF window, to
    <2>4. Cut(doc, window, to) \in (window + 1)..to \cup {to}
      BY <2>2, CutIsInWindow
    <2> QED
      BY <1>1, <1>3, <2>2, <2>3, <2>4
  <1> QED
    BY <1>1, <1>2, <1>3
-----------------------------------------------------------------------------
LEMMA LettersJoin ==
  ASSUME NEW doc, NEW from \in Nat, NEW to \in Nat, from <= to
  PROVE  /\ Letters(doc, 0, from) \cup Letters(doc, from, to) = Letters(doc, 0, to)
         /\ Letters(doc, from, to) \in SUBSET Nat
         /\ \A a \in Letters(doc, from, to) : from < a /\ a <= to
         /\ Letters(doc, 0, 0) = {}
  BY DEF Letters

LEMMA PieceAdded ==
  ASSUME NEW pieces \in Seq(SUBSET Nat), NEW piece \in SUBSET Nat
  PROVE  /\ Append(pieces, piece) \in Seq(SUBSET Nat)
         /\ Len(pieces) \in Nat
         /\ DOMAIN pieces = 1..Len(pieces)
         /\ DOMAIN Append(pieces, piece) = 1..(Len(pieces) + 1)
         /\ \A i \in 1..Len(pieces) : Append(pieces, piece)[i] = pieces[i]
         /\ Append(pieces, piece)[Len(pieces) + 1] = piece
         /\ \A i \in 1..Len(pieces) : pieces[i] \in SUBSET Nat
  OBVIOUS

LEMMA AllOfAdded ==
  ASSUME NEW pieces \in Seq(SUBSET Nat), NEW piece \in SUBSET Nat
  PROVE  AllOf(Append(pieces, piece)) = AllOf(pieces) \cup piece
  <1> DEFINE longer == Append(pieces, piece)
  <1>1. /\ Len(pieces) \in Nat
        /\ DOMAIN pieces = 1..Len(pieces)
        /\ DOMAIN longer = 1..(Len(pieces) + 1)
        /\ \A i \in 1..Len(pieces) : longer[i] = pieces[i]
        /\ longer[Len(pieces) + 1] = piece
    BY PieceAdded
  <1> HIDE DEF longer
  <1>2. \A a : a \in AllOf(pieces) <=> \E i \in 1..Len(pieces) : a \in pieces[i]
    BY <1>1 DEF AllOf
  <1>3. \A a : a \in AllOf(longer) <=> \E i \in 1..(Len(pieces) + 1) : a \in longer[i]
    BY <1>1 DEF AllOf
  <1>4. ASSUME NEW a \in AllOf(longer) PROVE a \in AllOf(pieces) \cup piece
    <2>1. PICK i \in 1..(Len(pieces) + 1) : a \in longer[i]
      BY <1>3
    <2>2. i \in 1..Len(pieces) \/ i = Len(pieces) + 1
      BY <1>1
    <2> QED
      BY <1>1, <1>2, <2>1, <2>2
  <1>5. ASSUME NEW a \in AllOf(pieces) \cup piece PROVE a \in AllOf(longer)
    <2>1. CASE a \in AllOf(pieces)
      <3>1. PICK i \in 1..Len(pieces) : a \in pieces[i]
        BY <1>2, <2>1
      <3>2. i \in 1..(Len(pieces) + 1)
        BY <1>1
      <3> QED
        BY <1>1, <1>3, <3>1, <3>2
    <2>2. CASE a \in piece
      <3>1. Len(pieces) + 1 \in 1..(Len(pieces) + 1)
        BY <1>1
      <3> QED
        BY <1>1, <1>3, <2>2, <3>1
    <2> QED
      BY <2>1, <2>2
  <1>6. AllOf(longer) = AllOf(pieces) \cup piece
    BY <1>4, <1>5
  <1> QED
    BY <1>6 DEF longer

LEMMA ShorterThanBoth ==
  ASSUME NEW a \in Nat, NEW b \in Nat, NEW l \in Nat, l <= a \/ l <= b
  PROVE  l <= a + b
  OBVIOUS

LEMMA DocumentOfPage ==
  ASSUME TypeOK, NEW source \in Sources
  PROVE  /\ Doc(source) \in Document
         /\ Len(Doc(source)) \in Nat
         /\ Len(Doc(source)) <= Len(page.http) + Len(page.rendered)
         /\ Len(page.http) \in Nat /\ Len(page.rendered) \in Nat
  <1>1. page.http \in Document /\ page.rendered \in Document
    BY ReadingAssumption DEF TypeOK, Sources
  <1>2. Len(page.http) \in Nat /\ Len(page.rendered) \in Nat
    BY <1>1, DocumentParts
  <1>3. CASE source = "http"
    <2>1. /\ TrimSpace(page.http) \in Document
          /\ Len(TrimSpace(page.http)) \in Nat
          /\ Len(TrimSpace(page.http)) <= Len(page.http)
      BY <1>1, TrimmedIsShorter
    <2>2. Doc(source) = TrimSpace(page.http)
      BY <1>3 DEF Doc
    <2>3. Len(TrimSpace(page.http)) <= Len(page.http) + Len(page.rendered)
      BY <1>2, <2>1, ShorterThanBoth
    <2> QED
      BY <1>2, <2>1, <2>2, <2>3, Zenon
  <1>4. CASE source = "rendered"
    <2>1. /\ TrimSpace(page.rendered) \in Document
          /\ Len(TrimSpace(page.rendered)) \in Nat
          /\ Len(TrimSpace(page.rendered)) <= Len(page.rendered)
      BY <1>1, TrimmedIsShorter
    <2>2. Doc(source) = TrimSpace(page.rendered)
      BY <1>4 DEF Doc
    <2>3. Len(TrimSpace(page.rendered)) <= Len(page.http) + Len(page.rendered)
      BY <1>2, <2>1, ShorterThanBoth
    <2> QED
      BY <1>2, <2>1, <2>2, <2>3, Zenon
  <1> QED
    BY <1>3, <1>4 DEF Sources

LEMMA ReaderTypes ==
  ASSUME TypeOK, NEW r \in Readers
  PROVE  /\ start[r] \in Nat
         /\ limit[r] \in Nat /\ limit[r] <= MaxChars
         /\ got[r] \in Seq(SUBSET Nat)
         /\ Cardinality(renderSem) <= Concurrency
  <1>1. "http" \in Sources
    BY DEF Sources
  <1>2. Len(page.http) \in Nat /\ Len(page.rendered) \in Nat
    BY <1>1, DocumentOfPage
  <1>3. start[r] \in 0..(Len(page.http) + Len(page.rendered)) /\ limit[r] \in 0..MaxChars
    BY DEF TypeOK
  <1>4. start[r] \in Nat
    BY <1>2, <1>3
  <1>5. limit[r] \in Nat /\ limit[r] <= MaxChars
    BY <1>3, ReadingAssumption
  <1> QED
    BY <1>4, <1>5 DEF TypeOK
-----------------------------------------------------------------------------
(* What a step of reader r leaves alone.                                   *)
OnlyReader(r) ==
  /\ UNCHANGED basis
  /\ \A u \in Readers \ {r} :
       /\ pc'[u] = pc[u] /\ start'[u] = start[u] /\ limit'[u] = limit[u]
       /\ got'[u] = got[u] /\ parts'[u] = parts[u]
       /\ u \in renderSem' <=> u \in renderSem

LEMMA OthersKeepTheirs ==
  ASSUME NEW u \in Readers, ReaderInv(u), UNCHANGED basis,
         pc'[u] = pc[u], start'[u] = start[u], limit'[u] = limit[u],
         got'[u] = got[u], parts'[u] = parts[u],
         u \in renderSem' <=> u \in renderSem
  PROVE  ReaderInv(u)'
  <1>1. page' = page /\ renderMode' = renderMode /\ LooksEmpty' = LooksEmpty
    BY DEF basis, LooksEmpty
  <1>2. \A source : Doc(source)' = Doc(source)
    BY <1>1 DEF Doc
  <1>3. PlacesFit(u)' /\ InOrder(u)'
    BY <1>1 DEF ReaderInv, PlacesFit, InOrder
  <1>4. Covered(u)'
    BY <1>2 DEF ReaderInv, Covered
  <1> QED
    BY <1>3, <1>4 DEF ReaderInv

LEMMA ReaderStep ==
  ASSUME IInv, NEW r \in Readers, OnlyReader(r), TypeOK', IsFiniteSet(renderSem'), ReaderInv(r)'
  PROVE  IInv'
  <1>1. \A u \in Readers : ReaderInv(u)'
    BY OthersKeepTheirs DEF IInv, OnlyReader
  <1> QED
    BY <1>1 DEF IInv
-----------------------------------------------------------------------------
(* A part is given: it lies behind the others, and the next one begins     *)
(* where it ends.                                                          *)
LEMMA GivenInOrder ==
  ASSUME TypeOK, NEW r \in Readers, InOrder(r), pc[r] # "read",
         NEW end \in Nat, start[r] <= end, NEW piece \in SUBSET Nat,
         \A a \in piece : start[r] < a /\ a <= end,
         got'[r] = Append(got[r], piece),
         pc'[r] # "read" => start'[r] = end
  PROVE  InOrder(r)'
  <1> DEFINE old == got[r]
             new == Append(old, piece)
  <1>1. old \in Seq(SUBSET Nat) /\ start[r] \in Nat
    BY ReaderTypes
  <1>2. /\ Len(old) \in Nat
        /\ DOMAIN old = 1..Len(old)
        /\ DOMAIN new = 1..(Len(old) + 1)
        /\ \A i \in 1..Len(old) : new[i] = old[i] /\ old[i] \in SUBSET Nat
        /\ new[Len(old) + 1] = piece
    BY <1>1, PieceAdded
  <1> HIDE DEF new
  <1>3. got'[r] = new
    BY DEF new
  <1>4. \A i \in 1..Len(old) : \A a \in new[i] : a <= start[r] /\ a \in Nat
    BY <1>2 DEF InOrder
  <1>5. \A i \in 1..(Len(old) + 1) : i \in 1..Len(old) \/ i = Len(old) + 1
    BY <1>2
  <1>6. ASSUME NEW i \in DOMAIN new, NEW j \in DOMAIN new, i < j, NEW a \in new[i], NEW b \in new[j]
        PROVE  a < b
    <2>1. i \in 1..Len(old)
      BY <1>2, <1>6
    <2>2. CASE j \in 1..Len(old)
      BY <1>2, <1>6, <2>1, <2>2 DEF InOrder
    <2>3. CASE j = Len(old) + 1
      <3>1. start[r] < b /\ b \in Nat
        BY <1>2, <1>6, <2>3
      <3> QED
        BY <1>1, <1>4, <1>6, <2>1, <3>1
    <2> QED
      BY <1>2, <1>5, <2>2, <2>3
  <1>7. ASSUME pc'[r] # "read", NEW i \in DOMAIN new, NEW a \in new[i]
        PROVE  a <= start'[r]
    <2>1. CASE i \in 1..Len(old)
      <3>1. a <= start[r] /\ a \in Nat
        BY <1>4, <1>7, <2>1
      <3> QED
        BY <1>1, <1>7, <3>1
    <2>2. CASE i = Len(old) + 1
      BY <1>2, <1>7, <2>2
    <2> QED
      BY <1>2, <1>5, <1>7, <2>1, <2>2
  <1> QED
    BY <1>3, <1>6, <1>7 DEF InOrder

LEMMA GivenIsCovered ==
  ASSUME IInv, NEW r \in Readers, pc[r] # "read", NEW source \in Sources, UNCHANGED basis,
         NEW end \in Nat, start[r] <= end, end <= Len(Doc(source)),
         got'[r] = Append(got[r], Letters(Doc(source), start[r], end)),
         parts'[r] = parts[r] \cup {source},
         pc'[r] = IF end < Len(Doc(source)) THEN "idle" ELSE "read",
         start'[r] = IF end < Len(Doc(source)) THEN end ELSE 0
  PROVE  Covered(r)'
  <1> DEFINE doc == Doc(source)
             piece == Letters(doc, start[r], end)
  <1>1. /\ got[r] \in Seq(SUBSET Nat)
        /\ start[r] \in Nat
        /\ Len(doc) \in Nat
    BY DocumentOfPage, ReaderTypes DEF IInv
  <1>2. /\ piece \in SUBSET Nat
        /\ Letters(doc, 0, start[r]) \cup piece = Letters(doc, 0, end)
        /\ Letters(doc, 0, 0) = {}
    BY <1>1, LettersJoin
  <1>3. AllOf(got'[r]) = AllOf(got[r]) \cup piece
    <2> HIDE DEF piece
    <2>1. got'[r] = Append(got[r], piece)
      BY DEF piece
    <2> QED
      BY <1>1, <1>2, <2>1, AllOfAdded
  <1>4. parts'[r] = {source} => AllOf(got[r]) = Letters(doc, 0, start[r])
    <2>1. CASE parts[r] = {}
      <3>1. got[r] = <<>> /\ start[r] = 0
        BY <2>1 DEF IInv, ReaderInv
      <3>2. AllOf(<<>>) = {}
        BY DEF AllOf
      <3> QED
        BY <1>2, <3>1, <3>2
    <2>2. CASE parts[r] = {source}
      BY <2>2 DEF IInv, ReaderInv, Covered
    <2>3. parts'[r] = {source} => parts[r] = {} \/ parts[r] = {source}
      OBVIOUS
    <2> QED
      BY <2>1, <2>2, <2>3
  <1>5. parts'[r] = {source} => AllOf(got'[r]) = Letters(doc, 0, end)
    BY <1>2, <1>3, <1>4
  <1>6. \A s \in Sources : Doc(s)' = Doc(s)
    BY DEF basis, Doc
  <1> HIDE DEF doc, piece
  <1>7. SUFFICES ASSUME NEW s \in Sources, parts'[r] = {s}
                 PROVE  /\ start'[r] <= Len(Doc(s))
                        /\ AllOf(got'[r]) =
                             Letters(Doc(s), 0, IF pc'[r] = "read" THEN Len(Doc(s)) ELSE start'[r])
    BY <1>6 DEF Covered
  <1>8. s = source
    BY <1>7
  <1> QED
    BY <1>1, <1>5, <1>7, <1>8 DEF doc

LEMMA RemovedFits ==
  ASSUME TypeOK, IsFiniteSet(renderSem), NEW r \in Readers, renderSem' = renderSem \ {r}
  PROVE  /\ IsFiniteSet(renderSem')
         /\ renderSem' \in SUBSET Readers
         /\ Cardinality(renderSem') <= Concurrency
  <1>1. IsFiniteSet(renderSem \ {r}) /\ Cardinality(renderSem \ {r}) <= Cardinality(renderSem)
    BY FS_Subset
  <1>2. Cardinality(renderSem) \in Nat /\ Cardinality(renderSem \ {r}) \in Nat
    BY <1>1, FS_CardinalityType
  <1>3. Cardinality(renderSem) <= Concurrency /\ Concurrency \in Nat
    BY ReadingAssumption DEF TypeOK
  <1>4. Cardinality(renderSem \ {r}) <= Concurrency
    <2> DEFINE few == Cardinality(renderSem \ {r})
               many == Cardinality(renderSem)
    <2>1. few \in Nat /\ many \in Nat /\ few <= many /\ many <= Concurrency
      BY <1>1, <1>2, <1>3
    <2> HIDE DEF few, many
    <2>2. few <= Concurrency
      BY <1>3, <2>1
    <2> QED
      BY <2>2 DEF few
  <1> QED
    BY <1>1, <1>4 DEF TypeOK

(* A call that ends with an error changes nothing of what was read.        *)
LEMMA FailKeepsReader ==
  ASSUME IInv, NEW r \in Readers, pc[r] \in Busy, Fail(r), UNCHANGED basis,
         renderSem' = renderSem \ {r}
  PROVE  ReaderInv(r)' /\ OnlyReader(r) /\ TypeOK' /\ IsFiniteSet(renderSem')
  <1>1. TypeOK /\ ReaderInv(r) /\ IsFiniteSet(renderSem) /\ pc[r] # "read"
    BY DEF IInv, Busy
  <1>2. /\ pc' = [pc EXCEPT ![r] = "failed"]
        /\ limit' = [limit EXCEPT ![r] = 0]
        /\ UNCHANGED <<start, got, parts>>
    BY DEF Fail, Return, Goto
  <1>3. pc'[r] = "failed" /\ OnlyReader(r)
    BY <1>1, <1>2 DEF OnlyReader, TypeOK
  <1>4. page' = page /\ renderMode' = renderMode /\ LooksEmpty' = LooksEmpty
    BY DEF basis, LooksEmpty
  <1>5. IsFiniteSet(renderSem') /\ renderSem' \in SUBSET Readers /\ Cardinality(renderSem') <= Concurrency
    BY <1>1, RemovedFits
  <1>6. TypeOK'
    <2>1. pc' \in [Readers -> Places]
      BY <1>1, <1>2 DEF TypeOK, Places
    <2>2. limit' \in [Readers -> 0..MaxChars]
      BY <1>1, <1>2, ReadingAssumption DEF TypeOK
    <2> QED
      BY <1>1, <1>2, <1>4, <1>5, <2>1, <2>2 DEF TypeOK
  <1>7. PlacesFit(r)' /\ InOrder(r)'
    BY <1>1, <1>2, <1>3, <1>4 DEF ReaderInv, PlacesFit, InOrder
  <1>8. Covered(r)'
    <2>1. \A source : Doc(source)' = Doc(source)
      BY <1>4 DEF Doc
    <2> QED
      BY <1>1, <1>2, <1>3, <2>1 DEF ReaderInv, Covered
  <1>9. ReaderInv(r)'
    BY <1>1, <1>2, <1>3, <1>7, <1>8 DEF ReaderInv, Busy
  <1> QED
    BY <1>3, <1>5, <1>6, <1>9

LEMMA PaginateKeepsReader ==
  ASSUME IInv, NEW r \in Readers, pc[r] \in Busy, NEW source \in Sources,
         Paginate(r, source), UNCHANGED basis, renderSem' = renderSem \ {r},
         renderMode = "always" => source = "rendered",
         renderMode # "always" /\ ~LooksEmpty => source = "http"
  PROVE  ReaderInv(r)' /\ OnlyReader(r) /\ TypeOK' /\ IsFiniteSet(renderSem')
  <1> DEFINE doc == Doc(source)
             end == ChunkEnd(doc, start[r], limit[r])
  <1>1. /\ TypeOK /\ ReaderInv(r) /\ IsFiniteSet(renderSem)
        /\ pc[r] # "read" /\ limit[r] >= 1
    BY DEF IInv, ReaderInv, Busy
  <1>2. /\ doc \in Document /\ Len(doc) \in Nat
        /\ Len(doc) <= Len(page.http) + Len(page.rendered)
        /\ Len(page.http) \in Nat /\ Len(page.rendered) \in Nat
    BY <1>1, DocumentOfPage
  <1>3. /\ start[r] \in Nat
        /\ limit[r] \in Nat \ {0}
        /\ got[r] \in Seq(SUBSET Nat)
    BY <1>1, ReaderTypes
  <1>4. page' = page /\ renderMode' = renderMode /\ LooksEmpty' = LooksEmpty
    BY DEF basis, LooksEmpty
  <1>5. IsFiniteSet(renderSem') /\ renderSem' \in SUBSET Readers /\ Cardinality(renderSem') <= Concurrency
    BY <1>1, RemovedFits
  <1>6. CASE Fail(r)
    BY <1>6, FailKeepsReader
  <1>7. CASE /\ start[r] = 0 \/ start[r] < Len(doc)
             /\ Give(r, source, start[r], end)
             /\ Return(r, IF end < Len(doc) THEN "idle" ELSE "read")
             /\ start' = [start EXCEPT ![r] = IF end < Len(doc) THEN end ELSE 0]
    <2>1. end \in start[r]..Len(doc)
      <3>1. start[r] <= Len(doc)
        <4> HIDE DEF doc
        <4> QED
          BY <1>2, <1>3, <1>7
      <3> HIDE DEF doc
      <3> QED
        BY <1>2, <1>3, <3>1, ChunkEndMovesOn
    <2> DEFINE piece == Letters(doc, start[r], end)
    <2>2. piece \in SUBSET Nat /\ \A a \in piece : start[r] < a /\ a <= end
      <3>1. end \in Nat /\ start[r] <= end
        <4> HIDE DEF doc, end
        <4> QED
          BY <1>2, <1>3, <2>1
      <3> HIDE DEF doc, end
      <3> QED
        BY <1>3, <3>1, LettersJoin
    <2>3. /\ got' = [got EXCEPT ![r] = Append(@, piece)]
          /\ parts' = [parts EXCEPT ![r] = @ \cup {source}]
          /\ pc' = [pc EXCEPT ![r] = IF end < Len(doc) THEN "idle" ELSE "read"]
          /\ limit' = [limit EXCEPT ![r] = 0]
          /\ start' = [start EXCEPT ![r] = IF end < Len(doc) THEN end ELSE 0]
      BY <1>7 DEF Give, Return, Goto, Doc
    <2> HIDE DEF piece, end, doc
    <2>4. /\ got'[r] = Append(got[r], piece)
          /\ parts'[r] = parts[r] \cup {source}
          /\ pc'[r] = IF end < Len(doc) THEN "idle" ELSE "read"
          /\ start'[r] = IF end < Len(doc) THEN end ELSE 0
          /\ OnlyReader(r)
      BY <1>1, <2>3 DEF OnlyReader, TypeOK
    <2>5. TypeOK'
      <3>1. (IF end < Len(doc) THEN end ELSE 0) \in 0..(Len(page.http) + Len(page.rendered))
        <4> DEFINE a == Len(page.http)
                   b == Len(page.rendered)
                   l == Len(doc)
        <4>1. a \in Nat /\ b \in Nat /\ l \in Nat /\ l <= a + b /\ end \in start[r]..l
          BY <1>2, <2>1
        <4> HIDE DEF a, b, l
        <4>2. (IF end < l THEN end ELSE 0) \in 0..(a + b)
          BY <1>3, <4>1
        <4> QED
          BY <4>2 DEF a, b, l
      <3>2. Append(got[r], piece) \in Seq(SUBSET Nat)
        BY <1>3, <2>2, PieceAdded
      <3>3. got' \in [Readers -> Seq(SUBSET Nat)]
        BY <1>1, <2>3, <3>2 DEF TypeOK
      <3>4. start' \in [Readers -> 0..(Len(page.http) + Len(page.rendered))]
        BY <1>1, <2>3, <3>1 DEF TypeOK
      <3>5. pc' \in [Readers -> Places] /\ limit' \in [Readers -> 0..MaxChars]
        BY <1>1, <2>3, ReadingAssumption DEF TypeOK, Places
      <3>6. parts' \in [Readers -> SUBSET Sources]
        BY <1>1, <2>3 DEF TypeOK
      <3>7. renderSem' \in SUBSET Readers
        BY <1>1 DEF TypeOK
      <3> QED
        BY <1>1, <1>4, <1>5, <3>3, <3>4, <3>5, <3>6, <3>7 DEF TypeOK
    <2>6. InOrder(r)'
      <3>1. start[r] <= end /\ end \in Nat
        BY <1>2, <1>3, <2>1
      <3>2. InOrder(r)
        BY <1>1 DEF ReaderInv
      <3>3. pc'[r] # "read" => start'[r] = end
        BY <2>4
      <3> QED
        BY <1>1, <2>2, <2>4, <3>1, <3>2, <3>3, GivenInOrder
    <2>7. Covered(r)'
      <3>1. start[r] <= end /\ end \in Nat /\ end <= Len(Doc(source))
        BY <1>2, <1>3, <2>1 DEF doc
      <3>2. /\ got'[r] = Append(got[r], Letters(Doc(source), start[r], end))
            /\ parts'[r] = parts[r] \cup {source}
            /\ pc'[r] = IF end < Len(Doc(source)) THEN "idle" ELSE "read"
            /\ start'[r] = IF end < Len(Doc(source)) THEN end ELSE 0
        BY <2>4 DEF doc, piece
      <3> QED
        BY <1>1, <3>1, <3>2, GivenIsCovered
    <2>8. PlacesFit(r)'
      BY <1>1, <1>4, <2>4 DEF ReaderInv, PlacesFit
    <2>9. ReaderInv(r)'
      BY <1>1, <2>4, <2>6, <2>7, <2>8 DEF ReaderInv, Busy, Sources
    <2> QED
      BY <1>5, <2>4, <2>5, <2>9
  <1> QED
    BY <1>6, <1>7 DEF Paginate, Fail, Doc
-----------------------------------------------------------------------------
LEMMA InitInv == Init => IInv
  <1> SUFFICES ASSUME Init PROVE IInv
    OBVIOUS
  <1>1. IsFiniteSet(renderSem) /\ Cardinality(renderSem) = 0
    BY FS_EmptySet DEF Init
  <1>2. TypeOK
    <2>1. page.http \in Document /\ page.rendered \in Document
      BY ReadingAssumption DEF Init, Sources
    <2>2. Len(page.http) \in Nat /\ Len(page.rendered) \in Nat
      BY <2>1, DocumentParts
    <2>3. 0 \in 0..(Len(page.http) + Len(page.rendered)) /\ 0 \in 0..MaxChars
      <3> DEFINE a == Len(page.http)
                 b == Len(page.rendered)
      <3>1. a \in Nat /\ b \in Nat
        BY <2>2
      <3> HIDE DEF a, b
      <3>2. 0 \in 0..(a + b) /\ 0 \in 0..MaxChars
        BY <3>1, ReadingAssumption
      <3> QED
        BY <3>2 DEF a, b
    <2>4. Cardinality(renderSem) <= Concurrency
      BY <1>1, ReadingAssumption
    <2>5. <<>> \in Seq(SUBSET Nat)
      OBVIOUS
    <2> QED
      BY <2>3, <2>4, <2>5 DEF Init, TypeOK, Places
  <1>3. ASSUME NEW r \in Readers PROVE ReaderInv(r)
    BY DEF Init, ReaderInv, Busy, PlacesFit, InOrder, Covered
  <1> QED
    BY <1>1, <1>2, <1>3 DEF IInv

(* A call is given a limit of at least one character.                      *)
LEMMA CharLimitFits ==
  ASSUME NEW requested \in Requested
  PROVE  CharLimit(requested) \in 1..MaxChars
  BY ReadingAssumption DEF CharLimit

LEMMA CallKeeps ==
  ASSUME IInv, NEW r \in Readers, NEW requested \in Requested, Call(r, requested)
  PROVE  IInv'
  <1> DEFINE again == pc[r] = "read"
             place == IF renderMode = "always" THEN "check" ELSE "fetch"
  <1>1. TypeOK /\ ReaderInv(r) /\ IsFiniteSet(renderSem) /\ pc[r] \in {"idle", "failed", "read"}
    BY DEF IInv, Call
  <1>2. /\ limit' = [limit EXCEPT ![r] = CharLimit(requested)]
        /\ got' = [got EXCEPT ![r] = IF again THEN <<>> ELSE @]
        /\ parts' = [parts EXCEPT ![r] = IF again THEN {} ELSE @]
        /\ pc' = [pc EXCEPT ![r] = place]
        /\ UNCHANGED <<basis, renderSem, start>>
    BY DEF Call, Goto
  <1>3. page' = page /\ renderMode' = renderMode /\ LooksEmpty' = LooksEmpty
    BY <1>2 DEF basis, LooksEmpty
  <1>4. CharLimit(requested) \in 1..MaxChars /\ MaxChars \in Nat
    BY CharLimitFits, ReadingAssumption
  <1>5. /\ limit'[r] = CharLimit(requested)
        /\ got'[r] = IF again THEN <<>> ELSE got[r]
        /\ parts'[r] = IF again THEN {} ELSE parts[r]
        /\ pc'[r] = place
        /\ start'[r] = start[r]
    BY <1>1, <1>2 DEF TypeOK
  <1>6. OnlyReader(r)
    BY <1>1, <1>2 DEF OnlyReader, TypeOK
  <1>7. TypeOK'
    <2>1. limit' \in [Readers -> 0..MaxChars]
      <3>1. CharLimit(requested) \in 0..MaxChars
        BY <1>4
      <3> QED
        BY <1>1, <1>2, <3>1 DEF TypeOK
    <2>2. pc' \in [Readers -> Places]
      BY <1>1, <1>2 DEF TypeOK, Places
    <2>3. got' \in [Readers -> Seq(SUBSET Nat)]
      <3>1. (IF again THEN <<>> ELSE got[r]) \in Seq(SUBSET Nat)
        BY <1>1, ReaderTypes
      <3> QED
        BY <1>1, <1>2, <3>1 DEF TypeOK
    <2>4. parts' \in [Readers -> SUBSET Sources]
      BY <1>1, <1>2 DEF TypeOK
    <2> QED
      BY <1>1, <1>2, <1>3, <2>1, <2>2, <2>3, <2>4 DEF TypeOK
  <1>8. InOrder(r)'
    <2>1. CASE again
      <3>1. DOMAIN <<>> = {}
        OBVIOUS
      <3> QED
        BY <1>5, <2>1, <3>1 DEF InOrder
    <2>2. CASE ~again
      BY <1>1, <1>5, <2>2 DEF InOrder, ReaderInv
    <2> QED
      BY <2>1, <2>2
  <1>9. Covered(r)'
    <2>1. \A source : Doc(source)' = Doc(source)
      BY <1>3 DEF Doc
    <2>2. CASE again
      BY <1>5, <2>2 DEF Covered
    <2>3. CASE ~again
      BY <1>1, <1>5, <2>1, <2>3 DEF Covered, ReaderInv
    <2> QED
      BY <2>2, <2>3
  <1>10. PlacesFit(r)'
    BY <1>1, <1>3, <1>5 DEF PlacesFit, ReaderInv
  <1>11. ReaderInv(r)'
    <2>1. limit'[r] >= 1
      BY <1>4, <1>5
    <2> QED
      BY <1>1, <1>2, <1>5, <1>8, <1>9, <1>10, <2>1 DEF ReaderInv
  <1> QED
    BY <1>1, <1>2, <1>6, <1>7, <1>11, ReaderStep

(* A reader goes from one place of its call to another.                    *)
LEMMA MoveKeeps ==
  ASSUME IInv, NEW r \in Readers, NEW place \in Busy, pc[r] \in Busy, Goto(r, place),
         UNCHANGED <<basis, start, limit, got, parts>>,
         place = "fetch" => renderMode # "always",
         place \in {"check", "wait", "browser"} => renderMode = "always" \/ LooksEmpty,
         renderSem' \in SUBSET Readers, IsFiniteSet(renderSem'),
         Cardinality(renderSem') <= Concurrency,
         \A u \in Readers \ {r} : u \in renderSem' <=> u \in renderSem,
         r \in renderSem' <=> place = "browser"
  PROVE  IInv'
  <1>1. TypeOK /\ ReaderInv(r)
    BY DEF IInv
  <1>2. pc' = [pc EXCEPT ![r] = place]
    BY DEF Goto
  <1>3. pc'[r] = place /\ place # "read" /\ pc[r] # "read"
    BY <1>1, <1>2 DEF TypeOK, Busy
  <1>4. page' = page /\ renderMode' = renderMode /\ LooksEmpty' = LooksEmpty
    BY DEF basis, LooksEmpty
  <1>5. OnlyReader(r)
    BY <1>1, <1>2 DEF OnlyReader, TypeOK
  <1>6. TypeOK'
    <2>1. pc' \in [Readers -> Places]
      BY <1>1, <1>2 DEF TypeOK, Places, Busy
    <2> QED
      BY <1>1, <1>4, <2>1 DEF TypeOK
  <1>7. PlacesFit(r)' /\ InOrder(r)'
    BY <1>1, <1>3, <1>4 DEF ReaderInv, PlacesFit, InOrder
  <1>8. Covered(r)'
    <2>1. \A source : Doc(source)' = Doc(source)
      BY <1>4 DEF Doc
    <2> QED
      BY <1>1, <1>3, <2>1 DEF ReaderInv, Covered
  <1>9. ReaderInv(r)'
    BY <1>1, <1>3, <1>7, <1>8 DEF ReaderInv
  <1> QED
    BY <1>5, <1>6, <1>9, ReaderStep

LEMMA FailKeeps ==
  ASSUME IInv, NEW r \in Readers, pc[r] \in Busy, Fail(r), UNCHANGED basis,
         renderSem' = renderSem \ {r}
  PROVE  IInv'
  BY FailKeepsReader, ReaderStep

LEMMA GivingKeeps ==
  ASSUME IInv, NEW r \in Readers, pc[r] \in Busy, NEW source \in Sources,
         Paginate(r, source), UNCHANGED basis, renderSem' = renderSem \ {r},
         renderMode = "always" => source = "rendered",
         renderMode # "always" /\ ~LooksEmpty => source = "http"
  PROVE  IInv'
  BY PaginateKeepsReader, ReaderStep

LEMMA FetchKeeps ==
  ASSUME IInv, NEW r \in Readers, Fetch(r)
  PROVE  IInv'
  <1>1. /\ ReaderInv(r) /\ pc[r] \in Busy /\ renderMode # "always" /\ pc[r] = "fetch"
        /\ TypeOK /\ IsFiniteSet(renderSem)
    BY DEF IInv, ReaderInv, PlacesFit, Fetch, Busy
  <1>2. r \notin renderSem /\ renderSem' = renderSem /\ UNCHANGED basis
    BY <1>1 DEF ReaderInv, Fetch
  <1>3. renderSem' = renderSem \ {r}
    BY <1>2
  <1>4. CASE LooksEmpty /\ Goto(r, "check") /\ UNCHANGED <<start, limit, got, parts>>
    <2>1. "check" \in Busy
      BY DEF Busy
    <2> QED
      BY <1>1, <1>2, <1>4, <2>1, MoveKeeps DEF TypeOK
  <1>5. CASE ~LooksEmpty /\ Paginate(r, "http")
    <2>1. "http" \in Sources
      BY DEF Sources
    <2> QED
      BY <1>1, <1>2, <1>3, <1>5, <2>1, GivingKeeps
  <1>6. CASE Fail(r)
    BY <1>1, <1>2, <1>3, <1>6, FailKeeps
  <1> QED
    BY <1>4, <1>5, <1>6 DEF Fetch

LEMMA CheckHostKeeps ==
  ASSUME IInv, NEW r \in Readers, CheckHost(r)
  PROVE  IInv'
  <1>1. /\ ReaderInv(r) /\ pc[r] \in Busy /\ pc[r] = "check" /\ TypeOK /\ IsFiniteSet(renderSem)
        /\ Goto(r, "wait") /\ UNCHANGED <<basis, renderSem, start, limit, got, parts>>
    BY DEF IInv, CheckHost, Busy
  <1>2. "wait" \in Busy /\ r \notin renderSem /\ (renderMode = "always" \/ LooksEmpty)
    BY <1>1 DEF ReaderInv, PlacesFit, Busy
  <1> QED
    BY <1>1, <1>2, MoveKeeps DEF TypeOK

LEMMA EnterKeeps ==
  ASSUME IInv, NEW r \in Readers, Enter(r)
  PROVE  IInv'
  <1>1. /\ ReaderInv(r) /\ pc[r] \in Busy /\ pc[r] = "wait" /\ TypeOK /\ IsFiniteSet(renderSem)
        /\ Goto(r, "browser") /\ UNCHANGED <<basis, start, limit, got, parts>>
        /\ Cardinality(renderSem) < Concurrency /\ renderSem' = renderSem \cup {r}
    BY DEF IInv, Enter, Busy
  <1>2. "browser" \in Busy /\ r \notin renderSem /\ (renderMode = "always" \/ LooksEmpty)
    BY <1>1 DEF ReaderInv, PlacesFit, Busy
  <1>3. IsFiniteSet(renderSem') /\ Cardinality(renderSem') = Cardinality(renderSem) + 1
    BY <1>1, <1>2, FS_AddElement
  <1>4. Cardinality(renderSem') <= Concurrency
    <2>1. Cardinality(renderSem) \in Nat /\ Concurrency \in Nat
      BY <1>1, FS_CardinalityType, ReadingAssumption
    <2> QED
      BY <1>1, <1>3, <2>1
  <1>5. renderSem' \in SUBSET Readers
    BY <1>1 DEF TypeOK
  <1>6. \A u \in Readers \ {r} : u \in renderSem' <=> u \in renderSem
    BY <1>1
  <1>7. r \in renderSem'
    BY <1>1
  <1> QED
    BY <1>1, <1>2, <1>3, <1>4, <1>5, <1>6, <1>7, MoveKeeps

LEMMA RenderKeeps ==
  ASSUME IInv, NEW r \in Readers, Render(r)
  PROVE  IInv'
  <1>1. /\ ReaderInv(r) /\ pc[r] \in Busy /\ pc[r] = "browser"
        /\ Paginate(r, "rendered") /\ UNCHANGED basis /\ renderSem' = renderSem \ {r}
    BY DEF IInv, Render, Busy
  <1>2. renderMode = "always" \/ LooksEmpty
    BY <1>1 DEF ReaderInv, PlacesFit
  <1>3. "rendered" \in Sources
    BY DEF Sources
  <1> QED
    BY <1>1, <1>2, <1>3, GivingKeeps

LEMMA RenderFailsKeeps ==
  ASSUME IInv, NEW r \in Readers, RenderFails(r)
  PROVE  IInv'
  <1>1. pc[r] \in Busy /\ UNCHANGED basis /\ renderSem' = renderSem \ {r}
    BY DEF RenderFails, Busy
  <1>2. CASE renderMode = "fallback" /\ Paginate(r, "http")
    <2>1. "http" \in Sources
      BY DEF Sources
    <2> QED
      BY <1>1, <1>2, <2>1, GivingKeeps
  <1>3. CASE renderMode = "always" /\ Fail(r)
    BY <1>1, <1>3, FailKeeps
  <1> QED
    BY <1>2, <1>3 DEF RenderFails

LEMMA NextKeeps == IInv /\ [Next]_vars => IInv'
  <1> SUFFICES ASSUME IInv, [Next]_vars PROVE IInv'
    OBVIOUS
  <1>1. CASE UNCHANGED vars
    <2>1. \A r \in Readers : ReaderInv(r)'
      BY <1>1, OthersKeepTheirs DEF vars, basis, IInv
    <2> QED
      BY <1>1, <2>1 DEF IInv, vars, TypeOK
  <1>2. ASSUME NEW r \in Readers, NEW requested \in Requested, Call(r, requested) PROVE IInv'
    BY <1>2, CallKeeps
  <1>3. ASSUME NEW r \in Readers, Load(r) PROVE IInv'
    BY <1>3, FetchKeeps, CheckHostKeeps, EnterKeeps, RenderKeeps, RenderFailsKeeps DEF Load
  <1> QED
    BY <1>1, <1>2, <1>3 DEF Next
-----------------------------------------------------------------------------
THEOREM ReadingInvariant == Spec => []IInv
  BY InitInv, NextKeeps, PTL DEF Spec

(* No more than Concurrency renders ever run at the same time, a call runs *)
(* with a limit the server allows, and a client is never told to go on     *)
(* beyond the longer of the two documents (render, scrape_tool.go:245-268; *)
(* charLimit; paginate).                                                   *)
THEOREM RendersAreFew == Spec => []TypeOK
  <1>1. IInv => TypeOK
    BY DEF IInv
  <1> QED
    BY <1>1, ReadingInvariant, PTL

(* Whatever limits its calls have, and however often they fail, the parts  *)
(* a client is given are in order and, so far as they come from one        *)
(* document, make it up without a gap (paginate and chunkEnd,              *)
(* scrape_tool.go:365-426). They may come from two where a page looks      *)
(* empty without a browser: of those parts only the order is shown.        *)
THEOREM NothingIsLeftOut == Spec => []PartsMakeThePage
  <1>1. IInv => PartsMakeThePage
    <2> SUFFICES ASSUME IInv, NEW r \in Readers
                 PROVE  /\ \A i, j \in DOMAIN got[r] : i < j =>
                               \A a \in got[r][i], b \in got[r][j] : a < b
                        /\ \A source \in parts[r] :
                             parts[r] = {source} \/ ~LooksEmpty =>
                               AllOf(got[r]) = Letters(TrimSpace(page[source]), 0,
                                 IF pc[r] = "read" THEN Len(TrimSpace(page[source])) ELSE start[r])
      BY DEF PartsMakeThePage
    <2>1. ReaderInv(r)
      BY DEF IInv
    <2>2. ASSUME NEW source \in parts[r], parts[r] = {source} \/ ~LooksEmpty
          PROVE  /\ source \in Sources
                 /\ parts[r] = {source}
      BY <2>1, <2>2 DEF ReaderInv, PlacesFit
    <2> QED
      BY <2>1, <2>2 DEF ReaderInv, InOrder, Covered, Doc
  <1> QED
    BY <1>1, ReadingInvariant, PTL

LEMMA PaginateMovesOn ==
  ASSUME IInv, NEW r \in Readers, NEW source \in Sources, pc[r] \in Busy,
         Paginate(r, source), pc'[r] = "idle"
  PROVE  start'[r] > start[r]
  <1> DEFINE doc == Doc(source)
             end == ChunkEnd(doc, start[r], limit[r])
  <1>1. TypeOK /\ ReaderInv(r) /\ limit[r] >= 1
    BY DEF IInv, ReaderInv
  <1>2. doc \in Document /\ Len(doc) \in Nat
    BY <1>1, DocumentOfPage
  <1>3. start[r] \in Nat /\ limit[r] \in Nat \ {0}
    BY <1>1, ReaderTypes
  <1>4. CASE Return(r, "failed")
    BY <1>1, <1>4 DEF Return, Goto, TypeOK
  <1>5. CASE /\ start[r] = 0 \/ start[r] < Len(doc)
             /\ Return(r, IF end < Len(doc) THEN "idle" ELSE "read")
             /\ start' = [start EXCEPT ![r] = IF end < Len(doc) THEN end ELSE 0]
    <2> HIDE DEF doc
    <2>1. start[r] <= Len(doc)
      BY <1>2, <1>3, <1>5
    <2>2. end < Len(doc) => end > start[r]
      BY <1>2, <1>3, <2>1, ChunkEndMovesOn
    <2> HIDE DEF end
    <2>3. pc'[r] = (IF end < Len(doc) THEN "idle" ELSE "read") /\ start'[r] = IF end < Len(doc) THEN end ELSE 0
      BY <1>1, <1>5 DEF Return, Goto, TypeOK
    <2> QED
      BY <2>2, <2>3
  <1> QED
    BY <1>4, <1>5 DEF Paginate, Doc

(* A part that is not the last moves the client on, whatever limit it      *)
(* asked for: one that follows next_index comes to an end of the page      *)
(* (chunkEnd, scrape_tool.go:413-426).                                     *)
THEOREM ReadingMovesOn == Spec => EveryPartMovesOn
  <1>1. IInv /\ [Next]_vars =>
          [\A r \in Readers : pc[r] # "idle" /\ pc'[r] = "idle" => start'[r] > start[r]]_vars
    <2> SUFFICES ASSUME IInv, [Next]_vars, NEW r \in Readers, pc[r] # "idle", pc'[r] = "idle"
                 PROVE  start'[r] > start[r]
      OBVIOUS
    <2>1. TypeOK
      BY DEF IInv
    <2>2. PICK u \in Readers : (\E requested \in Requested : Call(u, requested)) \/ Load(u)
      BY DEF Next, vars
    <2>3. u = r
      <3>1. SUFFICES ASSUME u # r PROVE pc'[r] = pc[r]
        OBVIOUS
      <3>2. \E place : Goto(u, place)
        BY <2>2 DEF Call, Load, Fetch, CheckHost, Enter, Render, RenderFails, Paginate, Fail, Return
      <3> QED
        BY <2>1, <3>1, <3>2 DEF Goto, TypeOK
    <2>4. CASE \E requested \in Requested : Call(r, requested)
      BY <2>1, <2>4 DEF Call, Goto, TypeOK
    <2>5. CASE CheckHost(r) \/ Enter(r) \/ Fail(r) \/ Goto(r, "check")
      BY <2>1, <2>5 DEF CheckHost, Enter, Fail, Return, Goto, TypeOK
    <2>6. ASSUME NEW source \in Sources, Paginate(r, source), pc[r] \in Busy
          PROVE  start'[r] > start[r]
      BY <2>6, PaginateMovesOn
    <2>7. CASE Fetch(r) \/ Render(r) \/ RenderFails(r)
      <3>1. "http" \in Sources /\ "rendered" \in Sources
        BY DEF Sources
      <3>2. pc[r] \in Busy
        BY <2>7 DEF Fetch, Render, RenderFails, Busy
      <3> QED
        BY <2>5, <2>6, <2>7, <3>1, <3>2 DEF Fetch, Render, RenderFails
    <2> QED
      BY <2>2, <2>3, <2>4, <2>5, <2>7 DEF Load
  <1> QED
    BY <1>1, ReadingInvariant, PTL DEF Spec, EveryPartMovesOn
=============================================================================
