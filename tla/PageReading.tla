------------------------------ MODULE PageReading ------------------------------
(***************************************************************************)
(* The scrape tool (mcp-searxng/internal/tools/scrape_tool.go) and the     *)
(* clients that read a long page with it, part by part, as the             *)
(* description of the tool tells them: each call starts at the next_index  *)
(* of the one before. A call fetches the page again; it may have it        *)
(* rendered by a headless browser, of which a semaphore allows few at the  *)
(* same time.                                                              *)
(*                                                                         *)
(* What is abstracted: a document is its letters, spaces and ends of line  *)
(* after the conversion to markdown; the letters are told apart by where   *)
(* they stand. A page does not change while it is read.                    *)
(***************************************************************************)
EXTENDS Naturals, Sequences, FiniteSets, SequencesExt

CONSTANTS
  Readers,
  Pages,        \* pages: what HTTP returns and what the browser renders
  RenderModes,  \* of "off", "fallback", "always"
  MaxChars,     \* the server's limit of characters
  Requested,    \* what clients pass as max_chars; 0 stands for nothing
  Concurrency,  \* places of renderSem
  JsOnly        \* jsOnlyThreshold (200)

Sources  == {"http", "rendered"}
Document == Seq({"letter", "space", "line"})

ASSUME ReadingAssumption ==
  /\ Pages \subseteq [Sources -> Document]
  /\ RenderModes \subseteq {"off", "fallback", "always"}
  /\ MaxChars \in Nat \ {0}
  /\ Requested \subseteq Nat
  /\ Concurrency \in Nat \ {0}
  /\ JsOnly \in Nat

VARIABLES
  page, renderMode,
  renderSem, \* the calls that have put a token into the channel
  pc,      \* where each call is, or how it ended
  start,   \* its start_index
  limit,   \* its charLimit, while it runs
  got,     \* history variables: the letters of each part received, by
  parts    \*   their offsets, and what the parts were made of

vars == <<page, renderMode, renderSem, pc, start, limit, got, parts>>
basis == <<page, renderMode>>

Places == {"idle", "fetch", "check", "wait", "browser", "read", "failed"}

TypeOK ==
  /\ page \in Pages
  /\ renderMode \in RenderModes
  /\ renderSem \in SUBSET Readers /\ Cardinality(renderSem) <= Concurrency
  /\ pc \in [Readers -> Places]
  /\ start \in [Readers -> 0..(Len(page.http) + Len(page.rendered))]
  /\ limit \in [Readers -> 0..MaxChars]
  /\ got \in [Readers -> Seq(SUBSET Nat)]
  /\ parts \in [Readers -> SUBSET Sources]

Init ==
  /\ page \in Pages
  /\ renderMode \in RenderModes
  /\ renderSem = {}
  /\ pc = [r \in Readers |-> "idle"]
  /\ start = [r \in Readers |-> 0]
  /\ limit = [r \in Readers |-> 0]
  /\ got = [r \in Readers |-> <<>>]
  /\ parts = [r \in Readers |-> {}]
-----------------------------------------------------------------------------
(* charLimit *)
CharLimit(requested) == IF requested \in 1..MaxChars THEN requested ELSE MaxChars

Letters(doc, from, to) == {i \in (from + 1)..to : doc[i] = "letter"}

Earliest(offsets) == CHOOSE i \in offsets : \A j \in offsets : i <= j
Latest(offsets)   == CHOOSE i \in offsets : \A j \in offsets : i >= j

(* strings.TrimSpace: from the first letter to the last.                   *)
TrimSpace(doc) ==
  LET letters == Letters(doc, 0, Len(doc))
  IN  IF letters = {} THEN <<>> ELSE SubSeq(doc, Earliest(letters), Latest(letters))

(* The offsets after the separators that lie between from and to.          *)
CutsAfter(doc, from, to, separator) ==
  {i \in (from + Len(separator))..to : SubSeq(doc, i - Len(separator) + 1, i) = separator}

(* The preferred place to cut between from and to: after a paragraph, or   *)
(* else a line, or else a word.                                            *)
Cut(doc, from, to) ==
  LET cuts(separator) == CutsAfter(doc, from, to, separator) IN
  CASE cuts(<<"line", "line">>) # {} -> Latest(cuts(<<"line", "line">>))
    [] cuts(<<"line">>) # {}         -> Latest(cuts(<<"line">>))
    [] cuts(<<"space">>) # {}        -> Latest(cuts(<<"space">>))
    [] OTHER                         -> to

(* Faulty: looks for a separator in the whole chunk, and cuts before it.   *)
ChunkEndBefore(doc, from, lim) ==
  LET to   == from + lim
      cuts == {i \in from..to - 1 : doc[i + 1] # "letter"}
  IN IF to >= Len(doc) THEN Len(doc)
     ELSE IF cuts # {} THEN Latest(cuts) ELSE to

(* chunkEnd *)
ChunkEnd(doc, from, lim) ==
  LET to == from + lim IN
  IF to >= Len(doc) THEN Len(doc) ELSE Cut(doc, to - lim \div 3, to)
-----------------------------------------------------------------------------
Goto(r, place) == pc' = [pc EXCEPT ![r] = place]

Return(r, outcome) == Goto(r, outcome) /\ limit' = [limit EXCEPT ![r] = 0]

(* A client begins to read the page, reads on, or tries again. load        *)
(* decides what to do first.                                               *)
Call(r, requested) ==
  /\ pc[r] \in {"idle", "failed", "read"}
  /\ limit' = [limit EXCEPT ![r] = CharLimit(requested)]
  /\ got' = [got EXCEPT ![r] = IF pc[r] = "read" THEN <<>> ELSE @]
  /\ parts' = [parts EXCEPT ![r] = IF pc[r] = "read" THEN {} ELSE @]
  /\ Goto(r, IF renderMode = "always" THEN "check" ELSE "fetch")
  /\ UNCHANGED <<basis, renderSem, start>>

Give(r, source, from, to) ==
  /\ got' = [got EXCEPT ![r] = Append(@, Letters(TrimSpace(page[source]), from, to))]
  /\ parts' = [parts EXCEPT ![r] = @ \cup {source}]

(* Faulty: next_index ignores that the part was cut.                       *)
PaginateByLimit(r, source) ==
  LET doc == TrimSpace(page[source])
      end == ChunkEnd(doc, start[r], limit[r])
  IN  \/ /\ start[r] > 0 /\ start[r] >= Len(doc)
         /\ Return(r, "failed")
         /\ UNCHANGED <<start, got, parts>>
      \/ /\ start[r] = 0 \/ start[r] < Len(doc)
         /\ Give(r, source, start[r], end)
         /\ Return(r, IF end < Len(doc) THEN "idle" ELSE "read")
         /\ start' = [start EXCEPT ![r] = IF end < Len(doc) THEN @ + limit[r] ELSE 0]

(* paginate, and what the client makes of its result: an error, a part     *)
(* with a next_index, or one that ends the page.                           *)
Paginate(r, source) ==
  LET doc == TrimSpace(page[source])
      end == ChunkEnd(doc, start[r], limit[r])
  IN  \/ /\ start[r] > 0 /\ start[r] >= Len(doc)
         /\ Return(r, "failed")
         /\ UNCHANGED <<start, got, parts>>
      \/ /\ start[r] = 0 \/ start[r] < Len(doc)
         /\ Give(r, source, start[r], end)
         /\ Return(r, IF end < Len(doc) THEN "idle" ELSE "read")
         /\ start' = [start EXCEPT ![r] = IF end < Len(doc) THEN end ELSE 0]

Fail(r) == Return(r, "failed") /\ UNCHANGED <<start, got, parts>>

(* isJSOnly, where a renderer may do better.                               *)
LooksEmpty == renderMode = "fallback" /\ Len(page.http) < JsOnly

(* load: fetch and extract, or their failure.                              *)
Fetch(r) ==
  /\ pc[r] = "fetch"
  /\ \/ LooksEmpty /\ Goto(r, "check") /\ UNCHANGED <<start, limit, got, parts>>
     \/ ~LooksEmpty /\ Paginate(r, "http")
     \/ Fail(r)
  /\ UNCHANGED <<basis, renderSem>>

(* render: checkHost.                                                      *)
CheckHost(r) ==
  /\ pc[r] = "check"
  /\ Goto(r, "wait")
  /\ UNCHANGED <<basis, renderSem, start, limit, got, parts>>

(* Faulty: one place too many.                                             *)
EnterAnyway(r) ==
  /\ pc[r] = "wait"
  /\ Cardinality(renderSem) <= Concurrency
  /\ renderSem' = renderSem \cup {r}
  /\ Goto(r, "browser")
  /\ UNCHANGED <<basis, start, limit, got, parts>>

(* render: the semaphore has a place.                                      *)
Enter(r) ==
  /\ pc[r] = "wait"
  /\ Cardinality(renderSem) < Concurrency
  /\ renderSem' = renderSem \cup {r}
  /\ Goto(r, "browser")
  /\ UNCHANGED <<basis, start, limit, got, parts>>

(* render: the browser is done; the deferred call gives the place back.    *)
Render(r) ==
  /\ pc[r] = "browser"
  /\ renderSem' = renderSem \ {r}
  /\ Paginate(r, "rendered")
  /\ UNCHANGED basis

(* Faulty: the place is given back on success only.                        *)
RenderFailsInPlace(r) ==
  /\ pc[r] \in {"check", "wait", "browser"}
  /\ \/ renderMode = "fallback" /\ Paginate(r, "http")
     \/ renderMode = "always" /\ Fail(r)
  /\ UNCHANGED <<basis, renderSem>>

(* checkHost refuses, the client gives up waiting, or the browser fails:   *)
(* in the fallback mode what HTTP returned is used.                        *)
RenderFails(r) ==
  /\ pc[r] \in {"check", "wait", "browser"}
  /\ renderSem' = renderSem \ {r}
  /\ \/ renderMode = "fallback" /\ Paginate(r, "http")
     \/ renderMode = "always" /\ Fail(r)
  /\ UNCHANGED basis

Load(r) == Fetch(r) \/ CheckHost(r) \/ Enter(r) \/ Render(r) \/ RenderFails(r)

Next == \E r \in Readers : (\E requested \in Requested : Call(r, requested)) \/ Load(r)

(* Fetches and renders have timeouts; a channel serves those that wait for *)
(* it in their order.                                                      *)
Spec ==
  /\ Init
  /\ [][Next]_vars
  /\ \A r \in Readers : WF_vars(Fetch(r) \/ CheckHost(r) \/ Render(r)) /\ SF_vars(Enter(r))
-----------------------------------------------------------------------------
AllOf(pieces) == UNION {pieces[i] : i \in DOMAIN pieces}

(* The parts a client is given make up the page: no letter comes twice or  *)
(* late, and none is left out between them or at the end, whatever         *)
(* max_chars the calls had (chunkEnd, scrape_tool.go:413-426, and          *)
(* NextIndex, 365-369).                                                    *)
(* The exception is a page that looks empty without a browser, when the    *)
(* browser works for some calls and fails for others (load, 215-221): its  *)
(* parts are of two documents.                                             *)
PartsMakeThePage ==
  \A r \in Readers :
    /\ \A i, j \in DOMAIN got[r] : i < j => \A a \in got[r][i], b \in got[r][j] : a < b
    /\ \A source \in parts[r] :
         parts[r] = {source} \/ ~LooksEmpty =>
           LET doc == TrimSpace(page[source])
           IN  AllOf(got[r]) = Letters(doc, 0, IF pc[r] = "read" THEN Len(doc) ELSE start[r])

(* A part that is not the last moves next_index on, or a client that       *)
(* follows it would read for ever.                                         *)
EveryPartMovesOn ==
  [][\A r \in Readers : pc[r] # "idle" /\ pc'[r] = "idle" => start'[r] > start[r]]_vars

(* Every call returns, also one that waits for a place among the renders   *)
(* while others fail.                                                      *)
EveryCallReturns ==
  \A r \in Readers : pc[r] \in {"fetch", "check", "wait", "browser"} ~> pc[r] \in {"idle", "read", "failed"}
=============================================================================
