------------------------------- MODULE LeadWalk -------------------------------
(***************************************************************************)
(* One walk over the pages of a lead search: WalkLeads and SearchAllLeads   *)
(* of Go, searchAllLeads of TypeScript, search_all_leads of Python and of   *)
(* its asyncio client.  Each asks for a page, hands its rows to the caller  *)
(* and goes on from the cursor the page carries.                           *)
(*                                                                         *)
(* A cursor is a place in one ordering of the result.  The server orders a  *)
(* page by the field asked for if the backend that serves the page knows    *)
(* that field, and by score if not; during an outage another backend        *)
(* serves.  A cursor read under the other ordering is compared with the     *)
(* wrong column: it may continue anywhere.                                  *)
(***************************************************************************)
EXTENDS Naturals, Sequences

CONSTANTS
  NPages,    (* pages the whole result takes; a page stands for its rows     *)
  MaxPages   (* maxPages of the walk                                         *)

ASSUME BoundsAssumption == NPages \in Nat \ {0} /\ MaxPages \in Nat \ {0}

VARIABLES
  kind,      (* whose walk: "go", "ts", "py" or "async"                      *)
  knows,     (* backends that know the requested field                      *)
  fault,     (* "none", "stuck" (may repeat a cursor), "gap" (empty pages)   *)
  backend,   (* "node" or "orm", the backend that serves                    *)
  pc,        (* "ask", "asked", "visit", "step" or "done"                    *)
  start,     (* the cursor the caller gave                                  *)
  field,     (* the ordering the next request names                          *)
  cursor,    (* the cursor the next request names                           *)
  seen,      (* the cursors the walk has followed                            *)
  asks,      (* pages asked for                                             *)
  page,      (* the page being handled                                      *)
  pages,     (* history: [cursor, by] of every page answered                 *)
  got,       (* history: places of the rows delivered                        *)
  result     (* "none", "finished", "stopped", "err" or "truncated"          *)

serverVars == <<kind, knows, fault, backend, start>>
vars == <<serverVars, pc, field, cursor, seen, asks, page, pages, got, result>>

Backends == {"node", "orm"}
Orderings == {"wanted", "score"}
NoCursor == [by |-> "none", at |-> 0]
Cursors == [by : Orderings, at : 0..NPages]
NoPage == [row |-> 0, by |-> "none", next |-> NoCursor]

\* The ordering the server applies to a request.
Applied == IF backend \in knows THEN field ELSE "score"

PageRecords ==
  [row : 0..NPages, by : Orderings \cup {"none"}, next : Cursors \cup {NoCursor}]

TypeOK ==
  /\ kind \in {"go", "ts", "py", "async"}
  /\ knows \subseteq Backends /\ backend \in Backends
  /\ fault \in {"none", "stuck", "gap"}
  /\ pc \in {"ask", "asked", "visit", "step", "done"}
  /\ field \in Orderings
  /\ start \in Cursors \cup {NoCursor} /\ cursor \in Cursors \cup {NoCursor}
  /\ seen \subseteq Cursors
  /\ asks \in 0..MaxPages /\ (pc = "ask" => asks < MaxPages)
  /\ page \in PageRecords /\ (pc \in {"visit", "step"} => page.by \in Orderings)
  /\ pages \in Seq([cursor : Cursors \cup {NoCursor}, by : Orderings])
  /\ got \subseteq 1..NPages
  /\ result \in {"none", "finished", "stopped", "err", "truncated"}

\* Go and TypeScript resume at a cursor of an earlier search.
Init ==
  /\ kind \in {"go", "ts", "py", "async"}
  /\ knows \in SUBSET Backends /\ fault \in {"none", "stuck", "gap"}
  /\ backend = "node"
  /\ field = "wanted"
  /\ start \in IF kind \in {"go", "ts"}
               THEN {NoCursor} \cup [by : {Applied}, at : 1..NPages]
               ELSE {NoCursor}
  /\ pc = "ask" /\ cursor = start /\ seen = {} /\ asks = 0
  /\ page = NoPage /\ pages = << >> /\ got = {} /\ result = "none"

-----------------------------------------------------------------------------
(* The server.                                                             *)

Outage ==
  /\ backend' \in Backends \ {backend}
  /\ UNCHANGED <<kind, knows, fault, start, pc, field, cursor, seen, asks, page,
                 pages, got, result>>

\* The page after the place n of an ordering; its row is the place it has in the
\* ordering by the wanted field.
PageAfter(by, n) ==
  IF n >= NPages THEN [row |-> 0, by |-> by, next |-> NoCursor]
  ELSE [row  |-> IF by = "wanted" THEN n + 1 ELSE NPages - n,
        by   |-> by,
        next |-> IF n + 1 = NPages THEN NoCursor ELSE [by |-> by, at |-> n + 1]]

Followed == {pages[i].cursor : i \in 1..Len(pages)} \cup {cursor}

Replies(by, n) ==
  {PageAfter(by, n)}
  \cup (IF fault = "stuck"
        THEN {[PageAfter(by, n) EXCEPT !.next = c] : c \in Followed \ {NoCursor}}
        ELSE {})
  \cup (IF fault = "gap" THEN {[PageAfter(by, n) EXCEPT !.row = 0]} ELSE {})

Serve ==
  /\ pc = "asked"
  /\ \E n \in IF cursor.by \in {"none", Applied} THEN {cursor.at} ELSE 0..NPages :
       page' \in Replies(Applied, n)
  /\ pages' = Append(pages, [cursor |-> cursor, by |-> Applied])
  /\ pc' = "visit"
  /\ UNCHANGED <<serverVars, field, cursor, seen, asks, got, result>>

-----------------------------------------------------------------------------
(* The walk.                                                               *)

Return(r) == pc' = "done" /\ result' = r

Ask ==
  /\ pc = "ask"
  /\ pc' = "asked" /\ asks' = asks + 1
  /\ UNCHANGED <<serverVars, field, cursor, seen, page, pages, got, result>>

\* A search that fails ends every walk; TypeScript looks at its signal before each.
SearchFails ==
  /\ pc = "asked" \/ (pc = "ask" /\ kind = "ts")
  /\ Return("err")
  /\ UNCHANGED <<serverVars, field, cursor, seen, asks, page, pages, got>>

\* visit returns an error, the caller stops iterating, or maxItems is reached.
ConsumerStops ==
  /\ pc = "visit"
  /\ Return("stopped")
  /\ got' = got \cup ({page.row} \ {0})
  /\ UNCHANGED <<serverVars, field, cursor, seen, asks, page, pages>>

Deliver ==
  /\ pc = "visit"
  /\ pc' = "step"
  /\ got' = got \cup ({page.row} \ {0})
  /\ UNCHANGED <<serverVars, field, cursor, seen, asks, page, pages, result>>

\* The bug of sending the requested field with every page.
PinRequested == field

\* TypeScript and Python name the ordering the server applied from then on.
Pin == IF kind \in {"ts", "py"} THEN page.by ELSE field

\* The bug of not remembering where the walk has been.
ForgetSeen == {}

\* The cursors the walk will not follow again.
Remembered == seen \cup {page.next}

\* No cursor or, except for asyncio, no rows.
AtEnd == page.next = NoCursor \/ (page.row = 0 /\ kind # "async")

\* The bug of taking the bound for the end.
EndsQuietlyAlways == kind \in {"go", "ts", "py", "async"}

\* TypeScript and asyncio end at a repeated cursor or at the bound as at the end.
EndsQuietly == kind \in {"ts", "async"}

GoOn ==
  /\ pc = "step"
  /\ field' = Pin
  /\ IF AtEnd
     THEN Return("finished") /\ UNCHANGED <<cursor, seen>>
     ELSE IF page.next \in seen
     THEN Return(IF EndsQuietly THEN "finished" ELSE "err") /\ UNCHANGED <<cursor, seen>>
     ELSE /\ seen' = Remembered /\ cursor' = page.next
          /\ IF asks < MaxPages THEN pc' = "ask" /\ UNCHANGED result
             ELSE Return(IF EndsQuietly THEN "finished" ELSE "truncated")
  /\ UNCHANGED <<serverVars, asks, page, pages, got>>

Next == Outage \/ Serve \/ Ask \/ SearchFails \/ ConsumerStops \/ Deliver \/ GoOn

Spec == Init /\ [][Next]_vars

-----------------------------------------------------------------------------
(* Properties.                                                             *)

\* The rows from the starting cursor on, whatever they are ordered by.
Wanted ==
  IF start.by = "score" THEN 1..(NPages - start.at) ELSE (start.at + 1)..NPages

OneOrdering ==
  \A i \in 1..Len(pages) :
    pages[i].by = pages[1].by /\ start.by \in {"none", pages[i].by}

\* A walk of Go or of Python that ends without an error has delivered every row,
\* as long as the ordering stayed the same and no empty page carried a cursor:
\* neither the bound nor a server that repeats a cursor ends it quietly.
WholeWalkIsComplete ==
  (result = "finished" /\ kind \in {"go", "py"} /\ OneOrdering /\ fault # "gap")
    => got = Wanted

\* No walk asks for a page twice, except that it may come back once to the cursor
\* it was resumed at.
NoPageTwice ==
  \A i, j \in 1..Len(pages) :
    i < j /\ pages[i].cursor = pages[j].cursor => i = 1 /\ start # NoCursor

\* Once TypeScript or Python was served by score, all later pages of the walk are:
\* the end of an outage does not move the walk to another ordering.
FallbackIsKept ==
  kind \in {"ts", "py"} =>
    \A i, j \in 1..Len(pages) : i < j /\ pages[i].by = "score" => pages[j].by = "score"

(* The inductive invariant behind the theorems of LeadWalkProofs.          *)

\* Every page but the first was asked for by a cursor the walk remembers, and the
\* next request is for a page it has not asked for since.
Tracked ==
  /\ \A i \in 1..Len(pages) :
       IF i = 1 THEN pages[i].cursor = start ELSE pages[i].cursor \in seen
  /\ pages = << >> => got = {}
  /\ pc # "done" => result = "none"
  /\ pc \in {"visit", "step"} => pages # << >>
  /\ pc \in {"ask", "asked"} =>
       \/ pages = << >> /\ cursor = start
       \/ /\ pages # << >> /\ cursor \in seen
          /\ \A i \in 2..Len(pages) : pages[i].cursor # cursor

\* After a page by score TypeScript and Python name score.
Pinned ==
  (kind \in {"ts", "py"} /\ \E i \in 1..Len(pages) : pages[i].by = "score") =>
    /\ pc \in {"ask", "asked"} => field = "score"
    /\ pc \in {"visit", "step"} => page.by = "score"

\* The rows between two places of an ordering.
Between(by, m, n) ==
  IF by = "score" THEN (NPages - n + 1)..(NPages - m) ELSE (m + 1)..n

\* Under one ordering the rows up to any cursor followed so far are delivered, and
\* the page at hand is the one after the cursor.
Progress ==
  (OneOrdering /\ pages # << >> /\ fault # "gap") =>
    LET by == pages[1].by IN
    /\ got \subseteq Wanted
    /\ \A c \in Followed :
         /\ c.by \in {"none", by} /\ start.at <= c.at
         /\ Between(by, start.at, c.at) \subseteq got
    /\ pc \in {"visit", "step"} =>
         /\ page.row = PageAfter(by, cursor.at).row
         /\ \/ page.next = PageAfter(by, cursor.at).next
            \/ page.next \in Followed \ {NoCursor}
         /\ pc = "step" => page.row \in got \cup {0}

IInv ==
  /\ TypeOK /\ Tracked /\ Pinned /\ Progress
  /\ WholeWalkIsComplete /\ NoPageTwice /\ FallbackIsKept
=============================================================================
