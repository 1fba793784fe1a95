--------------------------- MODULE LeadWalkProofs ---------------------------
(***************************************************************************)
(* What TLAPS proves of LeadWalk, for results and bounds of any length.     *)
(***************************************************************************)
EXTENDS LeadWalk, TLAPS

\* The page after a place is a page of the ordering.
LEMMA PageAfterType ==
  ASSUME NEW by \in Orderings, NEW n \in 0..NPages
  PROVE  PageAfter(by, n) \in PageRecords /\ PageAfter(by, n).by = by
  BY BoundsAssumption DEF PageAfter, PageRecords, Cursors, Orderings, NoCursor

\* The elements of a sequence.
LEMMA SeqElement ==
  ASSUME NEW S, NEW s \in Seq(S), NEW i \in 1..Len(s) PROVE s[i] \in S
  OBVIOUS

\* The cursors a server can repeat are cursors.
LEMMA FollowedType ==
  ASSUME TypeOK PROVE Followed \subseteq Cursors \cup {NoCursor}
PROOF
<1>1. \A i \in 1..Len(pages) : pages[i].cursor \in Cursors \cup {NoCursor}
  <2>1. \A i \in 1..Len(pages) : pages[i] \in [cursor : Cursors \cup {NoCursor}, by : Orderings]
    BY SeqElement DEF TypeOK
  <2> QED BY <2>1
<1> QED BY <1>1 DEF TypeOK, Followed

\* A server answers with the page of the place, without its rows or with an older
\* cursor when it is at fault.
LEMMA RepliesType ==
  ASSUME TypeOK, NEW by \in Orderings, NEW n \in 0..NPages, NEW r \in Replies(by, n)
  PROVE  /\ r \in PageRecords /\ r.by = by
         /\ fault # "gap" => /\ r.row = PageAfter(by, n).row
                             /\ \/ r.next = PageAfter(by, n).next
                                \/ r.next \in Followed \ {NoCursor}
PROOF
<1> DEFINE p == PageAfter(by, n)
<1>1. p \in PageRecords /\ p.by = by
  BY PageAfterType
<1>2. p = [row |-> p.row, by |-> p.by, next |-> p.next]
  BY <1>1 DEF PageRecords
<1> HIDE DEF p
<1>3. CASE r = p
  BY <1>1, <1>3 DEF p
<1>4. CASE fault = "stuck" /\ \E c \in Followed \ {NoCursor} : r = [p EXCEPT !.next = c]
  <2> PICK c \in Followed \ {NoCursor} : r = [p EXCEPT !.next = c]
    BY <1>4
  <2>1. r = [row |-> p.row, by |-> p.by, next |-> c]
    BY <1>2
  <2> QED BY <2>1, <1>1, FollowedType DEF PageRecords, p
<1>5. CASE fault = "gap" /\ r = [p EXCEPT !.row = 0]
  <2>1. r = [row |-> 0, by |-> p.by, next |-> p.next]
    BY <1>2, <1>5
  <2> QED BY <2>1, <1>1, <1>5, BoundsAssumption DEF PageRecords
<1> QED BY <1>3, <1>4, <1>5 DEF Replies, p

\* The page the server answers with, and what the walk knows of it.
LEMMA ServedPage ==
  ASSUME TypeOK, Serve
  PROVE  /\ page' \in PageRecords /\ page'.by = Applied
         /\ (fault # "gap" /\ cursor.by \in {"none", Applied}) =>
              /\ page'.row = PageAfter(Applied, cursor.at).row
              /\ \/ page'.next = PageAfter(Applied, cursor.at).next
                 \/ page'.next \in Followed \ {NoCursor}
PROOF
<1>1. Applied \in Orderings
  BY DEF Applied, TypeOK, Orderings
<1>2. cursor.at \in 0..NPages
  BY BoundsAssumption DEF TypeOK, Cursors, NoCursor
<1>3. PICK n \in (IF cursor.by \in {"none", Applied} THEN {cursor.at} ELSE 0..NPages) :
        page' \in Replies(Applied, n)
  BY DEF Serve
<1>4. n \in 0..NPages
  BY <1>2, <1>3
<1>5. cursor.by \in {"none", Applied} => n = cursor.at
  BY <1>3
<1> HIDE DEF Applied
<1> QED BY <1>1, <1>3, <1>4, <1>5, RepliesType

\* The row of a page is a row of the result, if it has one.
LEMMA RowType ==
  ASSUME TypeOK PROVE {page.row} \ {0} \subseteq 1..NPages
  BY BoundsAssumption DEF TypeOK, PageRecords

\* The type of every step.
LEMMA TypeStep ==
  ASSUME TypeOK, [Next]_vars
  PROVE  TypeOK'
PROOF
<1> USE DEF TypeOK, serverVars
<1>1. CASE Outage
  BY <1>1 DEF Outage, PageRecords, Cursors
<1>2. CASE Serve
  <2>1. page' \in PageRecords /\ page'.by = Applied
    BY <1>2, ServedPage
  <2>2. Applied \in Orderings
    BY DEF Applied, Orderings
  <2>3. pages' \in Seq([cursor : Cursors \cup {NoCursor}, by : Orderings])
    BY <1>2, <2>2 DEF Serve
  <2> QED BY <1>2, <2>1, <2>2, <2>3 DEF Serve
<1>3. CASE Ask
  BY <1>3, BoundsAssumption DEF Ask
<1>4. CASE SearchFails
  BY <1>4 DEF SearchFails, Return
<1>5. CASE ConsumerStops
  BY <1>5, RowType DEF ConsumerStops, Return
<1>6. CASE Deliver
  BY <1>6, RowType DEF Deliver
<1>7. CASE GoOn
  <2>1. page.next # NoCursor => page.next \in Cursors
    BY DEF PageRecords
  <2>2. field' \in Orderings
    BY <1>7 DEF GoOn, Pin
  <2> QED BY <1>7, <2>1, <2>2 DEF GoOn, Return, Remembered, AtEnd, EndsQuietly
<1>8. CASE UNCHANGED vars
  BY <1>8 DEF vars
<1> QED BY <1>1, <1>2, <1>3, <1>4, <1>5, <1>6, <1>7, <1>8 DEF Next

\* What an answered page adds to the history.
LEMMA ServedHistory ==
  ASSUME TypeOK, Serve
  PROVE  /\ Len(pages) \in Nat /\ Len(pages') = Len(pages) + 1
         /\ \A i \in 1..Len(pages) : pages'[i] = pages[i]
         /\ pages'[Len(pages')].cursor = cursor /\ pages'[Len(pages')].by = Applied
         /\ pages' # << >> /\ (pages = << >> <=> Len(pages) = 0)
PROOF
<1>1. pages \in Seq([cursor : Cursors \cup {NoCursor}, by : Orderings])
  BY DEF TypeOK
<1>2. pages' = Append(pages, [cursor |-> cursor, by |-> Applied])
  BY DEF Serve
<1> HIDE DEF Applied
<1> QED BY <1>1, <1>2

\* The steps that leave the history and the cursors alone.
LEMMA OtherSteps ==
  ASSUME Outage \/ Ask \/ SearchFails \/ ConsumerStops \/ Deliver \/ UNCHANGED vars
  PROVE  UNCHANGED <<kind, fault, start, field, cursor, seen, page, pages>>
  BY DEF Outage, Ask, SearchFails, ConsumerStops, Deliver, vars, serverVars

LEMMA TrackedStep ==
  ASSUME TypeOK, Tracked, [Next]_vars
  PROVE  Tracked'
PROOF
<1>1. CASE Serve
  <2> USE <1>1, ServedHistory
  <2>1. UNCHANGED <<start, cursor, seen, got, result>> /\ pc' = "visit" /\ pc = "asked"
    BY DEF Serve, serverVars
  <2>2. \A i \in 1..Len(pages') :
          IF i = 1 THEN pages'[i].cursor = start ELSE pages'[i].cursor \in seen
    <3> TAKE i \in 1..Len(pages')
    <3>1. CASE i = Len(pages')
      BY <2>1, <3>1 DEF Tracked
    <3>2. CASE i # Len(pages')
      <4>1. i \in 1..Len(pages)
        BY <3>2
      <4> QED BY <4>1 DEF Tracked
    <3> QED BY <3>1, <3>2
  <2>3. pc # "done" => result = "none"
    BY DEF Tracked
  <2> QED BY <2>1, <2>2, <2>3 DEF Tracked
<1>2. CASE GoOn
  <2>1. UNCHANGED <<start, pages, got>> /\ pc = "step" /\ pc' \in {"ask", "done"}
    BY <1>2 DEF GoOn, serverVars, Return
  <2>2. seen \subseteq seen' /\ (pc' # "done" => result' = "none")
    BY <1>2 DEF GoOn, Remembered, Tracked, Return
  <2>3. pc' = "ask" => cursor' \in seen' /\ cursor' \notin seen
    BY <1>2 DEF GoOn, Remembered, Return
  <2>4. \A i \in 2..Len(pages) : pages[i].cursor \in seen
    BY DEF Tracked, TypeOK
  <2> QED BY <2>1, <2>2, <2>3, <2>4 DEF Tracked
<1>3. CASE Outage \/ Ask \/ SearchFails \/ ConsumerStops \/ Deliver \/ UNCHANGED vars
  <2>1. UNCHANGED <<start, cursor, seen, pages>>
    BY <1>3, OtherSteps
  <2>2. /\ pc' # "done" => result' = "none"
        /\ pages = << >> => got' = {}
        /\ pc' \in {"visit", "step"} => pc \in {"visit", "step"}
        /\ pc' \in {"ask", "asked"} => pc \in {"ask", "asked"}
    BY <1>3 DEF Outage, Ask, SearchFails, ConsumerStops, Deliver, vars, Tracked, Return
  <2> QED BY <2>1, <2>2 DEF Tracked
<1> QED BY <1>1, <1>2, <1>3 DEF Next

\* A page is asked for by a cursor the walk has not used before, but for the first.
LEMMA NoPageTwiceStep ==
  ASSUME TypeOK, Tracked, NoPageTwice, [Next]_vars
  PROVE  NoPageTwice'
PROOF
<1>1. CASE Serve
  <2> USE <1>1, ServedHistory
  <2>1. UNCHANGED start /\ pc = "asked"
    BY DEF Serve, serverVars
  <2> SUFFICES ASSUME NEW i \in 1..Len(pages'), NEW j \in 1..Len(pages'),
                      i < j, pages'[i].cursor = pages'[j].cursor
               PROVE  i = 1 /\ start # NoCursor
    BY <2>1 DEF NoPageTwice
  <2>2. i \in 1..Len(pages) /\ pages'[i] = pages[i]
    OBVIOUS
  <2>3. CASE j \in 1..Len(pages)
    BY <2>2, <2>3 DEF NoPageTwice
  <2>4. CASE j = Len(pages')
    <3>1. pages[i].cursor = cursor /\ pages # << >>
      BY <2>2, <2>4
    <3>2. cursor \in seen /\ \A k \in 2..Len(pages) : pages[k].cursor # cursor
      BY <2>1, <3>1 DEF Tracked
    <3>3. i = 1
      BY <2>2, <3>1, <3>2
    <3>4. start = cursor
      BY <2>2, <3>1, <3>3 DEF Tracked
    <3>5. NoCursor \notin seen
      BY DEF TypeOK, Cursors, NoCursor, Orderings
    <3> QED BY <3>2, <3>3, <3>4, <3>5
  <2> QED BY <2>3, <2>4
<1>2. CASE UNCHANGED <<pages, start>>
  BY <1>2 DEF NoPageTwice
<1>3. CASE GoOn
  BY <1>2, <1>3 DEF GoOn, serverVars
<1> QED BY <1>1, <1>2, <1>3, OtherSteps DEF Next

\* The walk names the ordering of the page before, so a walk that was served by score
\* asks for it.
LEMMA PinnedStep ==
  ASSUME TypeOK, Tracked, Pinned, FallbackIsKept, [Next]_vars
  PROVE  Pinned' /\ FallbackIsKept'
PROOF
<1>1. CASE Serve
  <2> USE <1>1, ServedHistory
  <2>1. UNCHANGED <<kind, field>> /\ pc = "asked" /\ pc' = "visit"
    BY DEF Serve, serverVars
  <2>2. page'.by = Applied
    BY ServedPage
  <2>3. (kind \in {"ts", "py"} /\ \E i \in 1..Len(pages) : pages[i].by = "score")
           => Applied = "score"
    BY <2>1 DEF Pinned, Applied
  <2> HIDE DEF Applied
  <2>4. Pinned'
    BY <2>1, <2>2, <2>3 DEF Pinned
  <2>5. FallbackIsKept'
    <3> SUFFICES ASSUME kind \in {"ts", "py"}, NEW i \in 1..Len(pages'),
                        NEW j \in 1..Len(pages'), i < j, pages'[i].by = "score"
                 PROVE  pages'[j].by = "score"
      BY <2>1 DEF FallbackIsKept
    <3>1. i \in 1..Len(pages) /\ pages[i].by = "score"
      OBVIOUS
    <3>2. CASE j \in 1..Len(pages)
      BY <3>1, <3>2 DEF FallbackIsKept
    <3>3. CASE j = Len(pages')
      BY <2>3, <3>1, <3>3
    <3> QED BY <3>2, <3>3
  <2> QED BY <2>4, <2>5
<1>2. CASE GoOn
  <2>1. UNCHANGED <<kind, pages, page>> /\ field' = Pin /\ pc = "step" /\ pc' \in {"ask", "done"}
    BY <1>2 DEF GoOn, serverVars, Return
  <2> QED BY <2>1 DEF Pin, Pinned, FallbackIsKept
<1>3. CASE Outage \/ Ask \/ SearchFails \/ ConsumerStops \/ Deliver \/ UNCHANGED vars
  <2>1. UNCHANGED <<kind, field, page, pages>>
    BY <1>3, OtherSteps
  <2>2. /\ pc' \in {"visit", "step"} => pc \in {"visit", "step"}
        /\ pc' \in {"ask", "asked"} => pc \in {"ask", "asked"}
    BY <1>3 DEF Outage, Ask, SearchFails, ConsumerStops, Deliver, vars, Return
  <2> QED BY <2>1, <2>2 DEF Pinned, FallbackIsKept
<1> QED BY <1>1, <1>2, <1>3 DEF Next

\* Another page adds its row to the rows between two places.
LEMMA BetweenGrows ==
  ASSUME NEW by \in Orderings, NEW m \in 0..NPages, NEW n \in 0..NPages, m <= n, n < NPages
  PROVE  Between(by, m, n + 1) = Between(by, m, n) \cup {PageAfter(by, n).row}
PROOF
<1>1. PageAfter(by, n).row = IF by = "wanted" THEN n + 1 ELSE NPages - n
  BY BoundsAssumption DEF PageAfter
<1>2. CASE by = "wanted"
  BY <1>1, <1>2, BoundsAssumption DEF Between
<1>3. CASE by = "score"
  BY <1>1, <1>3, BoundsAssumption DEF Between
<1> QED BY <1>2, <1>3 DEF Orderings

\* From the place of the starting cursor to the end lie the rows that are wanted.
LEMMA BetweenAll ==
  ASSUME TypeOK, NEW by \in Orderings, start.by \in {"none", by}
  PROVE  Between(by, start.at, NPages) = Wanted
PROOF
<1>1. start.at \in 0..NPages /\ (start.by = "none" => start.at = 0)
  BY BoundsAssumption DEF TypeOK, Cursors, NoCursor, Orderings
<1>2. CASE by = "wanted"
  BY <1>1, <1>2, BoundsAssumption DEF Between, Wanted
<1>3. CASE by = "score"
  BY <1>1, <1>3, BoundsAssumption DEF Between, Wanted
<1> QED BY <1>2, <1>3 DEF Orderings

\* The row of the page after a place at or behind the start is wanted.
LEMMA RowIsWanted ==
  ASSUME TypeOK, NEW by \in Orderings, start.by \in {"none", by},
         NEW n \in 0..NPages, start.at <= n
  PROVE  PageAfter(by, n).row \in Wanted \cup {0}
PROOF
<1>1. start.at \in 0..NPages
  BY BoundsAssumption DEF TypeOK, Cursors, NoCursor
<1>2. CASE n >= NPages
  BY <1>2 DEF PageAfter
<1>3. CASE n < NPages
  <2>1. PageAfter(by, n).row \in Between(by, n, n + 1)
    BY <1>3, BetweenGrows
  <2>2. Between(by, n, n + 1) \subseteq Between(by, start.at, NPages)
    BY <1>1, <1>3, BoundsAssumption DEF Between
  <2> QED BY <2>1, <2>2, BetweenAll
<1> QED BY <1>2, <1>3, BoundsAssumption

\* A page that ends the walk is the last of the ordering.
LEMMA EndIsLast ==
  ASSUME NEW by \in Orderings, NEW n \in 0..NPages,
         PageAfter(by, n).next = NoCursor \/ PageAfter(by, n).row = 0
  PROVE  n = NPages \/ n + 1 = NPages
PROOF
<1> SUFFICES ASSUME n < NPages, n + 1 # NPages PROVE FALSE
  BY BoundsAssumption
<1>1. PageAfter(by, n) = [row  |-> IF by = "wanted" THEN n + 1 ELSE NPages - n,
                          by   |-> by, next |-> [by |-> by, at |-> n + 1]]
  BY BoundsAssumption DEF PageAfter
<1>2. PageAfter(by, n).next.by = by /\ PageAfter(by, n).row # 0
  BY <1>1, BoundsAssumption
<1> QED BY <1>2 DEF NoCursor, Orderings

\* What Progress says, for a walk under one ordering.
LEMMA ProgressFacts ==
  ASSUME TypeOK, Progress, OneOrdering, pages # << >>, fault # "gap"
  PROVE  /\ pages[1].by \in Orderings /\ start.by \in {"none", pages[1].by}
         /\ cursor.at \in 0..NPages /\ start.at \in 0..NPages
         /\ start.at <= cursor.at
         /\ Between(pages[1].by, start.at, cursor.at) \subseteq got
PROOF
<1>1. 1 \in 1..Len(pages)
  BY DEF TypeOK
<1>2. pages[1] \in [cursor : Cursors \cup {NoCursor}, by : Orderings]
  BY <1>1, SeqElement DEF TypeOK
<1>3. cursor.at \in 0..NPages /\ start.at \in 0..NPages
  BY BoundsAssumption DEF TypeOK, Cursors, NoCursor
<1>4. cursor \in Followed
  BY DEF Followed
<1> QED BY <1>1, <1>2, <1>3, <1>4 DEF Progress, OneOrdering

\* An answered page is the one after the cursor.
LEMMA ProgressServe ==
  ASSUME TypeOK, Tracked, Progress, Serve
  PROVE  Progress'
PROOF
<1> USE ServedHistory
<1>1. UNCHANGED <<start, cursor, fault, got>> /\ pc = "asked" /\ pc' = "visit"
  BY DEF Serve, serverVars
<1> SUFFICES ASSUME OneOrdering', fault # "gap" PROVE
      /\ got' \subseteq Wanted'
      /\ \A c \in Followed' :
           /\ c.by \in {"none", pages'[1].by} /\ start'.at <= c.at
           /\ Between(pages'[1].by, start'.at, c.at) \subseteq got'
      /\ page'.row = PageAfter(pages'[1].by, cursor'.at).row
      /\ \/ page'.next = PageAfter(pages'[1].by, cursor'.at).next
         \/ page'.next \in Followed' \ {NoCursor}
  BY <1>1 DEF Progress, Between, PageAfter
<1>2. 1 \in 1..Len(pages') /\ Len(pages') \in 1..Len(pages')
  OBVIOUS
<1>3. pages'[1].by = Applied /\ start.by \in {"none", Applied}
  BY <1>1, <1>2 DEF OneOrdering
<1>4. Followed' = Followed
  <2>1. \A i \in 1..Len(pages') : pages'[i].cursor \in Followed
    <3> TAKE i \in 1..Len(pages')
    <3>1. CASE i = Len(pages')
      BY <3>1 DEF Followed
    <3>2. CASE i # Len(pages')
      <4>1. i \in 1..Len(pages)
        BY <3>2
      <4> QED BY <4>1 DEF Followed
    <3> QED BY <3>1, <3>2
  <2>2. \A i \in 1..Len(pages) : pages[i].cursor \in Followed'
    BY DEF Followed
  <2> QED BY <1>1, <2>1, <2>2 DEF Followed
<1>5. start.at \in 0..NPages
  BY BoundsAssumption DEF TypeOK, Cursors, NoCursor
<1>6. /\ got \subseteq Wanted
      /\ \A c \in Followed :
           /\ c.by \in {"none", Applied} /\ start.at <= c.at
           /\ Between(Applied, start.at, c.at) \subseteq got
  <2>1. CASE pages = << >>
    <3>1. cursor = start /\ got = {} /\ Followed = {start}
      BY <1>1, <2>1 DEF Tracked, Followed
    <3>2. Between(Applied, start.at, start.at) = {}
      BY <1>5, BoundsAssumption DEF Between
    <3> QED BY <1>3, <1>5, <3>1, <3>2
  <2>2. CASE pages # << >>
    <3>1. pages'[1] = pages[1]
      BY <2>2
    <3>2. OneOrdering
      BY <1>1, <3>1 DEF OneOrdering
    <3> QED BY <1>3, <2>2, <3>1, <3>2 DEF Progress
  <2> QED BY <2>1, <2>2
<1>7. cursor.by \in {"none", Applied}
  BY <1>6 DEF Followed
<1>8. Wanted' = Wanted
  BY <1>1 DEF Wanted
<1> HIDE DEF Applied
<1> QED BY <1>1, <1>3, <1>4, <1>6, <1>7, <1>8, ServedPage

\* A page that is handed on adds its row, and the next cursor follows it.
LEMMA ProgressStep ==
  ASSUME TypeOK, Tracked, Progress, [Next]_vars
  PROVE  Progress'
PROOF
<1>1. CASE Serve
  BY <1>1, ProgressServe
<1> SUFFICES ASSUME ~Serve, OneOrdering', pages' # << >>, fault' # "gap" PROVE
      /\ got' \subseteq Wanted'
      /\ \A c \in Followed' :
           /\ c.by \in {"none", pages'[1].by} /\ start'.at <= c.at
           /\ Between(pages'[1].by, start'.at, c.at) \subseteq got'
      /\ pc' \in {"visit", "step"} =>
           /\ page'.row = PageAfter(pages'[1].by, cursor'.at).row
           /\ \/ page'.next = PageAfter(pages'[1].by, cursor'.at).next
              \/ page'.next \in Followed' \ {NoCursor}
           /\ pc' = "step" => page'.row \in got' \cup {0}
  BY <1>1 DEF Progress, Between, PageAfter
<1>2. UNCHANGED <<pages, start, fault>>
  BY OtherSteps DEF GoOn, Next, serverVars
<1>3. OneOrdering /\ pages # << >> /\ fault # "gap" /\ Wanted' = Wanted
  BY <1>2 DEF OneOrdering, Wanted
<1> DEFINE by == pages[1].by
<1>4. /\ by \in Orderings /\ start.by \in {"none", by}
      /\ cursor.at \in 0..NPages /\ start.at \in 0..NPages
      /\ start.at <= cursor.at
      /\ Between(by, start.at, cursor.at) \subseteq got
  BY <1>3, ProgressFacts
<1>5. /\ got \subseteq Wanted
      /\ \A c \in Followed :
           /\ c.by \in {"none", by} /\ start.at <= c.at
           /\ Between(by, start.at, c.at) \subseteq got
      /\ pc \in {"visit", "step"} =>
           /\ page.row = PageAfter(by, cursor.at).row
           /\ \/ page.next = PageAfter(by, cursor.at).next
              \/ page.next \in Followed \ {NoCursor}
           /\ pc = "step" => page.row \in got \cup {0}
  BY <1>3 DEF Progress
<1> HIDE DEF by
<1>6. pages'[1].by = by
  BY <1>2 DEF by
<1>7. CASE Outage \/ Ask \/ SearchFails \/ UNCHANGED vars
  <2>1. UNCHANGED <<cursor, page, got>> /\ (pc' \in {"visit", "step"} => pc' = pc)
    BY <1>7 DEF Outage, Ask, SearchFails, vars, Return
  <2>2. Followed' = Followed
    BY <1>2, <2>1 DEF Followed
  <2> QED BY <1>2, <1>3, <1>5, <1>6, <2>1, <2>2
<1>8. CASE ConsumerStops \/ Deliver
  <2>1. /\ UNCHANGED <<cursor, page>> /\ got' = got \cup ({page.row} \ {0})
        /\ pc = "visit"
    BY <1>8 DEF ConsumerStops, Deliver
  <2>2. Followed' = Followed
    BY <1>2, <2>1 DEF Followed
  <2>3. page.row \in Wanted \cup {0}
    BY <1>4, <1>5, <2>1, RowIsWanted
  <2> QED BY <1>2, <1>3, <1>5, <1>6, <2>1, <2>2, <2>3
<1>9. CASE GoOn
  <2>1. /\ UNCHANGED <<page, got>> /\ pc = "step" /\ pc' \in {"ask", "done"}
        /\ cursor' = cursor \/ (cursor' = page.next /\ page.next # NoCursor)
    BY <1>9 DEF GoOn, Return, AtEnd
  <2>2. Followed' \subseteq Followed \cup {cursor'}
    BY <1>2 DEF Followed
  <2>3. cursor \in Followed
    BY DEF Followed
  <2>4. /\ cursor'.by \in {"none", by} /\ start.at <= cursor'.at
        /\ Between(by, start.at, cursor'.at) \subseteq got
    <3>1. CASE cursor' \in Followed
      BY <1>5, <3>1
    <3>2. CASE cursor' = PageAfter(by, cursor.at).next /\ cursor' # NoCursor
      <4>1. cursor.at < NPages /\ cursor' = [by |-> by, at |-> cursor.at + 1]
        BY <1>4, <3>2, BoundsAssumption DEF PageAfter
      <4>2. PageAfter(by, cursor.at).row # 0
        BY <1>4, <4>1, BoundsAssumption DEF PageAfter
      <4>3. PageAfter(by, cursor.at).row \in got
        BY <1>5, <2>1, <4>2
      <4>4. Between(by, start.at, cursor.at + 1) \subseteq got
        BY <1>4, <4>1, <4>3, BetweenGrows
      <4> QED BY <1>4, <4>1, <4>4
    <3> QED BY <1>5, <2>1, <2>3, <3>1, <3>2
  <2> QED BY <1>2, <1>3, <1>5, <1>6, <2>1, <2>2, <2>4
<1> QED BY <1>7, <1>8, <1>9 DEF Next

\* A quiet end of a walk of Go or Python is the end of the ordering.
LEMMA WholeStep ==
  ASSUME TypeOK, Tracked, Progress, WholeWalkIsComplete, [Next]_vars
  PROVE  WholeWalkIsComplete'
PROOF
<1>1. CASE GoOn
  <2> SUFFICES ASSUME result' = "finished", kind \in {"go", "py"}, OneOrdering', fault # "gap"
               PROVE  got = Wanted'
    BY <1>1 DEF WholeWalkIsComplete, GoOn, serverVars
  <2>1. UNCHANGED <<pages, start>> /\ pc = "step"
    BY <1>1 DEF GoOn, serverVars
  <2>2. OneOrdering /\ Wanted' = Wanted /\ pages # << >>
    BY <2>1 DEF OneOrdering, Wanted, Tracked
  <2>3. page.next = NoCursor \/ page.row = 0
    BY <1>1, <2>1 DEF GoOn, AtEnd, EndsQuietly, Return, Tracked
  <2> DEFINE by == pages[1].by
  <2>4. /\ by \in Orderings /\ start.by \in {"none", by}
        /\ cursor.at \in 0..NPages /\ start.at \in 0..NPages
        /\ start.at <= cursor.at
        /\ Between(by, start.at, cursor.at) \subseteq got
    BY <2>2, ProgressFacts
  <2>5. /\ got \subseteq Wanted
        /\ page.row = PageAfter(by, cursor.at).row
        /\ \/ page.next = PageAfter(by, cursor.at).next
           \/ page.next \in Followed \ {NoCursor}
        /\ page.row \in got \cup {0}
    BY <2>1, <2>2 DEF Progress
  <2> HIDE DEF by
  <2>6. cursor.at = NPages \/ cursor.at + 1 = NPages
    BY <2>3, <2>4, <2>5, EndIsLast
  <2>7. Between(by, start.at, NPages) \subseteq got
    <3>1. CASE cursor.at = NPages
      BY <2>4, <3>1
    <3>2. CASE cursor.at + 1 = NPages
      <4>1. PageAfter(by, cursor.at).row # 0
        BY <2>4, <3>2, BoundsAssumption DEF PageAfter
      <4>2. cursor.at < NPages
        BY <2>4, <3>2, BoundsAssumption
      <4> QED BY <2>4, <2>5, <3>2, <4>1, <4>2, BetweenGrows
    <3> QED BY <2>6, <3>1, <3>2
  <2> QED BY <2>2, <2>4, <2>5, <2>7, BetweenAll
<1>2. CASE Serve \/ Ask \/ SearchFails \/ ConsumerStops \/ Deliver
  <2>1. result' # "finished"
    BY <1>2 DEF Serve, Ask, SearchFails, ConsumerStops, Deliver, Return, Tracked
  <2> QED BY <2>1 DEF WholeWalkIsComplete
<1>3. CASE Outage \/ UNCHANGED vars
  BY <1>3 DEF Outage, vars, serverVars, WholeWalkIsComplete, OneOrdering, Wanted
<1> QED BY <1>1, <1>2, <1>3 DEF Next

\* Nothing has been asked for in the beginning.
LEMMA InitInv == Init => IInv
PROOF
<1> SUFFICES ASSUME Init PROVE IInv
  OBVIOUS
<1>1. pages = << >> /\ Len(pages) = 0 /\ result = "none"
  BY DEF Init
<1>2. start \in Cursors \cup {NoCursor}
  BY BoundsAssumption DEF Init, Cursors, Orderings, Applied
<1>3. page \in PageRecords
  BY BoundsAssumption DEF Init, NoPage, PageRecords
<1>4. TypeOK
  BY <1>2, <1>3, BoundsAssumption DEF Init, TypeOK, Orderings, Backends
<1>5. Tracked /\ Pinned /\ Progress
  BY <1>1 DEF Init, Tracked, Pinned, Progress
<1>6. WholeWalkIsComplete /\ NoPageTwice /\ FallbackIsKept
  BY <1>1 DEF WholeWalkIsComplete, NoPageTwice, FallbackIsKept
<1> QED BY <1>4, <1>5, <1>6 DEF IInv

\* The inductive invariant: where the walk has been, the ordering it names and the
\* rows it has delivered on the way.
THEOREM Invariance == Spec => []IInv
<1>1. IInv /\ [Next]_vars => IInv'
  BY TypeStep, TrackedStep, NoPageTwiceStep, PinnedStep, ProgressStep, WholeStep DEF IInv
<1> QED BY InitInv, <1>1, PTL DEF Spec

\* A walk of Go or Python that ends without an error has delivered the whole result.
THEOREM WalkIsWhole == Spec => []WholeWalkIsComplete
<1>1. IInv => WholeWalkIsComplete
  BY DEF IInv
<1> QED BY Invariance, <1>1, PTL

\* No page but the one a walk was resumed at is asked for twice.
THEOREM WalkAdvances == Spec => []NoPageTwice
<1>1. IInv => NoPageTwice
  BY DEF IInv
<1> QED BY Invariance, <1>1, PTL

\* A walk of TypeScript or Python that was served by score stays with score.
THEOREM OrderingIsPinned == Spec => []FallbackIsKept
<1>1. IInv => FallbackIsKept
  BY DEF IInv
<1> QED BY Invariance, <1>1, PTL
=============================================================================
