---------------------------- MODULE WaitingProofs ----------------------------
(***************************************************************************)
(* What TLAPS proves of the two loops in which a program waits for a server *)
(* to get on with something: the events of a stream (ChatStream) and the    *)
(* end of a job (JobWait), for bodies of any length and any number of       *)
(* waiters on one job.                                                     *)
(***************************************************************************)
EXTENDS ChatStream, JobWait, FiniteSetTheorems, TLAPS

-----------------------------------------------------------------------------
(* Counting the events of a body.                                          *)

\* The events of a prefix are finitely many.
LEMMA EventsType ==
  ASSUME NEW s, NEW n \in Nat
  PROVE  IsFiniteSet(DataLines(s, n)) /\ EventsIn(s, n) \in Nat
<1>1. IsFiniteSet(1..n)
  BY FS_Interval
<1>2. IsFiniteSet(DataLines(s, n))
  BY <1>1, FS_Subset DEF DataLines
<1> QED
  BY <1>2, FS_CardinalityType DEF EventsIn

\* No line, no event.
LEMMA EventsZero == \A s : EventsIn(s, 0) = 0
<1> TAKE s
<1>1. DataLines(s, 0) = {}
  BY DEF DataLines
<1> QED
  BY <1>1, FS_EmptySet DEF EventsIn

\* One line more is one event more if it is a data line.
LEMMA EventsAfter ==
  ASSUME NEW s, NEW n \in Nat
  PROVE  /\ s[n + 1].field = "data" => EventsIn(s, n + 1) = EventsIn(s, n) + 1
         /\ s[n + 1].field # "data" => EventsIn(s, n + 1) = EventsIn(s, n)
<1>1. CASE s[n + 1].field = "data"
  <2>1. DataLines(s, n + 1) = DataLines(s, n) \cup {n + 1}
    BY <1>1 DEF DataLines
  <2>2. n + 1 \notin DataLines(s, n)
    BY DEF DataLines
  <2> QED
    BY <1>1, <2>1, <2>2, EventsType, FS_AddElement DEF EventsIn
<1>2. CASE s[n + 1].field # "data"
  <2>1. DataLines(s, n + 1) = DataLines(s, n)
    BY <1>2 DEF DataLines
  <2> QED
    BY <1>2, <2>1 DEF EventsIn
<1> QED
  BY <1>1, <1>2

\* A longer prefix has no fewer events, and a data line is an event of its own.
LEMMA EventsGrow ==
  ASSUME NEW s, NEW n \in Nat, NEW m \in Nat
  PROVE  /\ m <= n => EventsIn(s, m) <= EventsIn(s, n)
         /\ m < n /\ s[n].field = "data" => EventsIn(s, m) < EventsIn(s, n)
<1>1. ASSUME NEW k \in Nat, m <= k PROVE EventsIn(s, m) <= EventsIn(s, k)
  <2>1. DataLines(s, m) \subseteq DataLines(s, k)
    BY <1>1 DEF DataLines
  <2> QED
    BY <2>1, EventsType, FS_Subset DEF EventsIn
<1>2. ASSUME m < n, s[n].field = "data" PROVE EventsIn(s, m) < EventsIn(s, n)
  <2>1. n - 1 \in Nat /\ m <= n - 1 /\ (n - 1) + 1 = n
    BY <1>2
  <2>2. EventsIn(s, n) = EventsIn(s, n - 1) + 1
    BY <1>2, <2>1, EventsAfter
  <2>3. EventsIn(s, m) <= EventsIn(s, n - 1)
    BY <1>1, <2>1
  <2> QED
    BY <2>1, <2>2, <2>3, EventsType
<1> QED
  BY <1>1, <1>2

\* Bodies that begin alike have the same events there, under the same names.
LEMMA SamePrefix ==
  ASSUME NEW s, NEW t, NEW n \in Nat, \A j \in 1..n : s[j] = t[j]
  PROVE  /\ DataLines(s, n) = DataLines(t, n)
         /\ EventsIn(s, n) = EventsIn(t, n)
         /\ \A name : Pending(s, n, name) <=> Pending(t, n, name)
<1>1. DataLines(s, n) = DataLines(t, n)
  BY DEF DataLines
<1>2. ASSUME NEW name PROVE Pending(s, n, name) <=> Pending(t, n, name)
  BY <1>1 DEF Pending
<1> QED
  BY <1>1, <1>2 DEF EventsIn

\* What is pending after one line more.
LEMMA PendingAfter ==
  ASSUME NEW s, NEW n \in Nat, NEW name, Pending(s, n, name)
  PROVE  /\ s[n + 1].field = "event" => Pending(s, n + 1, s[n + 1].name)
         /\ s[n + 1].field \notin {"event", "data"} => Pending(s, n + 1, name)
<1>1. ASSUME s[n + 1].field = "event" PROVE Pending(s, n + 1, s[n + 1].name)
  BY <1>1 DEF Pending
<1>2. ASSUME s[n + 1].field \notin {"event", "data"} PROVE Pending(s, n + 1, name)
  <2>1. CASE \E k \in 1..n : /\ s[k].field = "event" /\ s[k].name = name
                             /\ \A l \in (k + 1)..n : s[l].field \notin {"event", "data"}
    BY <1>2, <2>1 DEF Pending
  <2>2. CASE /\ \A k \in 1..n : s[k].field = "event" =>
                  \E d \in DataLines(s, n) : k < d
             /\ name = NoName
    <3>1. DataLines(s, n) \subseteq DataLines(s, n + 1)
      BY DEF DataLines
    <3>2. \A k \in 1..(n + 1) : s[k].field = "event" => k \in 1..n
      BY <1>2
    <3> QED
      BY <2>2, <3>1, <3>2 DEF Pending
  <2> QED
    BY <2>1, <2>2 DEF Pending
<1> QED
  BY <1>1, <1>2

\* After a data line nothing is pending.
LEMMA PendingAfterData ==
  ASSUME NEW s, NEW n \in Nat \ {0}, s[n].field = "data"
  PROVE  Pending(s, n, NoName)
<1>1. n \in DataLines(s, n)
  BY DEF DataLines
<1>2. \A k \in 1..n : s[k].field = "event" => k < n
  OBVIOUS
<1> QED
  BY <1>1, <1>2 DEF Pending

-----------------------------------------------------------------------------
(* ChatStream: the inductive invariant.                                    *)

\* The fields of a line.
LEMMA LineFields ==
  ASSUME NEW l \in Lines
  PROVE  /\ l.field = "event" => l.name \in MaybeName
         /\ l.field = "data" => l.type \in MaybeName /\ l.event \in MaybeName
BY DEF Lines

\* A line of a body that was read is a line.
LEMMA LineRead ==
  ASSUME TypeOK, NEW i \in 1..Len(arrived)
  PROVE  arrived[i] \in Lines
BY DEF TypeOK

\* What is delivered is an event, not the error.
LEMMA NameType ==
  ASSUME NEW n \in MaybeName, NEW l \in Lines, l.field = "data"
  PROVE  EventName(n, l) \in Names \cup {NoName, Message}
BY LineFields DEF EventName, MaybeName

\* Lines that arrive have the form of lines, also when the last one was cut.
LEMMA CutType ==
  ASSUME TypeOK, NEW n \in read..Len(sent), NEW rest \in {<< >>, <<CutLine>>},
         read <= Len(sent)
  PROVE  LET a == SubSeq(sent, 1, n) \o rest
         IN a \in Seq(Lines) /\ read <= Len(a) /\ \A j \in 1..read : a[j] = sent[j]
<1> DEFINE a == SubSeq(sent, 1, n) \o rest
<1>1. read \in Nat /\ n \in Nat /\ sent \in Seq(Lines) /\ n <= Len(sent) /\ Len(sent) \in Nat
  BY DEF TypeOK
<1>2. SubSeq(sent, 1, n) \in Seq(Lines) /\ Len(SubSeq(sent, 1, n)) = n
      /\ \A j \in 1..n : SubSeq(sent, 1, n)[j] = sent[j]
  BY <1>1
<1>3. rest \in Seq(Lines)
  <2>1. CutLine \in [field : {"data"}, type : MaybeName, event : MaybeName]
    BY DEF CutLine, MaybeName
  <2>2. CutLine \in Lines
    BY <2>1 DEF Lines
  <2>3. <<CutLine>> \in Seq(Lines)
    BY <2>2
  <2>4. << >> \in Seq(Lines)
    OBVIOUS
  <2> QED
    BY <2>3, <2>4
<1> HIDE DEF a
<1>4. a \in Seq(Lines) /\ Len(a) = n + Len(rest)
      /\ \A j \in 1..n : a[j] = sent[j]
  BY <1>1, <1>2, <1>3 DEF a
<1> QED
  BY <1>1, <1>3, <1>4 DEF a

\* Nothing has been read of an empty body.
LEMMA StreamInit == Init => IInv
<1> SUFFICES ASSUME Init PROVE IInv
  OBVIOUS
<1> USE StreamAssumption DEF Init
<1>1. TypeOK
  BY DEF TypeOK, MaybeName
<1>2. EventsIn(arrived, 0) = 0 /\ DataLines(arrived, 0) = {}
  BY EventsZero DEF DataLines
<1>3. ~Failed /\ Received = 0
  BY DEF Failed, Received
<1>4. Pending(arrived, 0, NoName)
  BY DEF Pending
<1> QED
  BY <1>1, <1>2, <1>3, <1>4 DEF IInv, Whole, InHand, InOrder, ErrorsEnd, Ending

\* The type of every step, action by action.
LEMMA StreamTypes == TypeOK /\ Whole /\ [Next]_vars => TypeOK'
<1> SUFFICES ASSUME TypeOK, Whole, [Next]_vars PROVE TypeOK'
  OBVIOUS
<1> USE StreamAssumption DEF TypeOK, bodyVars
<1>1. CASE Write
  BY <1>1 DEF Write, Whole
<1>2. CASE EndOfBody
  BY <1>2 DEF EndOfBody
<1>3. CASE Cut
  <2>1. read <= Len(sent)
    BY <1>3 DEF Cut, Whole
  <2>2. arrived' \in Seq(Lines) /\ read <= Len(arrived') /\ Len(arrived') \in Nat
    <3> PICK n \in read..Len(sent), rest \in {<< >>, <<CutLine>>} :
          arrived' = SubSeq(sent, 1, n) \o rest
      BY <1>3 DEF Cut
    <3>1. arrived' \in Seq(Lines) /\ read <= Len(arrived')
      BY <2>1, CutType
    <3> QED
      BY <3>1
  <2> QED
    BY <1>3, <2>2 DEF Cut
<1>4. CASE StopReceiving
  BY <1>4 DEF StopReceiving
<1>5. CASE Scan
  <2>1. NextLine \in Lines
    BY <1>5 DEF Scan, NextLine
  <2>2. named' \in MaybeName /\ offer' \in Names \cup {NoName, Message}
    BY <1>5, <2>1, LineFields, NameType DEF Scan
  <2>3. read' \in 0..Len(arrived) /\ pc' \in {"scan", "offer", "fail", "closed"}
    BY <1>5 DEF Scan
  <2> QED
    BY <1>5, <2>2, <2>3 DEF Scan
<1>6. CASE ScanEnds
  BY <1>6 DEF ScanEnds
<1>7. CASE Take
  BY <1>7 DEF Take, NameAfter, MaybeName
<1>8. CASE TakeError
  BY <1>8 DEF TakeError
<1>9. CASE UNCHANGED vars
  BY <1>9 DEF vars
<1> QED
  BY <1>1, <1>2, <1>3, <1>4, <1>5, <1>6, <1>7, <1>8, <1>9 DEF Next

\* While the caller may still receive, no error is among the events it has.
LEMMA NotFailedYet == ASSUME ErrorsEnd, TypeOK, pc # "closed" PROVE ~Failed
BY DEF ErrorsEnd, TypeOK, Failed

\* Lines that come, end or are lost behind what was read change nothing of what was
\* delivered.
LEMMA BehindWhatWasRead ==
  ASSUME IInv, arrived' \in Seq(Lines), read <= Len(arrived'),
         \A j \in 1..read : arrived'[j] = arrived[j],
         UNCHANGED <<read, named, pc, offer, got>>
  PROVE  InHand' /\ InOrder' /\ ErrorsEnd'
<1>1. /\ read \in Nat /\ Len(arrived) \in Nat /\ Len(arrived') \in Nat
      /\ read <= Len(arrived) /\ Received \in Int
  BY DEF IInv, TypeOK, Received
<1>2. Received' = Received
  BY DEF Received, Failed
<1>3. \A m \in 0..read : /\ EventsIn(arrived', m) = EventsIn(arrived, m)
                         /\ \A n : Pending(arrived', m, n) <=> Pending(arrived, m, n)
  <2> TAKE m \in 0..read
  <2>1. m \in Nat /\ \A j \in 1..m : arrived'[j] = arrived[j]
    BY <1>1
  <2> QED
    BY <2>1, SamePrefix
<1>4. InHand'
  BY <1>1, <1>2, <1>3 DEF IInv, InHand
<1>5. Received <= EventsIn(arrived, read)
  BY <1>1, EventsType DEF IInv, InHand
<1>6. InOrder'
  <2>1. Received <= EventsIn(arrived', Len(arrived'))
    <3>1. EventsIn(arrived', read) <= EventsIn(arrived', Len(arrived'))
      BY <1>1, EventsGrow
    <3> QED
      BY <1>1, <1>3, <1>5, <3>1, EventsType
  <2>2. ASSUME NEW i \in DataLines(arrived', Len(arrived')),
               EventsIn(arrived', i) <= Received
        PROVE  \E n \in MaybeName :
                 /\ Pending(arrived', i - 1, n)
                 /\ got[EventsIn(arrived', i)] = EventName(n, arrived'[i])
    <3>1. i \in Nat /\ i >= 1 /\ i <= Len(arrived') /\ arrived'[i].field = "data"
      BY <1>1 DEF DataLines
    <3>2. i <= read
      <4>1. EventsIn(arrived', read) = EventsIn(arrived, read)
        BY <1>1, <1>3
      <4>2. read < i => EventsIn(arrived', read) < EventsIn(arrived', i)
        BY <1>1, <3>1, EventsGrow
      <4>3. EventsIn(arrived', read) \in Nat /\ EventsIn(arrived', i) \in Nat
        BY <1>1, <3>1, EventsType
      <4> QED
        BY <1>1, <1>5, <2>2, <3>1, <4>1, <4>2, <4>3
    <3>3. i \in DataLines(arrived, Len(arrived)) /\ arrived'[i] = arrived[i]
      BY <1>1, <3>1, <3>2 DEF DataLines
    <3>4. EventsIn(arrived', i) = EventsIn(arrived, i)
          /\ \A n : Pending(arrived', i - 1, n) <=> Pending(arrived, i - 1, n)
      BY <1>1, <1>3, <3>1, <3>2
    <3> QED
      BY <2>2, <3>3, <3>4 DEF IInv, InOrder
  <2> QED
    BY <1>2, <2>1, <2>2 DEF InOrder, MaybeName
<1> QED
  BY <1>4, <1>6 DEF IInv, ErrorsEnd

\* The body and its end.
LEMMA BodyStep == ASSUME IInv, Write \/ EndOfBody \/ Cut PROVE IInv'
<1> TypeOK /\ Whole /\ arrived = sent /\ ended = "open"
  BY DEF IInv, Whole, Write, EndOfBody, Cut
<1>1. TypeOK'
  BY StreamTypes DEF Next
<1>2. UNCHANGED <<read, named, pc, offer, got>>
  BY DEF Write, EndOfBody, Cut
<1>3. /\ arrived' \in Seq(Lines) /\ read <= Len(arrived')
      /\ \A j \in 1..read : arrived'[j] = arrived[j]
  <2>1. CASE Write
    <3> PICK l \in Lines : arrived' = Append(arrived, l)
      BY <2>1 DEF Write
    <3> QED
      BY DEF TypeOK
  <2>2. CASE EndOfBody
    BY <2>2 DEF EndOfBody, TypeOK
  <2>3. CASE Cut
    <3> PICK n \in read..Len(sent), rest \in {<< >>, <<CutLine>>} :
          arrived' = SubSeq(sent, 1, n) \o rest
      BY <2>3 DEF Cut
    <3>1. read <= Len(sent)
      BY DEF TypeOK
    <3> QED
      BY <3>1, CutType
  <2> QED
    BY <2>1, <2>2, <2>3
<1>4. InHand' /\ InOrder' /\ ErrorsEnd'
  BY <1>2, <1>3, BehindWhatWasRead
<1>5. Whole'
  BY DEF Whole, Write, EndOfBody, Cut
<1>6. Ending'
  BY <1>2 DEF IInv, Ending, Failed
<1> QED
  BY <1>1, <1>4, <1>5, <1>6 DEF IInv

\* A line is read: an event is on its way, or its name is in hand.
LEMMA ScanStep == ASSUME IInv, Scan PROVE IInv'
<1> DEFINE l == arrived[read + 1]
<1>1. TypeOK /\ TypeOK' /\ read \in Nat /\ Received \in Int
  BY StreamTypes DEF IInv, TypeOK, Next, Received
<1>2. UNCHANGED <<bodyVars, got, receiving>> /\ read' = read + 1 /\ pc = "scan"
      /\ named' = IF l.field = "event" THEN l.name ELSE named
  BY DEF Scan, NextLine
<1>3. /\ l.field = "data" => pc' = "offer" /\ offer' = EventName(named, l)
      /\ l.field # "data" => pc' = pc /\ offer' = offer
  BY DEF Scan, NextLine
<1>4. /\ Received + 0 = EventsIn(arrived, read)
      /\ Pending(arrived, read, named)
  BY <1>2 DEF IInv, InHand
<1>5. Received' = Received /\ (Failed' <=> Failed) /\ arrived' = arrived /\ sent' = sent
      /\ ended' = ended /\ got' = got
  BY <1>2 DEF Received, Failed, bodyVars
<1>6. EventsIn(arrived, read) \in Nat /\ EventsIn(arrived, read + 1) \in Nat
  BY <1>1, EventsType
<1> HIDE DEF l
<1>7. InHand'
  <2>1. CASE l.field = "data"
    <3>1. EventsIn(arrived, read + 1) = EventsIn(arrived, read) + 1
      BY <1>1, <2>1, EventsAfter DEF l
    <3>2. /\ pc' = "offer" /\ offer' = EventName(named, arrived[read + 1])
          /\ named' = named /\ arrived[read + 1].field = "data"
      BY <1>2, <1>3, <2>1 DEF l
    <3> QED
      BY <1>1, <1>2, <1>4, <1>5, <1>6, <3>1, <3>2 DEF InHand
  <2>2. CASE l.field # "data"
    <3>1. EventsIn(arrived, read + 1) = EventsIn(arrived, read)
      BY <1>1, <2>2, EventsAfter DEF l
    <3>2. Pending(arrived, read + 1, named')
      BY <1>1, <1>2, <1>4, <2>2, PendingAfter DEF l
    <3>3. pc' = "scan"
      BY <1>2, <1>3, <2>2
    <3> QED
      BY <1>1, <1>2, <1>4, <1>5, <1>6, <3>1, <3>2, <3>3 DEF InHand
  <2> QED
    BY <2>1, <2>2
<1>8. InOrder'
  BY <1>5 DEF IInv, InOrder
<1>9. ErrorsEnd' /\ Ending' /\ Whole'
  BY <1>2, <1>3, <1>5 DEF IInv, ErrorsEnd, Ending, Whole
<1> QED
  BY <1>1, <1>7, <1>8, <1>9 DEF IInv

\* The scanner stops, at the end of the body or at an error.
LEMMA ScanEndsStep == ASSUME IInv, ScanEnds PROVE IInv'
<1>1. TypeOK'
  BY StreamTypes DEF IInv, Next
<1>2. /\ UNCHANGED <<sent, arrived, ended, read, named, offer, got>>
      /\ pc = "scan" /\ pc' \in {"fail", "closed"}
      /\ pc' = "closed" => ended = "eof" /\ read = Len(arrived)
  BY DEF ScanEnds, ScanFailed, BodyIsOver, bodyVars, IInv, TypeOK
<1>3. Received' = Received /\ (Failed' <=> Failed)
  BY <1>2 DEF Received, Failed
<1>4. InHand' /\ InOrder'
  BY <1>2, <1>3 DEF IInv, InHand, InOrder
<1>5. ErrorsEnd' /\ Ending' /\ Whole'
  BY <1>2, <1>3 DEF IInv, ErrorsEnd, Ending, Whole
<1> QED
  BY <1>1, <1>4, <1>5 DEF IInv

\* The caller takes the event on its way: it is the next one, and no name is left.
LEMMA TakeStep == ASSUME IInv, Take PROVE IInv'
<1>1. TypeOK /\ TypeOK' /\ InHand /\ InOrder /\ ErrorsEnd
  BY StreamTypes DEF IInv, Next
<1>2. /\ UNCHANGED <<sent, arrived, ended, read>>
      /\ pc = "offer" /\ pc' = "scan" /\ got' = Append(got, offer) /\ named' = NoName
  BY DEF Take, NameAfter, bodyVars
<1>3. /\ Len(got) \in Nat /\ Len(got') = Len(got) + 1 /\ got'[Len(got) + 1] = offer
      /\ \A k \in 1..Len(got) : got'[k] = got[k]
  BY <1>1, <1>2 DEF TypeOK
<1>4. ~Failed /\ offer # Failure
  BY <1>1, <1>2, NotFailedYet, StreamAssumption DEF TypeOK
<1>5. ~Failed' /\ Received = Len(got) /\ Received' = Len(got) + 1
  <2>1. got' # << >> /\ got'[Len(got')] # Failure
    BY <1>3, <1>4
  <2> QED
    BY <1>3, <1>4, <2>1 DEF Failed, Received
<1>6. /\ read \in Nat /\ read > 0 /\ read <= Len(arrived) /\ Len(arrived) \in Nat
      /\ arrived[read].field = "data"
      /\ Pending(arrived, read - 1, named)
      /\ offer = EventName(named, arrived[read])
      /\ Received + 1 = EventsIn(arrived, read)
  BY <1>1, <1>2 DEF InHand, TypeOK
<1>7. InHand'
  BY <1>2, <1>5, <1>6, PendingAfterData, EventsType DEF InHand
<1>8. InOrder'
  <2>1. EventsIn(arrived, read) <= EventsIn(arrived, Len(arrived))
    BY <1>6, EventsGrow
  <2>2. ASSUME NEW i \in DataLines(arrived, Len(arrived)),
               EventsIn(arrived, i) <= Received + 1
        PROVE  \E n \in MaybeName :
                 /\ Pending(arrived, i - 1, n)
                 /\ got'[EventsIn(arrived, i)] = EventName(n, arrived[i])
    <3>1. i \in Nat /\ i >= 1 /\ arrived[i].field = "data"
      BY <1>6 DEF DataLines
    <3>2. EventsIn(arrived, i) \in Nat /\ EventsIn(arrived, i) > 0
      <4>1. EventsIn(arrived, 0) < EventsIn(arrived, i)
        BY <3>1, EventsGrow
      <4> QED
        BY <3>1, <4>1, EventsType
    <3>3. CASE EventsIn(arrived, i) <= Received
      <4>1. got'[EventsIn(arrived, i)] = got[EventsIn(arrived, i)]
        BY <1>3, <1>5, <3>2, <3>3
      <4> QED
        BY <1>1, <3>3, <4>1 DEF InOrder
    <3>4. CASE EventsIn(arrived, i) = Received + 1
      <4>1. i < read => EventsIn(arrived, i) < EventsIn(arrived, read)
        BY <1>6, <3>1, EventsGrow
      <4>2. read < i => EventsIn(arrived, read) < EventsIn(arrived, i)
        BY <1>6, <3>1, EventsGrow
      <4>3. i = read
        BY <1>6, <3>1, <3>2, <3>4, <4>1, <4>2
      <4>4. got'[EventsIn(arrived, i)] = EventName(named, arrived[i])
        BY <1>3, <1>5, <1>6, <3>4, <4>3
      <4> QED
        BY <1>1, <1>6, <4>3, <4>4 DEF TypeOK
    <3> QED
      BY <1>3, <1>5, <2>2, <3>2, <3>3, <3>4
  <2>3. Received + 1 <= EventsIn(arrived, Len(arrived))
    BY <1>6, <2>1
  <2> QED
    BY <1>2, <1>5, <2>2, <2>3 DEF InOrder, MaybeName
<1>9. ErrorsEnd'
  BY <1>1, <1>2, <1>3, <1>4, <1>5 DEF ErrorsEnd, Failed
<1>10. Ending' /\ Whole'
  BY <1>2 DEF IInv, Ending, Whole
<1> QED
  BY <1>1, <1>7, <1>8, <1>9, <1>10 DEF IInv

\* The error is the last the caller gets.
LEMMA TakeErrorStep == ASSUME IInv, TakeError PROVE IInv'
<1>1. TypeOK /\ TypeOK' /\ InHand /\ InOrder /\ ErrorsEnd
  BY StreamTypes DEF IInv, Next
<1>2. /\ UNCHANGED <<sent, arrived, ended, read, named, offer>>
      /\ pc = "fail" /\ pc' = "closed" /\ got' = Append(got, Failure)
  BY DEF TakeError, bodyVars
<1>3. /\ Len(got) \in Nat /\ Len(got') = Len(got) + 1 /\ got'[Len(got) + 1] = Failure
      /\ \A k \in 1..Len(got) : got'[k] = got[k]
  BY <1>1, <1>2 DEF TypeOK
<1>4. ~Failed
  BY <1>1, <1>2, NotFailedYet
<1>5. Failed' /\ Received = Len(got) /\ Received' = Received
  BY <1>3, <1>4 DEF Failed, Received
<1>6. InHand'
  BY <1>1, <1>2, <1>5 DEF InHand
<1>7. InOrder'
  <2>1. ASSUME NEW i \in DataLines(arrived, Len(arrived)),
               EventsIn(arrived, i) <= Received
        PROVE  got'[EventsIn(arrived, i)] = got[EventsIn(arrived, i)]
    <3>1. i \in Nat /\ i >= 1 /\ arrived[i].field = "data"
      BY <1>1 DEF DataLines, TypeOK
    <3>2. EventsIn(arrived, 0) < EventsIn(arrived, i)
      BY <3>1, EventsGrow
    <3>3. EventsIn(arrived, i) \in 1..Len(got)
      BY <1>3, <1>5, <2>1, <3>1, <3>2, EventsType
    <3> QED
      BY <1>3, <3>3
  <2> QED
    BY <1>1, <1>2, <1>5, <2>1 DEF InOrder, MaybeName
<1>8. ErrorsEnd'
  BY <1>1, <1>2, <1>3, <1>4 DEF ErrorsEnd, Failed
<1>9. Ending' /\ Whole'
  BY <1>2, <1>5 DEF IInv, Ending, Whole
<1> QED
  BY <1>1, <1>6, <1>7, <1>8, <1>9 DEF IInv

\* Every step keeps the inductive invariant.
LEMMA StreamNext == IInv /\ [Next]_vars => IInv'
<1> SUFFICES ASSUME IInv, [Next]_vars PROVE IInv'
  OBVIOUS
<1>1. CASE StopReceiving \/ UNCHANGED vars
  <2>1. UNCHANGED <<sent, arrived, ended, read, named, pc, offer, got>>
    BY <1>1 DEF StopReceiving, vars, bodyVars
  <2>2. TypeOK'
    BY StreamTypes DEF IInv
  <2> QED
    BY <2>1, <2>2
       DEF IInv, Whole, InHand, InOrder, ErrorsEnd, Ending, Received, Failed, MaybeName
<1> QED
  BY <1>1, BodyStep, ScanStep, ScanEndsStep, TakeStep, TakeErrorStep DEF Next

\* What is in hand, on its way and delivered of a stream is what its body says, at
\* every moment, for bodies of any length and any names.
THEOREM StreamInvariance == Spec => []IInv
BY StreamInit, StreamNext, PTL DEF Spec

\* The caller of a stream receives the events that arrived in order and under their
\* names, an error only at the end, and everything if the channel closes without one.
THEOREM StreamIsDeliveredInFull == Spec => []DeliveredInFull
<1>1. IInv => DeliveredInFull
  <2> SUFFICES ASSUME IInv PROVE DeliveredInFull
    OBVIOUS
  <2>1. InOrder /\ ErrorsEnd
    BY DEF IInv
  <2>2. ASSUME pc = "closed", ~Failed
        PROVE  ended = "eof" /\ arrived = sent /\ Received = EventsIn(sent, Len(sent))
    <3>1. ended = "eof" /\ read = Len(arrived) /\ arrived = sent
      BY <2>2 DEF IInv, Ending, Whole
    <3>2. Received \in Int /\ Received + 0 = EventsIn(arrived, read)
      BY <2>2 DEF IInv, TypeOK, InHand, Received
    <3> QED
      BY <3>1, <3>2
  <2> QED
    BY <2>1, <2>2 DEF DeliveredInFull
<1> QED
  BY <1>1, StreamInvariance, PTL

\* What the goroutine still has to do is a number.
LEMMA StreamWork == TypeOK => Work \in Nat
  BY DEF TypeOK, Work

\* Every step of the goroutine counts, however long the body is: what ChannelCloses
\* rests on beside fairness and the timeout that ends the body.
THEOREM StreamWindsDown == Spec => [](Work \in Nat) /\ WorkFalls
<1>1. ASSUME TypeOK, TypeOK', Next
      PROVE  /\ Scan \/ ScanEnds \/ Take \/ TakeError => Work' < Work
             /\ ended # "open" => ended' = ended /\ Work' <= Work
  <2> DEFINE n == Len(arrived)
  <2>1. n \in Nat /\ read \in 0..n
    BY <1>1 DEF TypeOK
  <2>2. arrived' = arrived => n' = n
    OBVIOUS
  <2>3. CASE Write \/ EndOfBody \/ Cut
    BY <2>3 DEF Write, EndOfBody, Cut, Scan, ScanEnds, Take, TakeError, bodyVars
  <2>4. CASE StopReceiving
    <3>1. Work' = Work /\ ended' = ended
      BY <2>4 DEF StopReceiving, bodyVars, Work
    <3>2. Work \in Nat
      BY <1>1, StreamWork
    <3>3. ~Scan /\ ~ScanEnds /\ ~Take /\ ~TakeError
      BY <2>1, <2>4 DEF StopReceiving, Scan, ScanEnds, Take, TakeError
    <3> QED
      BY <3>1, <3>2, <3>3
  <2>5. CASE Scan
    BY <2>1, <2>2, <2>5 DEF Scan, bodyVars, Work
  <2>6. CASE ScanEnds
    BY <2>1, <2>2, <2>6 DEF ScanEnds, bodyVars, Work
  <2>7. CASE Take
    BY <2>1, <2>2, <2>7 DEF Take, bodyVars, Work
  <2>8. CASE TakeError
    BY <2>1, <2>2, <2>8 DEF TakeError, bodyVars, Work
  <2> QED
    BY <1>1, <2>3, <2>4, <2>5, <2>6, <2>7, <2>8 DEF Next
<1>2. ASSUME TypeOK, TypeOK', [Next]_vars
      PROVE  [/\ Scan \/ ScanEnds \/ Take \/ TakeError => Work' < Work
              /\ ended # "open" => ended' = ended /\ Work' <= Work]_vars
  BY <1>1, <1>2
<1>3. IInv => TypeOK
  BY DEF IInv
<1> QED
  BY <1>2, <1>3, StreamWork, StreamInvariance, PTL DEF Spec, WorkFalls

-----------------------------------------------------------------------------
(* JobWait.                                                                *)

\* Before the first poll nothing has been read and nothing has been judged.
LEMMA WaitInitInv == WaitInit => WaitInv
  BY DEF WaitInit, WaitInv, WaitTypeOK, HeldIsReal, NotOlder, VerdictIsTrue, States, Results,
         Terminal, Awaited

\* The type of every step, action by action.
LEMMA WaitTypeStep ==
  ASSUME WaitTypeOK, [WaitNext]_waitVars
  PROVE  WaitTypeOK'
<1> USE DEF WaitTypeOK, serverVars, waiterVars, Return, Goto, States, Results
<1>1. CASE Advance
  BY <1>1 DEF Advance
<1>2. ASSUME NEW w \in Waiters PROVE (Loop(w) \/ Deadline(w) \/ Cancel(w)) => WaitTypeOK'
  <2>1. CASE Poll(w)
    BY <2>1 DEF Poll
  <2>2. CASE Serve(w)
    BY <2>2 DEF Serve
  <2>3. CASE PollFails(w)
    BY <2>3 DEF PollFails
  <2>4. CASE Receive(w)
    BY <2>4 DEF Receive
  <2>5. CASE Judge(w)
    BY <2>5 DEF Judge
  <2>6. CASE Wake(w)
    BY <2>6 DEF Wake
  <2>7. CASE StopSleeping(w)
    BY <2>7 DEF StopSleeping
  <2>8. CASE Deadline(w)
    BY <2>8 DEF Deadline
  <2>9. CASE Cancel(w)
    BY <2>9 DEF Cancel
  <2> QED BY <2>1, <2>2, <2>3, <2>4, <2>5, <2>6, <2>7, <2>8, <2>9 DEF Loop
<1>3. CASE UNCHANGED waitVars
  BY <1>3 DEF waitVars
<1> QED BY <1>1, <1>2, <1>3 DEF WaitNext

\* What the waiters hold stays among the states the job has been in.
LEMMA WaitHeldStep ==
  ASSUME WaitInv, [WaitNext]_waitVars
  PROVE  HeldIsReal'
<1> USE DEF WaitInv, WaitTypeOK, serverVars, waiterVars, Return, Goto, HeldIsReal
<1>1. CASE Advance
  BY <1>1 DEF Advance, Moves
<1>2. ASSUME NEW w \in Waiters PROVE (Loop(w) \/ Deadline(w) \/ Cancel(w)) => HeldIsReal'
  <2>1. CASE Poll(w)
    BY <2>1 DEF Poll
  <2>2. CASE Serve(w)
    BY <2>2 DEF Serve
  <2>3. CASE PollFails(w)
    BY <2>3 DEF PollFails
  <2>4. CASE Receive(w)
    BY <2>4 DEF Receive, Readers
  <2>5. CASE Judge(w)
    BY <2>5 DEF Judge
  <2>6. CASE Wake(w)
    BY <2>6 DEF Wake
  <2>7. CASE StopSleeping(w)
    BY <2>7 DEF StopSleeping
  <2>8. CASE Deadline(w)
    BY <2>8 DEF Deadline
  <2>9. CASE Cancel(w)
    BY <2>9 DEF Cancel
  <2> QED BY <2>1, <2>2, <2>3, <2>4, <2>5, <2>6, <2>7, <2>8, <2>9 DEF Loop
<1>3. CASE UNCHANGED waitVars
  BY <1>3 DEF waitVars
<1> QED BY <1>1, <1>2, <1>3 DEF WaitNext

\* A job that has ended stays ended, and so does what is read of it after waking.
LEMMA WaitOlderStep ==
  ASSUME WaitInv, [WaitNext]_waitVars
  PROVE  NotOlder'
<1> USE DEF WaitInv, WaitTypeOK, serverVars, waiterVars, Return, Goto, NotOlder, HeldIsReal, Terminal, States
<1>1. CASE Advance
  BY <1>1 DEF Advance, Moves
<1>2. ASSUME NEW w \in Waiters PROVE (Loop(w) \/ Deadline(w) \/ Cancel(w)) => NotOlder'
  <2>1. CASE Poll(w)
    BY <2>1 DEF Poll
  <2>2. CASE Serve(w)
    BY <2>2 DEF Serve
  <2>3. CASE PollFails(w)
    BY <2>3 DEF PollFails
  <2>4. CASE Receive(w)
    BY <2>4 DEF Receive, Readers
  <2>5. CASE Judge(w)
    BY <2>5 DEF Judge
  <2>6. CASE Wake(w)
    BY <2>6 DEF Wake
  <2>7. CASE StopSleeping(w)
    BY <2>7 DEF StopSleeping
  <2>8. CASE Deadline(w)
    BY <2>8 DEF Deadline
  <2>9. CASE Cancel(w)
    BY <2>9 DEF Cancel
  <2> QED BY <2>1, <2>2, <2>3, <2>4, <2>5, <2>6, <2>7, <2>8, <2>9 DEF Loop
<1>3. CASE UNCHANGED waitVars
  BY <1>3 DEF waitVars
<1> QED BY <1>1, <1>2, <1>3 DEF WaitNext

\* Only Judge and Poll return, and they judge what the invariant says is held.
LEMMA WaitVerdictStep ==
  ASSUME WaitInv, [WaitNext]_waitVars
  PROVE  VerdictIsTrue'
<1> USE DEF WaitInv, WaitTypeOK, serverVars, waiterVars, Return, Goto, VerdictIsTrue, HeldIsReal, NotOlder, Terminal, Awaited
<1>1. CASE Advance
  BY <1>1 DEF Advance, Moves
<1>2. ASSUME NEW w \in Waiters PROVE (Loop(w) \/ Deadline(w) \/ Cancel(w)) => VerdictIsTrue'
  <2>1. CASE Poll(w)
    BY <2>1 DEF Poll
  <2>2. CASE Serve(w)
    BY <2>2 DEF Serve
  <2>3. CASE PollFails(w)
    BY <2>3 DEF PollFails
  <2>4. CASE Receive(w)
    BY <2>4 DEF Receive, Readers
  <2>5. CASE Judge(w)
    BY <2>5 DEF Judge
  <2>6. CASE Wake(w)
    BY <2>6 DEF Wake
  <2>7. CASE StopSleeping(w)
    BY <2>7 DEF StopSleeping
  <2>8. CASE Deadline(w)
    BY <2>8 DEF Deadline
  <2>9. CASE Cancel(w)
    BY <2>9 DEF Cancel
  <2> QED BY <2>1, <2>2, <2>3, <2>4, <2>5, <2>6, <2>7, <2>8, <2>9 DEF Loop
<1>3. CASE UNCHANGED waitVars
  BY <1>3 DEF waitVars
<1> QED BY <1>1, <1>2, <1>3 DEF WaitNext

\* The inductive invariant: what each waiter holds is real and not older than what
\* it woke to, and what it has returned is true.
THEOREM WaitInvariance == WaitSpec => []WaitInv
<1>1. WaitInv /\ [WaitNext]_waitVars => WaitInv'
  BY WaitTypeStep, WaitHeldStep, WaitOlderStep, WaitVerdictStep DEF WaitInv
<1> QED BY WaitInitInv, <1>1, PTL DEF WaitSpec

\* A wait that says the job has ended is right, and one that says it timed out did
\* not sleep through the end, for any number of waiters on one job.
THEOREM VerdictsAreTrue == WaitSpec => []VerdictIsTrue
<1>1. WaitInv => VerdictIsTrue
  BY DEF WaitInv
<1> QED BY WaitInvariance, <1>1, PTL

\* The turns of a loop that is to end.
LEMMA TurnsDown ==
  ASSUME WaitTypeOK, WaitNext, NEW v \in Waiters
  PROVE  /\ late[v] => late'[v] /\ TurnsLeft(v)' <= TurnsLeft(v)
         /\ late[v] /\ at'[v] # at[v] => TurnsLeft(v)' < TurnsLeft(v)
         /\ cancelled[v] => cancelled'[v]
         /\ cancelled[v] /\ at'[v] # at[v] =>
              ClockFirst[at'[v]] < ClockFirst[at[v]]
<1> USE DEF WaitTypeOK, TurnsLeft, ClockFirst, ClockLast, serverVars,
            waiterVars, Return, Goto
<1>1. CASE Advance
  BY <1>1 DEF Advance
<1>2. ASSUME NEW w \in Waiters, Deadline(w) \/ Cancel(w) \/ Serve(w)
      PROVE  /\ at' = at /\ service' = service
             /\ late[v] => late'[v]
             /\ cancelled[v] => cancelled'[v]
  BY <1>2 DEF Deadline, Cancel, Serve
<1>3. ASSUME NEW w \in Waiters, v # w, Loop(w), ~Serve(w)
      PROVE  at'[v] = at[v] /\ UNCHANGED <<service, late, cancelled>>
  BY <1>3 DEF Loop, Poll, PollFails, Receive, Judge, Wake,
              StopSleeping
<1>4. CASE Poll(v)
  BY <1>4 DEF Poll, GivesUpFirst
<1>5. CASE PollFails(v)
  BY <1>5 DEF PollFails
<1>6. CASE Receive(v)
  BY <1>6 DEF Receive
<1>7. CASE Judge(v)
  BY <1>7 DEF Judge
<1>8. CASE Wake(v)
  BY <1>8 DEF Wake
<1>9. CASE StopSleeping(v)
  BY <1>9 DEF StopSleeping
<1>10. ASSUME NEW w \in Waiters, Loop(w) \/ Deadline(w) \/ Cancel(w)
       PROVE  \/ Deadline(w) \/ Cancel(w) \/ Serve(w)
              \/ v # w /\ Loop(w) /\ ~Serve(w)
              \/ Poll(v) \/ PollFails(v) \/ Receive(v) \/ Judge(v)
              \/ Wake(v) \/ StopSleeping(v)
  BY Zenon, <1>10 DEF Loop
<1> QED
  BY <1>1, <1>2, <1>3, <1>4, <1>5, <1>6, <1>7, <1>8, <1>9, <1>10 DEF WaitNext

\* A wait that is to end takes at most four more turns: what EveryWaitEnds rests on
\* beside the fairness of the timers.
THEOREM WaitsWindDown == WaitSpec => WindsDown
<1>1. WaitInv => WaitTypeOK
  BY DEF WaitInv
<1>2. ASSUME WaitTypeOK, [WaitNext]_waitVars
      PROVE  [\A w \in Waiters :
       /\ late[w] => late'[w] /\ TurnsLeft(w)' <= TurnsLeft(w)
       /\ late[w] /\ at'[w] # at[w] => TurnsLeft(w)' < TurnsLeft(w)
       /\ cancelled[w] => cancelled'[w]
       /\ cancelled[w] /\ at'[w] # at[w] =>
            ClockFirst[at'[w]] < ClockFirst[at[w]]]_waitVars
  BY <1>2, TurnsDown
<1> QED
  BY <1>1, <1>2, WaitInvariance, PTL DEF WaitSpec, WindsDown
=============================================================================
