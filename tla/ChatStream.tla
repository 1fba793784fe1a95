------------------------------ MODULE ChatStream ------------------------------
(***************************************************************************)
(* streamEvents of the chat client, behind StreamAgent and StreamWorkflow:  *)
(* a goroutine scans the body of a response line by line and hands every    *)
(* event to the caller over an unbuffered channel.  The channel closes at   *)
(* the end of the body, or after one last event that carries the error the  *)
(* scanner stopped at.                                                      *)
(*                                                                         *)
(* The body ends with an error when the connection is lost, the context is  *)
(* cancelled or the timeout of the http.Client passes, which covers the     *)
(* body of a stream as well.  Lines the server wrote may be lost then, and  *)
(* the scanner hands out a line cut in two like a whole one.                *)
(***************************************************************************)
EXTENDS Naturals, Sequences, FiniteSets

CONSTANTS
  Names,     (* names of events the server uses                            *)
  NoName,    (* model value: no name                                       *)
  Failure,   (* model value: the event whose Err is set                    *)
  MaxLines   (* bound: lines of a body                                     *)

Message == "message"

ASSUME StreamAssumption ==
  /\ Failure \notin Names \cup {NoName, Message}
  /\ MaxLines \in Nat

VARIABLES
  sent,      (* history: the lines the server wrote                         *)
  arrived,   (* the lines that reach the scanner                            *)
  ended,     (* "open", "eof" or "cut": what comes after them               *)
  read,      (* how many the scanner has handed out                         *)
  named,     (* the name the next event gets                                *)
  pc,        (* the goroutine: "scan", "offer", "fail" or "closed"           *)
  offer,     (* the event on its way into the channel                       *)
  got,       (* the events the caller received                              *)
  receiving  (* whether the caller still ranges over the channel             *)

bodyVars == <<sent, arrived, ended>>
vars == <<bodyVars, read, named, pc, offer, got, receiving>>

MaybeName == Names \cup {NoName}

\* "skip": a comment, a blank data line, any other field.  "long": longer than the
\* buffer of the scanner.  An object in a data line may name its event twice over.
Lines ==
  [field : {"skip", "long"}]
  \cup [field : {"event"}, name : MaybeName]
  \cup [field : {"data"}, type : MaybeName, event : MaybeName]

\* What is left of a data line does not parse: it names nothing.
CutLine == [field |-> "data", type |-> NoName, event |-> NoName]

TypeOK ==
  /\ sent \in Seq(Lines) /\ Len(sent) <= MaxLines
  /\ arrived \in Seq(Lines)
  /\ ended \in {"open", "eof", "cut"}
  /\ read \in 0..Len(arrived)
  /\ named \in MaybeName
  /\ pc \in {"scan", "offer", "fail", "closed"}
  /\ offer \in Names \cup {NoName, Message}
  /\ got \in Seq(Names \cup {NoName, Message, Failure})
  /\ receiving \in BOOLEAN

Init ==
  /\ sent = << >> /\ arrived = << >> /\ ended = "open"
  /\ read = 0 /\ named = NoName /\ pc = "scan" /\ offer = NoName
  /\ got = << >> /\ receiving = TRUE

-----------------------------------------------------------------------------
(* The server and the network.                                             *)

Write ==
  /\ ended = "open" /\ Len(sent) < MaxLines
  /\ \E l \in Lines : sent' = Append(sent, l) /\ arrived' = Append(arrived, l)
  /\ UNCHANGED <<ended, read, named, pc, offer, got, receiving>>

EndOfBody ==
  /\ ended = "open"
  /\ ended' = "eof"
  /\ UNCHANGED <<sent, arrived, read, named, pc, offer, got, receiving>>

\* Connection lost, context cancelled or timeout of the client: what the scanner
\* has not taken yet may be lost.
Cut ==
  /\ ended = "open"
  /\ ended' = "cut"
  /\ \E n \in read..Len(sent), rest \in {<< >>, <<CutLine>>} :
       arrived' = SubSeq(sent, 1, n) \o rest
  /\ UNCHANGED <<sent, read, named, pc, offer, got, receiving>>

StopReceiving ==
  /\ receiving /\ pc # "closed"
  /\ receiving' = FALSE
  /\ UNCHANGED <<bodyVars, read, named, pc, offer, got>>

-----------------------------------------------------------------------------
(* The goroutine.                                                          *)

\* type wins over the name of the event line; event only replaces "message".
EventName(n, l) ==
  LET e == IF l.type # NoName THEN l.type ELSE IF n # NoName THEN n ELSE Message
  IN IF e = Message /\ l.event # NoName THEN l.event ELSE e

NextLine == arrived[read + 1]

TooLong == read < Len(arrived) /\ NextLine.field = "long"

Scan ==
  /\ pc = "scan" /\ read < Len(arrived) /\ ~TooLong
  /\ read' = read + 1
  /\ named' = IF NextLine.field = "event" THEN NextLine.name ELSE named
  /\ IF NextLine.field = "data"
     THEN pc' = "offer" /\ offer' = EventName(named, NextLine)
     ELSE UNCHANGED <<pc, offer>>
  /\ UNCHANGED <<bodyVars, got, receiving>>

\* scan.Err.
ScanFailed == TooLong \/ ended = "cut"

\* The bug of waiting for more where the body was cut.
OnlyEOF == read = Len(arrived) /\ ended = "eof"

BodyIsOver == read = Len(arrived) /\ ended # "open"

ScanEnds ==
  /\ pc = "scan"
  /\ TooLong \/ BodyIsOver
  /\ pc' = IF ScanFailed THEN "fail" ELSE "closed"
  /\ UNCHANGED <<bodyVars, read, named, offer, got, receiving>>

\* The bug of carrying the name of one event over to the next.
KeepName == named

NameAfter == NoName

\* The channel is unbuffered and the send is not tied to the context.
Take ==
  /\ receiving /\ pc = "offer"
  /\ got' = Append(got, offer)
  /\ pc' = "scan" /\ named' = NameAfter
  /\ UNCHANGED <<bodyVars, read, offer, receiving>>

TakeError ==
  /\ receiving /\ pc = "fail"
  /\ got' = Append(got, Failure)
  /\ pc' = "closed"
  /\ UNCHANGED <<bodyVars, read, named, offer, receiving>>

Next == Write \/ EndOfBody \/ Cut \/ StopReceiving \/ Scan \/ ScanEnds \/ Take \/ TakeError

Spec == Init /\ [][Next]_vars

\* The goroutine runs, a caller that ranges over the channel receives, and a body
\* that does not end is cut by the timeout of the http.Client.
FairSpec ==
  Spec /\ WF_vars(Scan \/ ScanEnds) /\ WF_vars(Take \/ TakeError)
       /\ WF_vars(Cut \/ EndOfBody)

-----------------------------------------------------------------------------
(* Properties.                                                             *)

\* The events among the first n lines of a body.
DataLines(s, n) == {j \in 1..n : s[j].field = "data"}

EventsIn(s, n) == Cardinality(DataLines(s, n))

\* What the first n lines name the event after them: the last event line since the
\* last event, or nothing.
Pending(s, n, name) ==
  \/ /\ \A k \in 1..n : s[k].field = "event" => \E d \in DataLines(s, n) : k < d
     /\ name = NoName
  \/ \E k \in 1..n :
       /\ s[k].field = "event" /\ s[k].name = name
       /\ \A l \in (k + 1)..n : s[l].field \notin {"event", "data"}

Failed == got # << >> /\ got[Len(got)] = Failure

Received == IF Failed THEN Len(got) - 1 ELSE Len(got)

\* The caller receives the events that arrived, in order and under their names, and
\* an error only at the end; a channel that closed without one has delivered
\* everything the server sent, up to the end of the body.
InOrder ==
  /\ Received <= EventsIn(arrived, Len(arrived))
  /\ \A i \in DataLines(arrived, Len(arrived)) :
       EventsIn(arrived, i) <= Received =>
         \E name \in MaybeName :
           /\ Pending(arrived, i - 1, name)
           /\ got[EventsIn(arrived, i)] = EventName(name, arrived[i])

ErrorsEnd == \A k \in 1..Len(got) : got[k] = Failure => k = Len(got) /\ pc = "closed"

DeliveredInFull ==
  /\ InOrder /\ ErrorsEnd
  /\ pc = "closed" /\ ~Failed =>
       ended = "eof" /\ arrived = sent /\ Received = EventsIn(sent, Len(sent))

\* While the caller receives, the channel closes.  (A caller that stops receiving
\* leaves the goroutine and the connection behind, whatever it cancels.)
ChannelCloses == <>(pc = "closed" \/ ~receiving)

-----------------------------------------------------------------------------
(* The inductive invariant behind DeliveredInFull.                         *)

\* Until the body is cut, what the server wrote is what arrives.
Whole == ended # "cut" => arrived = sent

\* Every event of the lines read is with the caller or on its way, and the name in
\* hand is the one those lines leave pending.
InHand ==
  /\ Received + (IF pc = "offer" THEN 1 ELSE 0) = EventsIn(arrived, read)
  /\ pc # "offer" => Pending(arrived, read, named)
  /\ pc = "offer" =>
       /\ read > 0 /\ arrived[read].field = "data"
       /\ Pending(arrived, read - 1, named)
       /\ offer = EventName(named, arrived[read])

\* The goroutine stops at the end of the body or tells why not.
Ending ==
  pc = "closed" /\ ~Failed => ended = "eof" /\ read = Len(arrived)

IInv == TypeOK /\ Whole /\ InHand /\ InOrder /\ ErrorsEnd /\ Ending

-----------------------------------------------------------------------------
(* The variant behind ChannelCloses.                                       *)

\* The steps the goroutine can still take, with what has arrived.
Work ==
  IF pc = "closed" THEN 0
  ELSE 2 * (Len(arrived) - read)
         + (IF pc = "offer" THEN 3 ELSE IF pc = "scan" THEN 2 ELSE 1)

\* Once the body is over nothing is added to it, and every step of the goroutine
\* brings the end of the channel nearer.
WorkFalls ==
  [][/\ Scan \/ ScanEnds \/ Take \/ TakeError => Work' < Work
     /\ ended # "open" => ended' = ended /\ Work' <= Work]_vars
=============================================================================
