------------------------------- MODULE Leads --------------------------------
(***************************************************************************)
(* The metered half of salesshift/leads.go: RevealLeads, which spends one   *)
(* reveal per person and per request, and ConvertFromPool, which spends     *)
(* them inside one request, by several callers of one organisation, whose   *)
(* allowance they share.                                                   *)
(*                                                                         *)
(* A request goes through the transport: it may be lost, answered after the *)
(* client gave up on it, or answered while the answer is lost, and it is    *)
(* then sent again, up to Budget times (GoTransport is the model of that    *)
(* loop; here one transmission is one pass through "sending").             *)
(*                                                                         *)
(* The ids of a call are numbered by their position in PoolPersonIDs.       *)
(***************************************************************************)
EXTENDS Naturals, Sequences, FiniteSets

CONSTANTS
  People,          (* pool rows                                            *)
  Batches,         (* calls of RevealLeads                                 *)
  Conversions,     (* calls of ConvertFromPool                             *)
  PoolPersonIDs,   (* the ids each call is given                           *)
  LeadsMaxBatch,   (* the most ids a conversion accepts                    *)
  Budget,          (* transmissions of one request                         *)
  Allowance,       (* reveals of the organisation in this period           *)
  Missing,         (* ids that are no row of the pool                      *)
  UsedBefore,      (* reveals the organisation has spent already           *)
  OwnedBefore,     (* people it has revealed already                       *)
  Erasable         (* people someone requests the erasure of               *)

Calls == Batches \cup Conversions
Positions(c) == 1..Len(PoolPersonIDs[c])

ASSUME LeadsAssumption ==
  /\ Batches \cap Conversions = {}
  /\ PoolPersonIDs \in [Calls -> Seq(People)]
  /\ {LeadsMaxBatch, Allowance} \subseteq Nat
  /\ Budget \in Nat \ {0}
  /\ UsedBefore \in 0..Allowance
  /\ Missing \cup OwnedBefore \cup Erasable \subseteq People

VARIABLES
  owned,        (* server: people this organisation has revealed           *)
  used,         (* server: reveals spent this period                       *)
  contacts,     (* server: people converted into Contacts                  *)
  erased,       (* server: people removed from the pool                    *)
  pc,           (* where each call is                                      *)
  flag,         (* AllowPartial of a batch, RevealIfNeeded of a conversion *)
  tries,        (* transmissions of the request in flight, less one        *)
  answer,       (* the server's answer a batch has not handled yet         *)
  verdict,      (* what the report says of each id                         *)
  revealedNow,  (* ConvertFromPoolReport.RevealedNow: ids revealed         *)
  usedAt,       (* the meter as a batch's pre-flight read it               *)
  stray,        (* ids of requests given up on that may still be served    *)
  charged       (* history: ids a reveal was spent on for this call        *)

server == <<owned, used, contacts, erased>>
vars == <<owned, used, contacts, erased, pc, flag, tries, answer,
          verdict, revealedNow, usedAt, stray, charged>>

Verdict == {"none", "revealed", "no_quota", "erased", "not_found",
            "converted", "already_converted"}

Final == {"nil", "refused", "failed"}

-----------------------------------------------------------------------------
(* The ids of a call.                                                      *)

\* The bug of keeping the repeats of an id.
EveryPosition(s) == 1..Len(s)

\* dedupeIDs: of a repeated id only the first is kept.
DedupeIDs(s) == {i \in 1..Len(s) : \A j \in 1..(i - 1) : s[j] # s[i]}

KeptIDs == [c \in Calls |-> DedupeIDs(PoolPersonIDs[c])]
Kept(c) == KeptIDs[c]

Person(c, i) == PoolPersonIDs[c][i]

Left(c) == {i \in Kept(c) : verdict[c][i] = "none"}

\* The loops go through the ids in the order they were given.
Current(c, i) == i \in Left(c) /\ \A j \in Left(c) : i <= j

NoVerdict(c) == [i \in Positions(c) |-> "none"]

File(c, i, v) ==
  verdict' = [verdict EXCEPT ![c] = [verdict[c] EXCEPT ![i] = v]]

-----------------------------------------------------------------------------
(* The server.                                                             *)

Remaining == Allowance - used

\* reveal_if_needed has no omitempty: a false is on the wire, where leaving
\* it out would mean true.
WireReveal(c) == flag[c]

\* 410, 404, 200 and 402, as IsErased, IsLeadNotFound and IsQuotaExhausted
\* name them.
RevealAnswer(p) ==
  IF p \in erased THEN "erased"
  ELSE IF p \in Missing THEN "not_found"
  ELSE IF p \in owned \/ used < Allowance THEN "revealed"
  ELSE "no_quota"

\* Every row is taken to have an address: nothing is SkippedNoEmail.
ConvertAnswer(c, p) ==
  IF p \in erased THEN "erased"
  ELSE IF p \in contacts THEN "already_converted"
  ELSE IF p \in owned \/ (WireReveal(c) /\ used < Allowance) THEN "converted"
  ELSE "no_quota"

Answer(c, i) ==
  IF c \in Batches THEN RevealAnswer(Person(c, i))
  ELSE ConvertAnswer(c, Person(c, i))

\* A row the organisation already owns is not charged again.
Charges(c, i) ==
  Answer(c, i) \in {"revealed", "converted"} /\ Person(c, i) \notin owned

\* What serving one id does to the organisation's rows and meter.
Effect(c, i) ==
  /\ \/ /\ Charges(c, i)
        /\ owned' = owned \cup {Person(c, i)}
        /\ used' = used + 1
        /\ charged' = [charged EXCEPT ![c] = charged[c] \cup {i}]
     \/ /\ ~Charges(c, i)
        /\ UNCHANGED <<owned, used, charged>>
  /\ contacts' = IF Answer(c, i) = "converted"
                 THEN contacts \cup {Person(c, i)} ELSE contacts
  /\ UNCHANGED erased

\* The request reaches the server.  A conversion is served from its first id,
\* whatever an earlier transmission of it achieved.
Arrive(c) ==
  /\ pc[c] = "sending"
  /\ pc' = [pc EXCEPT ![c] = "serving"]
  /\ \/ /\ c \in Batches
        /\ UNCHANGED <<verdict, revealedNow>>
     \/ /\ c \in Conversions
        /\ verdict' = [verdict EXCEPT ![c] = NoVerdict(c)]
        /\ revealedNow' = [revealedNow EXCEPT ![c] = {}]
  /\ UNCHANGED <<server, flag, tries, answer, usedAt, stray, charged>>

\* A reveal is for one id ...
ServeReveal(c, i) ==
  /\ c \in Batches /\ pc[c] = "serving" /\ Current(c, i)
  /\ Effect(c, i)
  /\ answer' = [answer EXCEPT ![c] = Answer(c, i)]
  /\ pc' = [pc EXCEPT ![c] = "answered"]
  /\ UNCHANGED <<flag, tries, verdict, revealedNow, usedAt, stray>>

\* ... a conversion goes through all of them before it is answered.
ServeConvert(c, i) ==
  /\ c \in Conversions /\ pc[c] = "serving" /\ Current(c, i)
  /\ Effect(c, i)
  /\ File(c, i, Answer(c, i))
  /\ revealedNow' = IF Charges(c, i)
                    THEN [revealedNow EXCEPT ![c] = revealedNow[c] \cup {i}]
                    ELSE revealedNow
  /\ pc' = IF Left(c) = {i} THEN [pc EXCEPT ![c] = "answered"] ELSE pc
  /\ UNCHANGED <<flag, tries, answer, usedAt, stray>>

\* A request its client gave up on is served after all.
LateServe(c, i) ==
  /\ i \in stray[c]
  /\ stray' = [stray EXCEPT ![c] = stray[c] \ {i}]
  /\ Effect(c, i)
  /\ UNCHANGED <<pc, flag, tries, answer, verdict, revealedNow, usedAt>>

\* Another tenant has someone erased, which RequestErasure sends only when it
\* is confirmed.
RequestErasure(p) ==
  /\ p \in Erasable \ erased
  /\ erased' = erased \cup {p}
  /\ UNCHANGED <<owned, used, contacts, pc, flag, tries, answer, verdict,
                 revealedNow, usedAt, stray, charged>>

-----------------------------------------------------------------------------
(* The calls.                                                              *)

Init ==
  /\ owned = OwnedBefore /\ used = UsedBefore
  /\ contacts = {} /\ erased = {}
  /\ pc = [c \in Calls |-> "idle"]
  /\ flag = [c \in Calls |-> FALSE]
  /\ tries = [c \in Calls |-> 0]
  /\ answer = [c \in Calls |-> "none"]
  /\ verdict = [c \in Calls |-> NoVerdict(c)]
  /\ revealedNow = [c \in Calls |-> {}]
  /\ usedAt = [c \in Calls |-> 0]
  /\ stray = [c \in Calls |-> {}]
  /\ charged = [c \in Calls |-> {}]

Goto(c, l) == pc' = [pc EXCEPT ![c] = l]

MeterUnchanged == UNCHANGED <<server, charged>>

BeginReveal(c) ==
  /\ c \in Batches /\ pc[c] = "idle"
  /\ \E b \in BOOLEAN : flag' = [flag EXCEPT ![c] = b]
  /\ Goto(c, IF Kept(c) = {} THEN "failed" ELSE "preflight")
  /\ MeterUnchanged
  /\ UNCHANGED <<tries, answer, verdict, revealedNow, usedAt, stray>>

BeginConvert(c) ==
  /\ c \in Conversions /\ pc[c] = "idle"
  /\ \E b \in BOOLEAN : flag' = [flag EXCEPT ![c] = b]
  /\ Goto(c, IF Kept(c) = {} \/ Cardinality(Kept(c)) > LeadsMaxBatch
             THEN "failed" ELSE "sending")
  /\ MeterUnchanged
  /\ UNCHANGED <<tries, answer, verdict, revealedNow, usedAt, stray>>

\* The bug of reading the meter without comparing it to the batch.
NoPreflight(c) == TRUE

\* Every id is taken to cost one reveal.
Affordable(c) == Cardinality(Kept(c)) <= Remaining

\* The meter is read once, before anything is spent.
Preflight(c) ==
  /\ c \in Batches /\ pc[c] = "preflight"
  /\ usedAt' = [usedAt EXCEPT ![c] = used]
  /\ Goto(c, IF Affordable(c) \/ flag[c]
             THEN "sending" ELSE "refused")
  /\ MeterUnchanged
  /\ UNCHANGED <<flag, tries, answer, verdict, revealedNow, stray>>

PreflightFails(c) ==
  /\ c \in Batches /\ pc[c] = "preflight"
  /\ Goto(c, "failed")
  /\ MeterUnchanged
  /\ UNCHANGED <<flag, tries, answer, verdict, revealedNow, usedAt, stray>>

\* The ids of the transmission in flight that are not served yet.
InFlight(c) ==
  IF c \in Batches
  THEN IF pc[c] = "answered" THEN {} ELSE {i \in Left(c) : Current(c, i)}
  ELSE IF pc[c] = "sending" THEN Kept(c) ELSE Left(c)

AttemptsLeft(c) == tries[c] + 1 < Budget

\* The bug of sending again without counting the attempt.
RetransmitUncounted(c) ==
  /\ pc[c] \in {"sending", "serving", "answered"}
  /\ Goto(c, "sending")
  /\ stray' = [stray EXCEPT ![c] = stray[c] \cup InFlight(c)]
  /\ answer' = [answer EXCEPT ![c] = "none"]
  /\ MeterUnchanged
  /\ UNCHANGED <<flag, tries, verdict, revealedNow, usedAt>>

\* The transmission fails and the transport sends the request again.
Retransmit(c) ==
  /\ pc[c] \in {"sending", "serving", "answered"} /\ AttemptsLeft(c)
  /\ tries' = [tries EXCEPT ![c] = tries[c] + 1]
  /\ Goto(c, "sending")
  /\ stray' = [stray EXCEPT ![c] = stray[c] \cup InFlight(c)]
  /\ answer' = [answer EXCEPT ![c] = "none"]
  /\ MeterUnchanged
  /\ UNCHANGED <<flag, verdict, revealedNow, usedAt>>

\* The bug of taking every error for an exhausted quota.
AbortAsQuota(c) ==
  /\ c \in Batches /\ pc[c] \in {"sending", "serving", "answered"}
  /\ verdict' = [verdict EXCEPT ![c] =
       [i \in Positions(c) |-> IF i \in Left(c) THEN "no_quota" ELSE verdict[c][i]]]
  /\ Goto(c, "nil")
  /\ stray' = [stray EXCEPT ![c] = stray[c] \cup InFlight(c)]
  /\ answer' = [answer EXCEPT ![c] = "none"]
  /\ MeterUnchanged
  /\ UNCHANGED <<flag, tries, revealedNow, usedAt>>

\* The transport gives up on the request (the last attempt failed, an error
\* that is not retried, a cancelled context): the call returns that error.
Abort(c) ==
  /\ pc[c] \in {"sending", "serving", "answered"}
  /\ Goto(c, "failed")
  /\ stray' = [stray EXCEPT ![c] = stray[c] \cup InFlight(c)]
  /\ answer' = [answer EXCEPT ![c] = "none"]
  /\ MeterUnchanged
  /\ UNCHANGED <<flag, tries, verdict, revealedNow, usedAt>>

\* A row was revealed, is gone or is unknown: on to the next id.
NextId(c, i) ==
  /\ c \in Batches /\ pc[c] = "answered" /\ Current(c, i)
  /\ answer[c] # "no_quota"
  /\ File(c, i, answer[c])
  /\ Goto(c, IF Left(c) = {i} THEN "nil" ELSE "sending")
  /\ tries' = [tries EXCEPT ![c] = 0]
  /\ answer' = [answer EXCEPT ![c] = "none"]
  /\ MeterUnchanged
  /\ UNCHANGED <<flag, revealedNow, usedAt, stray>>

\* 402: this id and the rest are filed without asking for them.
QuotaExhausted(c) ==
  /\ c \in Batches /\ pc[c] = "answered"
  /\ answer[c] = "no_quota"
  /\ verdict' = [verdict EXCEPT ![c] =
       [i \in Positions(c) |-> IF i \in Left(c) THEN "no_quota" ELSE verdict[c][i]]]
  /\ Goto(c, "nil")
  /\ answer' = [answer EXCEPT ![c] = "none"]
  /\ MeterUnchanged
  /\ UNCHANGED <<flag, tries, revealedNow, usedAt, stray>>

ReportConversion(c) ==
  /\ c \in Conversions /\ pc[c] = "answered"
  /\ Goto(c, "nil")
  /\ MeterUnchanged
  /\ UNCHANGED <<flag, tries, answer, verdict, revealedNow, usedAt, stray>>

CallStep(c) ==
  \/ BeginReveal(c) \/ BeginConvert(c)
  \/ Preflight(c) \/ PreflightFails(c)
  \/ Arrive(c)
  \/ \E i \in Positions(c) :
       ServeReveal(c, i) \/ ServeConvert(c, i) \/ NextId(c, i)
  \/ Retransmit(c) \/ Abort(c)
  \/ QuotaExhausted(c) \/ ReportConversion(c)

\* Everything has returned and nothing is under way at the server.
Finished ==
  /\ \A c \in Calls : pc[c] \in Final /\ stray[c] = {}
  /\ UNCHANGED vars

Next ==
  \/ \E c \in Calls :
       CallStep(c) \/ \E i \in Positions(c) : LateServe(c, i)
  \/ \E p \in Erasable : RequestErasure(p)
  \/ Finished

Spec == Init /\ [][Next]_vars

\* A transmission is answered or given up on (the transport's deadlines), and
\* the loops are sequential code.
FairSpec == Spec /\ \A c \in Calls : WF_vars(CallStep(c))

-----------------------------------------------------------------------------
(* Properties.                                                             *)

\* Every variable keeps its type.
TypeOK ==
  /\ owned \subseteq People /\ contacts \subseteq People /\ erased \subseteq People
  /\ used \in 0..Allowance
  /\ pc \in [Calls -> {"idle", "preflight", "sending", "serving", "answered"}
                       \cup Final]
  /\ flag \in [Calls -> BOOLEAN]
  /\ tries \in [Calls -> 0..(Budget - 1)]
  /\ answer \in [Calls -> Verdict]
  /\ DOMAIN verdict = Calls
  /\ \A c \in Calls : verdict[c] \in [Positions(c) -> Verdict]
  /\ DOMAIN revealedNow = Calls
  /\ usedAt \in [Calls -> 0..Allowance]
  /\ DOMAIN stray = Calls /\ DOMAIN charged = Calls
  /\ \A c \in Calls :
       /\ revealedNow[c] \subseteq Kept(c)
       /\ stray[c] \subseteq Kept(c)
       /\ charged[c] \subseteq Kept(c)

\* A reveal batch has put no id on the wire beyond the one it is at.
InOrder(c) ==
  c \in Batches =>
    \A i \in stray[c] \cup charged[c] : \A j \in Left(c) : i <= j

\* What was spent is owned, and what the report calls revealed or converted is.
Paid(c) ==
  /\ \A i \in charged[c] : Person(c, i) \in owned
  /\ \A i \in Positions(c) :
       verdict[c][i] \in {"revealed", "converted"} => Person(c, i) \in owned
  /\ answer[c] = "revealed" =>
       \A i \in Positions(c) : Current(c, i) => Person(c, i) \in owned
  /\ \A i \in Positions(c) :
       verdict[c][i] = "already_converted" => Person(c, i) \in contacts

\* The meter of a call that was told no_quota is empty, and stays so.
Empty(c) ==
  /\ c \in Conversions /\ ~flag[c] => charged[c] = {}
  /\ c \in Batches \/ flag[c] =>
       /\ \A i \in Positions(c) : verdict[c][i] = "no_quota" => used = Allowance
       /\ answer[c] = "no_quota" => used = Allowance
  /\ answer[c] = "no_quota" =>
       \A i \in Positions(c) : Current(c, i) => i \notin charged[c]

\* Where the verdicts of a batch come from.
Filed(c) ==
  /\ \A i \in Positions(c) :
       /\ verdict[c][i] = "no_quota" => i \notin charged[c]
       /\ verdict[c][i] # "none" => i \in Kept(c)
       /\ verdict[c][i] = "not_found" => c \in Batches /\ Person(c, i) \in Missing
  /\ c \in Batches => \A i \in charged[c] : Person(c, i) \notin Missing
  /\ answer[c] = "not_found" =>
       \A i \in Positions(c) : Current(c, i) => Person(c, i) \in Missing
  /\ answer[c] # "already_converted" /\ answer[c] # "converted"
  /\ c \in Batches /\ pc[c] = "answered" =>
       answer[c] \in {"revealed", "no_quota", "erased", "not_found"}
  /\ c \in Batches /\ pc[c] # "answered" => answer[c] = "none"
  /\ c \in Conversions => answer[c] = "none"

\* The pre-flight found room for the whole batch.
Funded(c) ==
  /\ usedAt[c] <= used
  /\ c \in Batches /\ ~flag[c] /\ pc[c] \in {"sending", "serving", "answered", "nil"} =>
       usedAt[c] + Cardinality(Kept(c)) <= Allowance
  /\ c \in Batches /\ pc[c] # "nil" => \A i \in Positions(c) : verdict[c][i] # "no_quota"

\* Nothing has happened for a call that has not got past its checks.
Untouched(c) ==
  pc[c] \in {"idle", "preflight", "refused"} =>
    /\ charged[c] = {} /\ stray[c] = {} /\ answer[c] = "none"
    /\ \A i \in Positions(c) : verdict[c][i] = "none"

\* A report is only returned once every id is in it.
Complete(c) ==
  pc[c] = "nil" \/ (c \in Conversions /\ pc[c] = "answered") => Left(c) = {}

CallInv(c) ==
  /\ InOrder(c) /\ Paid(c) /\ Empty(c) /\ Filed(c)
  /\ Funded(c) /\ Untouched(c) /\ Complete(c)

IInv == \A c \in Calls : CallInv(c)

\* No silent spend: an id a reveal was spent on is never filed as out of
\* quota or as unknown, whatever was lost and sent again and whenever a request
\* given up on is served.  (It can be filed as erased: the
\* person may ask for it between the spend and the answer.)
SkippedIsNotCharged ==
  \A c \in Calls : \A i \in charged[c] :
    verdict[c][i] \notin {"no_quota", "not_found"}

\* A batch that may not be spent in part runs short only when others spent
\* from the same meter after its pre-flight: its own retries and repeats never
\* cause it.
ShortfallIsARace ==
  \A c \in Batches :
    ~flag[c] /\ (\E i \in Positions(c) : verdict[c][i] = "no_quota") =>
      used - usedAt[c] > Cardinality(charged[c])

\* A report returned without an error accounts for every person asked for,
\* once: len(Revealed) + len(Skipped) = Requested, and the buckets of a
\* conversion.
AccountsForEveryone ==
  \A c \in Calls : pc[c] = "nil" =>
    \A i \in Positions(c) :
      Cardinality({j \in Positions(c) : /\ Person(c, j) = Person(c, i)
                                        /\ verdict[c][j] # "none"}) = 1

\* The report of a conversion never counts a reveal that was not spent for it, and
\* counts all of them if its request was transmitted once.  (The report of a repeated
\* transmission leaves out what an earlier one spent.)
ReportIsHonest ==
  \A c \in Conversions :
    /\ revealedNow[c] \subseteq charged[c]
    /\ pc[c] = "nil" /\ tries[c] = 0 => revealedNow[c] = charged[c]

\* Why: until a conversion is sent again or given up on, what it was charged and what
\* it reports are the same, and nothing of it is under way elsewhere.
SentOnce(c) ==
  tries[c] = 0 /\ pc[c] # "failed" =>
    /\ stray[c] = {} /\ revealedNow[c] = charged[c]
    /\ pc[c] \in {"idle", "sending"} => charged[c] = {}

ReportInv == ReportIsHonest /\ \A c \in Conversions : SentOnce(c)

\* Every call returns.
EveryCallReturns == <>(\A c \in Calls : pc[c] \in Final)

-----------------------------------------------------------------------------
(* The variant behind EveryCallReturns.                                    *)

BatchPlace(l) ==
  IF l = "idle" THEN 5 ELSE IF l = "preflight" THEN 4 ELSE IF l = "sending" THEN 3
  ELSE IF l = "serving" THEN 2 ELSE IF l = "answered" THEN 1 ELSE 0

ConversionPlace(l, todo, left) ==
  IF l = "idle" THEN todo + 4 ELSE IF l = "sending" THEN todo + 3
  ELSE IF l = "serving" THEN left + 1 ELSE IF l = "answered" THEN 1 ELSE 0

\* The steps a call can still take.  A batch starts counting its attempts again with
\* every id, a conversion starts its ids again with every attempt.
Work(c) ==
  IF c \in Batches
  THEN (3 * Budget) * Cardinality(Left(c)) + 3 * (Budget - 1 - tries[c])
         + BatchPlace(pc[c])
  ELSE (Cardinality(Kept(c)) + 4) * (Budget - 1 - tries[c])
         + ConversionPlace(pc[c], Cardinality(Kept(c)), Cardinality(Left(c)))

MostWork(c) ==
  IF c \in Batches
  THEN (3 * Budget) * Cardinality(Kept(c)) + 3 * (Budget - 1) + 5
  ELSE (Cardinality(Kept(c)) + 4) * (Budget - 1) + Cardinality(Kept(c)) + 4

WorkIsBounded == \A c \in Calls : Work(c) \in 0..MostWork(c)

\* Every step of a call brings it nearer to its end, whatever is lost and sent again:
\* a batch has some 3 * Budget steps for each person it was given, a conversion of n
\* people n + 4 for each attempt.  No other call and no late request sets it back.
WorkFalls ==
  [][\A c \in Calls :
       /\ CallStep(c) => Work(c)' < Work(c)
       /\ Work(c)' <= Work(c)]_vars

=============================================================================
