---------------------------- MODULE LeadsProofs -----------------------------
(***************************************************************************)
(* Proofs about Leads, for every set of calls with ids of any length and    *)
(* repetition, every allowance, every retry budget and every history of    *)
(* losses and late deliveries.                                             *)
(***************************************************************************)
EXTENDS Leads, FiniteSetTheorems, WellFoundedInduction, TLAPS

\* The kept ids are positions, and finitely many.
LEMMA KeptFacts ==
  ASSUME NEW c \in Calls
  PROVE  /\ Kept(c) \subseteq Positions(c)
         /\ IsFiniteSet(Kept(c))
         /\ Cardinality(Kept(c)) \in Nat
         /\ Positions(c) \subseteq Nat
         /\ \A i \in Positions(c) : Person(c, i) \in People
<1>1. PoolPersonIDs[c] \in Seq(People)
  BY LeadsAssumption
<1>2. Len(PoolPersonIDs[c]) \in Nat /\ \A i \in Positions(c) : Person(c, i) \in People
  BY <1>1 DEF Positions, Person
<1>3. Kept(c) \subseteq Positions(c)
  BY DEF Kept, KeptIDs, DedupeIDs, Positions
<1>4. IsFiniteSet(Positions(c))
  BY <1>2, FS_Interval DEF Positions
<1>5. Positions(c) \subseteq Nat
  BY <1>2 DEF Positions
<1> QED
  BY <1>2, <1>3, <1>4, <1>5, FS_Subset, FS_CardinalityType

\* Answers are verdicts.
LEMMA AnswerIsVerdict ==
  ASSUME NEW c \in Calls, NEW i
  PROVE  /\ Answer(c, i) \in Verdict \ {"none"}
         /\ c \in Batches => Answer(c, i) \in {"erased", "not_found", "revealed", "no_quota"}
         /\ c \in Conversions =>
              Answer(c, i) \in {"erased", "already_converted", "converted", "no_quota"}
BY LeadsAssumption DEF Calls, Answer, RevealAnswer, ConvertAnswer, Verdict

\* Filing a verdict changes one entry.
LEMMA FileFacts ==
  ASSUME TypeOK, NEW c \in Calls, NEW i \in Positions(c), NEW v \in Verdict,
         File(c, i, v)
  PROVE  /\ DOMAIN verdict' = Calls
         /\ \A d \in Calls : d # c => verdict'[d] = verdict[d]
         /\ verdict'[c] \in [Positions(c) -> Verdict]
         /\ verdict'[c][i] = v
         /\ \A j \in Positions(c) : j # i => verdict'[c][j] = verdict[c][j]
<1>1. verdict[c] \in [Positions(c) -> Verdict] /\ DOMAIN verdict = Calls
  BY DEF TypeOK
<1> DEFINE w == [verdict[c] EXCEPT ![i] = v]
<1>2. w \in [Positions(c) -> Verdict] /\ w[i] = v
      /\ \A j \in Positions(c) : j # i => w[j] = verdict[c][j]
  BY <1>1
<1>3. verdict' = [verdict EXCEPT ![c] = w]
  BY DEF File
<1> HIDE DEF w
<1>4. DOMAIN verdict' = Calls /\ verdict'[c] = w
      /\ \A d \in Calls : d # c => verdict'[d] = verdict[d]
  BY <1>1, <1>3
<1> QED
  BY <1>2, <1>4

\* What is served of a call changes the organisation's rows upwards only, and
\* charges at most the id that is served.
LEMMA EffectFacts ==
  ASSUME TypeOK, NEW c \in Calls, NEW i \in Kept(c), Effect(c, i)
  PROVE  /\ owned \subseteq owned' /\ owned' \subseteq People
         /\ contacts \subseteq contacts' /\ contacts' \subseteq People
         /\ erased' = erased
         /\ used' \in 0..Allowance /\ used <= used'
         /\ DOMAIN charged' = Calls
         /\ \A d \in Calls : d # c => charged'[d] = charged[d]
         /\ charged'[c] = IF Charges(c, i) THEN charged[c] \cup {i} ELSE charged[c]
         /\ Charges(c, i) => Person(c, i) \in owned' /\ used < Allowance
         /\ \A d \in Calls : charged'[d] \subseteq Kept(d)
<1>1. DOMAIN charged = Calls /\ used \in 0..Allowance /\ Allowance \in Nat
  BY LeadsAssumption DEF TypeOK
<1>2. Person(c, i) \in People
  BY KeptFacts
<1>3. ASSUME Charges(c, i) PROVE used < Allowance
  BY <1>3 DEF Charges, Answer, RevealAnswer, ConvertAnswer
<1>4. contacts \subseteq contacts' /\ contacts' \subseteq People /\ erased' = erased
  BY <1>2 DEF Effect, TypeOK
<1>5. \A d \in Calls : charged[d] \subseteq Kept(d)
  BY DEF TypeOK
<1>6. CASE Charges(c, i)
  <2>1. charged' = [charged EXCEPT ![c] = charged[c] \cup {i}]
        /\ owned' = owned \cup {Person(c, i)} /\ used' = used + 1
    BY <1>6 DEF Effect
  <2>2. DOMAIN charged' = Calls /\ charged'[c] = charged[c] \cup {i}
        /\ \A d \in Calls : d # c => charged'[d] = charged[d]
    BY <1>1, <2>1
  <2>3. \A d \in Calls : charged'[d] \subseteq Kept(d)
    BY <1>5, <2>2
  <2>4. owned \subseteq owned' /\ owned' \subseteq People /\ Person(c, i) \in owned'
    BY <1>2, <2>1 DEF TypeOK
  <2>5. used' \in 0..Allowance /\ used <= used'
    BY <1>1, <1>3, <1>6, <2>1
  <2> QED
    BY <1>3, <1>4, <1>6, <2>2, <2>3, <2>4, <2>5
<1>7. CASE ~Charges(c, i)
  BY <1>1, <1>4, <1>5, <1>7 DEF Effect, TypeOK
<1> QED
  BY <1>6, <1>7

-----------------------------------------------------------------------------
(* Types.                                                                  *)

\* The initial state is well typed.
LEMMA TypeInit == Init => TypeOK
BY LeadsAssumption DEF Init, TypeOK, NoVerdict, Verdict, Final

\* The ids of a transmission are ids of the call.
LEMMA InFlightKept ==
  ASSUME NEW c \in Calls
  PROVE  InFlight(c) \subseteq Kept(c) /\ Left(c) \subseteq Kept(c)
BY DEF InFlight, Left

\* Every step keeps the types.
LEMMA TypeNext == TypeOK /\ [Next]_vars => TypeOK'
<1> SUFFICES ASSUME TypeOK, [Next]_vars PROVE TypeOK'
  OBVIOUS
<1> USE LeadsAssumption DEF Goto, MeterUnchanged, server, Final
<1>1. ASSUME NEW c \in Calls, BeginReveal(c) PROVE TypeOK'
  BY <1>1 DEF BeginReveal, TypeOK
<1>2. ASSUME NEW c \in Calls, BeginConvert(c) PROVE TypeOK'
  BY <1>2 DEF BeginConvert, TypeOK
<1>3. ASSUME NEW c \in Calls, Preflight(c) PROVE TypeOK'
  BY <1>3 DEF Preflight, TypeOK
<1>4. ASSUME NEW c \in Calls, PreflightFails(c) PROVE TypeOK'
  BY <1>4 DEF PreflightFails, TypeOK
<1>5. ASSUME NEW c \in Calls, Arrive(c) PROVE TypeOK'
  <2>1. NoVerdict(c) \in [Positions(c) -> Verdict]
    BY DEF NoVerdict, Verdict
  <2>2. DOMAIN verdict' = Calls /\ \A d \in Calls : verdict'[d] \in [Positions(d) -> Verdict]
    BY <1>5, <2>1 DEF Arrive, TypeOK
  <2>3. DOMAIN revealedNow' = Calls /\ \A d \in Calls : revealedNow'[d] \subseteq Kept(d)
    BY <1>5 DEF Arrive, TypeOK
  <2> QED
    BY <1>5, <2>2, <2>3 DEF Arrive, TypeOK
<1>6. ASSUME NEW c \in Calls, NEW i \in Positions(c), ServeReveal(c, i) PROVE TypeOK'
  <2>1. i \in Kept(c)
    BY <1>6 DEF ServeReveal, Current, Left
  <2>2. \A d \in Calls : charged'[d] \subseteq Kept(d)
    BY <1>6, <2>1, EffectFacts DEF ServeReveal
  <2>3. answer' \in [Calls -> Verdict]
    BY <1>6, AnswerIsVerdict DEF ServeReveal, TypeOK
  <2> QED
    BY <1>6, <2>1, <2>2, <2>3, EffectFacts DEF ServeReveal, TypeOK
<1>7. ASSUME NEW c \in Calls, NEW i \in Positions(c), ServeConvert(c, i) PROVE TypeOK'
  <2>1. i \in Kept(c)
    BY <1>7 DEF ServeConvert, Current, Left
  <2>2. \A d \in Calls : charged'[d] \subseteq Kept(d)
    BY <1>7, <2>1, EffectFacts DEF ServeConvert
  <2>3. DOMAIN verdict' = Calls /\ \A d \in Calls : verdict'[d] \in [Positions(d) -> Verdict]
    BY <1>7, AnswerIsVerdict, FileFacts DEF ServeConvert, TypeOK
  <2>4. DOMAIN revealedNow' = Calls /\ \A d \in Calls : revealedNow'[d] \subseteq Kept(d)
    BY <1>7, <2>1 DEF ServeConvert, TypeOK
  <2>5. pc' \in [Calls -> {"idle", "preflight", "sending", "serving", "answered"} \cup Final]
    BY <1>7 DEF ServeConvert, TypeOK
  <2> QED
    BY <1>7, <2>1, <2>2, <2>3, <2>4, <2>5, EffectFacts DEF ServeConvert, TypeOK
<1>8. ASSUME NEW c \in Calls, NEW i \in Positions(c), NextId(c, i) PROVE TypeOK'
  <2>1. DOMAIN verdict' = Calls /\ \A d \in Calls : verdict'[d] \in [Positions(d) -> Verdict]
    BY <1>8, FileFacts DEF NextId, TypeOK
  <2>2. answer' \in [Calls -> Verdict] /\ tries' \in [Calls -> 0..(Budget - 1)]
    BY <1>8 DEF NextId, TypeOK, Verdict
  <2> QED
    BY <1>8, <2>1, <2>2 DEF NextId, TypeOK
<1>9. ASSUME NEW c \in Calls, Retransmit(c) PROVE TypeOK'
  <2>1. DOMAIN stray' = Calls /\ \A d \in Calls : stray'[d] \subseteq Kept(d)
    BY <1>9, InFlightKept DEF Retransmit, TypeOK
  <2>2. answer' \in [Calls -> Verdict] /\ tries' \in [Calls -> 0..(Budget - 1)]
    BY <1>9 DEF Retransmit, AttemptsLeft, TypeOK, Verdict
  <2> QED
    BY <1>9, <2>1, <2>2 DEF Retransmit, TypeOK
<1>10. ASSUME NEW c \in Calls, Abort(c) PROVE TypeOK'
  <2>1. DOMAIN stray' = Calls /\ \A d \in Calls : stray'[d] \subseteq Kept(d)
    BY <1>10, InFlightKept DEF Abort, TypeOK
  <2>2. answer' \in [Calls -> Verdict]
    BY <1>10 DEF Abort, TypeOK, Verdict
  <2> QED
    BY <1>10, <2>1, <2>2 DEF Abort, TypeOK
<1>11. ASSUME NEW c \in Calls, QuotaExhausted(c) PROVE TypeOK'
  <2> DEFINE w == [i \in Positions(c) |-> IF i \in Left(c) THEN "no_quota" ELSE verdict[c][i]]
  <2>1. w \in [Positions(c) -> Verdict]
    BY DEF TypeOK, Verdict
  <2>2. verdict' = [verdict EXCEPT ![c] = w]
    BY <1>11 DEF QuotaExhausted
  <2> HIDE DEF w
  <2>3. DOMAIN verdict' = Calls /\ \A d \in Calls : verdict'[d] \in [Positions(d) -> Verdict]
    BY <2>1, <2>2 DEF TypeOK
  <2>4. answer' \in [Calls -> Verdict]
    BY <1>11 DEF QuotaExhausted, TypeOK, Verdict
  <2> QED
    BY <1>11, <2>3, <2>4 DEF QuotaExhausted, TypeOK
<1>12. ASSUME NEW c \in Calls, ReportConversion(c) PROVE TypeOK'
  BY <1>12 DEF ReportConversion, TypeOK
<1>13. ASSUME NEW c \in Calls, NEW i \in Positions(c), LateServe(c, i) PROVE TypeOK'
  <2>1. i \in Kept(c)
    BY <1>13 DEF LateServe, TypeOK
  <2>2. \A d \in Calls : charged'[d] \subseteq Kept(d)
    BY <1>13, <2>1, EffectFacts DEF LateServe
  <2>3. DOMAIN stray' = Calls /\ \A d \in Calls : stray'[d] \subseteq Kept(d)
    BY <1>13 DEF LateServe, TypeOK
  <2> QED
    BY <1>13, <2>1, <2>2, <2>3, EffectFacts DEF LateServe, TypeOK
<1>14. ASSUME NEW p \in Erasable, RequestErasure(p) PROVE TypeOK'
  BY <1>14 DEF RequestErasure, TypeOK
<1>15. CASE UNCHANGED vars
  BY <1>15 DEF vars, TypeOK
<1> QED
  BY <1>1, <1>2, <1>3, <1>4, <1>5, <1>6, <1>7, <1>8, <1>9, <1>10, <1>11, <1>12,
     <1>13, <1>14, <1>15 DEF Next, CallStep, Finished

\* Every variable keeps its type: no request is sent more than Budget times and
\* the meter never exceeds the allowance.
THEOREM TypeCorrect == Spec => []TypeOK
BY TypeInit, TypeNext, PTL DEF Spec

-----------------------------------------------------------------------------
(* The inductive invariant.                                                *)

\* Nothing of call d changes.
Same(d) ==
  /\ pc'[d] = pc[d] /\ flag'[d] = flag[d] /\ answer'[d] = answer[d]
  /\ verdict'[d] = verdict[d] /\ usedAt'[d] = usedAt[d]
  /\ stray'[d] = stray[d] /\ charged'[d] = charged[d]

\* The organisation's rows and its meter only grow.
Grows ==
  /\ owned \subseteq owned' /\ contacts \subseteq contacts'
  /\ used <= used' /\ used' <= Allowance

\* A call keeps its invariant while the others and the server move on.
LEMMA Frame ==
  ASSUME TypeOK, TypeOK', NEW d \in Calls, CallInv(d), Same(d), Grows
  PROVE  CallInv(d)'
<1> USE DEF Same, Grows
<1>1. Left(d)' = Left(d) /\ \A i : Current(d, i)' = Current(d, i)
  BY DEF Left, Current
<1>2. InOrder(d)'
  BY <1>1 DEF CallInv, InOrder
<1>3. Paid(d)'
  BY <1>1 DEF CallInv, Paid, Person
<1>4. used \in Nat /\ used' \in Nat /\ Allowance \in Nat /\ usedAt[d] \in Nat
  BY LeadsAssumption DEF TypeOK
<1>5. used = Allowance => used' = Allowance
  BY <1>4
<1>6. Empty(d)'
  BY <1>1, <1>5 DEF CallInv, Empty
<1>7. Filed(d)'
  BY <1>1 DEF CallInv, Filed, Person
<1>8. Funded(d)'
  BY <1>4 DEF CallInv, Funded
<1>9. Untouched(d)' /\ Complete(d)'
  BY <1>1 DEF CallInv, Untouched, Complete
<1> QED
  BY <1>2, <1>3, <1>6, <1>7, <1>8, <1>9 DEF CallInv

\* A step of one call that leaves the server alone.
LEMMA LocalStep ==
  ASSUME TypeOK, TypeOK', IInv, NEW c \in Calls, MeterUnchanged,
         \A d \in Calls : d # c => Same(d),
         CallInv(c)'
  PROVE  IInv'
<1>1. Grows
  BY LeadsAssumption DEF MeterUnchanged, server, Grows, TypeOK
<1>2. ASSUME NEW d \in Calls, d # c PROVE CallInv(d)'
  BY <1>1, <1>2, Frame DEF IInv
<1> QED
  BY <1>2 DEF IInv

\* A step in which the server serves one id of one call.
LEMMA ServerStep ==
  ASSUME TypeOK, TypeOK', IInv, NEW c \in Calls, NEW i \in Kept(c), Effect(c, i),
         \A d \in Calls : d # c =>
            /\ pc'[d] = pc[d] /\ flag'[d] = flag[d] /\ answer'[d] = answer[d]
            /\ verdict'[d] = verdict[d] /\ usedAt'[d] = usedAt[d]
            /\ stray'[d] = stray[d],
         CallInv(c)'
  PROVE  IInv'
<1>1. Grows
  <2>1. used' \in 0..Allowance /\ Allowance \in Nat
    BY EffectFacts, LeadsAssumption
  <2>2. used' <= Allowance
    BY <2>1
  <2> QED
    BY <2>2, EffectFacts DEF Grows
<1>2. \A d \in Calls : d # c => Same(d)
  BY EffectFacts DEF Same
<1>3. ASSUME NEW d \in Calls, d # c PROVE CallInv(d)'
  BY <1>1, <1>2, <1>3, Frame DEF IInv
<1> QED
  BY <1>3 DEF IInv

\* Before the first step nothing is filed, sent or spent.
LEMMA InvInit == Init => IInv
<1> SUFFICES ASSUME Init, NEW c \in Calls PROVE CallInv(c)
  BY DEF IInv
<1>1. pc[c] = "idle" /\ answer[c] = "none" /\ usedAt[c] = 0
      /\ stray[c] = {} /\ charged[c] = {} /\ flag[c] = FALSE
  BY DEF Init
<1>2. \A i \in Positions(c) : verdict[c][i] = "none"
  BY DEF Init, NoVerdict
<1>3. used \in Nat /\ Allowance \in Nat
  BY LeadsAssumption DEF Init
<1>4. InOrder(c) /\ Paid(c) /\ Empty(c) /\ Untouched(c) /\ Complete(c)
  BY <1>1, <1>2 DEF InOrder, Paid, Empty, Untouched, Complete
<1>5. Filed(c)
  BY <1>1, <1>2 DEF Filed
<1>6. Funded(c)
  BY <1>1, <1>2, <1>3 DEF Funded
<1> QED
  BY <1>4, <1>5, <1>6 DEF CallInv
\* A step of a call that files nothing and spends nothing.
LEMMA Quiet ==
  ASSUME TypeOK, TypeOK', NEW c \in Calls, CallInv(c), MeterUnchanged,
         verdict'[c] = verdict[c], flag'[c] = flag[c], answer'[c] = "none",
         c \in Batches => pc'[c] # "answered",
         stray'[c] \subseteq stray[c] \cup InFlight(c),
         Funded(c)', Untouched(c)', Complete(c)'
  PROVE  CallInv(c)'
<1>1. Left(c)' = Left(c) /\ \A i : Current(c, i)' = Current(c, i)
  BY DEF Left, Current
<1>2. owned' = owned /\ used' = used /\ contacts' = contacts /\ charged' = charged
  BY DEF MeterUnchanged, server
<1>3. InOrder(c)'
  <2> SUFFICES ASSUME c \in Batches, NEW i \in stray'[c] \cup charged[c], NEW j \in Left(c)
               PROVE  i <= j
    BY <1>1, <1>2 DEF InOrder
  <2>1. CASE i \in stray[c] \cup charged[c]
    BY <2>1 DEF CallInv, InOrder
  <2>2. CASE i \in InFlight(c)
    BY <2>2 DEF InFlight, Current
  <2> QED
    BY <2>1, <2>2
<1>4. Paid(c)'
  BY <1>1, <1>2 DEF CallInv, Paid, Person
<1>5. Empty(c)'
  BY <1>1, <1>2 DEF CallInv, Empty
<1>6. Filed(c)'
  BY <1>1, <1>2 DEF CallInv, Filed, Person
<1> QED
  BY <1>3, <1>4, <1>5, <1>6 DEF CallInv

\* A call begins: its flag is chosen, everything else is untouched.
LEMMA BeginStep ==
  ASSUME TypeOK, TypeOK', IInv, NEW c \in Calls, BeginReveal(c) \/ BeginConvert(c)
  PROVE  IInv'
<1> USE DEF BeginReveal, BeginConvert, Goto
<1>1. MeterUnchanged /\ \A d \in Calls : d # c => Same(d)
  BY DEF Same, TypeOK, MeterUnchanged, server
<1>2. pc[c] = "idle" /\ pc'[c] \in {"failed", "preflight", "sending"}
      /\ (c \in Batches => pc'[c] # "sending")
  BY LeadsAssumption DEF TypeOK
<1>3. verdict' = verdict /\ answer' = answer /\ stray' = stray /\ usedAt' = usedAt
      /\ charged' = charged /\ owned' = owned /\ used' = used /\ contacts' = contacts
  BY DEF MeterUnchanged, server
<1>4. CallInv(c)
  BY DEF IInv
<1>5. charged[c] = {} /\ stray[c] = {} /\ answer[c] = "none"
      /\ \A i \in Positions(c) : verdict[c][i] = "none"
  BY <1>2, <1>4 DEF CallInv, Untouched
<1>6. InOrder(c)' /\ Paid(c)' /\ Empty(c)' /\ Untouched(c)' /\ Complete(c)'
  BY <1>2, <1>3, <1>5 DEF InOrder, Paid, Empty, Untouched, Complete
<1>7. Filed(c)'
  BY <1>2, <1>3, <1>5 DEF Filed
<1>8. usedAt[c] <= used
  BY <1>4 DEF CallInv, Funded
<1>9. Funded(c)'
  BY <1>2, <1>3, <1>5, <1>8 DEF Funded
<1>10. CallInv(c)'
  BY <1>6, <1>7, <1>9 DEF CallInv
<1> QED
  BY <1>1, <1>10, LocalStep
\* The pre-flight reads the meter and lets the batch through or not.
LEMMA PreflightStep ==
  ASSUME TypeOK, TypeOK', IInv, NEW c \in Batches, Preflight(c) \/ PreflightFails(c)
  PROVE  IInv'
<1> USE DEF Preflight, PreflightFails, Goto
<1>1. c \in Calls /\ MeterUnchanged /\ \A d \in Calls : d # c => Same(d)
  BY DEF Calls, Same, TypeOK, MeterUnchanged, server
<1>2. pc[c] = "preflight" /\ pc'[c] \in {"failed", "refused", "sending"}
      /\ (pc'[c] = "sending" => Affordable(c) \/ flag[c])
      /\ (pc'[c] = "sending" => usedAt'[c] = used)
      /\ usedAt'[c] \in {used, usedAt[c]}
  BY <1>1 DEF TypeOK
<1>3. verdict' = verdict /\ answer' = answer /\ stray' = stray /\ flag' = flag
      /\ charged' = charged /\ used' = used
  BY DEF MeterUnchanged, server
<1>4. CallInv(c)
  BY <1>1 DEF IInv
<1>5. charged[c] = {} /\ stray[c] = {} /\ answer[c] = "none"
      /\ \A i \in Positions(c) : verdict[c][i] = "none"
  BY <1>2, <1>4 DEF CallInv, Untouched
<1>6. used \in Nat /\ Allowance \in Nat /\ Cardinality(Kept(c)) \in Nat
  BY <1>1, LeadsAssumption, KeptFacts DEF TypeOK
<1>7. Affordable(c) => used + Cardinality(Kept(c)) <= Allowance
  BY <1>6 DEF Affordable, Remaining
<1>8. usedAt'[c] <= used
  BY <1>2, <1>4, <1>6 DEF CallInv, Funded
<1>9. Funded(c)'
  BY <1>2, <1>3, <1>5, <1>7, <1>8 DEF Funded
<1>10. Untouched(c)' /\ Complete(c)'
  BY <1>1, <1>2, <1>3, <1>5, LeadsAssumption DEF Untouched, Complete
<1>11. CallInv(c)'
  BY <1>1, <1>2, <1>3, <1>4, <1>5, <1>9, <1>10, Quiet
<1> QED
  BY <1>1, <1>11, LocalStep

\* A transmission fails and is repeated or given up.
LEMMA GiveUpStep ==
  ASSUME TypeOK, TypeOK', IInv, NEW c \in Calls, Retransmit(c) \/ Abort(c)
  PROVE  IInv'
<1> USE DEF Retransmit, Abort, Goto
<1>1. MeterUnchanged /\ \A d \in Calls : d # c => Same(d)
  BY DEF Same, TypeOK, MeterUnchanged, server
<1>2. pc[c] \in {"sending", "serving", "answered"} /\ pc'[c] \in {"sending", "failed"}
      /\ answer'[c] = "none" /\ stray'[c] = stray[c] \cup InFlight(c)
  BY DEF TypeOK
<1>3. verdict' = verdict /\ flag' = flag /\ usedAt' = usedAt /\ used' = used
  BY DEF MeterUnchanged, server
<1>4. CallInv(c)
  BY DEF IInv
<1>5. Funded(c)'
  BY <1>2, <1>3, <1>4 DEF CallInv, Funded
<1>6. Untouched(c)' /\ Complete(c)'
  BY <1>2 DEF Untouched, Complete
<1>7. CallInv(c)'
  BY <1>1, <1>2, <1>3, <1>4, <1>5, <1>6, Quiet
<1> QED
  BY <1>1, <1>7, LocalStep

\* The report of a conversion is handed to the caller.
LEMMA ReportStep ==
  ASSUME TypeOK, TypeOK', IInv, NEW c \in Calls, ReportConversion(c)
  PROVE  IInv'
<1> USE DEF ReportConversion, Goto
<1>1. MeterUnchanged /\ \A d \in Calls : d # c => Same(d)
  BY DEF Same, TypeOK, MeterUnchanged, server
<1>2. c \in Conversions /\ c \notin Batches /\ pc[c] = "answered" /\ pc'[c] = "nil"
  BY LeadsAssumption DEF TypeOK
<1>3. verdict' = verdict /\ flag' = flag /\ usedAt' = usedAt /\ used' = used
      /\ answer' = answer /\ stray' = stray
  BY DEF MeterUnchanged, server
<1>4. CallInv(c)
  BY DEF IInv
<1>5. Funded(c)' /\ Untouched(c)' /\ Complete(c)'
  BY <1>2, <1>3, <1>4 DEF CallInv, Funded, Untouched, Complete, Left
<1>6. answer'[c] = "none"
  BY <1>2, <1>3, <1>4 DEF CallInv, Filed
<1>7. CallInv(c)'
  BY <1>1, <1>2, <1>3, <1>4, <1>5, <1>6, Quiet
<1> QED
  BY <1>1, <1>7, LocalStep

\* A request reaches the server; a conversion starts over there.
LEMMA ArriveStep ==
  ASSUME TypeOK, TypeOK', IInv, NEW c \in Calls, Arrive(c)
  PROVE  IInv'
<1> USE DEF Arrive
<1>1. MeterUnchanged /\ \A d \in Calls : d # c => Same(d)
  BY DEF Same, TypeOK, MeterUnchanged, server
<1>2. pc[c] = "sending" /\ pc'[c] = "serving"
  BY DEF TypeOK
<1>3. flag' = flag /\ usedAt' = usedAt /\ used' = used /\ answer' = answer
      /\ stray' = stray /\ charged' = charged /\ owned' = owned /\ contacts' = contacts
  BY DEF server
<1>4. CallInv(c)
  BY DEF IInv
<1>5. answer'[c] = "none"
  BY <1>2, <1>3, <1>4 DEF CallInv, Filed, Calls
<1>6. Untouched(c)' /\ Complete(c)'
  BY <1>2 DEF Untouched, Complete
<1>7. CASE c \in Batches
  <2>1. verdict' = verdict
    BY <1>7, LeadsAssumption
  <2>2. Funded(c)'
    BY <1>2, <1>3, <1>4, <2>1 DEF CallInv, Funded
  <2>3. CallInv(c)'
    BY <1>1, <1>2, <1>3, <1>4, <1>5, <1>6, <2>1, <2>2, Quiet
  <2> QED
    BY <1>1, <2>3, LocalStep
<1>8. CASE c \in Conversions
  <2>1. c \notin Batches
    BY <1>8, LeadsAssumption
  <2>2. \A i \in Positions(c) : verdict'[c][i] = "none"
    BY <2>1 DEF NoVerdict, TypeOK
  <2>3. InOrder(c)' /\ Funded(c)'
    BY <1>3, <1>4, <2>1 DEF CallInv, InOrder, Funded
  <2>4. Paid(c)' /\ Empty(c)'
    BY <1>3, <1>4, <1>5, <2>2 DEF CallInv, Paid, Empty, Person
  <2>5. Filed(c)'
    BY <1>5, <2>1, <2>2 DEF Filed
  <2>6. CallInv(c)'
    BY <1>6, <2>3, <2>4, <2>5 DEF CallInv
  <2> QED
    BY <1>1, <2>6, LocalStep
<1> QED
  BY <1>7, <1>8 DEF Calls

\* A batch files the answer for the id it is at.
LEMMA NextIdStep ==
  ASSUME TypeOK, TypeOK', IInv, NEW c \in Calls, NEW i \in Positions(c), NextId(c, i)
  PROVE  IInv'
<1>1. c \in Batches /\ c \notin Conversions /\ pc[c] = "answered" /\ Current(c, i)
      /\ answer[c] # "no_quota" /\ File(c, i, answer[c])
  BY LeadsAssumption DEF NextId
<1>2. CallInv(c)
  BY DEF IInv
<1>3. answer[c] \in {"revealed", "erased", "not_found"} /\ answer[c] \in Verdict
  BY <1>1, <1>2 DEF CallInv, Filed, Verdict
<1>4. /\ \A d \in Calls : d # c => verdict'[d] = verdict[d]
      /\ verdict'[c][i] = answer[c]
      /\ \A j \in Positions(c) : j # i => verdict'[c][j] = verdict[c][j]
  BY <1>1, <1>3, FileFacts
<1>5. MeterUnchanged /\ \A d \in Calls : d # c => Same(d)
  BY <1>4 DEF NextId, Goto, Same, TypeOK, MeterUnchanged, server
<1>6. pc'[c] \in {"nil", "sending"} /\ answer'[c] = "none"
  BY DEF NextId, Goto, TypeOK
<1>7. owned' = owned /\ used' = used /\ contacts' = contacts /\ charged' = charged
      /\ stray' = stray /\ flag' = flag /\ usedAt' = usedAt
  BY DEF NextId, MeterUnchanged, server
<1>8. Kept(c) \subseteq Positions(c)
  BY KeptFacts
<1>9. Left(c)' \subseteq Left(c)
  BY <1>3, <1>4, <1>8 DEF Left
<1>10. InOrder(c)'
  BY <1>2, <1>7, <1>9 DEF CallInv, InOrder
<1>11. Paid(c)'
  BY <1>1, <1>2, <1>3, <1>4, <1>6, <1>7 DEF CallInv, Paid, Person
<1>12. Empty(c)'
  BY <1>1, <1>2, <1>3, <1>4, <1>6, <1>7 DEF CallInv, Empty
<1>13. Filed(c)'
  <2>1. i \in Kept(c)
    BY <1>1 DEF Current, Left
  <2> QED
    BY <1>1, <1>2, <1>3, <1>4, <1>6, <1>7, <2>1 DEF CallInv, Filed, Person
<1>14. Funded(c)'
  BY <1>1, <1>2, <1>3, <1>4, <1>6, <1>7 DEF CallInv, Funded
<1>15. Untouched(c)' /\ Complete(c)'
  <2>1. pc'[c] = "nil" => Left(c) = {i}
    BY DEF NextId, Goto, TypeOK
  <2>2. i \notin Left(c)'
    BY <1>3, <1>4 DEF Left
  <2> QED
    BY <1>1, <1>6, <1>9, <2>1, <2>2 DEF Untouched, Complete
<1>16. CallInv(c)'
  BY <1>10, <1>11, <1>12, <1>13, <1>14, <1>15 DEF CallInv
<1> QED
  BY <1>5, <1>16, LocalStep

\* A batch files the rest: none of it was charged, for only the id the batch is
\* at has been on the wire, and that one was answered 402.
LEMMA QuotaStep ==
  ASSUME TypeOK, TypeOK', IInv, NEW c \in Calls, QuotaExhausted(c)
  PROVE  IInv'
<1>1. c \in Batches /\ c \notin Conversions /\ pc[c] = "answered" /\ answer[c] = "no_quota"
  BY LeadsAssumption DEF QuotaExhausted
<1>2. CallInv(c)
  BY DEF IInv
<1>3. /\ \A d \in Calls : d # c => verdict'[d] = verdict[d]
      /\ \A i \in Positions(c) :
           verdict'[c][i] = IF i \in Left(c) THEN "no_quota" ELSE verdict[c][i]
  BY DEF QuotaExhausted, TypeOK
<1>4. MeterUnchanged /\ \A d \in Calls : d # c => Same(d)
  BY <1>3 DEF QuotaExhausted, Goto, Same, TypeOK, MeterUnchanged, server
<1>5. pc'[c] = "nil" /\ answer'[c] = "none"
  BY DEF QuotaExhausted, Goto, TypeOK
<1>6. owned' = owned /\ used' = used /\ contacts' = contacts /\ charged' = charged
      /\ stray' = stray /\ flag' = flag /\ usedAt' = usedAt
  BY DEF QuotaExhausted, MeterUnchanged, server
<1>7. Kept(c) \subseteq Positions(c) /\ Left(c) \subseteq Kept(c)
  BY KeptFacts DEF Left
<1>8. Left(c)' = {}
  BY <1>3, <1>7 DEF Left
<1>9. \A i \in Left(c) : i \notin charged[c]
  <2> SUFFICES ASSUME NEW i \in Left(c), i \in charged[c] PROVE FALSE
    OBVIOUS
  <2>1. Current(c, i)
    BY <1>1, <1>2 DEF CallInv, InOrder, Current
  <2> QED
    BY <1>1, <1>2, <1>7, <2>1 DEF CallInv, Empty
<1>10. InOrder(c)'
  BY <1>8 DEF InOrder
<1>11. Paid(c)'
  BY <1>2, <1>3, <1>5, <1>6 DEF CallInv, Paid, Person
<1>12. Empty(c)'
  BY <1>1, <1>2, <1>3, <1>5, <1>6 DEF CallInv, Empty
<1>13. Filed(c)'
  BY <1>1, <1>2, <1>3, <1>5, <1>6, <1>7, <1>9 DEF CallInv, Filed, Person
<1>14. Funded(c)'
  BY <1>1, <1>2, <1>5, <1>6 DEF CallInv, Funded
<1>15. Untouched(c)' /\ Complete(c)'
  BY <1>5, <1>8 DEF Untouched, Complete
<1>16. CallInv(c)'
  BY <1>10, <1>11, <1>12, <1>13, <1>14, <1>15 DEF CallInv
<1> QED
  BY <1>4, <1>16, LocalStep
\* What the server's answer for one id says of its rows and its meter.
LEMMA AnswerFacts ==
  ASSUME TypeOK, NEW c \in Calls, NEW i \in Kept(c), Effect(c, i)
  PROVE  /\ Answer(c, i) = "no_quota" =>
              /\ Person(c, i) \notin owned /\ ~Charges(c, i)
              /\ c \in Batches \/ flag[c] => used = Allowance /\ used' = Allowance
         /\ Answer(c, i) = "not_found" => c \in Batches /\ Person(c, i) \in Missing
         /\ Answer(c, i) \in {"revealed", "converted"} => Person(c, i) \in owned'
         /\ Answer(c, i) = "already_converted" => Person(c, i) \in contacts
         /\ Charges(c, i) /\ c \in Batches => Person(c, i) \notin Missing
         /\ Charges(c, i) /\ c \in Conversions => flag[c]
         /\ Charges(c, i) => Person(c, i) \notin owned /\ used # Allowance
<1>1. used \in 0..Allowance /\ Allowance \in Nat /\ flag[c] \in BOOLEAN
  BY LeadsAssumption DEF TypeOK
<1>2. Answer(c, i) = "no_quota" => Person(c, i) \notin owned /\ ~Charges(c, i)
  BY DEF Answer, RevealAnswer, ConvertAnswer, Charges
<1>3. Answer(c, i) = "no_quota" /\ (c \in Batches \/ flag[c]) => ~(used < Allowance)
  BY DEF Answer, RevealAnswer, ConvertAnswer, WireReveal
<1>4. ~Charges(c, i) => used' = used
  BY DEF Effect
<1>5. Answer(c, i) = "not_found" => c \in Batches /\ Person(c, i) \in Missing
  BY DEF Answer, RevealAnswer, ConvertAnswer
<1>6. Answer(c, i) \in {"revealed", "converted"} => Person(c, i) \in owned'
  BY EffectFacts DEF Charges
<1>7. Answer(c, i) = "already_converted" => Person(c, i) \in contacts
  BY DEF Answer, RevealAnswer, ConvertAnswer
<1>8. Charges(c, i) /\ c \in Batches => Person(c, i) \notin Missing
  BY DEF Charges, Answer, RevealAnswer
<1>9. Charges(c, i) /\ c \in Conversions => flag[c]
  BY LeadsAssumption DEF Charges, Answer, ConvertAnswer, WireReveal
<1>10. Charges(c, i) => Person(c, i) \notin owned /\ used # Allowance
  <2>1. Charges(c, i) => Person(c, i) \notin owned
    BY DEF Charges
  <2>2. Charges(c, i) => used < Allowance
    BY EffectFacts
  <2> QED
    BY <1>1, <2>1, <2>2
<1> QED
  BY <1>1, <1>2, <1>3, <1>4, <1>5, <1>6, <1>7, <1>8, <1>9, <1>10

\* The server acts on a reveal.
LEMMA ServeRevealStep ==
  ASSUME TypeOK, TypeOK', IInv, NEW c \in Calls, NEW i \in Positions(c), ServeReveal(c, i)
  PROVE  IInv'
<1>1. c \in Batches /\ c \notin Conversions /\ pc[c] = "serving" /\ Current(c, i)
      /\ Effect(c, i)
  BY LeadsAssumption DEF ServeReveal
<1>2. i \in Kept(c) /\ verdict[c][i] = "none"
  BY <1>1 DEF Current, Left
<1>3. CallInv(c)
  BY DEF IInv
<1>4. /\ answer'[c] = Answer(c, i) /\ pc'[c] = "answered"
      /\ \A d \in Calls : d # c => pc'[d] = pc[d] /\ answer'[d] = answer[d]
      /\ verdict' = verdict /\ stray' = stray /\ flag' = flag /\ usedAt' = usedAt
  BY DEF ServeReveal, TypeOK
<1>5. /\ owned \subseteq owned' /\ contacts \subseteq contacts'
      /\ used' \in 0..Allowance /\ used <= used'
      /\ charged'[c] = IF Charges(c, i) THEN charged[c] \cup {i} ELSE charged[c]
      /\ Charges(c, i) => Person(c, i) \in owned'
  BY <1>1, <1>2, EffectFacts
<1>6. Left(c)' = Left(c) /\ \A j : Current(c, j)' = Current(c, j)
  BY <1>4 DEF Left, Current
<1>7. \A j \in Positions(c) : Current(c, j) => j = i
  BY <1>1, KeptFacts DEF Current, Left
<1>8. used \in Nat /\ used' \in Nat /\ Allowance \in Nat /\ usedAt[c] \in Nat
      /\ (used = Allowance => used' = Allowance)
  BY <1>5, LeadsAssumption DEF TypeOK
<1>9. i \in charged[c] => Person(c, i) \in owned
  BY <1>3 DEF CallInv, Paid
<1>10. InOrder(c)'
  BY <1>1, <1>3, <1>4, <1>5, <1>6 DEF CallInv, InOrder, Current
<1>11. Paid(c)'
  BY <1>1, <1>2, <1>3, <1>4, <1>5, <1>6, <1>7, AnswerFacts DEF CallInv, Paid, Person
<1>12. Empty(c)'
  BY <1>1, <1>2, <1>3, <1>4, <1>5, <1>6, <1>7, <1>8, <1>9, AnswerFacts
     DEF CallInv, Empty
<1>13. Filed(c)'
  <2>1. answer'[c] \in {"revealed", "no_quota", "erased", "not_found"}
    BY <1>1, <1>4, AnswerIsVerdict
  <2>2. \A j \in charged'[c] : Person(c, j) \notin Missing
    BY <1>1, <1>2, <1>3, <1>5, AnswerFacts DEF CallInv, Filed
  <2>3. answer'[c] = "not_found" => Person(c, i) \in Missing
    BY <1>1, <1>2, <1>4, AnswerFacts
  <2> QED
    BY <1>1, <1>2, <1>3, <1>4, <1>5, <1>6, <1>7, <2>1, <2>2, <2>3
       DEF CallInv, Filed, Person
<1>14. Funded(c)'
  BY <1>1, <1>3, <1>4, <1>5, <1>8 DEF CallInv, Funded
<1>15. Untouched(c)' /\ Complete(c)'
  BY <1>1, <1>4 DEF Untouched, Complete
<1>16. CallInv(c)'
  BY <1>10, <1>11, <1>12, <1>13, <1>14, <1>15 DEF CallInv
<1> QED
  BY <1>1, <1>2, <1>4, <1>16, ServerStep

\* The server goes through one id of a conversion.
LEMMA ServeConvertStep ==
  ASSUME TypeOK, TypeOK', IInv, NEW c \in Calls, NEW i \in Positions(c), ServeConvert(c, i)
  PROVE  IInv'
<1>1. c \in Conversions /\ c \notin Batches /\ pc[c] = "serving" /\ Current(c, i)
      /\ Effect(c, i) /\ File(c, i, Answer(c, i))
  BY LeadsAssumption DEF ServeConvert
<1>2. i \in Kept(c) /\ verdict[c][i] = "none"
  BY <1>1 DEF Current, Left
<1>3. CallInv(c)
  BY DEF IInv
<1>4. /\ pc'[c] \in {"serving", "answered"}
      /\ \A d \in Calls : d # c => pc'[d] = pc[d]
      /\ answer' = answer /\ stray' = stray /\ flag' = flag /\ usedAt' = usedAt
  BY <1>1 DEF ServeConvert, TypeOK
<1>5. /\ \A d \in Calls : d # c => verdict'[d] = verdict[d]
      /\ verdict'[c][i] = Answer(c, i)
      /\ \A j \in Positions(c) : j # i => verdict'[c][j] = verdict[c][j]
  BY <1>1, AnswerIsVerdict, FileFacts
<1>6. /\ owned \subseteq owned' /\ contacts \subseteq contacts'
      /\ used' \in 0..Allowance /\ used <= used'
      /\ charged'[c] = IF Charges(c, i) THEN charged[c] \cup {i} ELSE charged[c]
      /\ Charges(c, i) => Person(c, i) \in owned'
  BY <1>1, <1>2, EffectFacts
<1>7. used \in Nat /\ used' \in Nat /\ Allowance \in Nat /\ usedAt[c] \in Nat
      /\ (used = Allowance => used' = Allowance)
  BY <1>6, LeadsAssumption DEF TypeOK
<1>8. i \in charged[c] => Person(c, i) \in owned
  BY <1>3 DEF CallInv, Paid
<1>9. answer[c] = "none"
  BY <1>1, <1>3 DEF CallInv, Filed
<1>10. InOrder(c)' /\ Untouched(c)'
  BY <1>1, <1>4 DEF InOrder, Untouched
<1>11. Paid(c)'
  <2>1. \A j \in charged'[c] : Person(c, j) \in owned'
    BY <1>3, <1>6 DEF CallInv, Paid
  <2>2. \A j \in Positions(c) :
          verdict'[c][j] \in {"revealed", "converted"} => Person(c, j) \in owned'
    BY <1>1, <1>2, <1>3, <1>5, <1>6, AnswerFacts DEF CallInv, Paid
  <2>3. \A j \in Positions(c) :
          verdict'[c][j] = "already_converted" => Person(c, j) \in contacts'
    BY <1>1, <1>2, <1>3, <1>5, <1>6, AnswerFacts DEF CallInv, Paid
  <2> QED
    BY <1>4, <1>9, <2>1, <2>2, <2>3 DEF Paid, Person
<1>12. Empty(c)'
  <2>1. ~flag[c] => charged'[c] = {}
    BY <1>1, <1>2, <1>3, <1>6, AnswerFacts DEF CallInv, Empty
  <2>2. flag[c] => \A j \in Positions(c) : verdict'[c][j] = "no_quota" => used' = Allowance
    BY <1>1, <1>2, <1>3, <1>5, <1>7, AnswerFacts DEF CallInv, Empty
  <2> QED
    BY <1>1, <1>4, <1>9, <2>1, <2>2 DEF Empty
<1>13. Filed(c)'
  <2>1. \A j \in Positions(c) : verdict'[c][j] = "no_quota" => j \notin charged'[c]
    BY <1>1, <1>2, <1>3, <1>5, <1>6, <1>8, AnswerFacts DEF CallInv, Filed
  <2>2. \A j \in Positions(c) : verdict'[c][j] # "none" => j \in Kept(c)
    BY <1>2, <1>3, <1>5 DEF CallInv, Filed
  <2>3. \A j \in Positions(c) : verdict'[c][j] # "not_found"
    BY <1>1, <1>2, <1>3, <1>5, AnswerFacts DEF CallInv, Filed
  <2> QED
    BY <1>1, <1>4, <1>9, <2>1, <2>2, <2>3 DEF Filed
<1>14. Funded(c)'
  BY <1>1, <1>3, <1>4, <1>7, <1>6 DEF CallInv, Funded
<1>15. Complete(c)'
  <2>1. pc'[c] = "answered" => Left(c) = {i}
    BY <1>1 DEF ServeConvert, TypeOK
  <2>2. Left(c)' \subseteq Left(c) /\ i \notin Left(c)'
    <3>1. Answer(c, i) # "none"
      BY AnswerIsVerdict
    <3> QED
      BY <1>2, <1>5, <3>1, KeptFacts DEF Left
  <2> QED
    BY <1>4, <2>1, <2>2 DEF Complete
<1>16. CallInv(c)'
  BY <1>10, <1>11, <1>12, <1>13, <1>14, <1>15 DEF CallInv
<1> QED
  BY <1>1, <1>2, <1>4, <1>5, <1>16, ServerStep

\* A request given up on is served: an id that was filed as no_quota meets the
\* empty meter again, one that is still being tried is charged at most once.
LEMMA LateServeStep ==
  ASSUME TypeOK, TypeOK', IInv, NEW c \in Calls, NEW i \in Positions(c), LateServe(c, i)
  PROVE  IInv'
<1>1. i \in stray[c] /\ i \in Kept(c) /\ Effect(c, i)
  BY DEF LateServe, TypeOK
<1>2. CallInv(c)
  BY DEF IInv
<1>3. /\ stray'[c] \subseteq stray[c]
      /\ \A d \in Calls : d # c => stray'[d] = stray[d]
      /\ pc' = pc /\ answer' = answer /\ verdict' = verdict /\ flag' = flag
      /\ usedAt' = usedAt
  BY DEF LateServe, TypeOK
<1>4. /\ owned \subseteq owned' /\ contacts \subseteq contacts'
      /\ used' \in 0..Allowance /\ used <= used'
      /\ charged'[c] = IF Charges(c, i) THEN charged[c] \cup {i} ELSE charged[c]
      /\ Charges(c, i) => Person(c, i) \in owned'
  BY <1>1, EffectFacts
<1>5. Left(c)' = Left(c) /\ \A j : Current(c, j)' = Current(c, j)
  BY <1>3 DEF Left, Current
<1>6. used \in Nat /\ used' \in Nat /\ Allowance \in Nat /\ usedAt[c] \in Nat
      /\ (used = Allowance => used' = Allowance)
  BY <1>4, LeadsAssumption DEF TypeOK
<1>7. Charges(c, i) => c \in Batches \/ (c \in Conversions /\ flag[c])
  BY <1>1, AnswerFacts DEF Calls
<1>8. ASSUME Charges(c, i)
      PROVE  /\ verdict[c][i] # "no_quota" /\ answer[c] # "no_quota"
             /\ c \in Batches => Person(c, i) \notin Missing
  BY <1>1, <1>2, <1>7, <1>8, AnswerFacts DEF CallInv, Empty
<1>9. InOrder(c)'
  BY <1>1, <1>2, <1>3, <1>4, <1>5 DEF CallInv, InOrder
<1>10. Paid(c)'
  BY <1>2, <1>3, <1>4, <1>5 DEF CallInv, Paid, Person
<1>11. Empty(c)'
  <2>1. c \in Conversions /\ ~flag[c] => charged'[c] = {}
    BY <1>2, <1>4, <1>7, LeadsAssumption DEF CallInv, Empty
  <2>2. answer[c] = "no_quota" => charged'[c] = charged[c]
    BY <1>4, <1>8
  <2> QED
    BY <1>2, <1>3, <1>5, <1>6, <2>1, <2>2 DEF CallInv, Empty
<1>12. Filed(c)'
  <2>1. \A j \in Positions(c) : verdict[c][j] = "no_quota" => j \notin charged'[c]
    BY <1>2, <1>4, <1>8 DEF CallInv, Filed
  <2>2. c \in Batches => \A j \in charged'[c] : Person(c, j) \notin Missing
    BY <1>2, <1>4, <1>8 DEF CallInv, Filed
  <2> QED
    BY <1>2, <1>3, <1>5, <2>1, <2>2 DEF CallInv, Filed, Person
<1>13. Funded(c)'
  BY <1>2, <1>3, <1>4, <1>6 DEF CallInv, Funded
<1>14. Untouched(c)' /\ Complete(c)'
  BY <1>1, <1>2, <1>3, <1>5 DEF CallInv, Untouched, Complete
<1>15. CallInv(c)'
  BY <1>9, <1>10, <1>11, <1>12, <1>13, <1>14 DEF CallInv
<1> QED
  BY <1>1, <1>3, <1>15, ServerStep

\* Nothing in the invariant depends on who has been erased.
LEMMA ErasureStep ==
  ASSUME TypeOK, TypeOK', IInv, NEW p \in Erasable, RequestErasure(p)
  PROVE  IInv'
<1>1. Grows /\ \A d \in Calls : Same(d)
  BY LeadsAssumption DEF RequestErasure, Grows, Same, TypeOK
<1> QED
  BY <1>1, Frame DEF IInv

\* Every step keeps the invariant.
LEMMA InvNext == TypeOK /\ TypeOK' /\ IInv /\ [Next]_vars => IInv'
<1> SUFFICES ASSUME TypeOK, TypeOK', IInv, [Next]_vars PROVE IInv'
  OBVIOUS
<1>1. ASSUME NEW c \in Calls, CallStep(c) PROVE IInv'
  <2>1. CASE BeginReveal(c) \/ BeginConvert(c)
    BY <2>1, BeginStep
  <2>2. CASE Preflight(c) \/ PreflightFails(c)
    <3>1. c \in Batches
      BY <2>2 DEF Preflight, PreflightFails
    <3> QED
      BY <2>2, <3>1, PreflightStep
  <2>3. CASE Arrive(c)
    BY <2>3, ArriveStep
  <2>4. CASE \E i \in Positions(c) : ServeReveal(c, i) \/ ServeConvert(c, i) \/ NextId(c, i)
    BY <2>4, ServeRevealStep, ServeConvertStep, NextIdStep
  <2>5. CASE Retransmit(c) \/ Abort(c)
    BY <2>5, GiveUpStep
  <2>6. CASE QuotaExhausted(c) \/ ReportConversion(c)
    BY <2>6, QuotaStep, ReportStep
  <2> QED
    BY <1>1, <2>1, <2>2, <2>3, <2>4, <2>5, <2>6 DEF CallStep
<1>2. ASSUME NEW c \in Calls, NEW i \in Positions(c), LateServe(c, i) PROVE IInv'
  BY <1>2, LateServeStep
<1>3. ASSUME NEW p \in Erasable, RequestErasure(p) PROVE IInv'
  BY <1>3, ErasureStep
<1>4. CASE UNCHANGED vars
  <2>1. Grows /\ \A d \in Calls : Same(d)
    BY <1>4, LeadsAssumption DEF vars, Grows, Same, TypeOK
  <2> QED
    BY <2>1, Frame DEF IInv
<1> QED
  BY <1>1, <1>2, <1>3, <1>4 DEF Next, Finished

\* The inductive invariant holds in every reachable state.
THEOREM Invariance == Spec => []IInv
BY TypeInit, TypeNext, InvInit, InvNext, PTL DEF Spec

\* No reveal is spent silently: a charged id is never reported as out of quota
\* or unknown.
THEOREM NoSilentSpend == Spec => []SkippedIsNotCharged
<1>1. TypeOK /\ IInv => SkippedIsNotCharged
  <2> SUFFICES ASSUME TypeOK, IInv, NEW c \in Calls, NEW i \in charged[c]
               PROVE  verdict[c][i] \notin {"no_quota", "not_found"}
    BY DEF SkippedIsNotCharged
  <2>1. i \in Positions(c)
    BY KeptFacts DEF TypeOK
  <2> QED
    BY <2>1 DEF IInv, CallInv, Filed
<1> QED
  BY <1>1, TypeCorrect, Invariance, PTL

\* A batch that may not be spent in part and falls short lost a race: after its
\* pre-flight the meter moved by more than the batch itself was charged.
THEOREM ShortfallNeedsARace == Spec => []ShortfallIsARace
<1>1. TypeOK /\ IInv => ShortfallIsARace
  <2> SUFFICES ASSUME TypeOK, IInv, NEW c \in Batches, ~flag[c],
                      NEW i \in Positions(c), verdict[c][i] = "no_quota"
               PROVE  used - usedAt[c] > Cardinality(charged[c])
    BY DEF ShortfallIsARace
  <2>1. c \in Calls /\ CallInv(c)
    BY DEF IInv, Calls
  <2>2. i \in Kept(c) /\ i \notin charged[c]
    BY <2>1 DEF CallInv, Filed
  <2>3. used = Allowance /\ usedAt[c] + Cardinality(Kept(c)) <= Allowance
    BY <2>1 DEF CallInv, Empty, Funded
  <2>4. IsFiniteSet(Kept(c)) /\ Cardinality(Kept(c)) \in Nat
    BY <2>1, KeptFacts
  <2>5. IsFiniteSet(Kept(c) \ {i}) /\ Cardinality(Kept(c) \ {i}) = Cardinality(Kept(c)) - 1
    BY <2>2, <2>4, FS_RemoveElement
  <2>6. charged[c] \subseteq Kept(c) \ {i}
    BY <2>1, <2>2 DEF TypeOK
  <2>7. Cardinality(charged[c]) <= Cardinality(Kept(c)) - 1 /\ IsFiniteSet(charged[c])
    BY <2>5, <2>6, FS_Subset
  <2>8. Cardinality(charged[c]) \in Nat
    BY <2>7, FS_CardinalityType
  <2>9. usedAt[c] \in Nat /\ Allowance \in Nat
    BY <2>1, LeadsAssumption DEF TypeOK
  <2> QED
    BY <2>3, <2>4, <2>7, <2>8, <2>9
<1> QED
  BY <1>1, TypeCorrect, Invariance, PTL

\* Every nonempty set of naturals has a least element.
LEMMA Least ==
  ASSUME NEW T \in SUBSET Nat, T # {}
  PROVE  \E m \in T : \A k \in T : m <= k
<1> DEFINE R == OpToRel(<, Nat)
<1>1. \A x, y \in Nat : x < y => <<x, y>> \in R
  BY Zenon DEF OpToRel
<1>2. IsWellFoundedOn(R, Nat)
  BY NatLessThanWellFounded
<1> HIDE DEF R
<1>3. PICK m \in T : \A k \in T : ~ (<<k, m>> \in R)
  BY <1>2, WFMin
<1>4. \A k \in T : ~ (k < m)
  BY Zenon, <1>1, <1>3
<1>5. \A k \in T : m <= k
  BY <1>4
<1> QED
  BY <1>5

\* dedupeIDs keeps exactly one position of every id.
LEMMA KeptOnce ==
  ASSUME NEW c \in Calls, NEW i \in Positions(c)
  PROVE  \E m \in Kept(c) :
           \A j \in Kept(c) : Person(c, j) = Person(c, i) <=> j = m
<1> DEFINE T == {j \in Positions(c) : Person(c, j) = Person(c, i)}
<1>1. T \subseteq Nat /\ i \in T
  BY KeptFacts
<1>2. PICK m \in T : \A k \in T : m <= k
  BY <1>1, Least
<1>3. Positions(c) = 1..Len(PoolPersonIDs[c]) /\ Len(PoolPersonIDs[c]) \in Nat
  BY LeadsAssumption DEF Positions
<1>4. Kept(c) = {j \in Positions(c) :
                   \A k \in 1..(j - 1) : PoolPersonIDs[c][k] # PoolPersonIDs[c][j]}
  BY DEF Kept, KeptIDs, DedupeIDs, Positions
<1>5. m \in Kept(c)
  <2> SUFFICES ASSUME NEW k \in 1..(m - 1), PoolPersonIDs[c][k] = PoolPersonIDs[c][m]
               PROVE  FALSE
    BY <1>4
  <2>1. k \in T /\ k < m
    BY <1>3 DEF Person
  <2> QED
    BY <1>1, <1>2, <2>1
<1>6. ASSUME NEW j \in Kept(c), Person(c, j) = Person(c, i), j # m PROVE FALSE
  <2>1. j \in T /\ j \in Nat /\ m \in Nat /\ m < j
    BY <1>1, <1>2, <1>4, <1>6
  <2>2. m \in 1..(j - 1) /\ PoolPersonIDs[c][m] = PoolPersonIDs[c][j]
    BY <1>3, <1>6, <2>1 DEF Person
  <2> QED
    BY <1>4, <2>2
<1> QED
  BY <1>5, <1>6

\* A report returned without an error accounts for every person asked for once.
THEOREM NobodyIsLost == Spec => []AccountsForEveryone
<1>1. IInv => AccountsForEveryone
  <2> SUFFICES ASSUME IInv, NEW c \in Calls, pc[c] = "nil", NEW i \in Positions(c)
               PROVE  Cardinality({j \in Positions(c) :
                         /\ Person(c, j) = Person(c, i)
                         /\ verdict[c][j] # "none"}) = 1
    BY DEF AccountsForEveryone
  <2>1. Left(c) = {} /\ \A j \in Positions(c) : verdict[c][j] # "none" => j \in Kept(c)
    BY DEF IInv, CallInv, Complete, Filed
  <2>2. \A j \in Positions(c) : verdict[c][j] # "none" <=> j \in Kept(c)
    BY <2>1 DEF Left
  <2>3. PICK m \in Kept(c) : \A j \in Kept(c) : Person(c, j) = Person(c, i) <=> j = m
    BY KeptOnce
  <2>4. {j \in Positions(c) : Person(c, j) = Person(c, i) /\ verdict[c][j] # "none"} = {m}
    BY <2>2, <2>3, KeptFacts
  <2> QED
    BY <2>4, FS_Singleton
<1> QED
  BY <1>1, Invariance, PTL

-----------------------------------------------------------------------------
(* Every call winds down.                                                  *)

\* One less is at least one factor less.
LEMMA Times ==
  ASSUME NEW m \in Nat, NEW n \in Nat, NEW k \in Nat
  PROVE  /\ k * m \in Nat
         /\ m <= n => k * m <= k * n
         /\ m < n => k * m + k <= k * n
<1>1. k * m \in Nat
  BY SMT
<1>2. ASSUME m <= n PROVE k * m <= k * n
  BY <1>2, SMT
<1>3. ASSUME m < n PROVE k * m + k <= k * n
  <2>1. k * (n - m - 1) >= 0
    BY <1>3, SMT
  <2> QED
    BY <2>1, <1>3, SMT
<1> QED
  BY <1>1, <1>2, <1>3

\* What is left of a call is counted.
LEMMA LeftFacts ==
  ASSUME NEW c \in Calls
  PROVE  /\ Cardinality(Kept(c)) \in Nat
         /\ IsFiniteSet(Left(c)) /\ Cardinality(Left(c)) \in Nat
         /\ Cardinality(Left(c)) <= Cardinality(Kept(c))
<1>1. IsFiniteSet(Kept(c)) /\ Left(c) \subseteq Kept(c)
  BY KeptFacts, InFlightKept
<1> QED
  BY <1>1, FS_Subset, FS_CardinalityType

\* The variant of a batch, in numbers.
LEMMA BatchFalls ==
  ASSUME NEW B \in Nat \ {0}, NEW t \in 0..(B - 1), NEW u \in 0..(B - 1),
         NEW m \in Nat, NEW n \in Nat, NEW p \in 0..5, NEW q \in 0..5,
         \/ n = m /\ u = t /\ q < p
         \/ n = m /\ u = t + 1 /\ q <= 3 /\ 1 <= p
         \/ n < m /\ u = 0 /\ q <= 3 /\ 1 <= p
         \/ n <= m /\ u = t /\ q < p
  PROVE  (3 * B) * n + 3 * (B - 1 - u) + q < (3 * B) * m + 3 * (B - 1 - t) + p
<1> DEFINE K == 3 * B
<1>1. K \in Nat /\ K = 3 * B
  OBVIOUS
<1> HIDE DEF K
<1>2. /\ K * n \in Nat /\ K * m \in Nat
      /\ n <= m => K * n <= K * m
      /\ n < m => K * n + K <= K * m
  BY <1>1, Times
<1>3. n = m => K * n = K * m
  OBVIOUS
<1>4. K * n + 3 * (B - 1 - u) + q < K * m + 3 * (B - 1 - t) + p
  BY <1>1, <1>2, <1>3
<1> QED
  BY <1>1, <1>4

\* The variant of a conversion, in numbers.
LEMMA ConversionFalls ==
  ASSUME NEW B \in Nat \ {0}, NEW t \in 0..(B - 1), NEW u \in 0..(B - 1),
         NEW k \in Nat, NEW p \in 0..(k + 4), NEW q \in 0..(k + 4),
         \/ u = t /\ q < p
         \/ u = t + 1 /\ q <= k + 3
  PROVE  (k + 4) * (B - 1 - u) + q < (k + 4) * (B - 1 - t) + p
<1> DEFINE K == k + 4
<1>1. K \in Nat /\ K = k + 4
  OBVIOUS
<1> HIDE DEF K
<1>2. B - 1 - u \in Nat /\ B - 1 - t \in Nat
  OBVIOUS
<1>3. /\ K * (B - 1 - u) \in Nat /\ K * (B - 1 - t) \in Nat
      /\ u = t + 1 => K * (B - 1 - u) + K <= K * (B - 1 - t)
  BY <1>1, <1>2, Times
<1>4. CASE u = t /\ q < p
  BY <1>3, <1>4, <1>1
<1>5. CASE u = t + 1 /\ q <= k + 3
  <2>1. K * (B - 1 - u) + q < K * (B - 1 - t) + p
    BY <1>1, <1>3, <1>5
  <2> QED
    BY <2>1, <1>1
<1> QED
  BY <1>4, <1>5

\* What the variant of a call depends on, unchanged.
Still(d) == pc'[d] = pc[d] /\ tries'[d] = tries[d] /\ verdict'[d] = verdict[d]

\* What the steps of others leave alone.
Apart(d) ==
  /\ Still(d)
  /\ stray'[d] = stray[d] /\ revealedNow'[d] = revealedNow[d] /\ charged'[d] = charged[d]

LEMMA OthersApart ==
  ASSUME TypeOK, NEW c \in Calls, NEW d \in Calls, c # d,
         CallStep(c) \/ \E i \in Positions(c) : LateServe(c, i)
  PROVE  Apart(d)
<1> USE DEF Apart, Still, TypeOK, Goto, File, MeterUnchanged
<1>1. CASE BeginReveal(c) \/ BeginConvert(c)
  BY <1>1 DEF BeginReveal, BeginConvert
<1>2. CASE Preflight(c) \/ PreflightFails(c)
  BY <1>2 DEF Preflight, PreflightFails
<1>3. CASE Arrive(c)
  BY <1>3 DEF Arrive
<1>4. ASSUME NEW i \in Positions(c), ServeReveal(c, i) PROVE Apart(d)
  BY <1>4 DEF ServeReveal, Effect
<1>5. ASSUME NEW i \in Positions(c), ServeConvert(c, i) PROVE Apart(d)
  BY <1>5 DEF ServeConvert, Effect
<1>6. ASSUME NEW i \in Positions(c), NextId(c, i) PROVE Apart(d)
  BY <1>6 DEF NextId
<1>7. CASE Retransmit(c) \/ Abort(c)
  BY <1>7 DEF Retransmit, Abort
<1>8. CASE QuotaExhausted(c) \/ ReportConversion(c)
  BY <1>8 DEF QuotaExhausted, ReportConversion
<1>9. ASSUME NEW i \in Positions(c), LateServe(c, i) PROVE Apart(d)
  BY <1>9 DEF LateServe, Effect
<1> QED
  BY <1>1, <1>2, <1>3, <1>4, <1>5, <1>6, <1>7, <1>8, <1>9 DEF CallStep

\* The variant of a call only moves with its own steps.
LEMMA OwnSteps ==
  ASSUME TypeOK, Next, NEW d \in Calls
  PROVE  Still(d) \/ CallStep(d)
<1> USE DEF Still
<1>1. ASSUME NEW c \in Calls, CallStep(c), c # d PROVE Still(d)
  BY <1>1, OthersApart DEF Apart
<1>2. ASSUME NEW c \in Calls, NEW i \in Positions(c), LateServe(c, i) PROVE Still(d)
  BY <1>2 DEF LateServe
<1>3. ASSUME NEW p \in Erasable, RequestErasure(p) PROVE Still(d)
  BY <1>3 DEF RequestErasure
<1>4. CASE Finished
  BY <1>4 DEF Finished, vars
<1> QED
  BY <1>1, <1>2, <1>3, <1>4 DEF Next

\* What the steps of a batch do to what is left, its attempts and its place.
LEMMA BatchStep ==
  ASSUME TypeOK, TypeOK', IInv, NEW c \in Batches, CallStep(c)
  PROVE  LET p == BatchPlace(pc[c])
             q == BatchPlace(pc'[c])
             m == Cardinality(Left(c))
             n == Cardinality(Left(c)')
         IN  \/ n = m /\ tries'[c] = tries[c] /\ q < p
             \/ n = m /\ tries'[c] = tries[c] + 1 /\ q <= 3 /\ 1 <= p
             \/ n < m /\ tries'[c] = 0 /\ q <= 3 /\ 1 <= p
             \/ n <= m /\ tries'[c] = tries[c] /\ q < p
<1>0. c \in Calls /\ c \notin Conversions
  BY LeadsAssumption DEF Calls
<1> USE <1>0 DEF TypeOK, BatchPlace, Goto, Final
<1>1. verdict'[c] = verdict[c] => Left(c)' = Left(c)
  BY DEF Left
<1>2. CASE BeginReveal(c)
  BY <1>1, <1>2 DEF BeginReveal
<1>3. CASE Preflight(c) \/ PreflightFails(c)
  BY <1>1, <1>3 DEF Preflight, PreflightFails
<1>4. CASE Arrive(c)
  BY <1>1, <1>4 DEF Arrive
<1>5. ASSUME NEW i \in Positions(c), ServeReveal(c, i)
      PROVE  /\ pc[c] = "serving" /\ pc'[c] = "answered"
             /\ tries'[c] = tries[c] /\ verdict'[c] = verdict[c]
  BY <1>5 DEF ServeReveal
<1>6. ASSUME NEW i \in Positions(c), NextId(c, i)
      PROVE  /\ Cardinality(Left(c)') < Cardinality(Left(c))
             /\ tries'[c] = 0 /\ pc[c] = "answered" /\ pc'[c] \in {"sending", "nil"}
  <2>1. i \in Left(c) /\ i \in Kept(c) /\ answer[c] # "none"
    <3>1. CallInv(c)
      BY DEF IInv
    <3> QED
      BY <1>6, <3>1 DEF NextId, Current, Left, CallInv, Filed
  <2>2. Left(c)' = Left(c) \ {i}
    <3>1. /\ verdict'[c][i] = answer[c]
          /\ \A j \in Positions(c) : j # i => verdict'[c][j] = verdict[c][j]
      BY <1>6 DEF NextId, File
    <3> QED
      BY <2>1, <3>1, KeptFacts DEF Left
  <2>3. Cardinality(Left(c)') = Cardinality(Left(c)) - 1
    <3>1. IsFiniteSet(Left(c))
      BY LeftFacts
    <3>2. Cardinality(Left(c) \ {i}) = Cardinality(Left(c)) - 1
      BY ONLY <2>1, <3>1, FS_RemoveElement
    <3> QED
      BY ONLY <2>2, <3>2
  <2>4. tries'[c] = 0 /\ pc[c] = "answered" /\ pc'[c] \in {"sending", "nil"}
    BY <1>6 DEF NextId
  <2> QED
    BY <2>3, <2>4, LeftFacts
<1>7. CASE Retransmit(c)
  BY <1>1, <1>7 DEF Retransmit
<1>8. CASE Abort(c)
  BY <1>1, <1>8 DEF Abort
<1>9. CASE QuotaExhausted(c)
  <2>1. Left(c)' \subseteq Left(c)
    <3>1. verdict'[c] = [i \in Positions(c) |->
                           IF i \in Left(c) THEN "no_quota" ELSE verdict[c][i]]
      BY <1>9 DEF QuotaExhausted
    <3> QED
      BY <3>1, KeptFacts DEF Left
  <2>2. Cardinality(Left(c)') <= Cardinality(Left(c))
    BY <2>1, LeftFacts, FS_Subset
  <2> QED
    BY <1>9, <2>2 DEF QuotaExhausted
<1>10. ~BeginConvert(c) /\ ~ReportConversion(c) /\ \A i \in Positions(c) : ~ServeConvert(c, i)
  BY DEF BeginConvert, ReportConversion, ServeConvert
<1> QED
  BY <1>1, <1>2, <1>3, <1>4, <1>5, <1>6, <1>7, <1>8, <1>9, <1>10 DEF CallStep

\* What the steps of a conversion do to its attempts and its place.
LEMMA ConversionStep ==
  ASSUME TypeOK, TypeOK', IInv, NEW c \in Conversions, CallStep(c)
  PROVE  LET k == Cardinality(Kept(c))
             p == ConversionPlace(pc[c], k, Cardinality(Left(c)))
             q == ConversionPlace(pc'[c], k, Cardinality(Left(c)'))
         IN  /\ p \in 0..(k + 4) /\ q \in 0..(k + 4)
             /\ \/ tries'[c] = tries[c] /\ q < p
                \/ tries'[c] = tries[c] + 1 /\ q <= k + 3
<1> DEFINE k == Cardinality(Kept(c))
           m == Cardinality(Left(c))
           n == Cardinality(Left(c)')
<1>0. c \in Calls /\ c \notin Batches
  BY LeadsAssumption DEF Calls
<1>1. k \in Nat /\ m \in Nat /\ m <= k
  BY <1>0, LeftFacts
<1>2. Left(c)' \subseteq Kept(c)
  BY DEF Left
<1>3. n \in Nat /\ n <= k
  BY <1>0, <1>2, KeptFacts, FS_Subset, FS_CardinalityType
<1>4. verdict'[c] = verdict[c] => n = m
  BY DEF Left
<1> USE <1>0, <1>1, <1>3 DEF TypeOK, Goto, Final
<1> HIDE DEF k, m, n
<1> SUFFICES \/ /\ tries'[c] = tries[c]
                /\ ConversionPlace(pc'[c], k, n) < ConversionPlace(pc[c], k, m)
             \/ /\ tries'[c] = tries[c] + 1
                /\ ConversionPlace(pc'[c], k, n) <= k + 3
  BY DEF ConversionPlace, k, m, n
<1> USE DEF ConversionPlace
<1>5. CASE BeginConvert(c)
  BY <1>5 DEF BeginConvert
<1>6. CASE Arrive(c)
  BY <1>6 DEF Arrive
<1>7. ASSUME NEW i \in Positions(c), ServeConvert(c, i)
      PROVE  /\ pc[c] = "serving" /\ pc'[c] \in {"serving", "answered"}
             /\ tries'[c] = tries[c] /\ n < m
  <2>1. i \in Left(c) /\ i \in Kept(c) /\ Answer(c, i) # "none"
    BY <1>7, AnswerIsVerdict DEF ServeConvert, Current, Left
  <2>2. Left(c)' = Left(c) \ {i}
    <3>1. /\ verdict'[c][i] = Answer(c, i)
          /\ \A j \in Positions(c) : j # i => verdict'[c][j] = verdict[c][j]
      BY <1>7 DEF ServeConvert, File
    <3> QED
      BY <2>1, <3>1, KeptFacts DEF Left
  <2>3. n = m - 1
    <3>1. IsFiniteSet(Left(c))
      BY LeftFacts
    <3>2. Cardinality(Left(c) \ {i}) = Cardinality(Left(c)) - 1
      BY ONLY <2>1, <3>1, FS_RemoveElement
    <3> QED
      BY ONLY <2>2, <3>2 DEF m, n
  <2> QED
    BY <1>7, <2>3 DEF ServeConvert
<1>8. CASE Retransmit(c)
  BY <1>8 DEF Retransmit
<1>9. CASE Abort(c)
  BY <1>9, <1>4 DEF Abort
<1>10. CASE ReportConversion(c)
  BY <1>10 DEF ReportConversion
<1>11. /\ ~BeginReveal(c) /\ ~Preflight(c) /\ ~PreflightFails(c) /\ ~QuotaExhausted(c)
       /\ \A i \in Positions(c) : ~ServeReveal(c, i) /\ ~NextId(c, i)
  BY DEF BeginReveal, Preflight, PreflightFails, QuotaExhausted, ServeReveal, NextId
<1> QED
  BY <1>5, <1>6, <1>7, <1>8, <1>9, <1>10, <1>11 DEF CallStep

\* Both together.
LEMMA WorkStep ==
  ASSUME TypeOK, TypeOK', IInv, NEW c \in Calls, CallStep(c)
  PROVE  Work(c)' < Work(c)
<1>1. /\ Budget \in Nat \ {0}
      /\ tries[c] \in 0..(Budget - 1) /\ tries'[c] \in 0..(Budget - 1)
  BY LeadsAssumption DEF TypeOK
<1>2. CASE c \in Batches
  <2>1. Left(c)' \subseteq Kept(c)
    BY DEF Left
  <2>2. Cardinality(Left(c)) \in Nat /\ Cardinality(Left(c)') \in Nat
    BY <2>1, LeftFacts, KeptFacts, FS_Subset, FS_CardinalityType
  <2>3. BatchPlace(pc[c]) \in 0..5 /\ BatchPlace(pc'[c]) \in 0..5
    BY DEF BatchPlace
  <2>4. Work(c)' = (3 * Budget) * Cardinality(Left(c)') + 3 * (Budget - 1 - tries'[c])
                     + BatchPlace(pc'[c])
    BY <1>2 DEF Work, BatchPlace
  <2>5. Work(c) = (3 * Budget) * Cardinality(Left(c)) + 3 * (Budget - 1 - tries[c])
                    + BatchPlace(pc[c])
    BY <1>2 DEF Work
  <2> DEFINE p == BatchPlace(pc[c])
             q == BatchPlace(pc'[c])
             m == Cardinality(Left(c))
             n == Cardinality(Left(c)')
  <2>6. \/ n = m /\ tries'[c] = tries[c] /\ q < p
        \/ n = m /\ tries'[c] = tries[c] + 1 /\ q <= 3 /\ 1 <= p
        \/ n < m /\ tries'[c] = 0 /\ q <= 3 /\ 1 <= p
        \/ n <= m /\ tries'[c] = tries[c] /\ q < p
    BY <1>2, BatchStep
  <2> HIDE DEF p, q, m, n
  <2>7. (3 * Budget) * n + 3 * (Budget - 1 - tries'[c]) + q
          < (3 * Budget) * m + 3 * (Budget - 1 - tries[c]) + p
    <3>1. m \in Nat /\ n \in Nat /\ p \in 0..5 /\ q \in 0..5
      BY <2>2, <2>3 DEF p, q, m, n
    <3> QED
      BY <1>1, <2>6, <3>1, BatchFalls
  <2> QED
    BY <2>4, <2>5, <2>7 DEF p, q, m, n
<1>3. CASE c \in Conversions
  <2>1. c \notin Batches
    BY <1>3, LeadsAssumption
  <2> DEFINE k == Cardinality(Kept(c))
             p == ConversionPlace(pc[c], k, Cardinality(Left(c)))
             q == ConversionPlace(pc'[c], k, Cardinality(Left(c)'))
  <2>2. /\ p \in 0..(k + 4) /\ q \in 0..(k + 4)
        /\ \/ tries'[c] = tries[c] /\ q < p
           \/ tries'[c] = tries[c] + 1 /\ q <= k + 3
    BY <1>3, ConversionStep
  <2>3. k \in Nat
    BY LeftFacts
  <2>4. Work(c) = (k + 4) * (Budget - 1 - tries[c]) + p
    BY <2>1 DEF Work
  <2>5. Work(c)' = (k + 4) * (Budget - 1 - tries'[c]) + q
    BY <2>1 DEF Work, ConversionPlace, Kept, KeptIDs
  <2> HIDE DEF k, p, q
  <2> QED
    BY <1>1, <2>2, <2>3, <2>4, <2>5, ConversionFalls
<1> QED
  BY <1>2, <1>3 DEF Calls

\* A call that does not move has as much to do as before.
LEMMA WorkStill ==
  ASSUME NEW c \in Calls, Still(c)
  PROVE  Work(c)' = Work(c)
<1>1. Left(c)' = Left(c)
  BY DEF Left, Still, Kept, KeptIDs
<1> QED
  BY <1>1 DEF Work, Still, BatchPlace, ConversionPlace, Kept, KeptIDs

\* The variant is a number below its bound.
LEMMA WorkType ==
  ASSUME TypeOK, NEW c \in Calls
  PROVE  Work(c) \in 0..MostWork(c)
<1> DEFINE k == Cardinality(Kept(c))
           m == Cardinality(Left(c))
           r == Budget - 1 - tries[c]
<1>1. /\ Budget \in Nat /\ Budget - 1 \in Nat /\ r \in Nat /\ r <= Budget - 1
      /\ k \in Nat /\ m \in Nat /\ m <= k
  BY LeftFacts, LeadsAssumption DEF TypeOK
<1>2. BatchPlace(pc[c]) \in 0..5
  BY DEF BatchPlace
<1>3. ConversionPlace(pc[c], k, m) \in 0..(k + 4)
  BY <1>1 DEF ConversionPlace
<1> HIDE DEF k, m, r
<1>4. CASE c \in Batches
  <2> DEFINE D == 3 * Budget
  <2>1. D \in Nat
    BY <1>1
  <2> HIDE DEF D
  <2>2. D * m \in Nat /\ D * m <= D * k
    BY <1>1, <2>1, Times
  <2>3. Work(c) = D * m + 3 * r + BatchPlace(pc[c])
    BY <1>4 DEF Work, D, m, r
  <2>4. MostWork(c) = D * k + 3 * (Budget - 1) + 5
    BY <1>4 DEF MostWork, D, k
  <2>5. D * k \in Nat
    BY <1>1, <2>1, Times
  <2> QED
    BY <1>1, <1>2, <2>2, <2>3, <2>4, <2>5
<1>5. CASE c \notin Batches
  <2> DEFINE D == k + 4
             b == Budget - 1
  <2>1. D \in Nat /\ b \in Nat /\ r <= b /\ D = k + 4
    BY <1>1
  <2>2. Work(c) = D * r + ConversionPlace(pc[c], k, m)
    BY <1>5 DEF Work, k, m, r
  <2>3. MostWork(c) = D * b + k + 4
    BY <1>5 DEF MostWork, k
  <2> HIDE DEF D, b
  <2>4. D * r \in Nat /\ D * r <= D * b /\ D * b \in Nat
    BY <1>1, <2>1, Times
  <2> QED
    BY <1>1, <1>3, <2>1, <2>2, <2>3, <2>4
<1> QED
  BY <1>4, <1>5

\* Every call takes a bounded number of steps, each of which counts: what
\* EveryCallReturns rests on beside fairness, for batches of any length, any number
\* of attempts, and whatever other calls and late requests do.
THEOREM CallsWindDown == Spec => []WorkIsBounded /\ WorkFalls
<1>1. TypeOK => WorkIsBounded
  BY WorkType DEF WorkIsBounded
<1>2. ASSUME TypeOK, TypeOK', IInv, [Next]_vars
      PROVE  [\A c \in Calls : /\ CallStep(c) => Work(c)' < Work(c)
                               /\ Work(c)' <= Work(c)]_vars
  <2> SUFFICES ASSUME Next, NEW c \in Calls
               PROVE  /\ CallStep(c) => Work(c)' < Work(c)
                      /\ Work(c)' <= Work(c)
    BY <1>2
  <2>1. Work(c) \in Nat
    <3>1. Work(c) \in 0..MostWork(c)
      BY <1>2, WorkType
    <3> QED
      BY <3>1
  <2>2. Work(c)' \in Nat
    <3>1. WorkIsBounded'
      BY <1>1, <1>2, PTL
    <3> QED
      BY <3>1 DEF WorkIsBounded
  <2>3. Still(c) \/ CallStep(c)
    BY <1>2, OwnSteps
  <2>4. CallStep(c) => Work(c)' < Work(c)
    BY <1>2, WorkStep
  <2>5. Still(c) => Work(c)' = Work(c)
    BY WorkStill
  <2> QED
    BY <2>1, <2>2, <2>3, <2>4, <2>5
<1> QED
  BY <1>1, <1>2, TypeCorrect, Invariance, PTL DEF Spec, WorkFalls

-----------------------------------------------------------------------------
(* What a conversion reports.                                              *)

\* The steps of a conversion keep what its report says true.
LEMMA ReportKept ==
  ASSUME TypeOK, TypeOK', NEW c \in Conversions,
         revealedNow[c] \subseteq charged[c], SentOnce(c),
         CallStep(c) \/ \E i \in Positions(c) : LateServe(c, i)
  PROVE  (revealedNow[c] \subseteq charged[c])' /\ SentOnce(c)'
<1>0. c \in Calls /\ c \notin Batches
  BY LeadsAssumption DEF Calls
<1> USE <1>0 DEF TypeOK, SentOnce, Goto, MeterUnchanged
<1>1. CASE BeginConvert(c)
  BY <1>1 DEF BeginConvert
<1>2. CASE Arrive(c)
  BY <1>2 DEF Arrive
<1>3. ASSUME NEW i \in Positions(c), ServeConvert(c, i)
      PROVE  (revealedNow[c] \subseteq charged[c])' /\ SentOnce(c)'
  <2>1. /\ pc[c] = "serving" /\ pc'[c] \in {"serving", "answered"}
        /\ tries'[c] = tries[c] /\ stray'[c] = stray[c]
    BY <1>3 DEF ServeConvert
  <2>2. \/ /\ charged'[c] = charged[c] \cup {i}
           /\ revealedNow'[c] = revealedNow[c] \cup {i}
        \/ charged'[c] = charged[c] /\ revealedNow'[c] = revealedNow[c]
    BY <1>3 DEF ServeConvert, Effect
  <2> QED
    BY <2>1, <2>2
<1>4. CASE Retransmit(c)
  <2>1. tries'[c] = tries[c] + 1 /\ tries[c] \in Nat
    BY <1>4 DEF Retransmit
  <2> QED
    BY <1>4, <2>1 DEF Retransmit
<1>5. CASE Abort(c)
  BY <1>5 DEF Abort
<1>6. CASE ReportConversion(c)
  BY <1>6 DEF ReportConversion
<1>7. ASSUME NEW i \in Positions(c), LateServe(c, i)
      PROVE  (revealedNow[c] \subseteq charged[c])' /\ SentOnce(c)'
  BY <1>7 DEF LateServe, Effect
<1>8. /\ ~BeginReveal(c) /\ ~Preflight(c) /\ ~PreflightFails(c) /\ ~QuotaExhausted(c)
      /\ \A i \in Positions(c) : ~ServeReveal(c, i) /\ ~NextId(c, i)
  BY DEF BeginReveal, Preflight, PreflightFails, QuotaExhausted, ServeReveal, NextId
<1> QED
  BY <1>1, <1>2, <1>3, <1>4, <1>5, <1>6, <1>7, <1>8 DEF CallStep

\* One step, of any call, of the server or of a person who is erased.
LEMMA ReportNext == TypeOK /\ TypeOK' /\ ReportInv /\ [Next]_vars => ReportInv'
<1> SUFFICES ASSUME TypeOK, TypeOK', ReportInv, [Next]_vars, NEW d \in Conversions
             PROVE  (revealedNow[d] \subseteq charged[d])' /\ SentOnce(d)'
  BY DEF ReportInv, ReportIsHonest, SentOnce
<1>1. d \in Calls /\ revealedNow[d] \subseteq charged[d] /\ SentOnce(d)
  BY DEF ReportInv, ReportIsHonest, Calls
<1>2. Apart(d) => (revealedNow[d] \subseteq charged[d])' /\ SentOnce(d)'
  BY <1>1 DEF Apart, Still, SentOnce
<1>3. ASSUME NEW c \in Calls, CallStep(c) \/ \E i \in Positions(c) : LateServe(c, i)
      PROVE  (revealedNow[d] \subseteq charged[d])' /\ SentOnce(d)'
  <2>1. CASE c = d
    BY <1>1, <1>3, <2>1, ReportKept
  <2>2. CASE c # d
    BY <1>1, <1>2, <1>3, <2>2, OthersApart
  <2> QED
    BY <2>1, <2>2
<1>4. ASSUME NEW p \in Erasable, RequestErasure(p) PROVE Apart(d)
  BY <1>4 DEF RequestErasure, Apart, Still
<1>5. UNCHANGED vars => Apart(d)
  BY DEF vars, Apart, Still
<1> QED
  BY <1>2, <1>3, <1>4, <1>5 DEF Next, Finished

\* A report of a conversion never counts a reveal that was not spent for it, and is
\* short only by what an answer that was lost has cost.
THEOREM ReportsAreHonest == Spec => []ReportIsHonest
<1>1. Init => ReportInv
  BY DEF Init, ReportInv, ReportIsHonest, SentOnce, Calls
<1>2. ReportInv => ReportIsHonest
  BY DEF ReportInv
<1> QED
  BY <1>1, <1>2, ReportNext, TypeCorrect, PTL DEF Spec
=============================================================================
