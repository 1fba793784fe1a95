-------------------------- MODULE TsTransportProofs -------------------------
(***************************************************************************)
(* Proofs about TsTransport, for every set of concurrent calls of every     *)
(* kind, every retry budget and every set of HTTP statuses.                *)
(***************************************************************************)
EXTENDS TsTransport, TLAPS

\* The disjuncts of Next, one case per kind of step.
LEMMA Steps ==
  ASSUME [Next]_vars
  PROVE  \/ \E c \in Calls : LoopStep(c)
         \/ \E c \in Calls : NetworkStep(c)
         \/ \E c \in Calls : LateExecute(c)
         \/ \E c \in Calls : Abort(c)
         \/ Expire
         \/ UNCHANGED vars
BY DEF Next

\* fromHTTP always answers with an error class.
LEMMA FromHTTPClass == \A s : fromHTTP(s) \in ErrorClass
BY DEF fromHTTP, ErrorClass

\* The retry budget is a natural number.
LEMMA BudgetIsNat == MaxRetries \in Nat
BY TsAssumption

TypeInv == TypeOK /\ AttemptInv

\* The initial state is well typed and every loop is before its first attempt.
LEMMA TypeInit == Init => TypeInv
BY TsAssumption DEF Init, TypeInv, TypeOK, AttemptInv, AttemptOK, Refreshing, PC,
   ErrorClass

\* Every step of the transport keeps the types and the bound on the attempts.
LEMMA TypeNext == TypeInv /\ [Next]_vars => TypeInv'
<1> SUFFICES ASSUME TypeInv, [Next]_vars PROVE TypeInv'
  OBVIOUS
<1> USE BudgetIsNat
    DEF TypeInv, TypeOK, AttemptInv, AttemptOK, Refreshing, PC, Goto, Finish,
        loopVars, authVars, serverVars
<1>1. ASSUME NEW c \in Calls, Begin(c) PROVE TypeInv'
  BY <1>1 DEF Begin, Fetch, SignalFired
<1>2. ASSUME NEW c \in Calls, BuildFails(c) PROVE TypeInv'
  BY <1>2 DEF BuildFails, ErrorClass
<1>3. ASSUME NEW c \in Calls, HandleSuccess(c) PROVE TypeInv'
  BY <1>3 DEF HandleSuccess, ErrorClass
<1>4. ASSUME NEW c \in Calls, HandleUnauthorized(c) PROVE TypeInv'
  BY <1>4 DEF HandleUnauthorized, MayRefresh
<1>5. ASSUME NEW c \in Calls, HandleFailure(c) PROVE TypeInv'
  <2>1. fromHTTP(reply[c]) \in ErrorClass /\ "raw" \in ErrorClass
    BY FromHTTPClass DEF ErrorClass
  <2>2. result' \in [Calls -> ErrorClass \cup {"none", "nil"}]
    BY <1>5, <2>1 DEF HandleFailure
  <2>3. pc' \in [Calls -> PC] /\ AttemptInv'
    BY <1>5 DEF HandleFailure, Retries, AttemptsLeft
  <2> QED
    BY <1>5, <2>2, <2>3 DEF HandleFailure
<1>6. ASSUME NEW c \in Calls, Wake(c) PROVE TypeInv'
  BY <1>6 DEF Wake, Fetch, SignalFired
<1>7. ASSUME NEW c \in Calls, StoreToken(c) PROVE TypeInv'
  BY <1>7 DEF StoreToken, Party
<1>8. ASSUME NEW c \in Calls, Resume(c) PROVE TypeInv'
  BY <1>8 DEF Resume, Fetch, SignalFired, NewHeaders
<1>9. ASSUME NEW c \in Calls, RefreshRejects(c) PROVE TypeInv'
  BY <1>9 DEF RefreshRejects, ErrorClass
<1>10. ASSUME NEW c \in Calls, Receive(c) PROVE TypeInv'
  BY <1>10 DEF Receive, Effects
<1>11. ASSUME NEW c \in Calls, FetchRejects(c) PROVE TypeInv'
  BY <1>11 DEF FetchRejects, ErrorClass, AttemptsLeft
<1>12. ASSUME NEW c \in Calls, IssueToken(c) PROVE TypeInv'
  BY <1>12 DEF IssueToken
<1>13. ASSUME NEW c \in Calls, ExchangeFails(c) PROVE TypeInv'
  BY <1>13 DEF ExchangeFails, Party
<1>14. ASSUME NEW c \in Calls, LateExecute(c) PROVE TypeInv'
  BY <1>14 DEF LateExecute
<1>15. ASSUME NEW c \in Calls, Abort(c) PROVE TypeInv'
  BY <1>15 DEF Abort, Deadline, CallerAborts
<1>16. CASE Expire
  BY <1>16 DEF Expire
<1>17. CASE UNCHANGED vars
  BY <1>17 DEF vars
<1> QED
  BY <1>1, <1>2, <1>3, <1>4, <1>5, <1>6, <1>7, <1>8, <1>9, <1>10, <1>11, <1>12, <1>13, <1>14, <1>15, <1>16, <1>17, Steps
     DEF LoopStep, NetworkStep

\* In every reachable state the variables have their types: no call of send()
\* ever makes more than MaxRetries + 2 attempts.
THEOREM TypeCorrect == Spec => []TypeOK
<1>1. TypeInv => TypeOK
  BY DEF TypeInv
<1> QED
  BY <1>1, TypeInit, TypeNext, PTL DEF Spec

-----------------------------------------------------------------------------
(* The single-flight refresh.                                              *)

\* Every step keeps one exchange in flight at most, and no waiter without one.
LEMMA FlightNext == TypeOK /\ SingleFlight /\ [Next]_vars => SingleFlight'
<1> SUFFICES ASSUME TypeOK, SingleFlight, [Next]_vars PROVE SingleFlight'
  OBVIOUS
<1> USE TsAssumption
    DEF TypeOK, SingleFlight, Goto, Finish, loopVars, authVars, serverVars
<1>1. ASSUME NEW c \in Calls, Begin(c) PROVE SingleFlight'
  BY <1>1 DEF Begin, Fetch, SignalFired
<1>2. ASSUME NEW c \in Calls, BuildFails(c) PROVE SingleFlight'
  BY <1>2 DEF BuildFails
<1>3. ASSUME NEW c \in Calls, HandleSuccess(c) PROVE SingleFlight'
  BY <1>3 DEF HandleSuccess
<1>4. ASSUME NEW c \in Calls, HandleUnauthorized(c) PROVE SingleFlight'
  BY <1>4 DEF HandleUnauthorized, Joins
<1>5. ASSUME NEW c \in Calls, HandleFailure(c) PROVE SingleFlight'
  BY <1>5 DEF HandleFailure
<1>6. ASSUME NEW c \in Calls, Wake(c) PROVE SingleFlight'
  BY <1>6 DEF Wake, Fetch, SignalFired
<1>7. ASSUME NEW c \in Calls, StoreToken(c) PROVE SingleFlight'
  BY <1>7 DEF StoreToken, Party
<1>8. ASSUME NEW c \in Calls, Resume(c) PROVE SingleFlight'
  BY <1>8 DEF Resume, Fetch, SignalFired
<1>9. ASSUME NEW c \in Calls, RefreshRejects(c) PROVE SingleFlight'
  BY <1>9 DEF RefreshRejects
<1>10. ASSUME NEW c \in Calls, Receive(c) PROVE SingleFlight'
  BY <1>10 DEF Receive
<1>11. ASSUME NEW c \in Calls, FetchRejects(c) PROVE SingleFlight'
  BY <1>11 DEF FetchRejects
<1>12. ASSUME NEW c \in Calls, IssueToken(c) PROVE SingleFlight'
  BY <1>12 DEF IssueToken
<1>13. ASSUME NEW c \in Calls, ExchangeFails(c) PROVE SingleFlight'
  BY <1>13 DEF ExchangeFails, Party
<1>14. ASSUME NEW c \in Calls, LateExecute(c) PROVE SingleFlight'
  BY <1>14 DEF LateExecute
<1>15. ASSUME NEW c \in Calls, Abort(c) PROVE SingleFlight'
  BY <1>15 DEF Abort, Deadline, CallerAborts
<1>16. CASE Expire
  BY <1>16 DEF Expire
<1>17. CASE UNCHANGED vars
  BY <1>17 DEF vars
<1> QED
  BY <1>1, <1>2, <1>3, <1>4, <1>5, <1>6, <1>7, <1>8, <1>9, <1>10, <1>11, <1>12, <1>13, <1>14, <1>15, <1>16, <1>17, Steps
     DEF LoopStep, NetworkStep

\* Steps that move no token and lead no call into a place about which TokenInv
\* says more.
Carries == {"wire", "dead", "reply", "sleep"}

QuietStep ==
  /\ UNCHANGED <<jwt, issued, bearer, refused, fresh>>
  /\ \A d \in Calls :
       /\ pc'[d] \in {"idle", "issued", "resume"} => pc'[d] = pc[d]
       /\ pc'[d] \in Carries => pc[d] \in Carries

TokenStep(c) ==
  \/ Begin(c) \/ HandleUnauthorized(c) \/ IssueToken(c) \/ StoreToken(c)
  \/ Resume(c)

\* A step either moves a token or is quiet about all of them.
LEMMA TokenFrame ==
  ASSUME TypeOK, [Next]_vars
  PROVE  (\E c \in Calls : TokenStep(c)) \/ QuietStep
<1> USE DEF TypeOK, QuietStep, Carries, Goto, Finish, loopVars, authVars
<1>1. ASSUME NEW c \in Calls, BuildFails(c) PROVE QuietStep
  BY <1>1 DEF BuildFails
<1>2. ASSUME NEW c \in Calls, HandleSuccess(c) PROVE QuietStep
  BY <1>2 DEF HandleSuccess
<1>3. ASSUME NEW c \in Calls, HandleFailure(c) PROVE QuietStep
  BY <1>3 DEF HandleFailure
<1>4. ASSUME NEW c \in Calls, Wake(c) PROVE QuietStep
  BY <1>4 DEF Wake, Fetch
<1>5. ASSUME NEW c \in Calls, RefreshRejects(c) PROVE QuietStep
  BY <1>5 DEF RefreshRejects
<1>6. ASSUME NEW c \in Calls, Receive(c) PROVE QuietStep
  BY <1>6 DEF Receive
<1>7. ASSUME NEW c \in Calls, FetchRejects(c) PROVE QuietStep
  BY <1>7 DEF FetchRejects
<1>8. ASSUME NEW c \in Calls, ExchangeFails(c) PROVE QuietStep
  BY <1>8 DEF ExchangeFails, Party
<1>9. ASSUME NEW c \in Calls, LateExecute(c) PROVE QuietStep
  BY <1>9 DEF LateExecute
<1>10. ASSUME NEW c \in Calls, Abort(c) PROVE QuietStep
  BY <1>10 DEF Abort, Deadline, CallerAborts
<1>11. CASE Expire
  BY <1>11 DEF Expire
<1>12. CASE UNCHANGED vars
  BY <1>12 DEF vars
<1> QED
  BY <1>1, <1>2, <1>3, <1>4, <1>5, <1>6, <1>7, <1>8, <1>9, <1>10, <1>11, <1>12, Steps
     DEF LoopStep, NetworkStep, TokenStep

\* Every step keeps what is known of tokens: an unstored one is unseen.
LEMMA TokenNext ==
  TypeOK /\ SingleFlight /\ TokenInv /\ [Next]_vars => TokenInv'
<1> SUFFICES ASSUME TypeOK, SingleFlight, TokenInv, [Next]_vars PROVE TokenInv'
  OBVIOUS
<1> USE TsAssumption DEF TypeOK, TokenInv
<1>1. ASSUME NEW c \in Calls, Begin(c) PROVE TokenInv'
  <2>1. /\ pc'[c] \in {"wire", "dead"} /\ bearer'[c] = jwt
        /\ \A d \in Calls : d # c => pc'[d] = pc[d] /\ bearer'[d] = bearer[d]
        /\ UNCHANGED <<jwt, issued, refused, fresh>>
    BY <1>1 DEF Begin, Fetch, Goto, authVars
  <2>2. refused[c] = {}
    BY <1>1 DEF Begin
  <2>3. \A d \in Calls : bearer'[d] <= issued'
    BY <2>1
  <2>4. ASSUME NEW d \in Calls, pc'[d] = "issued"
        PROVE  /\ d # c /\ pc[d] = "issued" /\ fresh'[d] = fresh[d]
               /\ \A e \in Calls : bearer'[e] # fresh'[d] /\ fresh'[d] \notin refused'[e]
    <3>1. d # c /\ pc[d] = "issued" /\ fresh'[d] = fresh[d] /\ fresh[d] # jwt
      BY <2>1, <2>4
    <3>2. \A e \in Calls : bearer[e] # fresh[d] /\ fresh[d] \notin refused[e]
      BY <3>1
    <3> QED
      BY <2>1, <3>1, <3>2
  <2>5. ASSUME NEW d \in Calls
        PROVE  /\ pc'[d] = "resume" => jwt' # 0 /\ jwt' \notin refused'[d]
               /\ pc'[d] = "idle" => refused'[d] = {}
               /\ pc'[d] \in {"wire", "dead", "reply", "sleep"} =>
                    bearer'[d] \notin refused'[d]
    BY <2>1, <2>2
  <2> QED
    BY <2>1, <2>3, <2>4, <2>5
<1>2. ASSUME NEW c \in Calls, HandleUnauthorized(c) PROVE TokenInv'
  <2>1. /\ pc'[c] \in {"wait", "noexchange", "exchange"}
        /\ \A d \in Calls : d # c => pc'[d] = pc[d]
        /\ UNCHANGED <<jwt, issued, bearer, fresh>>
    BY <1>2 DEF HandleUnauthorized, Goto
  <2>2. /\ refused'[c] = refused[c] \cup {bearer[c]}
        /\ \A d \in Calls : d # c => refused'[d] = refused[d]
    BY <1>2 DEF HandleUnauthorized
  <2>3. \A d \in Calls : refused'[d] \subseteq refused[d] \cup {bearer[d]}
    BY <2>2
  <2>4. \A d, e \in Calls :
          pc'[d] = "issued" => pc[d] = "issued" /\ fresh[d] \notin refused'[e]
    BY <2>1, <2>3
  <2>5. \A d \in Calls : \A t \in refused'[d] : t <= issued
    BY <2>3
  <2>6. \A d \in Calls :
          pc'[d] \in {"idle", "resume", "wire", "dead", "reply", "sleep"} =>
            pc'[d] = pc[d] /\ refused'[d] = refused[d]
    BY <2>1, <2>2
  <2> QED
    BY <2>1, <2>4, <2>5, <2>6
<1>3. ASSUME NEW c \in Calls, IssueToken(c) PROVE TokenInv'
  BY <1>3 DEF IssueToken, SingleFlight, Goto, loopVars
<1>4. ASSUME NEW c \in Calls, StoreToken(c) PROVE TokenInv'
  BY <1>4 DEF StoreToken, SingleFlight, Party, loopVars
<1>5. ASSUME NEW c \in Calls, Resume(c) PROVE TokenInv'
  <2>1. /\ pc'[c] \in {"wire", "dead"} /\ bearer'[c] = jwt
        /\ \A d \in Calls : d # c => pc'[d] = pc[d] /\ bearer'[d] = bearer[d]
        /\ UNCHANGED <<jwt, issued, refused, fresh>>
    BY <1>5 DEF Resume, NewHeaders, Fetch, Goto, authVars
  <2> QED
    BY <1>5, <2>1 DEF Resume
<1>6. CASE QuietStep
  BY <1>6 DEF QuietStep, Carries
<1> QED
  BY <1>1, <1>2, <1>3, <1>4, <1>5, <1>6, TokenFrame DEF TokenStep

-----------------------------------------------------------------------------
(* A step seen from one call.                                              *)

\* What the call keeps, its place aside, stays.
Kept(c) ==
  /\ attempt'[c] = attempt[c] /\ didRefresh'[c] = didRefresh[c]
  /\ reply'[c] = reply[c] /\ result'[c] = result[c] /\ sends'[c] = sends[c]
  /\ executed'[c] = executed[c] /\ stray'[c] = stray[c]
  /\ exchanges'[c] = exchanges[c]

Still(c) == Kept(c) /\ pc'[c] = pc[c]

Woken(c) ==
  /\ Kept(c)
  /\ pc[c] = "wait" /\ pc'[c] \in {"resume", "authRejected", "rawRejected"}

StepOf(c) == LoopStep(c) \/ NetworkStep(c) \/ LateExecute(c) \/ Abort(c)

\* One call's step leaves the others alone, or wakes those that wait for it.
LEMMA OthersStill ==
  ASSUME TypeOK, NEW c \in Calls, NEW d \in Calls, c # d, StepOf(c)
  PROVE  Still(d) \/ Woken(d)
<1> USE DEF TypeOK, Still, Woken, Kept, loopVars, authVars, serverVars, Goto, Finish
<1>1. CASE Begin(c)
  BY <1>1 DEF Begin, Fetch
<1>2. CASE BuildFails(c)
  BY <1>2 DEF BuildFails
<1>3. CASE HandleSuccess(c)
  BY <1>3 DEF HandleSuccess
<1>4. CASE HandleUnauthorized(c)
  BY <1>4 DEF HandleUnauthorized
<1>5. CASE HandleFailure(c)
  BY <1>5 DEF HandleFailure
<1>6. CASE Wake(c)
  BY <1>6 DEF Wake, Fetch
<1>7. CASE StoreToken(c)
  BY <1>7 DEF StoreToken, Party
<1>8. CASE Resume(c)
  BY <1>8 DEF Resume, Fetch
<1>9. CASE RefreshRejects(c)
  BY <1>9 DEF RefreshRejects
<1>10. CASE Receive(c)
  BY <1>10 DEF Receive
<1>11. CASE FetchRejects(c)
  BY <1>11 DEF FetchRejects
<1>12. CASE IssueToken(c)
  BY <1>12 DEF IssueToken
<1>13. CASE ExchangeFails(c)
  BY <1>13 DEF ExchangeFails, Party
<1>14. CASE LateExecute(c)
  BY <1>14 DEF LateExecute
<1>15. CASE Abort(c)
  BY <1>15 DEF Abort, Deadline, CallerAborts
<1> QED
  BY <1>1, <1>2, <1>3, <1>4, <1>5, <1>6, <1>7, <1>8, <1>9, <1>10, <1>11, <1>12, <1>13, <1>14, <1>15
     DEF StepOf, LoopStep, NetworkStep

\* Seen from one call, a step is its own, wakes it or changes nothing it keeps.
LEMMA OneCall ==
  ASSUME TypeOK, [Next]_vars, NEW c \in Calls
  PROVE  StepOf(c) \/ Still(c) \/ Woken(c)
<1>1. CASE \E d \in Calls : StepOf(d)
  BY <1>1, OthersStill
<1>2. CASE Expire \/ UNCHANGED vars
  BY <1>2 DEF Expire, vars, loopVars, serverVars, Still, Kept
<1> QED
  BY <1>1, <1>2 DEF Next, StepOf

\* Every step keeps an effect per transmission at most, a transmission per
\* attempt and an exchange per refresh.
LEMMA CountNext == TypeInv /\ CountInv /\ [Next]_vars => CountInv'
<1> SUFFICES ASSUME TypeInv, [Next]_vars, NEW c \in Calls, CountOK(c)
             PROVE  CountOK(c)'
  BY DEF CountInv
<1> USE BudgetIsNat
    DEF TypeInv, TypeOK, AttemptInv, AttemptOK, Refreshing, CountOK, OnWire, Goto,
        Finish, loopVars, authVars, serverVars
<1>1. CASE Begin(c)
  BY <1>1 DEF Begin, Fetch, SignalFired
<1>2. CASE BuildFails(c)
  BY <1>2 DEF BuildFails
<1>3. CASE HandleSuccess(c)
  BY <1>3 DEF HandleSuccess
<1>4. CASE HandleUnauthorized(c)
  BY <1>4 DEF HandleUnauthorized, MayRefresh, Joins
<1>5. CASE HandleFailure(c)
  BY <1>5 DEF HandleFailure, fromHTTP
<1>6. CASE Wake(c)
  BY <1>6 DEF Wake, Fetch, SignalFired
<1>7. CASE StoreToken(c)
  BY <1>7 DEF StoreToken, Party
<1>8. CASE Resume(c)
  BY <1>8 DEF Resume, Fetch, SignalFired
<1>9. CASE RefreshRejects(c)
  BY <1>9 DEF RefreshRejects
<1>10. CASE Receive(c)
  BY <1>10 DEF Receive, Effects, OKStatus
<1>11. CASE FetchRejects(c)
  BY <1>11 DEF FetchRejects
<1>12. CASE IssueToken(c)
  BY <1>12 DEF IssueToken
<1>13. CASE ExchangeFails(c)
  BY <1>13 DEF ExchangeFails, Party
<1>14. CASE LateExecute(c)
  BY <1>14 DEF LateExecute
<1>15. CASE Abort(c)
  BY <1>15 DEF Abort, Deadline, CallerAborts
<1>16. CASE Still(c) \/ Woken(c)
  BY <1>16 DEF Still, Woken, Kept
<1> QED
  BY <1>1, <1>2, <1>3, <1>4, <1>5, <1>6, <1>7, <1>8, <1>9, <1>10, <1>11, <1>12, <1>13, <1>14, <1>15, <1>16, OneCall
     DEF StepOf, LoopStep, NetworkStep

\* The inductive invariant holds initially.
LEMMA InvInit == Init => IInv
<1> SUFFICES ASSUME Init PROVE IInv
  OBVIOUS
<1> USE TsAssumption DEF Init
<1>1. TypeOK /\ AttemptInv
  BY TypeInit DEF TypeInv
<1>2. SingleFlight
  BY DEF SingleFlight
<1>3. TokenInv
  BY DEF TokenInv
<1>4. CountInv
  <2> SUFFICES ASSUME NEW c \in Calls PROVE CountOK(c)
    BY DEF CountInv
  <2>1. pc[c] = "idle" /\ sends[c] = 0 /\ executed[c] = 0 /\ stray[c] = 0
    OBVIOUS
  <2>2. attempt[c] = 0 /\ exchanges[c] = 0 /\ result[c] = "none"
    OBVIOUS
  <2> QED
    BY <2>1, <2>2 DEF CountOK, OnWire
<1> QED
  BY <1>1, <1>2, <1>3, <1>4 DEF IInv

\* Every step keeps the inductive invariant.
LEMMA InvNext == IInv /\ [Next]_vars => IInv'
BY TypeNext, FlightNext, TokenNext, CountNext DEF IInv, TypeInv

\* In every reachable state the inductive invariant holds.
THEOREM Invariance == Spec => []IInv
BY InvInit, InvNext, PTL DEF Spec

\* However many calls are refused at once, one exchange is in flight at a time,
\* and no call waits for an exchange that is not.
THEOREM OneExchange == Spec => []SingleFlight
<1>1. IInv => SingleFlight
  BY DEF IInv
<1> QED
  BY <1>1, Invariance, PTL

\* A refreshed call is never replayed with the token it was refused for,
\* whoever led the exchange.
THEOREM ReplayIsFresh == Spec => []ReplayUsesAnotherToken
<1>1. IInv => ReplayUsesAnotherToken
  BY DEF IInv, TokenInv, ReplayUsesAnotherToken
<1> QED
  BY <1>1, Invariance, PTL

-----------------------------------------------------------------------------
(* The transport implements the contract of one call.                      *)

\* What a step of one call is to the contract, read off that call alone.
Same(c) ==
  /\ Phase(c)' = Phase(c) /\ sends'[c] = sends[c] /\ executed'[c] = executed[c]
  /\ exchanges'[c] = exchanges[c] /\ Outcome(c)' = Outcome(c)

ToSend(c) ==
  /\ Phase(c) # "closed" /\ Phase(c)' = "open"
  /\ sends[c] < MaxRetries + 2 /\ sends'[c] = sends[c] + 1
  /\ executed'[c] = executed[c] /\ exchanges'[c] = exchanges[c]
  /\ Outcome(c)' = Outcome(c)

ToBegin(c) ==
  /\ Phase(c) = "idle" /\ Phase(c)' = "open" /\ sends'[c] = sends[c]
  /\ executed'[c] = executed[c] /\ exchanges'[c] = exchanges[c]
  /\ Outcome(c)' = Outcome(c)

ToEffect(c) ==
  /\ executed[c] < sends[c] /\ executed'[c] = executed[c] + 1
  /\ Phase(c)' = Phase(c) /\ sends'[c] = sends[c]
  /\ exchanges'[c] = exchanges[c] /\ Outcome(c)' = Outcome(c)

ToExchange(c) ==
  /\ Phase(c) = "open" /\ Phase(c)' = "open"
  /\ exchanges[c] = 0 /\ exchanges'[c] = exchanges[c] + 1
  /\ sends'[c] = sends[c] /\ executed'[c] = executed[c]
  /\ Outcome(c)' = Outcome(c)

ToReturn(c) ==
  /\ Phase(c) # "closed" /\ Phase(c)' = "closed"
  /\ Outcome(c)' \in {"success", "failure"}
  /\ Outcome(c)' = "success" => Phase(c) = "open" /\ executed[c] > 0
  /\ sends'[c] = sends[c] /\ executed'[c] = executed[c]
  /\ exchanges'[c] = exchanges[c]

ToContract(c) ==
  \/ Same(c) \/ ToBegin(c) \/ ToSend(c) \/ ToEffect(c) \/ ToExchange(c)
  \/ ToReturn(c)

\* A step of one call is, read off that call alone, a step of the contract.
LEMMA StepToContract ==
  ASSUME TypeInv, CountInv, NEW c \in Calls, StepOf(c)
  PROVE  ToContract(c)
<1> CountOK(c)
  BY DEF CountInv
<1> USE BudgetIsNat
    DEF TypeInv, TypeOK, AttemptInv, AttemptOK, Refreshing, CountOK, OnWire, Goto,
        Finish, loopVars, authVars, serverVars, Phase, Outcome, ToContract
<1>1. CASE Begin(c)
  BY <1>1 DEF Begin, Fetch, SignalFired, Same, ToSend, ToBegin
<1>2. CASE BuildFails(c)
  BY <1>2 DEF BuildFails, ToReturn
<1>3. CASE HandleSuccess(c)
  BY <1>3 DEF HandleSuccess, ToReturn
<1>4. CASE HandleUnauthorized(c)
  BY <1>4 DEF HandleUnauthorized, MayRefresh, Same, ToExchange
<1>5. CASE HandleFailure(c)
  BY <1>5 DEF HandleFailure, Same, ToReturn, fromHTTP
<1>6. CASE Wake(c)
  BY <1>6 DEF Wake, Fetch, SignalFired, Same, ToSend, ToBegin
<1>7. CASE StoreToken(c)
  BY <1>7 DEF StoreToken, Party, Same
<1>8. CASE Resume(c)
  BY <1>8 DEF Resume, Fetch, SignalFired, Same, ToSend, ToBegin
<1>9. CASE RefreshRejects(c)
  BY <1>9 DEF RefreshRejects, ToReturn
<1>10. CASE Receive(c)
  BY <1>10 DEF Receive, Same, ToEffect, Effects
<1>11. CASE FetchRejects(c)
  BY <1>11 DEF FetchRejects, Same, ToReturn
<1>12. CASE IssueToken(c)
  BY <1>12 DEF IssueToken, Same
<1>13. CASE ExchangeFails(c)
  BY <1>13 DEF ExchangeFails, Party, Same
<1>14. CASE LateExecute(c)
  BY <1>14 DEF LateExecute, ToEffect
<1>15. CASE Abort(c)
  BY <1>15 DEF Abort, Deadline, CallerAborts, Same
<1> QED
  BY <1>1, <1>2, <1>3, <1>4, <1>5, <1>6, <1>7, <1>8, <1>9, <1>10, <1>11, <1>12, <1>13, <1>14, <1>15
     DEF StepOf, LoopStep, NetworkStep

\* The initial state maps to the initial state of the contract.
LEMMA ContractInit == Init => Contract!Init
BY DEF Init, Contract!Init, Phase, Outcome

\* If no call changes as its caller sees it, the contract stutters.
LEMMA ContractStutter ==
  ASSUME \A c \in Calls : Same(c)
  PROVE  UNCHANGED Contract!vars
BY DEF Same, Contract!vars

\* One call making a contract step while the others stay is a contract step.
LEMMA ContractAction ==
  ASSUME NEW c \in Calls, ToContract(c), \A d \in Calls : d # c => Same(d)
  PROVE  [Contract!Next]_(Contract!vars)
<1> USE DEF Same
<1>1. CASE Same(c)
  BY <1>1, ContractStutter
<1>2. CASE ToBegin(c)
  BY <1>2 DEF ToBegin, Contract!Next, Contract!Begin
<1>3. CASE ToSend(c)
  BY <1>3 DEF ToSend, Contract!Next, Contract!Send
<1>4. CASE ToEffect(c)
  BY <1>4 DEF ToEffect, Contract!Next, Contract!Effect
<1>5. CASE ToExchange(c)
  BY <1>5 DEF ToExchange, Contract!Next, Contract!Exchange
<1>6. CASE ToReturn(c)
  BY <1>6 DEF ToReturn, Contract!Next, Contract!Return
<1> QED
  BY <1>1, <1>2, <1>3, <1>4, <1>5, <1>6 DEF ToContract

\* A call that keeps its state, or is woken, is the same to the contract.
LEMMA StillSame == \A c \in Calls : Still(c) \/ Woken(c) => Same(c)
BY DEF Still, Woken, Kept, Same, Phase, Outcome

\* Every step of the transport is a step of the contract or a stutter.
LEMMA ContractNext ==
  IInv /\ [Next]_vars => [Contract!Next]_(Contract!vars)
<1> SUFFICES ASSUME IInv, [Next]_vars
             PROVE  [Contract!Next]_(Contract!vars)
  OBVIOUS
<1> TypeInv /\ TypeOK /\ CountInv
  BY DEF IInv, TypeInv
<1>1. CASE \E c \in Calls : StepOf(c)
  <2> PICK c \in Calls : StepOf(c)
    BY <1>1
  <2>1. \A d \in Calls : d # c => Same(d)
    BY OthersStill, StillSame
  <2> QED
    BY <2>1, StepToContract, ContractAction
<1>2. CASE ~ \E c \in Calls : StepOf(c)
  BY <1>2, OneCall, StillSame, ContractStutter
<1> QED
  BY <1>1, <1>2

\* Every behaviour of the transport is a behaviour of the contract: at most
\* MaxRetries + 2 transmissions and one exchange per call, an effect behind
\* every success.
THEOREM ContractHolds == Spec => ImplementsContract
BY InvInit, InvNext, ContractInit, ContractNext, PTL
   DEF Spec, ImplementsContract, Contract!Spec

-----------------------------------------------------------------------------
(* How much a call may do.                                                 *)

\* The places of the loop are numbered.
LEMMA PlaceType == \A l \in PC : Place(l) \in 0..11
BY DEF PC, Place

\* What is left to do is a number.
LEMMA WorkType == TypeInv => WorkIsBounded
<1> SUFFICES ASSUME TypeInv, NEW c \in Calls
             PROVE  Work(c) \in 0..(11 * (MaxRetries + 3))
  BY DEF WorkIsBounded
<1>1. pc[c] \in PC /\ Place(pc[c]) \in 0..11
  BY PlaceType DEF TypeInv, TypeOK
<1>2. attempt[c] \in 0..(MaxRetries + 2)
  BY DEF TypeInv, TypeOK
<1> QED
  BY <1>1, <1>2, BudgetIsNat DEF Work

\* Every step of a call, or of the network for it, leaves it less to do.
LEMMA WorkStep ==
  ASSUME TypeInv, NEW c \in Calls, LoopStep(c) \/ NetworkStep(c)
  PROVE  Work(c)' < Work(c)
<1> USE BudgetIsNat
    DEF TypeInv, TypeOK, AttemptInv, AttemptOK, Refreshing, Work, Place, Goto, Finish,
        loopVars, authVars, serverVars
<1>1. CASE Begin(c)
  BY <1>1 DEF Begin, Fetch
<1>2. CASE BuildFails(c)
  BY <1>2 DEF BuildFails
<1>3. CASE HandleSuccess(c)
  BY <1>3 DEF HandleSuccess
<1>4. CASE HandleUnauthorized(c)
  BY <1>4 DEF HandleUnauthorized
<1>5. CASE HandleFailure(c)
  BY <1>5 DEF HandleFailure, Retries, AttemptsLeft
<1>6. CASE Wake(c)
  BY <1>6 DEF Wake, Fetch
<1>7. CASE StoreToken(c)
  BY <1>7 DEF StoreToken, Party
<1>8. CASE Resume(c)
  BY <1>8 DEF Resume, Fetch
<1>9. CASE RefreshRejects(c)
  BY <1>9 DEF RefreshRejects
<1>10. CASE Receive(c)
  BY <1>10 DEF Receive
<1>11. CASE FetchRejects(c)
  BY <1>11 DEF FetchRejects, AttemptsLeft
<1>12. CASE IssueToken(c)
  BY <1>12 DEF IssueToken
<1>13. CASE ExchangeFails(c)
  BY <1>13 DEF ExchangeFails, Party
<1> QED
  BY <1>1, <1>2, <1>3, <1>4, <1>5, <1>6, <1>7, <1>8, <1>9, <1>10, <1>11, <1>12, <1>13
     DEF LoopStep, NetworkStep

\* The variant: a call is done after 11 * (MaxRetries + 3) steps of its own and the
\* network's, whoever leads the exchanges it waits for.
THEOREM CallsWindDown == Spec => []WorkIsBounded /\ WorkFalls
<1>1. TypeInv /\ [Next]_vars =>
        [\A c \in Calls :
           /\ LoopStep(c) \/ NetworkStep(c) => Work(c)' < Work(c)
           /\ Work(c)' <= Work(c)]_vars
  <2> SUFFICES ASSUME TypeInv, [Next]_vars, NEW c \in Calls
               PROVE  /\ LoopStep(c) \/ NetworkStep(c) => Work(c)' < Work(c)
                      /\ Work(c)' <= Work(c)
    OBVIOUS
  <2>1. Work(c) \in Nat /\ Work(c)' \in Nat
    <3>1. WorkIsBounded /\ WorkIsBounded'
      BY TypeNext, WorkType, PTL
    <3> QED
      BY <3>1, BudgetIsNat DEF WorkIsBounded
  <2>2. CASE LoopStep(c) \/ NetworkStep(c)
    BY <2>1, <2>2, WorkStep
  <2>3. CASE LateExecute(c) \/ Abort(c) \/ Still(c)
    <3>1. Work(c)' = Work(c)
      BY <2>3 DEF LateExecute, Abort, Deadline, CallerAborts, Still, Kept, loopVars, Work
    <3> QED
      BY <2>1, <2>2, <3>1
  <2>4. CASE Woken(c)
    <3>1. Work(c)' < Work(c)
      BY <2>4, BudgetIsNat DEF Woken, Kept, Work, Place, TypeInv, TypeOK
    <3> QED
      BY <2>1, <3>1
  <2> QED
    BY <2>2, <2>3, <2>4, OneCall DEF StepOf, TypeInv
<1>2. TypeInv => WorkIsBounded
  BY WorkType
<1> QED
  BY <1>1, <1>2, TypeInit, TypeNext, PTL DEF Spec, WorkFalls
=============================================================================
