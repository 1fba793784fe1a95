-------------------------- MODULE GoTransportProofs -------------------------
(***************************************************************************)
(* Proofs about GoTransport, for every set of concurrent calls and logins, *)
(* every retry budget and every set of HTTP statuses.                      *)
(***************************************************************************)
EXTENDS GoTransport, TLAPS

\* The disjuncts of Next, one case per kind of step.
LEMMA Steps ==
  ASSUME [Next]_vars
  PROVE  \/ \E a \in Actors : ClientStep(a)
         \/ \E a \in Actors : NetworkStep(a)
         \/ \E a \in Actors : LateExecute(a)
         \/ \E a \in Actors : Cancel(a)
         \/ Expire
         \/ UNCHANGED vars
BY DEF Next

\* errors.FromHTTP always answers with an error class.
LEMMA FromHTTPClass == \A s : FromHTTP(s) \in ErrorClass
BY DEF FromHTTP, ErrorClass

\* A login and a call are different goroutines.
LEMMA LoginsAreNotCalls == \A a \in Logins : a \notin Calls
BY GoAssumption

\* The loop runs at least twice: MaxRetries is positive after its default.
LEMMA BudgetPositive == MaxRetries \in Nat \ {0}
BY GoAssumption

TypeInv == TypeOK /\ AttemptInv

\* The initial state is well typed and every loop is at its first attempt.
LEMMA TypeInit == Init => TypeInv
BY GoAssumption DEF Init, TypeInv, TypeOK, AttemptInv, PC, Header, ErrorClass

\* The loop increment keeps the attempt within the budget.
LEMMA NextAttemptType ==
  ASSUME TypeInv, NEW c \in Actors, pc[c] # "done", NextAttempt(c)
  PROVE  /\ attempt' \in [Actors -> 0..(MaxRetries + 1)]
         /\ pc' \in [Actors -> PC]
         /\ result' \in [Actors -> ErrorClass \cup {"none", "nil"}]
         /\ AttemptInv'
<1> USE BudgetPositive DEF TypeInv, TypeOK, AttemptInv
<1>1. attempt[c] \in 0..MaxRetries
  OBVIOUS
<1>2. attempt' \in [Actors -> 0..(MaxRetries + 1)]
  BY <1>1 DEF NextAttempt, Succ
<1>3. CASE AttemptsLeft(c) /\ Goto(c, "send")
  BY <1>1, <1>2, <1>3 DEF NextAttempt, Succ, AttemptsLeft, Goto, PC
<1>4. CASE ~AttemptsLeft(c) /\ Finish(c, lastErr[c])
  <2>1. lastErr[c] \in ErrorClass \cup {"none", "nil"}
    OBVIOUS
  <2> QED
    BY <1>1, <1>2, <1>4, <2>1 DEF NextAttempt, Succ, Finish, PC
<1> QED
  BY <1>3, <1>4 DEF NextAttempt

\* Every step of the transport keeps the types and the bound on the loop
\* variable.
LEMMA TypeNext == TypeInv /\ [Next]_vars => TypeInv'
<1> SUFFICES ASSUME TypeInv, [Next]_vars PROVE TypeInv'
  OBVIOUS
<1> USE BudgetPositive
    DEF TypeInv, TypeOK, AttemptInv, PC, Header, Goto, Finish,
        loopVars, authVars, serverVars
<1>1. ASSUME NEW a \in Actors, Begin(a) PROVE TypeInv'
  BY <1>1 DEF Begin
<1>2. ASSUME NEW a \in Actors, BuildFails(a) PROVE TypeInv'
  BY <1>2 DEF BuildFails, ErrorClass
<1>3. ASSUME NEW a \in Actors, LoadCredentials(a) PROVE TypeInv'
  BY <1>3 DEF LoadCredentials, SendsKey
<1>4. ASSUME NEW a \in Actors, Transmit(a) PROVE TypeInv'
  <2>1. hdr' \in [Actors -> Header]
    BY <1>4 DEF Transmit, SendsUsername
  <2>2. sends' \in [Actors -> Nat]
    BY <1>4 DEF Transmit
  <2>3. pc' \in [Actors -> PC] /\ AttemptInv'
    BY <1>4 DEF Transmit
  <2> QED
    BY <1>4, <2>1, <2>2, <2>3 DEF Transmit
<1>5. ASSUME NEW a \in Actors, HandleNetworkError(a) PROVE TypeInv'
  <2>1. CASE Loops(a)
    BY <1>5, <2>1 DEF HandleNetworkError, RecordErr, ErrorClass
  <2>2. CASE ~Loops(a)
    BY <1>5, <2>2 DEF HandleNetworkError, RecordErr, ErrorClass
  <2> QED
    BY <2>1, <2>2
<1>6. ASSUME NEW a \in Actors, HandleSuccess(a) PROVE TypeInv'
  BY <1>6 DEF HandleSuccess, ErrorClass
<1>7. ASSUME NEW a \in Actors, HandleUnauthorized(a) PROVE TypeInv'
  BY <1>7 DEF HandleUnauthorized
<1>8. ASSUME NEW a \in Actors, HandleFailure(a) PROVE TypeInv'
  <2>1. FromHTTP(reply[a]) \in ErrorClass
    BY FromHTTPClass
  <2>2. lastErr' \in [Actors -> ErrorClass \cup {"nil"}]
    BY <1>8, <2>1 DEF HandleFailure, RecordErr
  <2>3. result' \in [Actors -> ErrorClass \cup {"none", "nil"}]
    BY <1>8, <2>1 DEF HandleFailure
  <2>4. pc' \in [Actors -> PC]
    BY <1>8 DEF HandleFailure
  <2>5. AttemptInv'
    BY <1>8 DEF HandleFailure
  <2> QED
    BY <1>8, <2>2, <2>3, <2>4, <2>5 DEF HandleFailure
<1>9. ASSUME NEW a \in Actors, Wake(a) PROVE TypeInv'
  BY <1>9, NextAttemptType DEF Wake
<1>10. ASSUME NEW a \in Actors, ContextDone(a) PROVE TypeInv'
  BY <1>10 DEF ContextDone, ErrorClass
<1>11. ASSUME NEW a \in Actors, BeginRefresh(a) PROVE TypeInv'
  <2>1. exchanges' \in [Actors -> Nat]
    BY <1>11 DEF BeginRefresh
  <2>2. pc' \in [Actors -> PC] /\ AttemptInv'
    BY <1>11 DEF BeginRefresh
  <2> QED
    BY <1>11, <2>1, <2>2 DEF BeginRefresh
<1>12. ASSUME NEW a \in Actors, StoreToken(a) PROVE TypeInv'
  <2>1. client' \in [token : Nat, user : BOOLEAN]
    BY <1>12 DEF StoreToken, TokenStored
  <2>2. CASE a \in Logins /\ Finish(a, "nil") /\ UNCHANGED attempt
    BY <1>12, <2>1, <2>2 DEF StoreToken
  <2>3. CASE a \in Calls /\ NextAttempt(a)
    BY <1>12, <2>1, <2>3, NextAttemptType DEF StoreToken
  <2> QED
    BY <1>12, <2>2, <2>3 DEF StoreToken
<1>13. ASSUME NEW a \in Actors, RefreshFails(a) PROVE TypeInv'
  BY <1>13 DEF RefreshFails, ErrorClass
<1>14. ASSUME NEW a \in Actors, Receive(a) PROVE TypeInv'
  BY <1>14 DEF Receive, Effects
<1>15. ASSUME NEW a \in Actors, LoseRequest(a) PROVE TypeInv'
  BY <1>15 DEF LoseRequest, Abandon
<1>16. ASSUME NEW a \in Actors, LoseReply(a) PROVE TypeInv'
  BY <1>16 DEF LoseReply
<1>17. ASSUME NEW a \in Actors, IssueToken(a) PROVE TypeInv'
  BY <1>17 DEF IssueToken
<1>18. ASSUME NEW a \in Actors, ExchangeFails(a) PROVE TypeInv'
  BY <1>18 DEF ExchangeFails
<1>19. ASSUME NEW a \in Actors, LateExecute(a) PROVE TypeInv'
  BY <1>19 DEF LateExecute
<1>20. ASSUME NEW a \in Actors, Cancel(a) PROVE TypeInv'
  BY <1>20 DEF Cancel
<1>21. CASE Expire
  BY <1>21 DEF Expire
<1>22. CASE UNCHANGED vars
  BY <1>22 DEF vars
<1> QED
  BY <1>1, <1>2, <1>3, <1>4, <1>5, <1>6, <1>7, <1>8, <1>9, <1>10, <1>11, <1>12, <1>13, <1>14, <1>15, <1>16, <1>17, <1>18, <1>19, <1>20, <1>21, <1>22, Steps
     DEF ClientStep, NetworkStep

\* In every reachable state the variables have their types: in particular no
\* loop of transport.go ever counts past its MaxRetries + 1 attempts.
THEOREM TypeCorrect == Spec => []TypeOK
<1>1. TypeInv => TypeOK
  BY DEF TypeInv
<1> QED
  BY <1>1, TypeInit, TypeNext, PTL DEF Spec

\* A step is one actor's; what is kept per actor changes for that actor only.
Still(c) ==
  /\ pc'[c] = pc[c] /\ attempt'[c] = attempt[c] /\ refreshed'[c] = refreshed[c]
  /\ lastErr'[c] = lastErr[c] /\ reply'[c] = reply[c] /\ fresh'[c] = fresh[c]
  /\ result'[c] = result[c] /\ sends'[c] = sends[c]
  /\ executed'[c] = executed[c] /\ stray'[c] = stray[c]
  /\ exchanges'[c] = exchanges[c]

StepOf(c) ==
  ClientStep(c) \/ NetworkStep(c) \/ LateExecute(c) \/ Cancel(c)

\* One actor's step leaves what is kept per actor alone for all the others.
LEMMA OthersStill ==
  ASSUME TypeOK, NEW a \in Actors, NEW c \in Actors, a # c, StepOf(a)
  PROVE  Still(c)
<1> USE DEF TypeOK, Still, loopVars, authVars, serverVars, Goto, Finish
<1>1. CASE Begin(a)
  BY <1>1 DEF Begin
<1>2. CASE BuildFails(a)
  BY <1>2 DEF BuildFails
<1>3. CASE LoadCredentials(a)
  BY <1>3 DEF LoadCredentials
<1>4. CASE Transmit(a)
  BY <1>4 DEF Transmit
<1>5. CASE HandleNetworkError(a)
  BY <1>5 DEF HandleNetworkError, RecordErr
<1>6. CASE HandleSuccess(a)
  BY <1>6 DEF HandleSuccess
<1>7. CASE HandleUnauthorized(a)
  BY <1>7 DEF HandleUnauthorized
<1>8. CASE HandleFailure(a)
  BY <1>8 DEF HandleFailure, RecordErr
<1>9. CASE Wake(a)
  BY <1>9 DEF Wake, NextAttempt
<1>10. CASE ContextDone(a)
  BY <1>10 DEF ContextDone
<1>11. CASE BeginRefresh(a)
  BY <1>11 DEF BeginRefresh
<1>12. CASE StoreToken(a)
  BY <1>12 DEF StoreToken, NextAttempt
<1>13. CASE RefreshFails(a)
  BY <1>13 DEF RefreshFails
<1>14. CASE Receive(a)
  BY <1>14 DEF Receive
<1>15. CASE LoseRequest(a)
  BY <1>15 DEF LoseRequest, Abandon
<1>16. CASE LoseReply(a)
  BY <1>16 DEF LoseReply
<1>17. CASE IssueToken(a)
  BY <1>17 DEF IssueToken
<1>18. CASE ExchangeFails(a)
  BY <1>18 DEF ExchangeFails
<1>19. CASE LateExecute(a)
  BY <1>19 DEF LateExecute
<1>20. CASE Cancel(a)
  BY <1>20 DEF Cancel
<1> QED
  BY <1>1, <1>2, <1>3, <1>4, <1>5, <1>6, <1>7, <1>8, <1>9, <1>10, <1>11, <1>12, <1>13, <1>14, <1>15, <1>16, <1>17, <1>18, <1>19, <1>20
     DEF StepOf, ClientStep, NetworkStep

\* Seen from one actor, a step is its own or changes nothing it keeps.
LEMMA OneActor ==
  ASSUME TypeOK, [Next]_vars, NEW c \in Actors
  PROVE  StepOf(c) \/ Still(c)
<1>1. CASE \E a \in Actors : StepOf(a)
  BY <1>1, OthersStill
<1>2. CASE Expire \/ UNCHANGED vars
  BY <1>2 DEF Expire, vars, loopVars, serverVars, Still
<1> QED
  BY <1>1, <1>2 DEF Next, StepOf

-----------------------------------------------------------------------------
(* Credentials: what a request carries.                                    *)

\* Only loading the credentials and stamping the username touch the headers.
LEMMA HeaderFrame ==
  ASSUME [Next]_vars
  PROVE  \/ \E a \in Actors : LoadCredentials(a) \/ Transmit(a)
         \/ UNCHANGED hdr
BY DEF Next, vars, ClientStep, NetworkStep, loopVars, Expire, Begin, BuildFails, HandleNetworkError, HandleSuccess,
       HandleUnauthorized, HandleFailure, Wake, ContextDone,
       BeginRefresh, StoreToken, RefreshFails, Receive, LoseRequest,
       LoseReply, IssueToken, ExchangeFails, LateExecute, Cancel

\* The credential headers are rebuilt as a whole, so their discipline is kept.
LEMMA HeaderNext == TypeOK /\ HeaderInv /\ [Next]_vars => HeaderInv'
<1> SUFFICES ASSUME TypeOK, HeaderInv, [Next]_vars PROVE HeaderInv'
  OBVIOUS
<1> USE DEF TypeOK, HeaderInv, Header, Actors
<1>1. ASSUME NEW a \in Actors, LoadCredentials(a) PROVE HeaderInv'
  BY <1>1 DEF LoadCredentials, SendsKey
<1>2. ASSUME NEW a \in Actors, Transmit(a) PROVE HeaderInv'
  BY <1>2 DEF Transmit, SendsUsername
<1>3. CASE UNCHANGED hdr
  BY <1>3
<1> QED
  BY <1>1, <1>2, <1>3, HeaderFrame

\* Steps that neither move a token nor lead an actor into a place about which
\* TokenInv says more.
Carries == {"user", "wire", "reply", "neterr"}

QuietStep ==
  /\ UNCHANGED <<client, issued, hdr, refused, fresh>>
  /\ \A b \in Actors :
       /\ pc'[b] = "issued" => pc[b] = "issued"
       /\ pc'[b] \in Outside => pc[b] \in Outside
       /\ pc'[b] \in Carries => pc[b] \in Carries

TokenStep(a) ==
  \/ LoadCredentials(a) \/ Transmit(a) \/ HandleUnauthorized(a)
  \/ IssueToken(a) \/ StoreToken(a)

\* A step either moves a token or is quiet about all of them.
LEMMA TokenFrame ==
  ASSUME TypeOK, [Next]_vars
  PROVE  (\E a \in Actors : TokenStep(a)) \/ QuietStep
<1> USE DEF TypeOK, QuietStep, Outside, Carries, loopVars, authVars, Goto, Finish,
            NextAttempt
<1>1. ASSUME NEW a \in Actors, Begin(a) PROVE QuietStep
  BY <1>1 DEF Begin
<1>2. ASSUME NEW a \in Actors, BuildFails(a) PROVE QuietStep
  BY <1>2 DEF BuildFails
<1>3. ASSUME NEW a \in Actors, HandleNetworkError(a) PROVE QuietStep
  BY <1>3 DEF HandleNetworkError
<1>4. ASSUME NEW a \in Actors, HandleSuccess(a) PROVE QuietStep
  BY <1>4 DEF HandleSuccess
<1>5. ASSUME NEW a \in Actors, HandleFailure(a) PROVE QuietStep
  BY <1>5 DEF HandleFailure
<1>6. ASSUME NEW a \in Actors, Wake(a) PROVE QuietStep
  BY <1>6 DEF Wake
<1>7. ASSUME NEW a \in Actors, ContextDone(a) PROVE QuietStep
  BY <1>7 DEF ContextDone
<1>8. ASSUME NEW a \in Actors, BeginRefresh(a) PROVE QuietStep
  BY <1>8 DEF BeginRefresh
<1>9. ASSUME NEW a \in Actors, RefreshFails(a) PROVE QuietStep
  BY <1>9 DEF RefreshFails
<1>10. ASSUME NEW a \in Actors, Receive(a) PROVE QuietStep
  BY <1>10 DEF Receive
<1>11. ASSUME NEW a \in Actors, LoseRequest(a) PROVE QuietStep
  BY <1>11 DEF LoseRequest
<1>12. ASSUME NEW a \in Actors, LoseReply(a) PROVE QuietStep
  BY <1>12 DEF LoseReply
<1>13. ASSUME NEW a \in Actors, ExchangeFails(a) PROVE QuietStep
  BY <1>13 DEF ExchangeFails
<1>14. ASSUME NEW a \in Actors, LateExecute(a) PROVE QuietStep
  BY <1>14 DEF LateExecute
<1>15. ASSUME NEW a \in Actors, Cancel(a) PROVE QuietStep
  BY <1>15 DEF Cancel
<1>16. CASE Expire
  BY <1>16 DEF Expire
<1>17. CASE UNCHANGED vars
  BY <1>17 DEF vars
<1> QED
  BY <1>1, <1>2, <1>3, <1>4, <1>5, <1>6, <1>7, <1>8, <1>9, <1>10, <1>11, <1>12, <1>13, <1>14, <1>15, <1>16, <1>17, Steps
     DEF ClientStep, NetworkStep, TokenStep

\* Every step keeps what is known of tokens: an unstored one is unseen.
LEMMA TokenNext == TypeOK /\ TokenInv /\ [Next]_vars => TokenInv'
<1> SUFFICES ASSUME TypeOK, TokenInv, [Next]_vars PROVE TokenInv'
  OBVIOUS
<1> USE DEF TypeOK, Header, TokenInv, Outside
<1>1. ASSUME NEW a \in Actors, LoadCredentials(a) PROVE TokenInv'
  BY <1>1 DEF LoadCredentials, Goto, authVars
<1>2. ASSUME NEW a \in Actors, Transmit(a) PROVE TokenInv'
  BY <1>2 DEF Transmit, Goto, authVars
<1>3. ASSUME NEW a \in Actors, HandleUnauthorized(a) PROVE TokenInv'
  BY <1>3 DEF HandleUnauthorized, Goto, authVars
<1>4. ASSUME NEW a \in Actors, IssueToken(a) PROVE TokenInv'
  BY <1>4 DEF IssueToken, Goto, loopVars
<1>5. ASSUME NEW a \in Actors, StoreToken(a) PROVE TokenInv'
  BY <1>5 DEF StoreToken, TokenStored, NextAttempt, Goto, Finish
<1>6. CASE QuietStep
  BY <1>6 DEF QuietStep, Carries
<1> QED
  BY <1>1, <1>2, <1>3, <1>4, <1>5, <1>6, TokenFrame DEF TokenStep

-----------------------------------------------------------------------------
(* The retry loop never returns a nil error it did not earn.               *)

\* Every step of the retry loop keeps lastErr set where the loop may end.
LEMMA LoopNext == TypeInv /\ LoopInv /\ [Next]_vars => LoopInv'
<1> SUFFICES ASSUME TypeInv, [Next]_vars, NEW c \in Calls, LoopOK(c)
             PROVE  LoopOK(c)'
  BY DEF LoopInv
<1> c \in Actors /\ c \notin Logins
  BY LoginsAreNotCalls DEF Actors
<1> USE BudgetPositive
    DEF TypeInv, TypeOK, AttemptInv, LoopOK, Goto, Finish, loopVars, authVars,
        serverVars
<1>1. CASE Begin(c)
  BY <1>1 DEF Begin
<1>2. CASE BuildFails(c)
  BY <1>2 DEF BuildFails
<1>3. CASE LoadCredentials(c)
  BY <1>3 DEF LoadCredentials
<1>4. CASE Transmit(c)
  BY <1>4 DEF Transmit
<1>5. CASE HandleNetworkError(c)
  BY <1>5 DEF HandleNetworkError, RecordErr
<1>6. CASE HandleSuccess(c)
  BY <1>6 DEF HandleSuccess
<1>7. CASE HandleUnauthorized(c)
  BY <1>7 DEF HandleUnauthorized, MayRefresh
<1>8. CASE HandleFailure(c)
  BY <1>8 DEF HandleFailure, RecordErr, FromHTTP
<1>9. CASE Wake(c)
  BY <1>9 DEF Wake, NextAttempt, Succ, AttemptsLeft
<1>10. CASE ContextDone(c)
  BY <1>10 DEF ContextDone
<1>11. CASE BeginRefresh(c)
  BY <1>11 DEF BeginRefresh
<1>12. CASE StoreToken(c)
  BY <1>12 DEF StoreToken, NextAttempt, Succ, AttemptsLeft
<1>13. CASE RefreshFails(c)
  BY <1>13 DEF RefreshFails
<1>14. CASE Receive(c)
  BY <1>14 DEF Receive, Effects, OKStatus
<1>15. CASE LoseRequest(c)
  BY <1>15 DEF LoseRequest
<1>16. CASE LoseReply(c)
  BY <1>16 DEF LoseReply
<1>17. CASE IssueToken(c)
  BY <1>17 DEF IssueToken
<1>18. CASE ExchangeFails(c)
  BY <1>18 DEF ExchangeFails
<1>19. CASE LateExecute(c)
  BY <1>19 DEF LateExecute
<1>20. CASE Cancel(c)
  BY <1>20 DEF Cancel
<1>21. CASE Still(c)
  BY <1>21 DEF Still
<1> QED
  BY <1>1, <1>2, <1>3, <1>4, <1>5, <1>6, <1>7, <1>8, <1>9, <1>10, <1>11, <1>12, <1>13, <1>14, <1>15, <1>16, <1>17, <1>18, <1>19, <1>20, <1>21, OneActor
     DEF StepOf, ClientStep, NetworkStep

\* A login stays inside Client.refresh and reports success only with a token.
LEMMA LoginNext == TypeInv /\ TokenInv /\ LoginInv /\ [Next]_vars => LoginInv'
<1> SUFFICES ASSUME TypeInv, TokenInv, [Next]_vars, NEW c \in Logins, LoginOK(c)
             PROVE  LoginOK(c)'
  BY DEF LoginInv
<1> c \in Actors /\ c \notin Calls
  BY LoginsAreNotCalls DEF Actors
<1> USE DEF TypeInv, TypeOK, LoginOK, Goto, Finish, loopVars, authVars, serverVars
<1>1. CASE Begin(c)
  BY <1>1 DEF Begin
<1>2. CASE BuildFails(c)
  BY <1>2 DEF BuildFails
<1>3. CASE LoadCredentials(c)
  BY <1>3 DEF LoadCredentials
<1>4. CASE Transmit(c)
  BY <1>4 DEF Transmit
<1>5. CASE HandleNetworkError(c)
  BY <1>5 DEF HandleNetworkError
<1>6. CASE HandleSuccess(c)
  BY <1>6 DEF HandleSuccess
<1>7. CASE HandleUnauthorized(c)
  BY <1>7 DEF HandleUnauthorized, MayRefresh, Loops
<1>8. CASE HandleFailure(c)
  BY <1>8 DEF HandleFailure
<1>9. CASE Wake(c)
  BY <1>9 DEF Wake
<1>10. CASE ContextDone(c)
  BY <1>10 DEF ContextDone
<1>11. CASE BeginRefresh(c)
  BY <1>11 DEF BeginRefresh
<1>12. CASE StoreToken(c)
  BY <1>12 DEF StoreToken, TokenInv
<1>13. CASE RefreshFails(c)
  BY <1>13 DEF RefreshFails
<1>14. CASE Receive(c)
  BY <1>14 DEF Receive
<1>15. CASE LoseRequest(c)
  BY <1>15 DEF LoseRequest
<1>16. CASE LoseReply(c)
  BY <1>16 DEF LoseReply
<1>17. CASE IssueToken(c)
  BY <1>17 DEF IssueToken
<1>18. CASE ExchangeFails(c)
  BY <1>18 DEF ExchangeFails
<1>19. CASE LateExecute(c)
  BY <1>19 DEF LateExecute
<1>20. CASE Cancel(c)
  BY <1>20 DEF Cancel
<1>21. CASE Still(c)
  BY <1>21 DEF Still
<1> QED
  BY <1>1, <1>2, <1>3, <1>4, <1>5, <1>6, <1>7, <1>8, <1>9, <1>10, <1>11, <1>12, <1>13, <1>14, <1>15, <1>16, <1>17, <1>18, <1>19, <1>20, <1>21, OneActor
     DEF StepOf, ClientStep, NetworkStep

-----------------------------------------------------------------------------
(* The inductive invariant and what follows from it.                       *)

\* The inductive invariant holds initially.
LEMMA InvInit == Init => IInv
<1> SUFFICES ASSUME Init PROVE IInv
  OBVIOUS
<1> USE GoAssumption DEF Init
<1>1. TypeOK /\ AttemptInv
  BY TypeInit DEF TypeInv
<1>2. HeaderInv
  BY DEF HeaderInv, Actors
<1>3. TokenInv
  BY DEF TokenInv, Outside
<1>4. LoopInv
  BY DEF LoopInv, LoopOK, Actors
<1>5. LoginInv
  BY DEF LoginInv, LoginOK, Actors
<1> QED
  BY <1>1, <1>2, <1>3, <1>4, <1>5 DEF IInv

\* Every step keeps the inductive invariant.
LEMMA InvNext == IInv /\ [Next]_vars => IInv'
BY TypeNext, HeaderNext, TokenNext, LoopNext, LoginNext DEF IInv, TypeInv

\* In every reachable state the inductive invariant holds.
THEOREM Invariance == Spec => []IInv
BY InvInit, InvNext, PTL DEF Spec

\* A success the transport reports was earned, whatever the retry budget: the
\* server acted on the call, or the login stored a token.
THEOREM SuccessIsEarned == Spec => []NilMeansDone
<1>1. IInv => NilMeansDone
  BY DEF IInv, LoopInv, LoopOK, LoginInv, LoginOK, NilMeansDone
<1> QED
  BY <1>1, Invariance, PTL

\* No request to the node ever carries a bearer token next to an X-API-Key or the
\* username that rides with it, whatever its request object carried before.
THEOREM NodeNeverSeesBoth == Spec => []NodeHeaderDiscipline
<1>1. IInv => NodeHeaderDiscipline
  BY GoAssumption DEF IInv, HeaderInv, NodeHeaderDiscipline
<1> QED
  BY <1>1, Invariance, PTL

\* However many goroutines exchange the key at once, a refreshed call is never
\* replayed with the token it was refused for.
THEOREM ReplayIsFresh == Spec => []ReplayUsesAnotherToken
<1>1. IInv => ReplayUsesAnotherToken
  BY DEF IInv, TokenInv, ReplayUsesAnotherToken, Actors
<1> QED
  BY <1>1, Invariance, PTL

\* Every step keeps the 401 of a call from being surfaced before its refresh.
LEMMA SurfaceNext == IInv /\ SurfaceInv /\ [Next]_vars => SurfaceInv'
<1> SUFFICES ASSUME TypeInv, LoopInv, [Next]_vars, NEW c \in Calls, SurfaceOK(c)
             PROVE  SurfaceOK(c)'
  BY DEF SurfaceInv, IInv, TypeInv
<1> c \in Actors /\ c \notin Logins /\ LoopOK(c)
  BY LoginsAreNotCalls DEF Actors, LoopInv
<1> USE BudgetPositive
    DEF TypeInv, TypeOK, AttemptInv, SurfaceOK, Goto, Finish, loopVars,
        authVars, serverVars
<1>1. CASE Begin(c)
  BY <1>1 DEF Begin
<1>2. CASE BuildFails(c)
  BY <1>2 DEF BuildFails
<1>3. CASE LoadCredentials(c)
  BY <1>3 DEF LoadCredentials
<1>4. CASE Transmit(c)
  BY <1>4 DEF Transmit
<1>5. CASE HandleNetworkError(c)
  BY <1>5 DEF HandleNetworkError, RecordErr
<1>6. CASE HandleSuccess(c)
  BY <1>6 DEF HandleSuccess
<1>7. CASE HandleUnauthorized(c)
  BY <1>7 DEF HandleUnauthorized, MayRefresh
<1>8. CASE HandleFailure(c)
  BY <1>8 DEF HandleFailure, RecordErr, FromHTTP, MayRefresh, Loops, Retries,
             IsRetryable
<1>9. CASE Wake(c)
  BY <1>9 DEF Wake, NextAttempt, Succ, AttemptsLeft, ErrorClass
<1>10. CASE ContextDone(c)
  BY <1>10 DEF ContextDone
<1>11. CASE BeginRefresh(c)
  BY <1>11 DEF BeginRefresh, LoopOK
<1>12. CASE StoreToken(c)
  BY <1>12 DEF StoreToken, NextAttempt, Succ, AttemptsLeft, LoopOK,
              ErrorClass
<1>13. CASE RefreshFails(c)
  BY <1>13 DEF RefreshFails
<1>14. CASE Receive(c)
  BY <1>14 DEF Receive, Effects, OKStatus
<1>15. CASE LoseRequest(c)
  BY <1>15 DEF LoseRequest, Abandon
<1>16. CASE LoseReply(c)
  BY <1>16 DEF LoseReply
<1>17. CASE IssueToken(c)
  BY <1>17 DEF IssueToken
<1>18. CASE ExchangeFails(c)
  BY <1>18 DEF ExchangeFails
<1>19. CASE LateExecute(c)
  BY <1>19 DEF LateExecute
<1>20. CASE Cancel(c)
  BY <1>20 DEF Cancel
<1>21. CASE Still(c)
  BY <1>21 DEF Still
<1> QED
  BY <1>1, <1>2, <1>3, <1>4, <1>5, <1>6, <1>7, <1>8, <1>9, <1>10, <1>11, <1>12, <1>13, <1>14, <1>15, <1>16, <1>17, <1>18, <1>19, <1>20, <1>21, OneActor
     DEF StepOf, ClientStep, NetworkStep

\* No call of a goroutine returns a 401 it has not tried to refresh, whatever the
\* other calls do meanwhile.
THEOREM UnauthorizedIsTried == Spec => []Unauthorized401Tried
<1>1. Init => SurfaceInv
  BY GoAssumption DEF Init, SurfaceInv, SurfaceOK, Actors
<1>2. SurfaceInv => Unauthorized401Tried
  BY DEF SurfaceInv, SurfaceOK, Unauthorized401Tried
<1> QED
  BY <1>1, <1>2, Invariance, SurfaceNext, PTL DEF Spec

-----------------------------------------------------------------------------
(* The transport implements the contract of one call.                      *)

\* The counters of transmissions, effects and exchanges start out related.
LEMMA CountInit == Init => CountInv
BY GoAssumption DEF Init, CountInv, CountOK, OnWire, Actors

\* Every step keeps an effect per transmission at most, a transmission per
\* attempt and an exchange per refresh.
LEMMA CountNext == IInv /\ CountInv /\ [Next]_vars => CountInv'
<1> SUFFICES ASSUME TypeInv, LoopInv, [Next]_vars, NEW c \in Calls, CountOK(c)
             PROVE  CountOK(c)'
  BY DEF CountInv, IInv, TypeInv
<1> c \in Actors /\ c \notin Logins /\ LoopOK(c)
  BY LoginsAreNotCalls DEF Actors, LoopInv
<1> USE BudgetPositive
    DEF TypeInv, TypeOK, AttemptInv, CountOK, OnWire, Goto, Finish, loopVars,
        authVars, serverVars
<1>1. CASE Begin(c)
  BY <1>1 DEF Begin
<1>2. CASE BuildFails(c)
  BY <1>2 DEF BuildFails
<1>3. CASE LoadCredentials(c)
  BY <1>3 DEF LoadCredentials
<1>4. CASE Transmit(c)
  BY <1>4 DEF Transmit
<1>5. CASE HandleNetworkError(c)
  BY <1>5 DEF HandleNetworkError, RecordErr
<1>6. CASE HandleSuccess(c)
  BY <1>6 DEF HandleSuccess
<1>7. CASE HandleUnauthorized(c)
  BY <1>7 DEF HandleUnauthorized, MayRefresh
<1>8. CASE HandleFailure(c)
  BY <1>8 DEF HandleFailure, RecordErr, FromHTTP
<1>9. CASE Wake(c)
  BY <1>9 DEF Wake, NextAttempt, Succ, AttemptsLeft, ErrorClass
<1>10. CASE ContextDone(c)
  BY <1>10 DEF ContextDone
<1>11. CASE BeginRefresh(c)
  BY <1>11 DEF BeginRefresh, LoopOK
<1>12. CASE StoreToken(c)
  BY <1>12 DEF StoreToken, NextAttempt, Succ, AttemptsLeft, LoopOK,
              ErrorClass
<1>13. CASE RefreshFails(c)
  BY <1>13 DEF RefreshFails
<1>14. CASE Receive(c)
  BY <1>14 DEF Receive, Effects, OKStatus
<1>15. CASE LoseRequest(c)
  BY <1>15 DEF LoseRequest, Abandon
<1>16. CASE LoseReply(c)
  BY <1>16 DEF LoseReply
<1>17. CASE IssueToken(c)
  BY <1>17 DEF IssueToken
<1>18. CASE ExchangeFails(c)
  BY <1>18 DEF ExchangeFails
<1>19. CASE LateExecute(c)
  BY <1>19 DEF LateExecute
<1>20. CASE Cancel(c)
  BY <1>20 DEF Cancel
<1>21. CASE Still(c)
  BY <1>21 DEF Still
<1> QED
  BY <1>1, <1>2, <1>3, <1>4, <1>5, <1>6, <1>7, <1>8, <1>9, <1>10, <1>11, <1>12, <1>13, <1>14, <1>15, <1>16, <1>17, <1>18, <1>19, <1>20, <1>21, OneActor
     DEF StepOf, ClientStep, NetworkStep

\* What a step of one call is to the contract, read off that call alone.
Same(c) ==
  /\ Phase(c)' = Phase(c) /\ sends'[c] = sends[c] /\ executed'[c] = executed[c]
  /\ exchanges'[c] = exchanges[c] /\ Outcome(c)' = Outcome(c)

ToBegin(c) ==
  /\ Phase(c) = "idle" /\ Phase(c)' = "open" /\ sends'[c] = sends[c]
  /\ executed'[c] = executed[c] /\ exchanges'[c] = exchanges[c]
  /\ Outcome(c)' = Outcome(c)

ToSend(c) ==
  /\ Phase(c) = "open" /\ Phase(c)' = "open"
  /\ sends[c] < MaxRetries + 1 /\ sends'[c] = sends[c] + 1
  /\ executed'[c] = executed[c] /\ exchanges'[c] = exchanges[c]
  /\ Outcome(c)' = Outcome(c)

ToEffect(c) ==
  /\ executed[c] < sends[c] /\ executed'[c] = executed[c] + 1
  /\ Phase(c)' = Phase(c) /\ sends'[c] = sends[c]
  /\ exchanges'[c] = exchanges[c] /\ Outcome(c)' = Outcome(c)

ToExchange(c) ==
  /\ Phase(c) = "open" /\ Phase(c)' = "open"
  /\ exchanges[c] = 0 /\ exchanges'[c] = exchanges[c] + 1
  /\ sends'[c] = sends[c] /\ executed'[c] = executed[c]
  /\ Outcome(c)' = Outcome(c)

ToReturn(c) ==
  /\ Phase(c) # "closed" /\ Phase(c)' = "closed"
  /\ Outcome(c)' \in {"success", "failure"}
  /\ Outcome(c)' = "success" => Phase(c) = "open" /\ executed[c] > 0
  /\ sends'[c] = sends[c] /\ executed'[c] = executed[c]
  /\ exchanges'[c] = exchanges[c]

ToContract(c) ==
  \/ Same(c) \/ ToBegin(c) \/ ToSend(c) \/ ToEffect(c) \/ ToExchange(c)
  \/ ToReturn(c)

\* A step of one call is, read off that call alone, a step of the contract.
LEMMA StepToContract ==
  ASSUME TypeInv, LoopInv, CountInv, NEW c \in Calls, StepOf(c)
  PROVE  ToContract(c)
<1> c \in Actors /\ c \notin Logins /\ LoopOK(c) /\ CountOK(c)
  BY LoginsAreNotCalls DEF Actors, LoopInv, CountInv
<1> USE BudgetPositive
    DEF TypeInv, TypeOK, AttemptInv, CountOK, OnWire, Goto, Finish, loopVars,
        authVars, serverVars, Phase, Outcome, ToContract
<1>1. CASE Begin(c)
  BY <1>1 DEF Begin, ToBegin
<1>2. CASE BuildFails(c)
  BY <1>2 DEF BuildFails, ToReturn
<1>3. CASE LoadCredentials(c)
  BY <1>3 DEF LoadCredentials, Same
<1>4. CASE Transmit(c)
  BY <1>4 DEF Transmit, Same, ToSend
<1>5. CASE HandleNetworkError(c)
  BY <1>5 DEF HandleNetworkError, Same, ToReturn
<1>6. CASE HandleSuccess(c)
  BY <1>6 DEF HandleSuccess, ToReturn, LoopOK
<1>7. CASE HandleUnauthorized(c)
  BY <1>7 DEF HandleUnauthorized, Same
<1>8. CASE HandleFailure(c)
  BY <1>8 DEF HandleFailure, Same, ToReturn, FromHTTP
<1>9. CASE Wake(c)
  BY <1>9 DEF Wake, Same, ToReturn, NextAttempt, LoopOK, ErrorClass
<1>10. CASE ContextDone(c)
  BY <1>10 DEF ContextDone, ToReturn
<1>11. CASE BeginRefresh(c)
  BY <1>11 DEF BeginRefresh, Same, ToExchange
<1>12. CASE StoreToken(c)
  BY <1>12 DEF StoreToken, Same, ToReturn, NextAttempt, AttemptsLeft, LoopOK,
              ErrorClass
<1>13. CASE RefreshFails(c)
  BY <1>13 DEF RefreshFails, ToReturn
<1>14. CASE Receive(c)
  BY <1>14 DEF Receive, Same, ToEffect, Effects
<1>15. CASE LoseRequest(c)
  BY <1>15 DEF LoseRequest, Same
<1>16. CASE LoseReply(c)
  BY <1>16 DEF LoseReply, Same
<1>17. CASE IssueToken(c)
  BY <1>17 DEF IssueToken, Same
<1>18. CASE ExchangeFails(c)
  BY <1>18 DEF ExchangeFails, Same
<1>19. CASE LateExecute(c)
  BY <1>19 DEF LateExecute, ToEffect
<1>20. CASE Cancel(c)
  BY <1>20 DEF Cancel, Same
<1> QED
  BY <1>1, <1>2, <1>3, <1>4, <1>5, <1>6, <1>7, <1>8, <1>9, <1>10, <1>11, <1>12, <1>13, <1>14, <1>15, <1>16, <1>17, <1>18, <1>19, <1>20
     DEF StepOf, ClientStep, NetworkStep

\* The initial state maps to the initial state of the contract.
LEMMA ContractInit == Init => Contract!Init
BY DEF Init, Contract!Init, Phase, Outcome, Actors

\* If no call changes as its caller sees it, the contract stutters.
LEMMA ContractStutter ==
  ASSUME \A c \in Calls : Same(c)
  PROVE  UNCHANGED Contract!vars
BY DEF Same, Contract!vars

\* One call making a contract step while the others stay is a contract step.
LEMMA ContractAction ==
  ASSUME NEW c \in Calls, ToContract(c), \A d \in Calls : d # c => Same(d)
  PROVE  [Contract!Next]_(Contract!vars)
<1> USE DEF Same
<1>1. CASE Same(c)
  BY <1>1, ContractStutter
<1>2. CASE ToBegin(c)
  BY <1>2 DEF ToBegin, Contract!Next, Contract!Begin
<1>3. CASE ToSend(c)
  BY <1>3 DEF ToSend, Contract!Next, Contract!Send
<1>4. CASE ToEffect(c)
  BY <1>4 DEF ToEffect, Contract!Next, Contract!Effect
<1>5. CASE ToExchange(c)
  BY <1>5 DEF ToExchange, Contract!Next, Contract!Exchange
<1>6. CASE ToReturn(c)
  BY <1>6 DEF ToReturn, Contract!Next, Contract!Return
<1> QED
  BY <1>1, <1>2, <1>3, <1>4, <1>5, <1>6 DEF ToContract

\* A call that keeps its state is the same to the contract.
LEMMA StillSame == \A c \in Calls : Still(c) => Same(c)
BY DEF Still, Same, Phase, Outcome

\* Every step of the transport is a step of the contract or a stutter.
LEMMA ContractNext ==
  IInv /\ CountInv /\ [Next]_vars => [Contract!Next]_(Contract!vars)
<1> SUFFICES ASSUME IInv, CountInv, [Next]_vars
             PROVE  [Contract!Next]_(Contract!vars)
  OBVIOUS
<1> TypeInv /\ TypeOK /\ LoopInv /\ Calls \subseteq Actors
  BY DEF IInv, TypeInv, Actors
<1>1. CASE \E c \in Calls : StepOf(c)
  <2> PICK c \in Calls : StepOf(c)
    BY <1>1
  <2>1. \A d \in Calls : d # c => Same(d)
    BY OthersStill, StillSame
  <2> QED
    BY <2>1, StepToContract, ContractAction
<1>2. CASE ~ \E c \in Calls : StepOf(c)
  BY <1>2, OneActor, StillSame, ContractStutter
<1> QED
  BY <1>1, <1>2

\* Every behaviour of the transport, with any number of concurrent calls and
\* logins, is a behaviour of the contract: bounded transmissions, one exchange
\* per call, an effect behind every success.
THEOREM ContractHolds == Spec => ImplementsContract
<1>1. Init => IInv /\ CountInv
  BY InvInit, CountInit
<1>2. IInv /\ CountInv /\ [Next]_vars => IInv' /\ CountInv'
  BY InvNext, CountNext
<1> QED
  BY <1>1, <1>2, ContractInit, ContractNext, PTL
     DEF Spec, ImplementsContract, Contract!Spec

-----------------------------------------------------------------------------
(* How much a call may do.                                                 *)

\* The places of the loop are numbered.
LEMMA PlaceType == \A l \in PC : Place(l) \in 0..12 /\ (l # "done" => Place(l) > 0)
BY DEF PC, Place

\* What is left to do is a number.
LEMMA WorkType == TypeInv => WorkIsBounded
<1> SUFFICES ASSUME TypeInv, NEW a \in Actors
             PROVE  Work(a) \in 0..(12 * (MaxRetries + 1))
  BY DEF WorkIsBounded
<1>1. pc[a] \in PC /\ Place(pc[a]) \in 0..12
  BY PlaceType DEF TypeInv, TypeOK
<1>2. pc[a] # "done" => attempt[a] \in 0..MaxRetries
  BY BudgetPositive DEF TypeInv, TypeOK, AttemptInv
<1> QED
  BY <1>1, <1>2, BudgetPositive DEF Work

\* Every step of a call, or of the network for it, leaves it less to do.
LEMMA WorkStep ==
  ASSUME TypeInv, NEW a \in Actors, ClientStep(a) \/ NetworkStep(a)
  PROVE  Work(a)' < Work(a)
<1> USE BudgetPositive
    DEF TypeInv, TypeOK, AttemptInv, Work, Place, Goto, Finish, loopVars, authVars,
        serverVars
<1>1. CASE Begin(a)
  BY <1>1 DEF Begin
<1>2. CASE BuildFails(a)
  BY <1>2 DEF BuildFails
<1>3. CASE LoadCredentials(a)
  BY <1>3 DEF LoadCredentials
<1>4. CASE Transmit(a)
  BY <1>4 DEF Transmit
<1>5. CASE HandleNetworkError(a)
  BY <1>5 DEF HandleNetworkError
<1>6. CASE HandleSuccess(a)
  BY <1>6 DEF HandleSuccess
<1>7. CASE HandleUnauthorized(a)
  BY <1>7 DEF HandleUnauthorized
<1>8. CASE HandleFailure(a)
  BY <1>8 DEF HandleFailure
<1>9. CASE Wake(a)
  BY <1>9 DEF Wake, NextAttempt, Succ, AttemptsLeft
<1>10. CASE ContextDone(a)
  BY <1>10 DEF ContextDone
<1>11. CASE BeginRefresh(a)
  BY <1>11 DEF BeginRefresh
<1>12. CASE StoreToken(a)
  BY <1>12 DEF StoreToken, NextAttempt, Succ, AttemptsLeft
<1>13. CASE RefreshFails(a)
  BY <1>13 DEF RefreshFails
<1>14. CASE Receive(a)
  BY <1>14 DEF Receive
<1>15. CASE LoseRequest(a)
  BY <1>15 DEF LoseRequest
<1>16. CASE LoseReply(a)
  BY <1>16 DEF LoseReply
<1>17. CASE IssueToken(a)
  BY <1>17 DEF IssueToken
<1>18. CASE ExchangeFails(a)
  BY <1>18 DEF ExchangeFails
<1> QED
  BY <1>1, <1>2, <1>3, <1>4, <1>5, <1>6, <1>7, <1>8, <1>9, <1>10, <1>11, <1>12, <1>13, <1>14, <1>15, <1>16, <1>17, <1>18
     DEF ClientStep, NetworkStep

\* The variant: whatever its retry budget, and whatever the other calls do, a call
\* or login is done after 12 * (MaxRetries + 1) steps of its own and the network's.
THEOREM CallsWindDown == Spec => []WorkIsBounded /\ WorkFalls
<1>1. TypeInv /\ [Next]_vars =>
        [\A a \in Actors :
           /\ ClientStep(a) \/ NetworkStep(a) => Work(a)' < Work(a)
           /\ Work(a)' <= Work(a)]_vars
  <2> SUFFICES ASSUME TypeInv, [Next]_vars, NEW a \in Actors
               PROVE  /\ ClientStep(a) \/ NetworkStep(a) => Work(a)' < Work(a)
                      /\ Work(a)' <= Work(a)
    OBVIOUS
  <2>1. Work(a) \in Nat /\ Work(a)' \in Nat
    <3>1. WorkIsBounded /\ WorkIsBounded'
      BY TypeNext, WorkType, PTL
    <3> QED
      BY <3>1, BudgetPositive DEF WorkIsBounded
  <2>2. CASE ClientStep(a) \/ NetworkStep(a)
    BY <2>1, <2>2, WorkStep
  <2>3. CASE LateExecute(a) \/ Cancel(a) \/ Still(a)
    <3>1. Work(a)' = Work(a)
      BY <2>3 DEF LateExecute, Cancel, Still, loopVars, Work
    <3> QED
      BY <2>1, <2>2, <3>1
  <2> QED
    BY <2>2, <2>3, OneActor DEF StepOf, TypeInv
<1>2. TypeInv => WorkIsBounded
  BY WorkType
<1> QED
  BY <1>1, <1>2, TypeInit, TypeNext, PTL DEF Spec, WorkFalls
=============================================================================
