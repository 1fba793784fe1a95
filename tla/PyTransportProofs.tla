-------------------------- MODULE PyTransportProofs -------------------------
(***************************************************************************)
(* Proofs about PyTransport, for every set of calls and logins, any retry   *)
(* budget and any set of HTTP statuses, and for both Python clients.        *)
(***************************************************************************)
EXTENDS PyTransport, TLAPS

\* _from_http always answers with an error class.
LEMMA FromHTTPClass == \A s : FromHTTP(s) \in ErrorClass
BY DEF FromHTTP, ErrorClass

\* A login and a call are different threads or tasks.
LEMMA LoginsAreNotCalls == \A a \in Logins : a \notin Calls
BY PyAssumption

StepOf(a) == ClientStep(a) \/ NetworkStep(a) \/ LateExecute(a) \/ CancelTask(a)

\* A step is one actor's, or the expiry of a token, or none.
LEMMA Steps ==
  ASSUME [Next]_vars
  PROVE  (\E a \in Actors : StepOf(a)) \/ Expire \/ UNCHANGED vars
BY DEF Next, StepOf

TypeInv == TypeOK /\ AttemptInv

\* The initial state is well typed and every loop is at its first attempt.
LEMMA TypeInit == Init => TypeInv
<1> SUFFICES ASSUME Init PROVE TypeInv
  OBVIOUS
<1> USE PyAssumption DEF Init
<1>1. token \in Nat /\ issued \in Nat
  OBVIOUS
<1>2. pc \in [Actors -> PC] /\ hdr \in [Actors -> Header]
  BY DEF PC, Header
<1>3. AttemptInv
  BY DEF AttemptInv
<1>4. async \in BOOLEAN /\ tokenless \in BOOLEAN /\ refreshed \in [Actors -> BOOLEAN]
  BY Zenon
<1>5. attempt \in [Actors -> 0..(MaxRetries + 1)]
  OBVIOUS
<1>6. reply \in [Actors -> Statuses \cup {0}]
  OBVIOUS
<1>7. fresh \in [Actors -> Nat] /\ refused \in [Actors -> SUBSET Nat]
  OBVIOUS
<1>8. /\ sends \in [Actors -> Nat] /\ executed \in [Actors -> Nat]
      /\ stray \in [Actors -> Nat] /\ exchanges \in [Actors -> Nat]
  OBVIOUS
<1>9. /\ lastErr \in [Actors -> ErrorClass \cup {"nil"}]
      /\ result \in [Actors -> ErrorClass \cup {"none", "nil"}]
  OBVIOUS
<1>10. lock \in Actors \cup {Nobody} /\ expired \in Nat
  OBVIOUS
<1> QED
  BY <1>1, <1>2, <1>3, <1>4, <1>5, <1>6, <1>7, <1>8, <1>9, <1>10, Zenon
     DEF TypeInv, TypeOK

\* A step of one actor keeps the types and the bound on the loop variable.
LEMMA TypeStep ==
  ASSUME TypeInv, NEW a \in Actors, StepOf(a)
  PROVE  TypeInv'
<1> MaxRetries \in Nat
  BY PyAssumption
<1> USE DEF TypeInv, TypeOK, AttemptInv, PC, Header, Goto, Finish, Transmit,
            loopVars, authVars, serverVars
<1>1. CASE Begin(a)
  BY <1>1 DEF Begin, AuthHeaders
<1>2. CASE BuildFails(a)
  BY <1>2 DEF BuildFails, ErrorClass
<1>3. CASE HandleSuccess(a)
  BY <1>3 DEF HandleSuccess, ErrorClass
<1>4. CASE HandleUnauthorized(a)
  BY <1>4 DEF HandleUnauthorized, MayRefresh
<1>5. CASE HandleFailure(a)
  <2>1. FromHTTP(reply[a]) \in ErrorClass
    BY FromHTTPClass
  <2>2. lastErr' \in [Actors -> ErrorClass \cup {"nil"}]
    BY <1>5, <2>1 DEF HandleFailure
  <2>3. result' \in [Actors -> ErrorClass \cup {"none", "nil"}]
    BY <1>5, <2>1 DEF HandleFailure
  <2>4. pc' \in [Actors -> PC] /\ AttemptInv'
    BY <1>5 DEF HandleFailure, Retries, AttemptsLeft
  <2> QED
    BY <1>5, <2>2, <2>3, <2>4 DEF HandleFailure
<1>6. CASE Wake(a)
  BY <1>6 DEF Wake
<1>7. CASE Authenticate(a)
  BY <1>7 DEF Authenticate, ErrorClass
<1>8. CASE BeginRefresh(a)
  BY <1>8 DEF BeginRefresh
<1>9. CASE StoreToken(a)
  BY <1>9 DEF StoreToken, TokenStored, Release
<1>10. CASE Resume(a)
  <2>1. hdr' \in [Actors -> Header] /\ lock' \in Actors \cup {Nobody}
    BY <1>10 DEF Resume, UpdatedHeaders, AuthHeaders, Release
  <2>2. attempt[a] \in 0..MaxRetries /\ attempt' \in [Actors -> 0..(MaxRetries + 1)]
    BY <1>10 DEF Resume
  <2>3. sends' \in [Actors -> Nat]
    BY <1>10 DEF Resume
  <2>4. result' \in [Actors -> ErrorClass \cup {"none", "nil"}]
    BY <1>10 DEF Resume, ErrorClass
  <2>5. pc' \in [Actors -> PC]
    BY <1>10 DEF Resume
  <2>6. \A b \in Actors : b # a => pc'[b] = pc[b] /\ attempt'[b] = attempt[b]
    BY <1>10 DEF Resume
  <2>7. /\ pc'[a] # "done" => attempt'[a] <= MaxRetries
        /\ pc'[a] # "sleep"
    BY <1>10, <2>2 DEF Resume, AttemptsLeft
  <2>8. AttemptInv'
    BY <2>6, <2>7
  <2> QED
    BY <1>10, <2>1, <2>2, <2>3, <2>4, <2>5, <2>8 DEF Resume
<1>11. CASE RefreshFails(a)
  BY <1>11 DEF RefreshFails, ErrorClass
<1>12. CASE Receive(a)
  BY <1>12 DEF Receive, Effects
<1>13. CASE RequestFails(a)
  <2>1. stray' \in [Actors -> Nat]
    BY <1>13 DEF RequestFails, Abandon
  <2>2. pc' \in [Actors -> PC] /\ result' \in [Actors -> ErrorClass \cup {"none", "nil"}]
    BY <1>13 DEF RequestFails, ErrorClass
  <2>3. lastErr' \in [Actors -> ErrorClass \cup {"nil"}]
    BY <1>13 DEF RequestFails, ErrorClass
  <2>4. AttemptInv'
    BY <1>13 DEF RequestFails, AttemptsLeft
  <2> QED
    BY <1>13, <2>1, <2>2, <2>3, <2>4 DEF RequestFails
<1>14. CASE IssueToken(a)
  <2>1. fresh' \in [Actors -> Nat] /\ issued' \in Nat
    BY <1>14 DEF IssueToken
  <2>2. tokenless' \in BOOLEAN
    BY <1>14 DEF IssueToken
  <2>3. pc' \in [Actors -> PC] /\ AttemptInv'
    BY <1>14 DEF IssueToken
  <2> QED
    BY <1>14, <2>1, <2>2, <2>3 DEF IssueToken
<1>15. CASE ExchangeFails(a)
  BY <1>15 DEF ExchangeFails, Release, ErrorClass
<1>16. CASE LateExecute(a)
  BY <1>16 DEF LateExecute
<1>17. CASE CancelTask(a)
  <2>1. stray' \in [Actors -> Nat] /\ lock' \in Actors \cup {Nobody}
    BY <1>17 DEF CancelTask, Abandon, Unlock, Release
  <2> QED
    BY <1>17, <2>1 DEF CancelTask, ErrorClass
<1> QED
  BY <1>1, <1>2, <1>3, <1>4, <1>5, <1>6, <1>7, <1>8, <1>9, <1>10, <1>11,
     <1>12, <1>13, <1>14, <1>15, <1>16, <1>17
     DEF StepOf, ClientStep, NetworkStep

\* Every step keeps the types and the bound on the loop variable.
LEMMA TypeNext == TypeInv /\ [Next]_vars => TypeInv'
<1> SUFFICES ASSUME TypeInv, [Next]_vars PROVE TypeInv'
  OBVIOUS
<1>1. CASE Expire
  BY <1>1 DEF Expire, TypeInv, TypeOK, AttemptInv, loopVars, authVars, serverVars
<1>2. CASE UNCHANGED vars
  BY <1>2 DEF vars, TypeInv, TypeOK, AttemptInv
<1> QED
  BY <1>1, <1>2, TypeStep, Steps

\* In every reachable state the variables have their types: in particular no
\* loop of _do passes its range(max_retries + 1).
THEOREM TypeCorrect == Spec => []TypeOK
<1>1. TypeInv => TypeOK
  BY DEF TypeInv
<1> QED
  BY <1>1, TypeInit, TypeNext, PTL DEF Spec

\* What is kept per actor changes for the actor that steps only.
Still(c) ==
  /\ pc'[c] = pc[c] /\ attempt'[c] = attempt[c] /\ refreshed'[c] = refreshed[c]
  /\ reply'[c] = reply[c] /\ fresh'[c] = fresh[c] /\ hdr'[c] = hdr[c]
  /\ refused'[c] = refused[c] /\ lastErr'[c] = lastErr[c]
  /\ result'[c] = result[c] /\ sends'[c] = sends[c]
  /\ executed'[c] = executed[c] /\ stray'[c] = stray[c]
  /\ exchanges'[c] = exchanges[c]

\* One actor's step leaves what is kept per actor alone for all the others.
LEMMA OthersStill ==
  ASSUME TypeOK, NEW a \in Actors, NEW c \in Actors, a # c, StepOf(a)
  PROVE  Still(c)
<1> USE DEF TypeOK, Still, loopVars, authVars, serverVars, Goto, Finish, Transmit
<1>1. CASE Begin(a)
  BY <1>1 DEF Begin
<1>2. CASE BuildFails(a)
  BY <1>2 DEF BuildFails
<1>3. CASE HandleSuccess(a)
  BY <1>3 DEF HandleSuccess
<1>4. CASE HandleUnauthorized(a)
  BY <1>4 DEF HandleUnauthorized
<1>5. CASE HandleFailure(a)
  BY <1>5 DEF HandleFailure
<1>6. CASE Wake(a)
  BY <1>6 DEF Wake
<1>7. CASE Authenticate(a)
  BY <1>7 DEF Authenticate
<1>8. CASE BeginRefresh(a)
  BY <1>8 DEF BeginRefresh
<1>9. CASE StoreToken(a)
  BY <1>9 DEF StoreToken
<1>10. CASE Resume(a)
  BY <1>10 DEF Resume
<1>11. CASE RefreshFails(a)
  BY <1>11 DEF RefreshFails
<1>12. CASE Receive(a)
  BY <1>12 DEF Receive
<1>13. CASE RequestFails(a)
  BY <1>13 DEF RequestFails, Abandon
<1>14. CASE IssueToken(a)
  BY <1>14 DEF IssueToken
<1>15. CASE ExchangeFails(a)
  BY <1>15 DEF ExchangeFails
<1>16. CASE LateExecute(a)
  BY <1>16 DEF LateExecute
<1>17. CASE CancelTask(a)
  BY <1>17 DEF CancelTask, Abandon
<1> QED
  BY <1>1, <1>2, <1>3, <1>4, <1>5, <1>6, <1>7, <1>8, <1>9, <1>10, <1>11,
     <1>12, <1>13, <1>14, <1>15, <1>16, <1>17
     DEF StepOf, ClientStep, NetworkStep

\* Seen from one actor, a step is its own or changes nothing it keeps.
LEMMA OneActor ==
  ASSUME TypeOK, [Next]_vars, NEW c \in Actors
  PROVE  StepOf(c) \/ Still(c)
<1>1. CASE \E a \in Actors : StepOf(a)
  BY <1>1, OthersStill
<1>2. CASE Expire \/ UNCHANGED vars
  BY <1>2 DEF Expire, vars, loopVars, authVars, serverVars, Still
<1> QED
  BY <1>1, <1>2, Steps

-----------------------------------------------------------------------------
(* The lock.                                                               *)

\* Every step keeps the lock with the task whose exchange is not over.
LEMMA LockNext ==
  TypeOK /\ LockHeldByExchange /\ [Next]_vars => LockHeldByExchange'
<1> SUFFICES ASSUME TypeOK, LockHeldByExchange, [Next]_vars
             PROVE  LockHeldByExchange'
  OBVIOUS
<1> USE PyAssumption DEF TypeOK, LockHeldByExchange, Actors, authVars, Goto, Finish, Transmit
<1>1. ASSUME NEW a \in Actors, Begin(a) PROVE LockHeldByExchange'
  BY <1>1 DEF Begin
<1>2. ASSUME NEW a \in Actors, BuildFails(a) PROVE LockHeldByExchange'
  BY <1>2 DEF BuildFails
<1>3. ASSUME NEW a \in Actors, HandleSuccess(a) PROVE LockHeldByExchange'
  BY <1>3 DEF HandleSuccess
<1>4. ASSUME NEW a \in Actors, HandleUnauthorized(a) PROVE LockHeldByExchange'
  BY <1>4 DEF HandleUnauthorized
<1>5. ASSUME NEW a \in Actors, HandleFailure(a) PROVE LockHeldByExchange'
  BY <1>5 DEF HandleFailure
<1>6. ASSUME NEW a \in Actors, Wake(a) PROVE LockHeldByExchange'
  BY <1>6 DEF Wake
<1>7. ASSUME NEW a \in Actors, Authenticate(a) PROVE LockHeldByExchange'
  BY <1>7 DEF Authenticate
<1>8. ASSUME NEW a \in Actors, BeginRefresh(a) PROVE LockHeldByExchange'
  BY <1>8 DEF BeginRefresh, MayExchange
<1>9. ASSUME NEW a \in Actors, StoreToken(a) PROVE LockHeldByExchange'
  BY <1>9 DEF StoreToken, Release
<1>10. ASSUME NEW a \in Actors, Resume(a) PROVE LockHeldByExchange'
  BY <1>10 DEF Resume, Release
<1>11. ASSUME NEW a \in Actors, RefreshFails(a) PROVE LockHeldByExchange'
  BY <1>11 DEF RefreshFails
<1>12. ASSUME NEW a \in Actors, Receive(a) PROVE LockHeldByExchange'
  BY <1>12 DEF Receive
<1>13. ASSUME NEW a \in Actors, RequestFails(a) PROVE LockHeldByExchange'
  BY <1>13 DEF RequestFails
<1>14. ASSUME NEW a \in Actors, IssueToken(a) PROVE LockHeldByExchange'
  BY <1>14 DEF IssueToken
<1>15. ASSUME NEW a \in Actors, ExchangeFails(a) PROVE LockHeldByExchange'
  BY <1>15 DEF ExchangeFails, Release
<1>16. ASSUME NEW a \in Actors, LateExecute(a) PROVE LockHeldByExchange'
  BY <1>16 DEF LateExecute
<1>17. ASSUME NEW a \in Actors, CancelTask(a) PROVE LockHeldByExchange'
  BY <1>17 DEF CancelTask, Unlock, Release
<1>18. CASE Expire \/ UNCHANGED vars
  BY <1>18 DEF Expire, vars
<1> QED
  BY <1>1, <1>2, <1>3, <1>4, <1>5, <1>6, <1>7, <1>8, <1>9, <1>10, <1>11,
     <1>12, <1>13, <1>14, <1>15, <1>16, <1>17, <1>18, Steps
     DEF StepOf, ClientStep, NetworkStep

-----------------------------------------------------------------------------
(* Tokens.                                                                 *)

Carries == {"wire", "reply", "sleep"}

\* Steps that move no token and lead nobody to a place TokenInv speaks of.
QuietStep ==
  /\ UNCHANGED <<token, issued, tokenless, hdr, refused, fresh>>
  /\ \A b \in Actors :
       /\ pc'[b] \in {"issued", "stored", "idle"} => pc'[b] = pc[b]
       /\ pc'[b] \in Carries => pc[b] \in Carries

TokenStep(a) ==
  \/ Begin(a) \/ HandleUnauthorized(a) \/ IssueToken(a) \/ StoreToken(a)
  \/ Resume(a)

\* A step either moves a token or is quiet about all of them.
LEMMA TokenFrame ==
  ASSUME TypeOK, [Next]_vars
  PROVE  (\E a \in Actors : TokenStep(a)) \/ QuietStep
<1> USE DEF TypeOK, QuietStep, Carries, loopVars, authVars, Goto, Finish, Transmit
<1>1. ASSUME NEW a \in Actors, BuildFails(a) PROVE QuietStep
  BY <1>1 DEF BuildFails
<1>2. ASSUME NEW a \in Actors, HandleSuccess(a) PROVE QuietStep
  BY <1>2 DEF HandleSuccess
<1>3. ASSUME NEW a \in Actors, HandleFailure(a) PROVE QuietStep
  BY <1>3 DEF HandleFailure
<1>4. ASSUME NEW a \in Actors, Wake(a) PROVE QuietStep
  BY <1>4 DEF Wake
<1>5. ASSUME NEW a \in Actors, Authenticate(a) PROVE QuietStep
  BY <1>5 DEF Authenticate
<1>6. ASSUME NEW a \in Actors, BeginRefresh(a) PROVE QuietStep
  BY <1>6 DEF BeginRefresh
<1>7. ASSUME NEW a \in Actors, RefreshFails(a) PROVE QuietStep
  BY <1>7 DEF RefreshFails
<1>8. ASSUME NEW a \in Actors, Receive(a) PROVE QuietStep
  BY <1>8 DEF Receive
<1>9. ASSUME NEW a \in Actors, RequestFails(a) PROVE QuietStep
  BY <1>9 DEF RequestFails
<1>10. ASSUME NEW a \in Actors, ExchangeFails(a) PROVE QuietStep
  BY <1>10 DEF ExchangeFails
<1>11. ASSUME NEW a \in Actors, LateExecute(a) PROVE QuietStep
  BY <1>11 DEF LateExecute
<1>12. ASSUME NEW a \in Actors, CancelTask(a) PROVE QuietStep
  BY <1>12 DEF CancelTask
<1>13. CASE Expire \/ UNCHANGED vars
  BY <1>13 DEF Expire, vars
<1> QED
  BY <1>1, <1>2, <1>3, <1>4, <1>5, <1>6, <1>7, <1>8, <1>9, <1>10, <1>11,
     <1>12, <1>13, Steps
     DEF StepOf, ClientStep, NetworkStep, TokenStep

\* Every step keeps what is known of tokens: an unstored one is unseen.
LEMMA TokenNext == TypeOK /\ TokenInv /\ [Next]_vars => TokenInv'
<1> SUFFICES ASSUME TypeOK, TokenInv, [Next]_vars PROVE TokenInv'
  OBVIOUS
<1> USE DEF TypeOK, Header, TokenInv, Goto, Finish, Transmit
<1>1. ASSUME NEW a \in Actors, Begin(a) PROVE TokenInv'
  BY <1>1 DEF Begin, AuthHeaders, authVars
<1>2. ASSUME NEW a \in Actors, HandleUnauthorized(a) PROVE TokenInv'
  BY <1>2 DEF HandleUnauthorized, authVars
<1>3. ASSUME NEW a \in Actors, IssueToken(a) PROVE TokenInv'
  <2>1. CASE fresh'[a] = 0 /\ tokenless' /\ issued' = issued
    <3>1. \A b \in Actors : b # a => pc'[b] = pc[b] /\ fresh'[b] = fresh[b]
      BY <1>3 DEF IssueToken
    <3>2. pc'[a] = "issued" /\ UNCHANGED <<token, hdr, refused>>
      BY <1>3 DEF IssueToken, loopVars
    <3>3. tokenless' = TRUE
      BY <2>1, <1>3 DEF IssueToken
    <3>4. \A b \in Actors : pc'[b] = "issued" /\ fresh'[b] # 0 =>
            b # a /\ pc[b] = "issued" /\ fresh[b] # 0 /\ fresh'[b] = fresh[b]
      BY <2>1, <3>1
    <3> QED
      BY <2>1, <3>2, <3>3, <3>4
  <2>2. CASE fresh'[a] = issued + 1 /\ issued' = issued + 1 /\ tokenless' = tokenless
    BY <1>3, <2>2 DEF IssueToken, loopVars
  <2> QED
    BY <1>3, <2>1, <2>2 DEF IssueToken
<1>4. ASSUME NEW a \in Actors, StoreToken(a) PROVE TokenInv'
  BY <1>4 DEF StoreToken, TokenStored, loopVars
<1>5. ASSUME NEW a \in Actors, Resume(a) PROVE TokenInv'
  BY <1>5 DEF Resume, UpdatedHeaders
<1>6. CASE QuietStep
  BY <1>6 DEF QuietStep, Carries
<1> QED
  BY <1>1, <1>2, <1>3, <1>4, <1>5, <1>6, TokenFrame DEF TokenStep

-----------------------------------------------------------------------------
(* Counting.                                                               *)

\* Every step keeps an effect per transmission at most, a transmission per
\* attempt and an exchange per refresh.
LEMMA CountNext == TypeInv /\ CountInv /\ [Next]_vars => CountInv'
<1> SUFFICES ASSUME TypeInv, [Next]_vars, NEW c \in Calls, CountOK(c)
             PROVE  CountOK(c)'
  BY DEF CountInv
<1> c \in Actors /\ c \notin Logins /\ MaxRetries \in Nat
  BY LoginsAreNotCalls, PyAssumption DEF Actors
<1> USE DEF TypeInv, TypeOK, AttemptInv, CountOK, OnWire, Goto, Finish, Transmit,
            loopVars, authVars, serverVars
<1>1. CASE Begin(c)
  BY <1>1 DEF Begin
<1>2. CASE BuildFails(c)
  BY <1>2 DEF BuildFails
<1>3. CASE HandleSuccess(c)
  BY <1>3 DEF HandleSuccess
<1>4. CASE HandleUnauthorized(c)
  BY <1>4 DEF HandleUnauthorized, MayRefresh
<1>5. CASE HandleFailure(c)
  BY <1>5 DEF HandleFailure, FromHTTP
<1>6. CASE Wake(c)
  BY <1>6 DEF Wake
<1>7. CASE Authenticate(c)
  BY <1>7 DEF Authenticate
<1>8. CASE BeginRefresh(c)
  BY <1>8 DEF BeginRefresh
<1>9. CASE StoreToken(c)
  BY <1>9 DEF StoreToken
<1>10. CASE Resume(c)
  BY <1>10 DEF Resume, AttemptsLeft, ErrorClass
<1>11. CASE RefreshFails(c)
  BY <1>11 DEF RefreshFails
<1>12. CASE Receive(c)
  BY <1>12 DEF Receive, Effects, OKStatus
<1>13. CASE RequestFails(c)
  BY <1>13 DEF RequestFails, Abandon
<1>14. CASE IssueToken(c)
  BY <1>14 DEF IssueToken
<1>15. CASE ExchangeFails(c)
  BY <1>15 DEF ExchangeFails
<1>16. CASE LateExecute(c)
  BY <1>16 DEF LateExecute
<1>17. CASE CancelTask(c)
  BY <1>17 DEF CancelTask, Abandon
<1>18. CASE Still(c)
  BY <1>18 DEF Still
<1> QED
  BY <1>1, <1>2, <1>3, <1>4, <1>5, <1>6, <1>7, <1>8, <1>9, <1>10, <1>11,
     <1>12, <1>13, <1>14, <1>15, <1>16, <1>17, <1>18, OneActor
     DEF StepOf, ClientStep, NetworkStep

-----------------------------------------------------------------------------
(* The inductive invariant and what follows from it.                       *)

\* The inductive invariant holds initially.
LEMMA InvInit == Init => IInv
<1> SUFFICES ASSUME Init PROVE IInv
  OBVIOUS
<1> USE PyAssumption DEF Init
<1>1. TypeOK /\ AttemptInv
  BY TypeInit DEF TypeInv
<1>2. TokenInv
  BY DEF TokenInv
<1>3. CountInv
  BY DEF CountInv, CountOK, OnWire, Actors
<1>4. LockHeldByExchange
  BY DEF LockHeldByExchange
<1> QED
  BY <1>1, <1>2, <1>3, <1>4 DEF IInv

\* Every step keeps the inductive invariant.
LEMMA InvNext == IInv /\ [Next]_vars => IInv'
BY TypeNext, TokenNext, CountNext, LockNext DEF IInv, TypeInv

\* In every reachable state the inductive invariant holds.
THEOREM Invariance == Spec => []IInv
BY InvInit, InvNext, PTL DEF Spec

\* The asyncio client exchanges its key once at a time and never leaves the lock
\* with a task that has returned, failed or was cancelled.
THEOREM OneExchange == Spec => []LockHeldByExchange
<1>1. IInv => LockHeldByExchange
  BY DEF IInv
<1> QED
  BY <1>1, Invariance, PTL

\* Unless an exchange answered without a token, no call is replayed with the
\* token it was refused for.
THEOREM ReplayIsFresh == Spec => []ReplayUsesAnotherToken
<1>1. IInv => ReplayUsesAnotherToken
  BY DEF IInv, TokenInv, ReplayUsesAnotherToken, Actors
<1> QED
  BY <1>1, Invariance, PTL

\* Every step keeps the 401 of a call from being surfaced before its refresh.
LEMMA SurfaceNext == TypeInv /\ SurfaceInv /\ [Next]_vars => SurfaceInv'
<1> SUFFICES ASSUME TypeInv, [Next]_vars, NEW c \in Calls, SurfaceOK(c)
             PROVE  SurfaceOK(c)'
  BY DEF SurfaceInv
<1> c \in Actors /\ c \notin Logins /\ Kind[c] \in {"do", "stream"}
  BY LoginsAreNotCalls, PyAssumption DEF Actors
<1> USE DEF TypeInv, TypeOK, AttemptInv, SurfaceOK, Goto, Finish, Transmit,
            loopVars, authVars, serverVars
<1>1. CASE Begin(c)
  BY <1>1 DEF Begin
<1>2. CASE BuildFails(c)
  BY <1>2 DEF BuildFails
<1>3. CASE HandleSuccess(c)
  BY <1>3 DEF HandleSuccess
<1>4. CASE HandleUnauthorized(c)
  BY <1>4 DEF HandleUnauthorized, MayRefresh
<1>5. CASE HandleFailure(c)
  BY <1>5 DEF HandleFailure, FromHTTP, MayRefresh, Loops, Retries,
             IsRetryable
<1>6. CASE Wake(c)
  BY <1>6 DEF Wake
<1>7. CASE Authenticate(c)
  BY <1>7 DEF Authenticate
<1>8. CASE BeginRefresh(c)
  BY <1>8 DEF BeginRefresh
<1>9. CASE StoreToken(c)
  BY <1>9 DEF StoreToken
<1>10. CASE Resume(c)
  BY <1>10 DEF Resume, AttemptsLeft, ErrorClass
<1>11. CASE RefreshFails(c)
  BY <1>11 DEF RefreshFails
<1>12. CASE Receive(c)
  BY <1>12 DEF Receive, Effects, OKStatus
<1>13. CASE RequestFails(c)
  BY <1>13 DEF RequestFails, Abandon
<1>14. CASE IssueToken(c)
  BY <1>14 DEF IssueToken
<1>15. CASE ExchangeFails(c)
  BY <1>15 DEF ExchangeFails
<1>16. CASE LateExecute(c)
  BY <1>16 DEF LateExecute
<1>17. CASE CancelTask(c)
  BY <1>17 DEF CancelTask, Abandon
<1>18. CASE Still(c)
  BY <1>18 DEF Still
<1> QED
  BY <1>1, <1>2, <1>3, <1>4, <1>5, <1>6, <1>7, <1>8, <1>9, <1>10, <1>11,
     <1>12, <1>13, <1>14, <1>15, <1>16, <1>17, <1>18, OneActor
     DEF StepOf, ClientStep, NetworkStep

\* No call returns a 401 it has not tried to refresh, threaded or asyncio, unless
\* it is a stream or the client has no key.
THEOREM UnauthorizedIsTried == Spec => []Unauthorized401Tried
<1>1. Init => SurfaceInv
  BY PyAssumption DEF Init, SurfaceInv, SurfaceOK, Actors
<1>2. SurfaceInv => Unauthorized401Tried
  BY DEF SurfaceInv, SurfaceOK, Unauthorized401Tried
<1>3. IInv => TypeInv
  BY DEF IInv, TypeInv
<1> QED
  BY <1>1, <1>2, <1>3, Invariance, SurfaceNext, PTL DEF Spec

-----------------------------------------------------------------------------
(* Both clients implement the contract of one call.                        *)

\* What a step of one call is to the contract, read off that call alone.
Same(c) ==
  /\ Phase(c)' = Phase(c) /\ sends'[c] = sends[c] /\ executed'[c] = executed[c]
  /\ exchanges'[c] = exchanges[c] /\ Outcome(c)' = Outcome(c)

ToSend(c) ==
  /\ Phase(c) # "closed" /\ Phase(c)' = "open"
  /\ sends[c] < MaxRetries + 1 /\ sends'[c] = sends[c] + 1
  /\ executed'[c] = executed[c] /\ exchanges'[c] = exchanges[c]
  /\ Outcome(c)' = Outcome(c)

ToEffect(c) ==
  /\ executed[c] < sends[c] /\ executed'[c] = executed[c] + 1
  /\ Phase(c)' = Phase(c) /\ sends'[c] = sends[c]
  /\ exchanges'[c] = exchanges[c] /\ Outcome(c)' = Outcome(c)

ToExchange(c) ==
  /\ Phase(c) = "open" /\ Phase(c)' = "open"
  /\ exchanges[c] = 0 /\ exchanges'[c] = exchanges[c] + 1
  /\ sends'[c] = sends[c] /\ executed'[c] = executed[c]
  /\ Outcome(c)' = Outcome(c)

ToReturn(c) ==
  /\ Phase(c) # "closed" /\ Phase(c)' = "closed"
  /\ Outcome(c)' \in {"success", "failure"}
  /\ Outcome(c)' = "success" => Phase(c) = "open" /\ executed[c] > 0
  /\ sends'[c] = sends[c] /\ executed'[c] = executed[c]
  /\ exchanges'[c] = exchanges[c]

ToContract(c) ==
  Same(c) \/ ToSend(c) \/ ToEffect(c) \/ ToExchange(c) \/ ToReturn(c)

\* A step of one call is, read off that call alone, a step of the contract.
LEMMA StepToContract ==
  ASSUME TypeInv, CountInv, NEW c \in Calls, StepOf(c)
  PROVE  ToContract(c)
<1> c \in Actors /\ c \notin Logins /\ CountOK(c) /\ MaxRetries \in Nat
  BY LoginsAreNotCalls, PyAssumption DEF Actors, CountInv
<1> USE DEF TypeInv, TypeOK, AttemptInv, CountOK, OnWire, Goto, Finish, Transmit,
            loopVars, authVars, serverVars, Phase, Outcome, ToContract
<1>1. CASE Begin(c)
  BY <1>1 DEF Begin, ToSend
<1>2. CASE BuildFails(c)
  BY <1>2 DEF BuildFails, ToReturn
<1>3. CASE HandleSuccess(c)
  BY <1>3 DEF HandleSuccess, ToReturn
<1>4. CASE HandleUnauthorized(c)
  BY <1>4 DEF HandleUnauthorized, Same
<1>5. CASE HandleFailure(c)
  BY <1>5 DEF HandleFailure, FromHTTP, Same, ToReturn
<1>6. CASE Wake(c)
  BY <1>6 DEF Wake, ToSend
<1>7. CASE Authenticate(c)
  BY <1>7 DEF Authenticate
<1>8. CASE BeginRefresh(c)
  BY <1>8 DEF BeginRefresh, ToExchange
<1>9. CASE StoreToken(c)
  BY <1>9 DEF StoreToken, Same
<1>10. CASE Resume(c)
  BY <1>10 DEF Resume, AttemptsLeft, ErrorClass, ToSend, ToReturn
<1>11. CASE RefreshFails(c)
  BY <1>11 DEF RefreshFails, ToReturn
<1>12. CASE Receive(c)
  BY <1>12 DEF Receive, Effects, Same, ToEffect
<1>13. CASE RequestFails(c)
  BY <1>13 DEF RequestFails, Same, ToReturn
<1>14. CASE IssueToken(c)
  BY <1>14 DEF IssueToken, Same
<1>15. CASE ExchangeFails(c)
  BY <1>15 DEF ExchangeFails, Same, ToReturn
<1>16. CASE LateExecute(c)
  BY <1>16 DEF LateExecute, ToEffect
<1>17. CASE CancelTask(c)
  BY <1>17 DEF CancelTask, ToReturn
<1> QED
  BY <1>1, <1>2, <1>3, <1>4, <1>5, <1>6, <1>7, <1>8, <1>9, <1>10, <1>11,
     <1>12, <1>13, <1>14, <1>15, <1>16, <1>17
     DEF StepOf, ClientStep, NetworkStep

\* The initial state maps to the initial state of the contract.
LEMMA ContractInit == Init => Contract!Init
BY DEF Init, Contract!Init, Phase, Outcome, Actors

\* If no call changes as its caller sees it, the contract stutters.
LEMMA ContractStutter ==
  ASSUME \A c \in Calls : Same(c)
  PROVE  UNCHANGED Contract!vars
BY DEF Same, Contract!vars

\* One call making a contract step while the others stay is a contract step.
LEMMA ContractAction ==
  ASSUME NEW c \in Calls, ToContract(c), \A d \in Calls : d # c => Same(d)
  PROVE  [Contract!Next]_(Contract!vars)
<1> USE DEF Same
<1>1. CASE Same(c)
  BY <1>1, ContractStutter
<1>2. CASE ToSend(c)
  BY <1>2 DEF ToSend, Contract!Next, Contract!Send
<1>3. CASE ToEffect(c)
  BY <1>3 DEF ToEffect, Contract!Next, Contract!Effect
<1>4. CASE ToExchange(c)
  BY <1>4 DEF ToExchange, Contract!Next, Contract!Exchange
<1>5. CASE ToReturn(c)
  BY <1>5 DEF ToReturn, Contract!Next, Contract!Return
<1> QED
  BY <1>1, <1>2, <1>3, <1>4, <1>5 DEF ToContract

\* A call that keeps its state is the same to the contract.
LEMMA StillSame == \A c \in Calls : Still(c) => Same(c)
BY DEF Still, Same, Phase, Outcome

\* Every step is a step of the contract or a stutter.
LEMMA ContractNext ==
  IInv /\ [Next]_vars => [Contract!Next]_(Contract!vars)
<1> SUFFICES ASSUME IInv, [Next]_vars
             PROVE  [Contract!Next]_(Contract!vars)
  OBVIOUS
<1> TypeInv /\ TypeOK /\ CountInv /\ Calls \subseteq Actors
  BY DEF IInv, TypeInv, Actors
<1>1. CASE \E c \in Calls : StepOf(c)
  <2> PICK c \in Calls : StepOf(c)
    BY <1>1
  <2>1. \A d \in Calls : d # c => Same(d)
    BY OthersStill, StillSame
  <2> QED
    BY <2>1, StepToContract, ContractAction
<1>2. CASE ~ \E c \in Calls : StepOf(c)
  BY <1>2, OneActor, StillSame, ContractStutter
<1> QED
  BY <1>1, <1>2

\* Every behaviour of either client is a behaviour of the contract: bounded
\* transmissions, one exchange per call, an effect behind every success.
THEOREM ContractHolds == Spec => ImplementsContract
BY InvInit, InvNext, ContractInit, ContractNext, PTL
   DEF Spec, ImplementsContract, Contract!Spec

-----------------------------------------------------------------------------
(* How many steps a call takes.                                            *)

\* The places of the loop are numbered, and the retry budget is a number.
LEMMA PlaceType == MaxRetries \in Nat /\ \A l \in PC : Place(l) \in 0..11
BY PyAssumption DEF PC, Place

\* What is left to do is a number.
LEMMA WorkType == TypeInv => WorkIsBounded
<1> SUFFICES ASSUME TypeInv, NEW a \in Actors
             PROVE  Work(a) \in 0..(11 * (MaxRetries + 1))
  BY DEF WorkIsBounded
<1>1. pc[a] \in PC /\ Place(pc[a]) \in 0..11
  BY PlaceType DEF TypeInv, TypeOK
<1>2. pc[a] # "done" => attempt[a] \in 0..MaxRetries
  BY PlaceType DEF TypeInv, TypeOK, AttemptInv
<1> QED
  BY <1>1, <1>2, PlaceType DEF Work

\* Every step of a call, or of the network for it, leaves it less to do.
LEMMA WorkStep ==
  ASSUME TypeInv, NEW a \in Actors, ClientStep(a) \/ NetworkStep(a)
  PROVE  Work(a)' < Work(a)
<1> MaxRetries \in Nat
  BY PlaceType
<1> USE DEF TypeInv, TypeOK, AttemptInv, Work, Place, Goto, Finish, Transmit, loopVars,
            authVars, serverVars
<1>1. CASE Begin(a)
  BY <1>1 DEF Begin
<1>2. CASE BuildFails(a)
  BY <1>2 DEF BuildFails
<1>3. CASE HandleSuccess(a)
  BY <1>3 DEF HandleSuccess
<1>4. CASE HandleUnauthorized(a)
  BY <1>4 DEF HandleUnauthorized
<1>5. CASE HandleFailure(a)
  BY <1>5 DEF HandleFailure, Retries, AttemptsLeft
<1>6. CASE Wake(a)
  BY <1>6 DEF Wake
<1>7. CASE Authenticate(a)
  BY <1>7 DEF Authenticate
<1>8. CASE BeginRefresh(a)
  BY <1>8 DEF BeginRefresh
<1>9. CASE StoreToken(a)
  BY <1>9 DEF StoreToken
<1>10. CASE Resume(a)
  BY <1>10 DEF Resume, AttemptsLeft
<1>11. CASE RefreshFails(a)
  BY <1>11 DEF RefreshFails
<1>12. CASE Receive(a)
  BY <1>12 DEF Receive
<1>13. CASE RequestFails(a)
  BY <1>13 DEF RequestFails, AttemptsLeft
<1>14. CASE IssueToken(a)
  BY <1>14 DEF IssueToken
<1>15. CASE ExchangeFails(a)
  BY <1>15 DEF ExchangeFails
<1> QED
  BY <1>1, <1>2, <1>3, <1>4, <1>5, <1>6, <1>7, <1>8, <1>9, <1>10, <1>11, <1>12, <1>13, <1>14, <1>15
     DEF ClientStep, NetworkStep

\* The variant: a call or login of either client is done after
\* 11 * (MaxRetries + 1) steps of its own and the network's.
THEOREM CallsWindDown == Spec => []WorkIsBounded /\ WorkFalls
<1>1. TypeInv /\ [Next]_vars =>
        [\A a \in Actors :
           /\ ClientStep(a) \/ NetworkStep(a) => Work(a)' < Work(a)
           /\ Work(a)' <= Work(a)]_vars
  <2> SUFFICES ASSUME TypeInv, [Next]_vars, NEW a \in Actors
               PROVE  /\ ClientStep(a) \/ NetworkStep(a) => Work(a)' < Work(a)
                      /\ Work(a)' <= Work(a)
    OBVIOUS
  <2>1. Work(a) \in Nat /\ Work(a)' \in Nat
    <3>1. WorkIsBounded /\ WorkIsBounded'
      BY TypeNext, WorkType, PTL
    <3> QED
      BY <3>1, PlaceType DEF WorkIsBounded
  <2>2. CASE ClientStep(a) \/ NetworkStep(a)
    BY <2>1, <2>2, WorkStep
  <2>3. CASE LateExecute(a) \/ Still(a)
    <3>1. Work(a)' = Work(a)
      BY <2>3 DEF LateExecute, Still, loopVars, Work
    <3> QED
      BY <2>1, <2>2, <3>1
  <2>4. CASE CancelTask(a)
    <3>1. pc'[a] = "done"
      BY <2>4 DEF CancelTask, Finish, TypeInv, TypeOK
    <3>2. Work(a)' = 0
      BY <3>1 DEF Work
    <3> QED
      BY <2>1, <2>2, <3>2
  <2> QED
    BY <2>2, <2>3, <2>4, OneActor DEF StepOf, TypeInv
<1>2. TypeInv => WorkIsBounded
  BY WorkType
<1> QED
  BY <1>1, <1>2, TypeInit, TypeNext, PTL DEF Spec, WorkFalls

-----------------------------------------------------------------------------
(* What a request to the node carries.                                     *)

\* A key that was sent next to no token stays the one that was refused without.
LEMMA KeyNext == IInv /\ KeyInv /\ [Next]_vars => KeyInv'
<1> SUFFICES ASSUME IInv, KeyInv, [Next]_vars, ~async', NEW c \in NodeCalls
             PROVE  KeyOK(c)'
  BY DEF KeyInv, KeyOK
<1> c \in Calls /\ c \in Actors /\ TypeOK
  BY PyAssumption DEF Actors, IInv
<1> ~async /\ (tokenless => tokenless')
  BY DEF Next, vars, StepOf, ClientStep, NetworkStep, Begin, BuildFails, HandleSuccess,
         HandleUnauthorized, HandleFailure, Wake, Authenticate, BeginRefresh,
         StoreToken, Resume, RefreshFails, Receive, RequestFails, IssueToken,
         ExchangeFails, LateExecute, CancelTask, Expire, authVars
<1> KeyOK(c)
  BY DEF KeyInv, KeyOK
<1> USE DEF KeyOK, IInv, TypeOK, Header, Goto, Finish, Transmit, loopVars, authVars, serverVars
<1>1. CASE Begin(c)
  <2>1. hdr'[c] = AuthHeaders(c) /\ refreshed'[c] = refreshed[c] /\ pc[c] = "idle"
        /\ pc'[c] = "wire"
    BY <1>1 DEF Begin
  <2>2. AuthHeaders(c).key => AuthHeaders(c).bearer = 0
    BY DEF AuthHeaders, DropsKey
  <2> QED
    BY <2>1, <2>2
<1>2. CASE BuildFails(c)
  BY <1>2 DEF BuildFails
<1>3. CASE HandleSuccess(c)
  BY <1>3 DEF HandleSuccess
<1>4. CASE HandleUnauthorized(c)
  BY <1>4 DEF HandleUnauthorized, MayRefresh
<1>5. CASE HandleFailure(c)
  BY <1>5 DEF HandleFailure
<1>6. CASE Wake(c)
  BY <1>6 DEF Wake
<1>7. CASE Authenticate(c)
  BY <1>7 DEF Authenticate
<1>8. CASE BeginRefresh(c)
  BY <1>8 DEF BeginRefresh
<1>9. CASE StoreToken(c)
  BY <1>9 DEF StoreToken
<1>10. CASE Resume(c)
  <2>1. hdr'[c] = UpdatedHeaders(c) /\ refreshed'[c] = refreshed[c]
        /\ refused'[c] = refused[c] /\ tokenless' = tokenless /\ async' = async
        /\ pc'[c] # "idle"
    BY <1>10 DEF Resume
  <2>2. refreshed[c] /\ (token = 0 => tokenless)
    BY <1>10 DEF Resume, CountInv, CountOK, TokenInv
  <2>3. UpdatedHeaders(c).key => hdr[c].key \/ token = 0
    BY DEF UpdatedHeaders, AuthHeaders, DropsKey
  <2> QED
    BY <2>1, <2>2, <2>3
<1>11. CASE RefreshFails(c)
  BY <1>11 DEF RefreshFails
<1>12. CASE Receive(c)
  BY <1>12 DEF Receive
<1>13. CASE RequestFails(c)
  BY <1>13 DEF RequestFails
<1>14. CASE IssueToken(c)
  BY <1>14 DEF IssueToken
<1>15. CASE ExchangeFails(c)
  BY <1>15 DEF ExchangeFails
<1>16. CASE LateExecute(c)
  BY <1>16 DEF LateExecute
<1>17. CASE CancelTask(c)
  BY <1>17 DEF CancelTask
<1>18. CASE Still(c)
  BY <1>18 DEF Still
<1> QED
  BY <1>1, <1>2, <1>3, <1>4, <1>5, <1>6, <1>7, <1>8, <1>9, <1>10, <1>11, <1>12, <1>13, <1>14, <1>15, <1>16, <1>17, <1>18,
     OneActor DEF StepOf, ClientStep, NetworkStep

\* The comment on _auth_headers fails only so: for every set of calls, a request of
\* the threaded client carries a token next to the key only as a replay, of a call
\* that was refused without a token or after an exchange that brought none.
THEOREM NodeSeesBothOnlyOnReplay == Spec => []BothOnlyOnReplay
<1>1. Init => KeyInv
  BY PyAssumption DEF Init, KeyInv, KeyOK, Actors
<1>2. KeyInv => BothOnlyOnReplay
  BY DEF KeyInv, KeyOK, BothOnlyOnReplay
<1> QED
  BY <1>1, <1>2, Invariance, KeyNext, PTL DEF Spec
=============================================================================
