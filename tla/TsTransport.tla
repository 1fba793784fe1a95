---------------------------- MODULE TsTransport -----------------------------
(***************************************************************************)
(* The TypeScript SDK's transport (typescript/src/transport.ts, auth.ts):   *)
(* concurrent calls of one client on one event loop.  A step runs from one  *)
(* await to the next, so the calls interleave at every fetch, sleep and     *)
(* refresh.  The key exchange is single-flight: the first call that is      *)
(* refused starts it, with its own AbortSignal; the others wait for it.     *)
(*                                                                         *)
(* Tokens are numbered in the order they are issued, 0 is no token.         *)
(***************************************************************************)
EXTENDS Naturals

CONSTANTS
  Calls,        (* calls made through the transport                        *)
  NoCall,       (* no call leads a refresh                                 *)
  Kind,         (* "send" (JSON, multipart), "blob" or "stream", per call  *)
  Cancellable,  (* calls given an AbortSignal by the application           *)
  HasKey,       (* the client was given an API key                         *)
  HasJWT,       (* ... an access token                                     *)
  MaxRetries,   (* TransportOptions.maxRetries                             *)
  Statuses      (* HTTP statuses the servers answer with                   *)

ASSUME TsAssumption ==
  /\ NoCall \notin Calls
  /\ Kind \in [Calls -> {"send", "blob", "stream"}]
  /\ Cancellable \subseteq Calls
  /\ {HasKey, HasJWT} \subseteq BOOLEAN
  /\ HasKey \/ HasJWT
  /\ MaxRetries \in Nat
  /\ Statuses \subseteq 200..599

VARIABLES
  jwt,        (* state.jwt                                                 *)
  inflight,   (* the call whose exchange is inflightRefresh                *)
  issued,     (* the newest token the control plane has issued             *)
  expired,    (* the newest token that is no longer accepted               *)
  pc,         (* where each call is                                        *)
  attempt,    (* the loop's attempt                                        *)
  didRefresh, (* the loop's didRefresh                                     *)
  bearer,     (* the token in init.headers                                 *)
  reply,      (* the status of the response being handled                  *)
  fresh,      (* the token the exchange of the call answered with          *)
  refused,    (* history: the tokens the call was answered 401 for         *)
  signal,     (* when the signal of the call fired, and whose              *)
  result,     (* what the promise settled to, "nil" for fulfilled          *)
  sends,      (* history: requests handed to the network                   *)
  executed,   (* history: requests the server acted upon                   *)
  stray,      (* requests the client gave up on that may still arrive      *)
  exchanges   (* history: exchanges the call started                       *)

loopVars   == <<attempt, didRefresh, bearer, reply, refused>>
authVars   == <<jwt, inflight, issued, expired, fresh>>
serverVars == <<executed, stray>>
vars == <<jwt, inflight, issued, expired, pc, attempt, didRefresh, bearer, reply,
          fresh, refused, signal, result, sends, executed, stray, exchanges>>

-----------------------------------------------------------------------------
(* Errors.  "raw" is an error that is not one of the SDK's classes.         *)

ErrorClass == {"Auth", "Validation", "NotFound", "RateLimit", "Server",
               "Failure", "Network", "raw"}

OKStatus(s) == s \in 200..299

fromHTTP(s) ==
  IF s \in {401, 403} THEN "Auth"
  ELSE IF s = 404 THEN "NotFound"
  ELSE IF s = 429 THEN "RateLimit"
  ELSE IF s \in 400..499 THEN "Validation"
  ELSE IF s >= 500 THEN "Server"
  ELSE "Failure"

isRetryable(e) == e \in {"Network", "Server", "RateLimit"}

-----------------------------------------------------------------------------
(* Types and initial state.                                                *)

PC == {"idle", "wire", "dead", "reply", "sleep", "exchange", "issued",
       "noexchange", "wait", "resume", "authRejected", "rawRejected", "done"}

\* What each variable ranges over; one replay may follow the last retry.
TypeOK ==
  /\ jwt \in Nat
  /\ inflight \in Calls \cup {NoCall}
  /\ issued \in Nat
  /\ expired \in Nat
  /\ pc \in [Calls -> PC]
  /\ attempt \in [Calls -> 0..(MaxRetries + 2)]
  /\ didRefresh \in [Calls -> BOOLEAN]
  /\ bearer \in [Calls -> Nat]
  /\ reply \in [Calls -> Statuses \cup {0}]
  /\ fresh \in [Calls -> Nat]
  /\ refused \in [Calls -> SUBSET Nat]
  /\ signal \in [Calls -> {"quiet", "early", "caller", "deadline"}]
  /\ result \in [Calls -> ErrorClass \cup {"none", "nil"}]
  /\ sends \in [Calls -> Nat]
  /\ executed \in [Calls -> Nat]
  /\ stray \in [Calls -> Nat]
  /\ exchanges \in [Calls -> Nat]

Init ==
  /\ jwt = IF HasJWT THEN 1 ELSE 0
  /\ inflight = NoCall
  /\ issued = jwt
  /\ expired = 0
  /\ pc = [c \in Calls |-> "idle"]
  /\ attempt = [c \in Calls |-> 0]
  /\ didRefresh = [c \in Calls |-> FALSE]
  /\ bearer = [c \in Calls |-> 0]
  /\ reply = [c \in Calls |-> 0]
  /\ fresh = [c \in Calls |-> 0]
  /\ refused = [c \in Calls |-> {}]
  /\ signal = [c \in Calls |-> "quiet"]
  /\ result = [c \in Calls |-> "none"]
  /\ sends = [c \in Calls |-> 0]
  /\ executed = [c \in Calls |-> 0]
  /\ stray = [c \in Calls |-> 0]
  /\ exchanges = [c \in Calls |-> 0]

-----------------------------------------------------------------------------
(* Helpers of the actions.                                                 *)

Goto(c, l) == /\ pc' = [pc EXCEPT ![c] = l]
              /\ UNCHANGED result

Finish(c, e) == /\ pc' = [pc EXCEPT ![c] = "done"]
                /\ result' = [result EXCEPT ![c] = e]

AttemptsLeft(c) == attempt[c] <= MaxRetries

Loops(c) == Kind[c] = "send"

\* The bug of a call that has a deadline but does not listen to its caller.
DeadlineOnly(c) == signal[c] = "deadline"

\* The AbortController of the call has fired: by the timer of send(), or by its
\* caller's signal, which is listened to and not looked at ("early" goes unnoticed),
\* and which getBlob ignores.
SignalFired(c) ==
  signal[c] = "deadline" \/ (signal[c] = "caller" /\ Kind[c] # "blob")

\* attempt += 1 and fetch, which rejects at once if the signal has fired.
Fetch(c) ==
  /\ attempt' = [attempt EXCEPT ![c] = @ + 1]
  /\ \/ SignalFired(c) /\ Goto(c, "dead") /\ UNCHANGED sends
     \/ ~SignalFired(c) /\ Goto(c, "wire") /\ sends' = [sends EXCEPT ![c] = @ + 1]

Live(t) == t > expired

\* External: a server acts only on a request with a credential it may accept.
Acceptable(c) == Live(bearer[c]) \/ HasKey

-----------------------------------------------------------------------------
(* The retry loop.                                                         *)

\* The call starts: headers from the auth state, a new AbortController.
Begin(c) ==
  /\ pc[c] = "idle"
  /\ bearer' = [bearer EXCEPT ![c] = jwt]
  /\ Fetch(c)
  /\ UNCHANGED <<didRefresh, reply, refused, authVars, serverVars, signal, exchanges>>

\* The body cannot be turned into JSON: nothing is sent.
BuildFails(c) ==
  /\ pc[c] = "idle" /\ Kind[c] # "blob"
  /\ Finish(c, "raw")
  /\ UNCHANGED <<loopVars, authVars, serverVars, signal, sends, exchanges>>

\* External: a live bearer token is never answered 401.
MayAnswer(c, s) ==
  /\ s = 401 => ~Live(bearer[c])
  /\ OKStatus(s) => Acceptable(c)

\* External: a 2xx was acted upon, a 4xx was not, a 5xx may have been.
Effects(s) ==
  IF OKStatus(s) THEN {1} ELSE IF s >= 500 THEN {0, 1} ELSE {0}

Receive(c) ==
  /\ pc[c] = "wire"
  /\ \E s \in Statuses : \E n \in Effects(s) :
        /\ MayAnswer(c, s)
        /\ reply' = [reply EXCEPT ![c] = s]
        /\ executed' = [executed EXCEPT ![c] = @ + n]
  /\ Goto(c, "reply")
  /\ UNCHANGED <<attempt, didRefresh, bearer, refused, authVars, stray, signal,
                 sends, exchanges>>

\* fetch rejects, on a network failure or an abort: send() retries a
\* VxNetworkError, the other methods let the error of fetch escape.  A request
\* that is out may still reach the server.
FetchRejects(c) ==
  /\ pc[c] \in {"wire", "dead", "reply"}
  /\ \/ Loops(c) /\ AttemptsLeft(c) /\ Goto(c, "sleep")
     \/ Loops(c) /\ ~AttemptsLeft(c) /\ Finish(c, "Network")
     \/ ~Loops(c) /\ Finish(c, "raw")
  /\ stray' = [stray EXCEPT ![c] =
       IF pc[c] = "wire" /\ Acceptable(c) THEN @ + 1 ELSE @]
  /\ UNCHANGED <<loopVars, authVars, executed, signal, sends, exchanges>>

\* External: the server acts on a request nobody waits for any more.
LateExecute(c) ==
  /\ stray[c] > 0
  /\ stray' = [stray EXCEPT ![c] = @ - 1]
  /\ executed' = [executed EXCEPT ![c] = @ + 1]
  /\ UNCHANGED <<loopVars, authVars, pc, signal, result, sends, exchanges>>

\* A body that is not JSON may fail to be read; broken JSON reads as null.
HandleSuccess(c) ==
  /\ pc[c] = "reply" /\ OKStatus(reply[c])
  /\ \E e \in {"nil", "raw"} : Finish(c, e)
  /\ UNCHANGED <<loopVars, authVars, serverVars, signal, sends, exchanges>>

\* The bug of refreshing on every 401 instead of once per call.
RefreshAlways(c) == reply[c] = 401 /\ Loops(c) /\ HasKey

MayRefresh(c) == reply[c] = 401 /\ Loops(c) /\ ~didRefresh[c] /\ HasKey

Retries(c, e) == Loops(c) /\ isRetryable(e) /\ AttemptsLeft(c)

\* getBlob throws a plain Error; reading the error body may throw too.
HandleFailure(c) ==
  LET e == fromHTTP(reply[c]) IN
  /\ pc[c] = "reply" /\ ~OKStatus(reply[c]) /\ ~MayRefresh(c)
  /\ \/ Retries(c, e) /\ Goto(c, "sleep")
     \/ ~Retries(c, e) /\ Kind[c] # "blob" /\ Finish(c, e)
     \/ Kind[c] # "stream" /\ Finish(c, "raw")
  /\ UNCHANGED <<loopVars, authVars, serverVars, signal, sends, exchanges>>

\* The sleep is not tied to the signal.
Wake(c) ==
  /\ pc[c] = "sleep"
  /\ Fetch(c)
  /\ UNCHANGED <<didRefresh, bearer, reply, refused, authVars, serverVars, signal,
                 exchanges>>

-----------------------------------------------------------------------------
(* The single-flight refresh.                                              *)

\* The bug of starting an exchange without looking for one in flight.
NeverJoins(c) == FALSE

Joins(c) == inflight # NoCall

\* A 401: wait for the exchange in flight, or start one with this call's signal.
HandleUnauthorized(c) ==
  /\ pc[c] = "reply" /\ MayRefresh(c)
  /\ refused' = [refused EXCEPT ![c] = @ \cup {bearer[c]}]
  /\ \/ Joins(c) /\ Goto(c, "wait") /\ UNCHANGED <<inflight, exchanges>>
     \/ /\ ~Joins(c) /\ SignalFired(c)
        /\ inflight' = c /\ Goto(c, "noexchange") /\ UNCHANGED exchanges
     \/ /\ ~Joins(c) /\ ~SignalFired(c)
        /\ inflight' = c /\ Goto(c, "exchange")
        /\ exchanges' = [exchanges EXCEPT ![c] = @ + 1]
  /\ UNCHANGED <<attempt, didRefresh, bearer, reply, jwt, issued, expired, fresh,
                 serverVars, signal, sends>>

\* External: the control plane accepts the key and issues a token.
IssueToken(c) ==
  /\ pc[c] = "exchange"
  /\ issued' = issued + 1
  /\ fresh' = [fresh EXCEPT ![c] = issued + 1]
  /\ Goto(c, "issued")
  /\ UNCHANGED <<loopVars, jwt, inflight, expired, serverVars, signal, sends,
                 exchanges>>

\* The bug of resuming only the call that started the exchange.
LeaderOnly(c) == {c}

\* The calls that await the exchange of c.
Party(c) == {c} \cup {d \in Calls : pc[d] = "wait"}

\* The token is stored, inflightRefresh cleared, and every waiting call resumes.
StoreToken(c) ==
  /\ pc[c] = "issued"
  /\ jwt' = fresh[c]
  /\ inflight' = NoCall
  /\ pc' = [d \in Calls |-> IF d \in Party(c) THEN "resume" ELSE pc[d]]
  /\ UNCHANGED <<loopVars, issued, expired, fresh, serverVars, signal, result, sends,
                 exchanges>>

\* The exchange is refused or answers without a token, or its fetch rejects:
\* the promise that every waiting call awaits is rejected.
ExchangeFails(c) ==
  /\ pc[c] \in {"exchange", "issued", "noexchange"}
  /\ inflight' = NoCall
  /\ \E l \in {"authRejected", "rawRejected"} :
        /\ pc[c] = "noexchange" => l = "rawRejected"
        /\ pc' = [d \in Calls |-> IF d \in Party(c) THEN l ELSE pc[d]]
  /\ UNCHANGED <<loopVars, jwt, issued, expired, fresh, serverVars, signal, result,
                 sends, exchanges>>

\* The call fails with the error of the exchange, not with its own 401.
RefreshRejects(c) ==
  /\ \/ pc[c] = "authRejected" /\ Finish(c, "Auth")
     \/ pc[c] = "rawRejected" /\ Finish(c, "raw")
  /\ UNCHANGED <<loopVars, authVars, serverVars, signal, sends, exchanges>>

\* The bug of replaying with the headers the call started with.
OldHeaders(c) == bearer[c]

NewHeaders(c) == IF jwt # 0 THEN jwt ELSE bearer[c]

\* The refreshed call is replayed, whatever its attempt.
Resume(c) ==
  /\ pc[c] = "resume"
  /\ didRefresh' = [didRefresh EXCEPT ![c] = TRUE]
  /\ bearer' = [bearer EXCEPT ![c] = NewHeaders(c)]
  /\ Fetch(c)
  /\ UNCHANGED <<reply, refused, authVars, serverVars, signal, exchanges>>

-----------------------------------------------------------------------------
(* The environment.                                                        *)

\* The timer of send() fires.
Deadline(c) ==
  /\ Kind[c] = "send" /\ ~SignalFired(c) /\ pc[c] \notin {"idle", "done"}
  /\ signal' = [signal EXCEPT ![c] = "deadline"]
  /\ UNCHANGED <<loopVars, authVars, serverVars, pc, result, sends, exchanges>>

\* The application aborts the signal it gave, before the call has begun or later.
CallerAborts(c) ==
  /\ c \in Cancellable /\ signal[c] = "quiet" /\ pc[c] # "done"
  /\ signal' = [signal EXCEPT ![c] = IF pc[c] = "idle" THEN "early" ELSE "caller"]
  /\ UNCHANGED <<loopVars, authVars, serverVars, pc, result, sends, exchanges>>

Abort(c) == Deadline(c) \/ CallerAborts(c)

\* The oldest accepted token expires (or is revoked).
Expire ==
  /\ expired < issued
  /\ expired' = expired + 1
  /\ UNCHANGED <<loopVars, jwt, inflight, issued, fresh, serverVars, pc, signal,
                 result, sends, exchanges>>

\* Steps of the event loop that need nothing from the network.
LoopStep(c) ==
  \/ Begin(c) \/ BuildFails(c) \/ HandleSuccess(c) \/ HandleUnauthorized(c)
  \/ HandleFailure(c) \/ Wake(c) \/ StoreToken(c) \/ Resume(c)
  \/ RefreshRejects(c)

NetworkStep(c) ==
  Receive(c) \/ FetchRejects(c) \/ IssueToken(c) \/ ExchangeFails(c)

Next ==
  \/ \E c \in Calls :
       LoopStep(c) \/ NetworkStep(c) \/ LateExecute(c) \/ Abort(c)
  \/ Expire

Spec == Init /\ [][Next]_vars

\* Timers fire, and a fetch whose signal has fired rejects; nothing is assumed
\* of the network.
FairSpec ==
  /\ Spec
  /\ \A c \in Calls :
       /\ WF_vars(LoopStep(c))
       /\ WF_vars(Deadline(c))
       /\ WF_vars(SignalFired(c) /\ (FetchRejects(c) \/ ExchangeFails(c)))

-----------------------------------------------------------------------------
(* Properties.                                                             *)

\* There is one key exchange at a time, the one inflightRefresh names, and no
\* call waits for an exchange that is not there: a waiter nobody will wake would
\* hang for ever, its own deadline notwithstanding.
SingleFlight ==
  \A c \in Calls :
    /\ pc[c] \in {"exchange", "issued", "noexchange"} <=> inflight = c
    /\ pc[c] = "wait" => inflight # NoCall

\* A call is replayed only with another token than the one it was refused for,
\* whoever led the refresh.
ReplayUsesAnotherToken ==
  \A c \in Calls : pc[c] = "wire" => bearer[c] \notin refused[c]

\* A call of send() settles even if no server ever answers: its deadline aborts
\* what it awaits, and the call it waits for has a deadline too.
SendSettles ==
  <>(\A c \in Calls : Kind[c] = "send" => pc[c] = "done")

\* A call that is aborted under way, by its caller or its deadline, settles though no
\* server ever answers: from some moment on no such call is open.  (Nothing is
\* promised of a signal aborted before the call: nobody looks at it.)
AbortSettles ==
  <>[](\A c \in Calls :
         signal[c] \in {"caller", "deadline"} /\ Kind[c] # "blob" => pc[c] = "done")

\* The call as its caller sees it.
Outcome(c) ==
  IF result[c] = "none" THEN "none"
  ELSE IF result[c] = "nil" THEN "success" ELSE "failure"

Phase(c) ==
  IF pc[c] = "idle" THEN "idle" ELSE IF pc[c] = "done" THEN "closed" ELSE "open"

Contract == INSTANCE WireContract WITH
  Budget    <- MaxRetries + 2,
  phase     <- [c \in Calls |-> Phase(c)],
  sends     <- [c \in Calls |-> sends[c]],
  effects   <- [c \in Calls |-> executed[c]],
  exchanges <- [c \in Calls |-> exchanges[c]],
  outcome   <- [c \in Calls |-> Outcome(c)]

\* The transport implements the contract of one call with one transmission more
\* than the Go transport: the replay after a refresh is not an attempt.
ImplementsContract == Contract!Spec

-----------------------------------------------------------------------------
(* The inductive invariant behind the theorems of TsTransportProofs.       *)

Refreshing == {"exchange", "issued", "noexchange", "wait", "resume"}

\* Only the replay may be one attempt beyond the last retry, and it comes once.
AttemptOK(c) ==
  /\ ~didRefresh[c] => attempt[c] <= MaxRetries + 1
  /\ pc[c] = "idle" => attempt[c] = 0
  /\ pc[c] = "sleep" => attempt[c] <= MaxRetries
  /\ pc[c] \in Refreshing => ~didRefresh[c]

AttemptInv == \A c \in Calls : AttemptOK(c)

\* A token that was issued but not stored yet has been seen by nobody.
TokenInv ==
  /\ jwt <= issued
  /\ \A c \in Calls : bearer[c] <= issued /\ \A t \in refused[c] : t <= issued
  /\ \A c \in Calls : pc[c] = "issued" =>
       /\ fresh[c] # 0 /\ fresh[c] <= issued /\ fresh[c] # jwt
       /\ \A d \in Calls : bearer[d] # fresh[c] /\ fresh[c] \notin refused[d]
  /\ \A c \in Calls : pc[c] = "resume" => jwt # 0 /\ jwt \notin refused[c]
  /\ \A c \in Calls : pc[c] = "idle" => refused[c] = {}
  /\ \A c \in Calls : pc[c] \in {"wire", "dead", "reply", "sleep"} =>
       bearer[c] \notin refused[c]

OnWire(c) == IF pc[c] = "wire" THEN 1 ELSE 0

\* Every effect has its transmission, every transmission its attempt, every
\* exchange the one refresh of its call.
CountOK(c) ==
  /\ executed[c] + stray[c] + OnWire(c) <= sends[c]
  /\ sends[c] <= attempt[c]
  /\ exchanges[c] <= 1
  /\ pc[c] \in {"idle", "wire", "dead", "reply", "sleep"} /\ ~didRefresh[c] =>
       exchanges[c] = 0
  /\ pc[c] = "done" <=> result[c] # "none"
  /\ pc[c] = "reply" /\ OKStatus(reply[c]) => executed[c] > 0

CountInv == \A c \in Calls : CountOK(c)

\* The inductive invariant: the loops of all calls, the exchange they share and
\* the tokens it brings.
IInv == TypeOK /\ AttemptInv /\ SingleFlight /\ TokenInv /\ CountInv

\* The variant behind SendSettles: the places of the loop in the order it passes
\* them, once per attempt.
Place(l) ==
  IF l = "idle" THEN 11 ELSE IF l \in {"wire", "dead"} THEN 10
  ELSE IF l = "reply" THEN 9 ELSE IF l = "exchange" THEN 8 ELSE IF l = "issued" THEN 7
  ELSE IF l = "noexchange" THEN 6 ELSE IF l = "wait" THEN 5 ELSE IF l = "resume" THEN 4
  ELSE IF l = "sleep" THEN 3 ELSE IF l \in {"authRejected", "rawRejected"} THEN 2 ELSE 0

Work(c) ==
  IF pc[c] = "done" THEN 0 ELSE 11 * (MaxRetries + 2 - attempt[c]) + Place(pc[c])

\* A call takes at most 11 * (MaxRetries + 3) steps, those of the network for it
\* included: each leaves less to do, and no other step, not even the end of an
\* exchange it shares, gives it more.
WorkIsBounded == \A c \in Calls : Work(c) \in 0..(11 * (MaxRetries + 3))

WorkFalls ==
  [][\A c \in Calls :
       /\ LoopStep(c) \/ NetworkStep(c) => Work(c)' < Work(c)
       /\ Work(c)' <= Work(c)]_vars
=============================================================================
