---------------------------- MODULE GoTransport -----------------------------
(***************************************************************************)
(* The Go SDK's HTTP layer (transport/transport.go, transport/multipart.go) *)
(* over the shared credential state of one Client (client.go), used by      *)
(* several goroutines at once.                                             *)
(*                                                                         *)
(* Each call runs the retry loop of JSONWithHeaders, MultipartWithHeaders,  *)
(* BytesWithHeaders or the single exchange of StreamJSON; each login is a   *)
(* direct Client.Authenticate.  The lock-protected sections of client.go    *)
(* are single actions; what runs between them (an HTTP round trip, a sleep, *)
(* the key exchange) is not, so the calls interleave there.                 *)
(*                                                                         *)
(* Tokens are numbered in the order the control plane issues them; 0 is no  *)
(* token.  Tokens expire oldest first.                                      *)
(***************************************************************************)
EXTENDS Naturals

CONSTANTS
  Calls,        (* calls made through the transport                        *)
  Logins,       (* direct calls of Client.Authenticate                     *)
  Kind,         (* which transport method each call uses                   *)
  NodeCalls,    (* calls whose URL starts with the configured NodeURL      *)
  Cancellable,  (* calls and logins whose context the caller may cancel    *)
  HasKey,       (* the client was given an API key                         *)
  HasJWT,       (* ... an access token                                     *)
  HasUsername,  (* ... the username the key belongs to                     *)
  MaxRetries,   (* Transport.MaxRetries after the zero default             *)
  Statuses      (* HTTP statuses the servers answer with                   *)

Actors == Calls \cup Logins

ASSUME GoAssumption ==
  /\ Calls \cap Logins = {}
  /\ Kind \in [Calls -> {"json", "multipart", "bytes", "stream"}]
  /\ NodeCalls \subseteq Calls
  /\ Cancellable \subseteq Actors
  /\ {HasKey, HasJWT, HasUsername} \subseteq BOOLEAN
  /\ HasKey \/ HasJWT
  /\ MaxRetries \in Nat \ {0}
  /\ Statuses \subseteq 200..599

VARIABLES
  client,     (* Client.state: current access token, is the username known *)
  issued,     (* the newest token the control plane has issued             *)
  expired,    (* the newest token that is no longer accepted               *)
  pc,         (* where each actor is                                       *)
  attempt,    (* the loop variable of the retry loop                       *)
  refreshed,  (* the call has used its one refresh                         *)
  lastErr,    (* the loop's lastErr                                        *)
  hdr,        (* credential headers of the request object                  *)
  reply,      (* the status of the response being handled                  *)
  fresh,      (* the token the exchange answered with                      *)
  refused,    (* history: the bearer tokens the call was answered 401 for  *)
  cancelled,  (* the caller cancelled the context                          *)
  result,     (* the error the actor returned, "nil" for none              *)
  sends,      (* history: requests handed to the network                   *)
  executed,   (* history: requests the server acted upon                   *)
  stray,      (* requests the client gave up on that may still arrive      *)
  exchanges   (* history: exchanges of the API key                         *)

loopVars   == <<attempt, refreshed, refused, lastErr, hdr, reply>>
authVars   == <<client, issued, expired, fresh>>
serverVars == <<executed, stray>>
vars == <<client, issued, expired, pc, attempt, refreshed, lastErr, hdr, reply,
          fresh, refused, cancelled, result, sends, executed, stray, exchanges>>

-----------------------------------------------------------------------------
(* Errors.                                                                 *)

ErrorClass == {"Auth", "Validation", "NotFound", "RateLimit", "Server",
               "Failure", "Network", "ctx"}

OKStatus(s) == s \in 200..299

FromHTTP(s) ==
  IF s \in {401, 403} THEN "Auth"
  ELSE IF s \in {400, 422} THEN "Validation"
  ELSE IF s = 404 THEN "NotFound"
  ELSE IF s = 429 THEN "RateLimit"
  ELSE IF s >= 500 THEN "Server"
  ELSE "Failure"

IsRetryable(e) == e \in {"Network", "Server", "RateLimit"}

-----------------------------------------------------------------------------
(* Types and initial state.                                                *)

PC == {"idle", "send", "user", "wire", "reply", "neterr", "sleep",
       "refresh", "exchange", "issued", "norefresh", "done"}

Header == [bearer : Nat, key : BOOLEAN, user : BOOLEAN]

\* What each variable ranges over; the loop variable never passes the budget.
TypeOK ==
  /\ client \in [token : Nat, user : BOOLEAN]
  /\ issued \in Nat
  /\ expired \in Nat
  /\ pc \in [Actors -> PC]
  /\ attempt \in [Actors -> 0..(MaxRetries + 1)]
  /\ refreshed \in [Actors -> BOOLEAN]
  /\ lastErr \in [Actors -> ErrorClass \cup {"nil"}]
  /\ hdr \in [Actors -> Header]
  /\ reply \in [Actors -> Statuses \cup {0}]
  /\ fresh \in [Actors -> Nat]
  /\ refused \in [Actors -> SUBSET Nat]
  /\ cancelled \in [Actors -> BOOLEAN]
  /\ result \in [Actors -> ErrorClass \cup {"none", "nil"}]
  /\ sends \in [Actors -> Nat]
  /\ executed \in [Actors -> Nat]
  /\ stray \in [Actors -> Nat]
  /\ exchanges \in [Actors -> Nat]

Init ==
  /\ client = [token |-> IF HasJWT THEN 1 ELSE 0, user |-> HasUsername]
  /\ issued = client.token
  /\ expired = 0
  /\ pc = [a \in Actors |-> "idle"]
  /\ attempt = [a \in Actors |-> 0]
  /\ refreshed = [a \in Actors |-> FALSE]
  /\ lastErr = [a \in Actors |-> "nil"]
  /\ hdr = [a \in Actors |-> [bearer |-> 0, key |-> FALSE, user |-> FALSE]]
  /\ reply = [a \in Actors |-> 0]
  /\ fresh = [a \in Actors |-> 0]
  /\ refused = [a \in Actors |-> {}]
  /\ cancelled = [a \in Actors |-> FALSE]
  /\ result = [a \in Actors |-> "none"]
  /\ sends = [a \in Actors |-> 0]
  /\ executed = [a \in Actors |-> 0]
  /\ stray = [a \in Actors |-> 0]
  /\ exchanges = [a \in Actors |-> 0]

-----------------------------------------------------------------------------
(* Helpers of the actions.                                                 *)

Goto(a, l) == /\ pc' = [pc EXCEPT ![a] = l]
              /\ UNCHANGED result

Finish(a, e) == /\ pc' = [pc EXCEPT ![a] = "done"]
                /\ result' = [result EXCEPT ![a] = e]

Succ(c) == attempt[c] + 1

\* The bug of one attempt too many.
OneMoreAttempt(c) == attempt[c] <= MaxRetries

AttemptsLeft(c) == attempt[c] < MaxRetries

\* The loop increment: the next attempt, or lastErr once they are used up.
NextAttempt(c) ==
  /\ attempt' = [attempt EXCEPT ![c] = Succ(c)]
  /\ \/ AttemptsLeft(c) /\ Goto(c, "send")
     \/ ~AttemptsLeft(c) /\ Finish(c, lastErr[c])

Loops(c) == c \in Calls /\ Kind[c] # "stream"

Live(t) == t > expired

\* External: a server acts only on a request with a credential it may accept.
Acceptable(h) == Live(h.bearer) \/ h.key

\* A request whose response is not awaited any more may still reach the server.
Abandon(c) ==
  stray' = [stray EXCEPT ![c] = IF Acceptable(hdr[c]) THEN @ + 1 ELSE @]

-----------------------------------------------------------------------------
(* The retry loop, one action per step between two scheduling points.      *)

Begin(a) ==
  /\ pc[a] = "idle"
  /\ Goto(a, IF a \in Logins THEN "refresh" ELSE "send")
  /\ UNCHANGED <<loopVars, authVars, serverVars, cancelled, sends, exchanges>>

\* Marshalling the body or building the request fails before anything is sent.
BuildFails(c) ==
  /\ pc[c] = "idle" /\ c \in Calls
  /\ Finish(c, "Failure")
  /\ UNCHANGED <<loopVars, authVars, serverVars, cancelled, sends, exchanges>>

\* The bug of a request object whose X-API-Key stays from the attempt before.
KeyStays(c) == HasKey /\ (hdr[c].key \/ ~(client.token # 0 /\ c \in NodeCalls))

\* X-API-Key is dropped for node requests that carry a bearer token.
SendsKey(c) == HasKey /\ ~(client.token # 0 /\ c \in NodeCalls)

\* Authorization() under the read lock; Set or Del of every credential header.
LoadCredentials(c) ==
  /\ pc[c] = "send"
  /\ hdr' = [hdr EXCEPT ![c] =
       [bearer |-> client.token, key |-> SendsKey(c), user |-> FALSE]]
  /\ Goto(c, "user")
  /\ UNCHANGED <<attempt, refreshed, refused, lastErr, reply, authVars, serverVars,
                 cancelled, sends, exchanges>>

SendsUsername(c) == hdr[c].key /\ client.user

\* Username() takes the read lock again, then Doer.Do starts; net/http refuses
\* to start a round trip on a cancelled context.
Transmit(c) ==
  /\ pc[c] = "user"
  /\ hdr' = [hdr EXCEPT ![c] =
       [bearer |-> @.bearer, key |-> @.key, user |-> SendsUsername(c)]]
  /\ \/ cancelled[c] /\ Goto(c, "neterr") /\ UNCHANGED sends
     \/ ~cancelled[c] /\ Goto(c, "wire") /\ sends' = [sends EXCEPT ![c] = @ + 1]
  /\ UNCHANGED <<attempt, refreshed, refused, lastErr, reply, authVars, serverVars,
                 cancelled, exchanges>>

\* External: a live bearer token is never answered 401.
MayAnswer(h, s) ==
  /\ s = 401 => ~Live(h.bearer)
  /\ OKStatus(s) => Acceptable(h)

\* External: a 2xx was acted upon, a 4xx was not, a 5xx may have been.
Effects(s) ==
  IF OKStatus(s) THEN {1} ELSE IF s >= 500 THEN {0, 1} ELSE {0}

Receive(c) ==
  /\ pc[c] = "wire"
  /\ \E s \in Statuses : \E n \in Effects(s) :
        /\ MayAnswer(hdr[c], s)
        /\ reply' = [reply EXCEPT ![c] = s]
        /\ executed' = [executed EXCEPT ![c] = @ + n]
  /\ Goto(c, "reply")
  /\ UNCHANGED <<attempt, refreshed, refused, lastErr, hdr, authVars, stray, cancelled,
                 sends, exchanges>>

\* Doer.Do fails: refused connection, timeout, cancelled context.  The request
\* was not delivered yet and may or may not be; or its response is lost.
LoseRequest(c) ==
  /\ pc[c] = "wire"
  /\ Abandon(c)
  /\ Goto(c, "neterr")
  /\ UNCHANGED <<loopVars, authVars, executed, cancelled, sends, exchanges>>

LoseReply(c) ==
  /\ pc[c] = "reply"
  /\ Goto(c, "neterr")
  /\ UNCHANGED <<loopVars, authVars, serverVars, cancelled, sends, exchanges>>

\* External: the server acts on a request nobody waits for any more.
LateExecute(c) ==
  /\ stray[c] > 0
  /\ stray' = [stray EXCEPT ![c] = @ - 1]
  /\ executed' = [executed EXCEPT ![c] = @ + 1]
  /\ UNCHANGED <<loopVars, authVars, pc, cancelled, result, sends, exchanges>>

\* The bug of forgetting what went wrong when the loop goes on.
ForgetErr(c, e) == lastErr

RecordErr(c, e) == [lastErr EXCEPT ![c] = e]

HandleNetworkError(c) ==
  /\ pc[c] = "neterr"
  /\ \/ Loops(c) /\ lastErr' = RecordErr(c, "Network") /\ Goto(c, "sleep")
     \/ ~Loops(c) /\ UNCHANGED lastErr /\ Finish(c, "Network")
  /\ UNCHANGED <<attempt, refreshed, refused, hdr, reply, authVars, serverVars,
                 cancelled, sends, exchanges>>

\* A 2xx ends the call; JSON and multipart calls may fail to decode its body.
HandleSuccess(c) ==
  /\ pc[c] = "reply" /\ OKStatus(reply[c])
  /\ \/ Finish(c, "nil")
     \/ Kind[c] \in {"json", "multipart"} /\ Finish(c, "Failure")
  /\ UNCHANGED <<loopVars, authVars, serverVars, cancelled, sends, exchanges>>

\* The bug of not trying the refresh when no attempt is left.
RefreshUnlessLast(c) ==
  reply[c] = 401 /\ Loops(c) /\ ~refreshed[c] /\ AttemptsLeft(c)

MayRefresh(c) == reply[c] = 401 /\ Loops(c) /\ ~refreshed[c]

HandleUnauthorized(c) ==
  /\ pc[c] = "reply" /\ MayRefresh(c)
  /\ refreshed' = [refreshed EXCEPT ![c] = TRUE]
  /\ refused' = [refused EXCEPT ![c] = @ \cup {hdr[c].bearer}]
  /\ Goto(c, "refresh")
  /\ UNCHANGED <<attempt, lastErr, hdr, reply, authVars, serverVars, cancelled,
                 sends, exchanges>>

Retries(c, e) == Loops(c) /\ IsRetryable(e) /\ AttemptsLeft(c)

HandleFailure(c) ==
  LET e == FromHTTP(reply[c]) IN
  /\ pc[c] = "reply" /\ ~OKStatus(reply[c]) /\ ~MayRefresh(c)
  /\ \/ Retries(c, e) /\ lastErr' = RecordErr(c, e) /\ Goto(c, "sleep")
     \/ ~Retries(c, e) /\ UNCHANGED lastErr /\ Finish(c, e)
  /\ UNCHANGED <<attempt, refreshed, refused, hdr, reply, authVars, serverVars,
                 cancelled, sends, exchanges>>

\* The backoff timer fires first, or the context is done first.
Wake(c) ==
  /\ pc[c] = "sleep"
  /\ NextAttempt(c)
  /\ UNCHANGED <<refreshed, refused, lastErr, hdr, reply, authVars, serverVars,
                 cancelled, sends, exchanges>>

ContextDone(c) ==
  /\ pc[c] = "sleep" /\ cancelled[c]
  /\ Finish(c, "ctx")
  /\ UNCHANGED <<loopVars, authVars, serverVars, cancelled, sends, exchanges>>

-----------------------------------------------------------------------------
(* Client.refresh: copy the key under the read lock, exchange it without    *)
(* any lock, store the token under the write lock.                          *)

\* The bug of waiting where there is nothing to exchange.
BeginRefreshBlocks(a) ==
  /\ pc[a] = "refresh" /\ HasKey /\ ~cancelled[a]
  /\ Goto(a, "exchange")
  /\ exchanges' = [exchanges EXCEPT ![a] = @ + 1]
  /\ UNCHANGED <<loopVars, authVars, serverVars, cancelled, sends>>

BeginRefresh(a) ==
  /\ pc[a] = "refresh"
  /\ \/ /\ HasKey /\ ~cancelled[a]
        /\ Goto(a, "exchange")
        /\ exchanges' = [exchanges EXCEPT ![a] = @ + 1]
     \/ /\ ~HasKey \/ cancelled[a]
        /\ Goto(a, "norefresh")
        /\ UNCHANGED exchanges
  /\ UNCHANGED <<loopVars, authVars, serverVars, cancelled, sends>>

\* External: the control plane accepts the key and issues a token.
IssueToken(a) ==
  /\ pc[a] = "exchange"
  /\ issued' = issued + 1
  /\ fresh' = [fresh EXCEPT ![a] = issued + 1]
  /\ Goto(a, "issued")
  /\ UNCHANGED <<loopVars, client, expired, serverVars, cancelled, sends,
                 exchanges>>

\* The exchange is refused, answers without a token, or its answer is lost.
ExchangeFails(a) ==
  /\ pc[a] \in {"exchange", "issued"}
  /\ Goto(a, "norefresh")
  /\ UNCHANGED <<loopVars, authVars, serverVars, cancelled, sends, exchanges>>

\* The bug of an exchange whose answer is not kept.
KeepOldToken(a) == client.token

TokenStored(a) == fresh[a]

\* The token pair and, when the answer names it, the username are replaced
\* together; the caller's loop then continues.
StoreToken(a) ==
  /\ pc[a] = "issued"
  /\ \E named \in BOOLEAN :
       client' = [token |-> TokenStored(a), user |-> client.user \/ named]
  /\ \/ a \in Logins /\ Finish(a, "nil") /\ UNCHANGED attempt
     \/ a \in Calls /\ NextAttempt(a)
  /\ UNCHANGED <<refreshed, refused, lastErr, hdr, reply, issued, expired, fresh,
                 serverVars, cancelled, sends, exchanges>>

\* A failed refresh falls through to the mapping of the original 401; a failed
\* Authenticate is an AuthError of its own.
RefreshFails(a) ==
  /\ pc[a] = "norefresh"
  /\ Finish(a, "Auth")
  /\ UNCHANGED <<loopVars, authVars, serverVars, cancelled, sends, exchanges>>

-----------------------------------------------------------------------------
(* The environment.                                                        *)

Cancel(a) ==
  /\ a \in Cancellable /\ ~cancelled[a] /\ pc[a] # "done"
  /\ cancelled' = [cancelled EXCEPT ![a] = TRUE]
  /\ UNCHANGED <<loopVars, authVars, serverVars, pc, result, sends, exchanges>>

\* The oldest accepted token expires (or is revoked).
Expire ==
  /\ expired < issued
  /\ expired' = expired + 1
  /\ UNCHANGED <<loopVars, client, issued, fresh, serverVars, pc, cancelled,
                 result, sends, exchanges>>

ClientStep(a) ==
  \/ Begin(a) \/ BuildFails(a) \/ LoadCredentials(a) \/ Transmit(a)
  \/ HandleNetworkError(a) \/ HandleSuccess(a) \/ HandleUnauthorized(a)
  \/ HandleFailure(a) \/ Wake(a) \/ ContextDone(a)
  \/ BeginRefresh(a) \/ StoreToken(a) \/ RefreshFails(a)

NetworkStep(a) ==
  Receive(a) \/ LoseRequest(a) \/ LoseReply(a) \/ IssueToken(a) \/ ExchangeFails(a)

Next ==
  \/ \E a \in Actors :
       ClientStep(a) \/ NetworkStep(a) \/ LateExecute(a) \/ Cancel(a)
  \/ Expire

Spec == Init /\ [][Next]_vars

\* A goroutine that can take a step takes one, and a round trip ends: the
\* http.Client has a timeout (30 s unless the application chose another).
Fairness ==
  \A a \in Actors : WF_vars(ClientStep(a)) /\ WF_vars(NetworkStep(a))

FairSpec == Spec /\ Fairness

-----------------------------------------------------------------------------
(* Properties.                                                             *)

\* The loop never falls out with a nil error it did not earn: a call that
\* reports success was acted upon by the server, and an Authenticate that does
\* stored a token.  (transport.go returns lastErr after the loop, whatever it
\* is.)
NilMeansDone ==
  /\ \A c \in Calls : result[c] = "nil" => executed[c] > 0
  /\ \A a \in Logins : result[a] = "nil" => fresh[a] # 0

\* The node middleware never sees a bearer token next to an X-API-Key or the
\* X-Username that rides with it, even on a request object that was first sent
\* with the key alone, before the client had a token, and is replayed after this
\* or another goroutine stored one.
NodeHeaderDiscipline ==
  \A c \in NodeCalls : pc[c] = "wire" /\ hdr[c].bearer # 0 =>
    ~hdr[c].key /\ ~hdr[c].user

\* The transport replays a request after a refresh only with another token than
\* the one the server refused, however many calls exchange the key at once and
\* in whatever order their answers are stored.
ReplayUsesAnotherToken ==
  \A c \in Calls : pc[c] = "wire" => hdr[c].bearer \notin refused[c]

\* A 401 is surfaced only after the one refresh the call is entitled to was
\* tried; a stream has none.
Unauthorized401Tried ==
  \A c \in Calls :
    result[c] = "Auth" /\ reply[c] = 401 => refreshed[c] \/ Kind[c] = "stream"

\* Every call and every login returns.
EveryCallReturns == <>(\A a \in Actors : pc[a] = "done")

\* The call as its caller sees it.
Outcome(c) ==
  IF result[c] = "none" THEN "none"
  ELSE IF result[c] = "nil" THEN "success" ELSE "failure"

Phase(c) ==
  IF pc[c] = "idle" THEN "idle" ELSE IF pc[c] = "done" THEN "closed" ELSE "open"

Contract == INSTANCE WireContract WITH
  Budget    <- MaxRetries + 1,
  phase     <- [c \in Calls |-> Phase(c)],
  sends     <- [c \in Calls |-> sends[c]],
  effects   <- [c \in Calls |-> executed[c]],
  exchanges <- [c \in Calls |-> exchanges[c]],
  outcome   <- [c \in Calls |-> Outcome(c)]

\* The transport implements the contract of one call: at most MaxRetries + 1
\* transmissions and one exchange per call, at most one effect per transmission,
\* success only after an effect.
ImplementsContract == Contract!Spec

-----------------------------------------------------------------------------
(* The inductive invariant behind the theorems of GoTransportProofs.       *)

\* An actor that has not returned is on one of its MaxRetries + 1 attempts.
AttemptInv == \A a \in Actors : pc[a] # "done" => attempt[a] <= MaxRetries

\* Credential headers are rebuilt as a whole at every attempt.
HeaderInv ==
  \A c \in Calls :
    /\ hdr[c].bearer # 0 /\ hdr[c].key => c \notin NodeCalls
    /\ hdr[c].user => hdr[c].key

\* Where a call is not in the middle of its refresh.
Outside == {"idle", "send", "user", "wire", "reply", "neterr", "sleep"}

\* A token that was issued but not stored yet has been seen by nobody, so the
\* store that ends a refresh replaces the refused token by an unseen one.
TokenInv ==
  /\ client.token <= issued
  /\ \A a \in Actors : hdr[a].bearer <= issued /\ \A t \in refused[a] : t <= issued
  /\ \A a \in Actors : pc[a] = "issued" =>
       /\ fresh[a] # 0 /\ fresh[a] <= issued
       /\ fresh[a] # client.token
       /\ \A b \in Actors :
            /\ hdr[b].bearer # fresh[a]
            /\ fresh[a] \notin refused[b]
            /\ pc[b] = "issued" /\ b # a => fresh[b] # fresh[a]
  /\ \A a \in Actors : pc[a] \in Outside => client.token \notin refused[a]
  /\ \A a \in Actors : pc[a] \in {"user", "wire", "reply", "neterr"} =>
       hdr[a].bearer \notin refused[a]

\* lastErr is set by every way round the loop but the one refresh, and the loop
\* runs at least twice.
LoopOK(c) ==
  /\ pc[c] = "sleep" => lastErr[c] # "nil"
  /\ attempt[c] > 0 /\ ~refreshed[c] => lastErr[c] # "nil"
  /\ attempt[c] > 1 => lastErr[c] # "nil"
  /\ pc[c] \in {"refresh", "exchange", "issued"} =>
       refreshed[c] /\ (attempt[c] > 0 => lastErr[c] # "nil")
  /\ pc[c] = "reply" /\ OKStatus(reply[c]) => executed[c] > 0
  /\ result[c] = "nil" => executed[c] > 0

LoopInv == \A c \in Calls : LoopOK(c)

\* A login only ever exchanges the key.
LoginOK(a) ==
  /\ pc[a] \in {"idle", "refresh", "exchange", "issued", "norefresh", "done"}
  /\ result[a] = "nil" => fresh[a] # 0

LoginInv == \A a \in Logins : LoginOK(a)

\* The inductive invariant: it ties the credential state of the client to the
\* loops of all its calls.
IInv == TypeOK /\ AttemptInv /\ HeaderInv /\ TokenInv /\ LoopInv /\ LoginInv

\* Counting.
OnWire(c) == IF pc[c] = "wire" THEN 1 ELSE 0

\* Every effect has its transmission, every transmission its attempt, every
\* exchange its refresh.
CountOK(c) ==
  /\ executed[c] + stray[c] + OnWire(c) <= sends[c]
  /\ pc[c] = "idle" => sends[c] = 0
  /\ pc[c] \in {"send", "user"} => sends[c] <= attempt[c]
  /\ pc[c] # "done" => sends[c] <= attempt[c] + 1
  /\ sends[c] <= MaxRetries + 1
  /\ exchanges[c] <= 1
  /\ ~refreshed[c] \/ pc[c] = "refresh" => exchanges[c] = 0
  /\ pc[c] # "done" <=> result[c] = "none"

\* The counters of all calls agree with where their loops are.
CountInv == \A c \in Calls : CountOK(c)

\* An error that is kept for later is one that is retried, never a 401, and what
\* ends in norefresh was the one refresh of its call.
SurfaceOK(c) ==
  /\ lastErr[c] # "Auth"
  /\ pc[c] \in {"refresh", "exchange", "issued", "norefresh"} => refreshed[c]
  /\ pc[c] # "done" <=> result[c] = "none"
  /\ result[c] = "Auth" /\ reply[c] = 401 => refreshed[c] \/ Kind[c] = "stream"

SurfaceInv == \A c \in Calls : SurfaceOK(c)

\* The variant behind EveryCallReturns: the places of a loop in the order it passes
\* them, once per attempt.
Place(l) ==
  IF l = "idle" THEN 12 ELSE IF l = "send" THEN 11 ELSE IF l = "user" THEN 10
  ELSE IF l = "wire" THEN 9 ELSE IF l = "reply" THEN 8 ELSE IF l = "neterr" THEN 7
  ELSE IF l = "sleep" THEN 6 ELSE IF l = "refresh" THEN 5 ELSE IF l = "exchange" THEN 4
  ELSE IF l = "issued" THEN 3 ELSE IF l = "norefresh" THEN 2 ELSE 0

Work(a) ==
  IF pc[a] = "done" THEN 0 ELSE 12 * (MaxRetries - attempt[a]) + Place(pc[a])

\* A call or login takes at most 12 * (MaxRetries + 1) steps, those of the network
\* for it included: each leaves less to do, and no other step, of other calls, of
\* a server or of its caller, gives it more.
WorkIsBounded == \A a \in Actors : Work(a) \in 0..(12 * (MaxRetries + 1))

WorkFalls ==
  [][\A a \in Actors :
       /\ ClientStep(a) \/ NetworkStep(a) => Work(a)' < Work(a)
       /\ Work(a)' <= Work(a)]_vars
=============================================================================
