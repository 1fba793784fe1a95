---------------------------- MODULE PyTransport -----------------------------
(***************************************************************************)
(* The Python clients' HTTP layer: _do, _stream and _refresh of the        *)
(* threaded Client (python/vxsdk.py) and of the asyncio AsyncClient         *)
(* (python/vxsdk_async.py), used by several threads or tasks at once.       *)
(*                                                                         *)
(* The two share their loop and differ in four places: AsyncClient holds a  *)
(* lock across the exchange, sends X-API-Key wherever it has one, turns     *)
(* every transport error into a VxNetworkError, and its tasks may be        *)
(* cancelled where they await.  async says which of the two is running.     *)
(*                                                                         *)
(* Unlike the Go client, the loop builds its headers once and only updates  *)
(* them after a refresh, and a 200 without a token is stored as a token.    *)
(* Tokens are numbered as they are issued, 0 is none; they expire oldest    *)
(* first.                                                                   *)
(***************************************************************************)
EXTENDS Naturals

CONSTANTS
  Calls,        (* calls of _do or _stream                                 *)
  Logins,       (* direct calls of authenticate()                          *)
  Kind,         (* "do" or "stream", per call                              *)
  NodeCalls,    (* calls whose URL starts with node_url                    *)
  Cancellable,  (* actors that, as asyncio tasks, may be cancelled         *)
  HasKey,       (* the client was given an API key                         *)
  HasJWT,       (* ... an access token                                     *)
  MaxRetries,   (* max_retries of _do, 3 in the code                       *)
  Statuses,     (* HTTP statuses the servers answer with                   *)
  Nobody        (* nobody holds AsyncClient._lock                          *)

Actors == Calls \cup Logins

ASSUME PyAssumption ==
  /\ Calls \cap Logins = {}
  /\ Nobody \notin Actors
  /\ Kind \in [Calls -> {"do", "stream"}]
  /\ NodeCalls \subseteq Calls
  /\ Cancellable \subseteq Actors
  /\ {HasKey, HasJWT} \subseteq BOOLEAN
  /\ HasKey \/ HasJWT
  /\ MaxRetries \in Nat
  /\ Statuses \subseteq 200..599

VARIABLES
  async,      (* the client is an AsyncClient                              *)
  token,      (* access_token                                              *)
  lock,       (* the holder of AsyncClient._lock                           *)
  issued,     (* the newest token the control plane has issued             *)
  expired,    (* the newest token that is no longer accepted               *)
  tokenless,  (* history: an exchange answered 200 without a token         *)
  pc,         (* where each actor is                                       *)
  attempt,    (* the loop variable of _do                                  *)
  refreshed,  (* the call has used its one refresh                         *)
  lastErr,    (* last_err                                                  *)
  hdr,        (* the credential headers of h                               *)
  reply,      (* the status of the response being handled                  *)
  fresh,      (* what the exchange answered with                           *)
  refused,    (* history: the bearer tokens the call was answered 401 for  *)
  result,     (* the class of the exception raised, "nil" for a return     *)
  sends,      (* history: requests handed to the network                   *)
  executed,   (* history: requests the server acted upon                   *)
  stray,      (* requests the client gave up on that may still arrive      *)
  exchanges   (* history: exchanges of the API key                         *)

loopVars   == <<attempt, refreshed, refused, lastErr, hdr, reply>>
authVars   == <<token, lock, issued, tokenless, fresh>>
serverVars == <<executed, stray>>
vars == <<async, token, lock, issued, expired, tokenless, pc, attempt, refreshed,
          lastErr, hdr, reply, fresh, refused, result, sends, executed, stray,
          exchanges>>

-----------------------------------------------------------------------------
(* Errors.  "raw" is an exception that is not a VxError.                    *)

ErrorClass == {"Auth", "Validation", "NotFound", "RateLimit", "Server",
               "Failure", "Network", "raw", "cancelled"}

OKStatus(s) == s \in 200..299

FromHTTP(s) ==
  IF s \in {401, 403} THEN "Auth"
  ELSE IF s \in {400, 422} THEN "Validation"
  ELSE IF s = 404 THEN "NotFound"
  ELSE IF s = 429 THEN "RateLimit"
  ELSE IF s >= 500 THEN "Server"
  ELSE "Failure"

IsRetryable(e) == e \in {"Network", "Server", "RateLimit"}

-----------------------------------------------------------------------------
(* Types and initial state.                                                *)

PC == {"idle", "wire", "reply", "sleep", "refresh", "exchange", "issued",
       "stored", "norefresh", "done"}

Header == [bearer : Nat, key : BOOLEAN]

\* What each variable ranges over; no loop passes range(max_retries + 1).
TypeOK ==
  /\ async \in BOOLEAN
  /\ token \in Nat
  /\ lock \in Actors \cup {Nobody}
  /\ issued \in Nat
  /\ expired \in Nat
  /\ tokenless \in BOOLEAN
  /\ pc \in [Actors -> PC]
  /\ attempt \in [Actors -> 0..(MaxRetries + 1)]
  /\ refreshed \in [Actors -> BOOLEAN]
  /\ lastErr \in [Actors -> ErrorClass \cup {"nil"}]
  /\ hdr \in [Actors -> Header]
  /\ reply \in [Actors -> Statuses \cup {0}]
  /\ fresh \in [Actors -> Nat]
  /\ refused \in [Actors -> SUBSET Nat]
  /\ result \in [Actors -> ErrorClass \cup {"none", "nil"}]
  /\ sends \in [Actors -> Nat]
  /\ executed \in [Actors -> Nat]
  /\ stray \in [Actors -> Nat]
  /\ exchanges \in [Actors -> Nat]

Init ==
  /\ async \in BOOLEAN
  /\ token = IF HasJWT THEN 1 ELSE 0
  /\ lock = Nobody
  /\ issued = token
  /\ expired = 0
  /\ tokenless = FALSE
  /\ pc = [a \in Actors |-> "idle"]
  /\ attempt = [a \in Actors |-> 0]
  /\ refreshed = [a \in Actors |-> FALSE]
  /\ lastErr = [a \in Actors |-> "nil"]
  /\ hdr = [a \in Actors |-> [bearer |-> 0, key |-> FALSE]]
  /\ reply = [a \in Actors |-> 0]
  /\ fresh = [a \in Actors |-> 0]
  /\ refused = [a \in Actors |-> {}]
  /\ result = [a \in Actors |-> "none"]
  /\ sends = [a \in Actors |-> 0]
  /\ executed = [a \in Actors |-> 0]
  /\ stray = [a \in Actors |-> 0]
  /\ exchanges = [a \in Actors |-> 0]

-----------------------------------------------------------------------------
(* Helpers of the actions.                                                 *)

Goto(a, l) == /\ pc' = [pc EXCEPT ![a] = l]
              /\ UNCHANGED result

Finish(a, e) == /\ pc' = [pc EXCEPT ![a] = "done"]
                /\ result' = [result EXCEPT ![a] = e]

Transmit(c) == /\ Goto(c, "wire")
               /\ sends' = [sends EXCEPT ![c] = @ + 1]

AttemptsLeft(c) == attempt[c] < MaxRetries

Loops(c) == Kind[c] = "do"

Live(t) == t > expired

\* External: a server acts only on a request with a credential it may accept.
Acceptable(h) == Live(h.bearer) \/ h.key

\* The threaded client drops X-API-Key for node requests with a bearer token.
DropsKey(c) == ~async /\ token # 0 /\ c \in NodeCalls

AuthHeaders(c) == [bearer |-> token, key |-> HasKey /\ ~DropsKey(c)]

\* The bug of replaying with the headers the call started with.
KeepHeaders(c) == hdr[c]

\* h.update adds and replaces headers, it removes none.
UpdatedHeaders(c) ==
  [bearer |-> IF token # 0 THEN token ELSE hdr[c].bearer,
   key |-> hdr[c].key \/ AuthHeaders(c).key]

\* async with self._lock: held by a until its exchange is over.
Release(a) == lock' = IF lock = a THEN Nobody ELSE lock

-----------------------------------------------------------------------------
(* The retry loop, one action per step between two scheduling points.      *)

\* The body cannot be turned into JSON: nothing is sent.
BuildFails(c) ==
  /\ pc[c] = "idle" /\ c \in Calls
  /\ Finish(c, "raw")
  /\ UNCHANGED <<async, loopVars, authVars, expired, serverVars, sends, exchanges>>

\* The headers are built and the first request leaves.
Begin(c) ==
  /\ pc[c] = "idle" /\ c \in Calls
  /\ hdr' = [hdr EXCEPT ![c] = AuthHeaders(c)]
  /\ Transmit(c)
  /\ UNCHANGED <<async, attempt, refreshed, refused, lastErr, reply, authVars,
                 expired, serverVars, exchanges>>

\* External: a live bearer token is never answered 401.
MayAnswer(h, s) ==
  /\ s = 401 => ~Live(h.bearer)
  /\ OKStatus(s) => Acceptable(h)

\* External: a 2xx was acted upon, a 4xx was not, a 5xx may have been.
Effects(s) ==
  IF OKStatus(s) THEN {1} ELSE IF s >= 500 THEN {0, 1} ELSE {0}

Receive(c) ==
  /\ pc[c] = "wire"
  /\ \E s \in Statuses : \E n \in Effects(s) :
        /\ MayAnswer(hdr[c], s)
        /\ reply' = [reply EXCEPT ![c] = s]
        /\ executed' = [executed EXCEPT ![c] = @ + n]
  /\ Goto(c, "reply")
  /\ UNCHANGED <<async, attempt, refreshed, refused, lastErr, hdr, authVars, expired,
                 stray, sends, exchanges>>

\* A request whose response is not awaited any more may still reach the server.
Abandon(c) ==
  stray' = [stray EXCEPT ![c] =
    IF pc[c] = "wire" /\ Acceptable(hdr[c]) THEN @ + 1 ELSE @]

\* The request fails, or its response is lost while it is read.  urllib raises
\* a reset or truncated response as it is, which the threaded client does not
\* catch; everything else is a VxNetworkError, retried while attempts are left.
RequestFails(c) ==
  /\ pc[c] \in {"wire", "reply"}
  /\ \/ /\ Loops(c) /\ AttemptsLeft(c)
        /\ lastErr' = [lastErr EXCEPT ![c] = "Network"] /\ Goto(c, "sleep")
     \/ ~(Loops(c) /\ AttemptsLeft(c)) /\ Finish(c, "Network") /\ UNCHANGED lastErr
     \/ ~async /\ Finish(c, "raw") /\ UNCHANGED lastErr
  /\ Abandon(c)
  /\ UNCHANGED <<async, attempt, refreshed, refused, hdr, reply, authVars, expired,
                 executed, sends, exchanges>>

\* External: the server acts on a request nobody waits for any more.
LateExecute(c) ==
  /\ stray[c] > 0
  /\ stray' = [stray EXCEPT ![c] = @ - 1]
  /\ executed' = [executed EXCEPT ![c] = @ + 1]
  /\ UNCHANGED <<async, loopVars, authVars, expired, pc, result, sends, exchanges>>

\* A 2xx ends the call; _json and _multipart may fail to decode its body.
HandleSuccess(c) ==
  /\ pc[c] = "reply" /\ OKStatus(reply[c])
  /\ \/ Finish(c, "nil")
     \/ Loops(c) /\ Finish(c, "Failure")
  /\ UNCHANGED <<async, loopVars, authVars, expired, serverVars, sends, exchanges>>

\* The bug of refreshing on every 401 instead of once per call.
RefreshAlways(c) == reply[c] = 401 /\ Loops(c) /\ HasKey

\* The bug of not trying the refresh when no attempt is left.
RefreshUnlessLast(c) ==
  reply[c] = 401 /\ Loops(c) /\ ~refreshed[c] /\ HasKey /\ AttemptsLeft(c)

MayRefresh(c) == reply[c] = 401 /\ Loops(c) /\ ~refreshed[c] /\ HasKey

HandleUnauthorized(c) ==
  /\ pc[c] = "reply" /\ MayRefresh(c)
  /\ refreshed' = [refreshed EXCEPT ![c] = TRUE]
  /\ refused' = [refused EXCEPT ![c] = @ \cup {hdr[c].bearer}]
  /\ Goto(c, "refresh")
  /\ UNCHANGED <<async, attempt, lastErr, hdr, reply, authVars, expired, serverVars,
                 sends, exchanges>>

Retries(c, e) == Loops(c) /\ IsRetryable(e) /\ AttemptsLeft(c)

HandleFailure(c) ==
  LET e == FromHTTP(reply[c]) IN
  /\ pc[c] = "reply" /\ ~OKStatus(reply[c]) /\ ~MayRefresh(c)
  /\ \/ /\ Retries(c, e)
        /\ lastErr' = [lastErr EXCEPT ![c] = e] /\ Goto(c, "sleep")
     \/ ~Retries(c, e) /\ Finish(c, e) /\ UNCHANGED lastErr
  /\ UNCHANGED <<async, attempt, refreshed, refused, hdr, reply, authVars, expired,
                 serverVars, sends, exchanges>>

\* The backoff is over: the same headers go out again.
Wake(c) ==
  /\ pc[c] = "sleep"
  /\ attempt' = [attempt EXCEPT ![c] = @ + 1]
  /\ Transmit(c)
  /\ UNCHANGED <<async, refreshed, refused, lastErr, hdr, reply, authVars, expired,
                 serverVars, exchanges>>

-----------------------------------------------------------------------------
(* The exchange of the key.                                                *)

\* authenticate(): the threaded client keeps a token it holds and does not see
\* expired (an opaque or revoked one never is), and exchanges the key otherwise
\* (its clock may be early); AsyncClient always exchanges it.
Authenticate(a) ==
  /\ pc[a] = "idle" /\ a \in Logins
  /\ \/ ~async /\ token # 0 /\ Finish(a, "nil")
     \/ HasKey /\ Goto(a, "refresh")
     \/ ~HasKey /\ Finish(a, "Auth")
  /\ UNCHANGED <<async, loopVars, authVars, expired, serverVars, sends, exchanges>>

MayExchange(a) == async => lock = Nobody

BeginRefresh(a) ==
  /\ pc[a] = "refresh" /\ MayExchange(a)
  /\ lock' = IF async THEN a ELSE lock
  /\ exchanges' = [exchanges EXCEPT ![a] = @ + 1]
  /\ Goto(a, "exchange")
  /\ UNCHANGED <<async, loopVars, token, issued, tokenless, fresh, expired,
                 serverVars, sends>>

\* External: the control plane accepts the key.  It issues a token, or answers
\* 200 without one.
IssueToken(a) ==
  /\ pc[a] = "exchange"
  /\ \/ /\ issued' = issued + 1
        /\ fresh' = [fresh EXCEPT ![a] = issued + 1]
        /\ UNCHANGED tokenless
     \/ /\ tokenless' = TRUE
        /\ fresh' = [fresh EXCEPT ![a] = 0]
        /\ UNCHANGED issued
  /\ Goto(a, "issued")
  /\ UNCHANGED <<async, loopVars, token, lock, expired, serverVars, sends, exchanges>>

\* The exchange is refused or lost: a VxError, which _do catches, or (a reset
\* connection, an answer of another shape) an exception that escapes it.
ExchangeFails(a) ==
  /\ pc[a] \in {"exchange", "issued"}
  /\ \/ a \in Calls /\ Goto(a, "norefresh")
     \/ a \in Logins /\ \E e \in {"Auth", "Network"} : Finish(a, e)
     \/ Finish(a, "raw")
  /\ Release(a)
  /\ UNCHANGED <<async, loopVars, token, issued, tokenless, fresh, expired,
                 serverVars, sends, exchanges>>

\* The bug of an exchange whose answer is not kept.
KeepOldToken(a) == token

TokenStored(a) == fresh[a]

\* data.get("access", "") is stored; a login is done.  An AsyncClient's call goes
\* on to its headers without awaiting anything, so the lock, which only such
\* stores need, may be given up with them.
StoreToken(a) ==
  /\ pc[a] = "issued"
  /\ token' = TokenStored(a)
  /\ \/ a \in Logins /\ Finish(a, "nil") /\ Release(a)
     \/ a \in Calls /\ Goto(a, "stored") /\ UNCHANGED lock
  /\ UNCHANGED <<async, loopVars, issued, tokenless, fresh, expired, serverVars, sends,
                 exchanges>>

\* h.update(self._auth_headers(url)); continue: the replay counts as an attempt.
Resume(c) ==
  /\ pc[c] = "stored"
  /\ hdr' = [hdr EXCEPT ![c] = UpdatedHeaders(c)]
  /\ attempt' = [attempt EXCEPT ![c] = @ + 1]
  /\ \/ AttemptsLeft(c) /\ Transmit(c)
     \/ ~AttemptsLeft(c) /\ UNCHANGED sends
        /\ Finish(c, IF lastErr[c] = "nil" THEN "Failure" ELSE lastErr[c])
  /\ Release(c)
  /\ UNCHANGED <<async, refreshed, refused, lastErr, reply, token, issued, tokenless,
                 fresh, expired, serverVars, exchanges>>

\* except VxError: pass.  The original 401 is surfaced.
RefreshFails(c) ==
  /\ pc[c] = "norefresh"
  /\ Finish(c, "Auth")
  /\ UNCHANGED <<async, loopVars, authVars, expired, serverVars, sends, exchanges>>

-----------------------------------------------------------------------------
(* The environment.                                                        *)

\* The bug of a lock that a cancelled holder keeps.
KeepLock(a) == UNCHANGED lock

Unlock(a) == Release(a)

\* A task is cancelled where it awaits: a request, a sleep, the lock.
CancelTask(a) ==
  /\ async /\ a \in Cancellable
  /\ pc[a] \in {"wire", "reply", "sleep", "refresh", "exchange", "issued"}
  /\ Finish(a, "cancelled")
  /\ Abandon(a)
  /\ Unlock(a)
  /\ UNCHANGED <<async, loopVars, token, issued, tokenless, fresh, expired, executed,
                 sends, exchanges>>

\* The oldest accepted token expires (or is revoked).
Expire ==
  /\ expired < issued
  /\ expired' = expired + 1
  /\ UNCHANGED <<async, loopVars, authVars, serverVars, pc, result, sends, exchanges>>

ClientStep(a) ==
  \/ Begin(a) \/ BuildFails(a) \/ HandleSuccess(a) \/ HandleUnauthorized(a)
  \/ HandleFailure(a) \/ Wake(a) \/ Authenticate(a) \/ BeginRefresh(a)
  \/ StoreToken(a) \/ Resume(a) \/ RefreshFails(a)

NetworkStep(a) ==
  Receive(a) \/ RequestFails(a) \/ IssueToken(a) \/ ExchangeFails(a)

Next ==
  \/ \E a \in Actors :
       ClientStep(a) \/ NetworkStep(a) \/ LateExecute(a) \/ CancelTask(a)
  \/ Expire

Spec == Init /\ [][Next]_vars

\* A thread or task that can run runs, and a round trip ends: every one has a
\* timeout.
Fairness ==
  \A a \in Actors : WF_vars(ClientStep(a)) /\ WF_vars(NetworkStep(a))

FairSpec == Spec /\ Fairness

-----------------------------------------------------------------------------
(* Properties.                                                             *)

\* An AsyncClient exchanges its key once at a time, and the lock is never left
\* with a task that is not about to give it up, cancelled ones included.
LockHeldByExchange ==
  /\ ~async => lock = Nobody
  /\ async => \A a \in Actors :
       pc[a] \in {"exchange", "issued", "stored"} <=> lock = a

\* A call is replayed with another token than the one it was refused for, unless
\* some exchange answered 200 without a token.
ReplayUsesAnotherToken ==
  \A c \in Calls :
    pc[c] = "wire" /\ hdr[c].bearer \in refused[c] => tokenless

\* A 401 is surfaced only after the one refresh the call is entitled to was
\* tried; a stream, and a client without a key, have none.
Unauthorized401Tried ==
  \A c \in Calls :
    result[c] = "Auth" /\ reply[c] = 401 =>
      refreshed[c] \/ Kind[c] = "stream" \/ ~HasKey

\* Every call and every login returns; no task waits for the lock for ever.
EveryCallReturns == <>(\A a \in Actors : pc[a] = "done")

\* The call as its caller sees it.
Outcome(c) ==
  IF result[c] = "none" THEN "none"
  ELSE IF result[c] = "nil" THEN "success" ELSE "failure"

Phase(c) ==
  IF pc[c] = "idle" THEN "idle" ELSE IF pc[c] = "done" THEN "closed" ELSE "open"

Contract == INSTANCE WireContract WITH
  Budget    <- MaxRetries + 1,
  phase     <- [c \in Calls |-> Phase(c)],
  sends     <- [c \in Calls |-> sends[c]],
  effects   <- [c \in Calls |-> executed[c]],
  exchanges <- [c \in Calls |-> exchanges[c]],
  outcome   <- [c \in Calls |-> Outcome(c)]

\* Both clients implement the contract of one call, with the Go client's budget.
ImplementsContract == Contract!Spec

-----------------------------------------------------------------------------
(* The inductive invariant behind the theorems of PyTransportProofs.       *)

\* A call that has not returned is on one of its MaxRetries + 1 attempts, and
\* sleeps only when one more is left.
AttemptInv ==
  \A c \in Actors :
    /\ pc[c] # "done" => attempt[c] <= MaxRetries
    /\ pc[c] = "sleep" => attempt[c] < MaxRetries

\* A token that was issued but not stored yet has been seen by nobody, so what a
\* refreshed call reads back is new to it whoever stored it.
TokenInv ==
  /\ token <= issued
  /\ \A a \in Actors : hdr[a].bearer <= issued /\ \A t \in refused[a] : t <= issued
  /\ \A a \in Actors : pc[a] = "issued" /\ fresh[a] = 0 => tokenless
  /\ \A a \in Actors : pc[a] = "issued" /\ fresh[a] # 0 =>
       /\ fresh[a] <= issued
       /\ fresh[a] # token
       /\ \A b \in Actors :
            /\ hdr[b].bearer # fresh[a]
            /\ fresh[a] \notin refused[b]
            /\ pc[b] = "issued" /\ b # a => fresh[b] # fresh[a]
  /\ ~tokenless =>
       \A c \in Actors :
         /\ pc[c] = "stored" => token # 0 /\ token \notin refused[c]
         /\ pc[c] = "idle" => refused[c] = {}
         /\ pc[c] \in {"wire", "reply", "sleep"} => hdr[c].bearer \notin refused[c]

OnWire(c) == IF pc[c] = "wire" THEN 1 ELSE 0

\* Every effect has its transmission, every transmission its attempt, every
\* exchange the one refresh of its call.
CountOK(c) ==
  /\ executed[c] + stray[c] + OnWire(c) <= sends[c]
  /\ pc[c] = "idle" => sends[c] = 0
  /\ pc[c] # "done" => sends[c] <= attempt[c] + 1
  /\ sends[c] <= MaxRetries + 1
  /\ exchanges[c] <= 1
  /\ ~refreshed[c] \/ pc[c] = "refresh" => exchanges[c] = 0
  /\ pc[c] \in {"refresh", "exchange", "issued", "stored"} => refreshed[c]
  /\ pc[c] # "done" <=> result[c] = "none"
  /\ pc[c] = "reply" /\ OKStatus(reply[c]) => executed[c] > 0
  /\ result[c] = "nil" => executed[c] > 0

CountInv == \A c \in Calls : CountOK(c)

\* The inductive invariant: loops, tokens and the lock.
IInv == TypeOK /\ AttemptInv /\ TokenInv /\ CountInv /\ LockHeldByExchange

\* An error that is kept for later is one that is retried, never a 401, and what
\* ends in norefresh was the one refresh of its call.
SurfaceOK(c) ==
  /\ lastErr[c] # "Auth"
  /\ pc[c] \in {"refresh", "exchange", "issued", "norefresh"} => refreshed[c]
  /\ pc[c] # "done" <=> result[c] = "none"
  /\ result[c] = "Auth" /\ reply[c] = 401 =>
       refreshed[c] \/ Kind[c] = "stream" \/ ~HasKey

SurfaceInv == \A c \in Calls : SurfaceOK(c)

\* The variant behind EveryCallReturns: the places of the loop in the order it
\* passes them, once per attempt.
Place(l) ==
  IF l = "idle" THEN 11 ELSE IF l = "wire" THEN 10 ELSE IF l = "reply" THEN 9
  ELSE IF l = "refresh" THEN 8 ELSE IF l = "exchange" THEN 7 ELSE IF l = "issued" THEN 6
  ELSE IF l = "stored" THEN 5 ELSE IF l = "norefresh" THEN 4 ELSE IF l = "sleep" THEN 3
  ELSE 0

Work(a) ==
  IF pc[a] = "done" THEN 0 ELSE 11 * (MaxRetries - attempt[a]) + Place(pc[a])

\* A call or login takes at most 11 * (MaxRetries + 1) steps, those of the network
\* for it included: each leaves less to do, and no other step gives it more.
WorkIsBounded == \A a \in Actors : Work(a) \in 0..(11 * (MaxRetries + 1))

WorkFalls ==
  [][\A a \in Actors :
       /\ ClientStep(a) \/ NetworkStep(a) => Work(a)' < Work(a)
       /\ Work(a)' <= Work(a)]_vars

-----------------------------------------------------------------------------
(* What the comments say and the code does not do.                         *)

\* vxsdk.py on _auth_headers: "For node-targeted requests, drop X-API-Key when a
\* Bearer token is present".
NodeNeverSeesBoth ==
  \A c \in NodeCalls :
    ~async /\ pc[c] = "wire" => ~(hdr[c].bearer # 0 /\ hdr[c].key)

\* How far the threaded client is from it: a request to the node carries both only
\* as the replay of a call that was refused without any token, or after an exchange
\* that answered 200 without one; h.update then keeps a header that
\* _auth_headers dropped.
BothOnlyOnReplay ==
  \A c \in NodeCalls :
    ~async /\ pc[c] = "wire" /\ hdr[c].bearer # 0 /\ hdr[c].key =>
      refreshed[c] /\ (0 \in refused[c] \/ tokenless)

\* What keeps it: before the refresh a key travels without a token, so that the
\* token of its 401 was none.
KeyOK(c) ==
  /\ pc[c] = "idle" => ~refreshed[c]
  /\ hdr[c].key => IF refreshed[c] THEN 0 \in refused[c] \/ tokenless
                   ELSE hdr[c].bearer = 0

KeyInv == ~async => \A c \in NodeCalls : KeyOK(c)
=============================================================================
