------------------------------ MODULE Operations ------------------------------
(***************************************************************************)
(* The Go resource clients as they are used: a caller takes a handle from   *)
(* an accessor of Client (client.go), makes a few calls on it one after the *)
(* other, and another goroutine may exchange the API key at any time.  Each *)
(* call is an operation of the tables; it checks its arguments, builds one  *)
(* body, and the transport transmits it up to Budget times (GoTransport     *)
(* models that loop and its credentials in full; here its outcome counts).  *)
(*                                                                         *)
(* The server keeps one resource that all the calls are about: it is "up",  *)
(* "down" or "gone".  What can be done only once has been done when it is   *)
(* "up".                                                                    *)
(***************************************************************************)
EXTENDS Naturals, OperationTypes

CONSTANTS
  Ops,       (* the operations: a set of rows                              *)
  Budget,    (* transmissions of one request: MaxRetries + 1               *)
  MaxCalls,  (* calls the caller makes; a bound                            *)
  None       (* no operation                                               *)

ASSUME OpsAssumption ==
  /\ \A o \in Ops : /\ o.host \in {"node", "control"}
                    /\ o.via \in {"json", "unread", "multipart", "bytes", "stream"}
                    /\ o.does \in Effects
                    /\ o.names \in BOOLEAN /\ o.soft \in BOOLEAN
  /\ Budget \in Nat \ {0}
  /\ MaxCalls \in Nat
  /\ None \notin Ops

\* The method refuses to build an address with an argument missing.
Checks(o) == Arguments(o) \subseteq o.needs

\* Definitions without parameters, which TLC computes once.
Table == Ops

\* services.Client.Restart makes two operations in order, with one set of
\* arguments.
Restarts == {r \in Table \X Table :
  /\ r[1].group = "services" /\ r[1].name = "Stop"
  /\ r[2].group = "services" /\ r[2].name = "Start"}

ASSUME RestartAssumption ==
  \A r \in Restarts : /\ r[1].does = "down" /\ r[2].does = "up"
                      /\ r[2].needs \subseteq r[1].needs
                      /\ Checks(r[1])

Lifecycle == {"up", "down", "drop"}

\* The caller goes on with another operation on the same resource, whose
\* address differs in the action.
Follows == [o \in Table |->
  {q \in Table : /\ {o.does, q.does} \subseteq Lifecycle
                /\ o # q /\ o.group = q.group
                /\ o.path # <<>> /\ q.path # <<>>
                /\ Front(o.path) = Front(q.path)}]

\* What a request is served as when an argument of its address is empty.
Instead == [o \in Table |-> ServedInstead(o, Table)]

VARIABLES
  node,       (* the client was configured with a node URL                 *)
  user,       (* Client.state.User.Username                                *)
  handle,     (* the username the accessor copied, "none" before            *)
  calls,      (* calls made                                                *)
  op,         (* the operation being made, or the last one                 *)
  then,       (* the operation the method goes on with, or None            *)
  given,      (* the arguments the caller gave                             *)
  named,      (* the username in the body, "none" if it carries none       *)
  pc,         (* "idle", "send" or "done"                                  *)
  tries,      (* transmissions of the request so far                       *)
  refreshed,  (* the request has used its one refresh                      *)
  result,     (* what the call returned                                    *)
  told,       (* what the last answer said, read or not                    *)
  res,        (* the resource                                              *)
  before,     (* ... when the call began                                   *)
  bounced,    (* history: the call took the resource down                  *)
  acts,       (* history: times the server did what the operation says     *)
  mistaken,   (* history: another operation it did in its place            *)
  unsure,     (* history: a transmission of the call ended without answer  *)
  softly,     (* history: a failure of the call came inside a 2xx          *)
  strays,     (* operations whose requests may still arrive                *)
  late        (* history: one that is not of the call in progress did      *)

handleVars == <<node, user, handle>>
callVars == <<calls, op, then, given, named>>
serverVars == <<res, bounced, acts, mistaken>>
strayVars == <<strays, late>>
vars == <<handleVars, callVars, pc, tries, refreshed, result, told, before,
          serverVars, unsure, softly, strayVars>>

States == {"up", "down", "gone"}

Numbers == calls \in 0..MaxCalls /\ tries \in 0..Budget /\ acts \in Nat

Flags ==
  /\ node \in BOOLEAN /\ refreshed \in BOOLEAN /\ bounced \in BOOLEAN
  /\ unsure \in BOOLEAN /\ softly \in BOOLEAN /\ late \in BOOLEAN

Names ==
  /\ user \in {"unset", "given", "account"}
  /\ handle \in {"none", "unset", "given", "account"}
  /\ named \in {"none", "unset", "given", "account"}

Rows ==
  /\ op \in Table \cup {None} /\ then \in Table \cup {None}
  /\ mistaken \in Table \cup {None} /\ strays \subseteq Table

Progress ==
  /\ pc \in {"idle", "send", "done"}
  /\ result \in {"none", "nil", "err", "refused"}
  /\ told \in {"nothing", "done", "already", "conflict", "rejected", "soft"}
  /\ res \in States /\ before \in States

TypeOK == Numbers /\ Flags /\ Names /\ Rows /\ Progress

Init ==
  /\ node \in BOOLEAN
  /\ user \in {"unset", "given"}
  /\ handle = "none"
  /\ calls = 0
  /\ op = None /\ then = None /\ given = {} /\ named = "none"
  /\ pc = "idle" /\ tries = 0 /\ refreshed = FALSE
  /\ result = "none" /\ told = "nothing"
  /\ res \in States /\ before = res /\ bounced = FALSE
  /\ acts = 0 /\ mistaken = None
  /\ unsure = FALSE /\ softly = FALSE
  /\ strays = {} /\ late = FALSE

-----------------------------------------------------------------------------
(* The handle and the identity.                                            *)

\* An accessor copies the username the client knows at that moment.
Take ==
  /\ pc = "idle"
  /\ handle' = user
  /\ UNCHANGED <<node, user, callVars, pc, tries, refreshed, result, told,
                 before, serverVars, unsure, softly, strayVars>>

\* The exchange names the account, unless its answer leaves the name out.
\* It says nothing of the node.
LearnUser == user' \in {user, "account"}

Authenticate ==
  /\ user' = "account"
  /\ UNCHANGED <<node, handle, callVars, pc, tries, refreshed, result, told,
                 before, serverVars, unsure, softly, strayVars>>

-----------------------------------------------------------------------------
(* The beginning and the end of a call.                                    *)

\* The name a body carries when the caller put none in it; the transport
\* sends the same body at every attempt.
BodyUser(o) == IF o.names THEN handle ELSE "none"

Offered ==
  IF pc = "send" \/ handle = "none" \/ calls = MaxCalls THEN {}
  ELSE IF op = None THEN Table ELSE Follows[op]

Begin(o, next, args) ==
  /\ calls' = calls + 1
  /\ op' = o
  /\ given' = args
  /\ before' = res /\ bounced' = FALSE
  /\ acts' = 0 /\ mistaken' = None
  /\ unsure' = FALSE /\ softly' = FALSE
  /\ tries' = 0 /\ refreshed' = FALSE
  /\ told' = "nothing"
  /\ UNCHANGED <<handleVars, res, strayVars>>
  /\ IF o.needs \subseteq args
     THEN pc' = "send" /\ result' = "none" /\ then' = next /\ named' = BodyUser(o)
     ELSE pc' = "done" /\ result' = "refused" /\ then' = None /\ named' = "none"

\* The caller has all the arguments, or all but one.  Of those that take the
\* client's node URL for one, it is given as the client was configured.
Given(o) ==
  {args \in {Arguments(o)} \cup {Arguments(o) \ {a} : a \in Arguments(o)} :
     "NodeURL" \in o.needs => ("NodeURL" \in args <=> node)}

Call == \E o \in Offered : \E args \in Given(o) : Begin(o, None, args)

\* services.Client.Restart
Restart == \E r \in Restarts : r[1] \in Offered /\ \E args \in Given(r[1]) : Begin(r[1], r[2], args)

Return(r) ==
  /\ pc' = "done"
  /\ result' = r
  /\ then' = None
  /\ UNCHANGED <<calls, op, given, named, tries, refreshed>>

\* A success ends the call, or the method goes on with its next operation.
\* A failure that came inside the 2xx is a success to it.
Succeed ==
  IF then = None
  THEN Return("nil")
  ELSE /\ op' = then
       /\ then' = None
       /\ tries' = 0 /\ refreshed' = FALSE
       /\ UNCHANGED <<calls, given, named, pc, result>>

\* The bug of going on when the first operation failed.
FailOrGoOn == IF then = None THEN Return("err") ELSE Succeed

\* The bug of a loop that forgets the error of its last attempt.
FailAsNil == Return("nil")

Fail == Return("err")

\* A repeatable error: once more, unless the budget is spent.  A stream is
\* sent once.
Again ==
  IF op.via # "stream" /\ tries + 1 < Budget
  THEN /\ tries' = tries + 1
       /\ UNCHANGED <<callVars, pc, refreshed, result>>
  ELSE Fail

\* The bug of an answer that does not parse being sent for once more.
ReceiveOrAgain == Succeed \/ (Decodes(op) /\ Again)

\* A 2xx is in.  A method that decodes it notices when the body breaks off in
\* the middle, and takes a body without a byte for a success; the others
\* return without looking.
Receive == Succeed \/ (Decodes(op) /\ Fail)

-----------------------------------------------------------------------------
(* What the server does with a request.                                    *)

Addressed(o) == o.host = "node" => node

\* It changes one resource; the last request to arrive decides.
After(o) ==
  IF o.does \in {"up", "once", "start"} THEN "up"
  ELSE IF o.does = "down" THEN "down"
  ELSE IF o.does \in {"drop", "wipe"} THEN "gone"
  ELSE res

\* What it will not do a second time, and says so.
Repeated(o) ==
  \/ o.does \in {"once", "start"} /\ res = "up"
  \/ o.does = "drop" /\ res = "gone"

\* Of a method of two operations, acts counts the last.
Perform(o) ==
  /\ res' = After(o)
  /\ bounced' = (bounced \/ After(o) = "down")
  /\ acts' = IF then = None THEN acts + 1 ELSE acts
  /\ UNCHANGED mistaken

Undone == UNCHANGED serverVars

\* The address of another operation: what that one does happens.
PerformOther(q) ==
  /\ mistaken' = q
  /\ res' = After(q)
  /\ UNCHANGED <<bounced, acts>>

\* The address holds all its arguments.
Complete == HolesOf(op.path) \subseteq given

\* The server's side of an answered transmission.
Serve ==
  IF Complete
  THEN Perform(op)
  ELSE \E q \in Instead[op] : PerformOther(q)

-----------------------------------------------------------------------------
(* One transmission and what comes of it.                                  *)

Sending == pc = "send"
Reached == Sending /\ Addressed(op)

\* Without a node URL the address has no host: the transport takes that for a
\* network error, at every attempt.
NoHost ==
  /\ Sending /\ ~Addressed(op)
  /\ Again
  /\ Undone
  /\ UNCHANGED <<handleVars, told, before, unsure, softly, strayVars>>

\* The request does not arrive, or not before the client has given up on it.
NotArrived ==
  /\ Reached
  /\ Again
  /\ Undone
  /\ unsure' = TRUE
  /\ strays' \in IF Complete THEN {strays, strays \cup {op}} ELSE {strays}
  /\ UNCHANGED <<handleVars, told, before, softly, late>>

\* The server has done it, and its answer is lost or a 5xx.
AnswerLost ==
  /\ Reached
  /\ ~(Complete /\ Repeated(op))
  /\ Serve
  /\ Again
  /\ unsure' = TRUE
  /\ UNCHANGED <<handleVars, told, before, softly, strayVars>>

\* 429, or a 5xx of a server that did nothing.
Overloaded ==
  /\ Reached
  /\ Again
  /\ Undone
  /\ UNCHANGED <<handleVars, told, before, unsure, softly, strayVars>>

\* A definitive refusal; nobody serves an address without its argument.
Rejected ==
  /\ Reached
  /\ Fail
  /\ Undone
  /\ told' = "rejected"
  /\ UNCHANGED <<handleVars, before, unsure, softly, strayVars>>

\* 401: one exchange, then the same body again while the budget lasts.  A
\* stream does not refresh.
Unauthorized ==
  /\ Reached
  /\ op.via # "stream" /\ ~refreshed
  /\ LearnUser
  /\ \/ /\ tries + 1 < Budget
        /\ tries' = tries + 1
        /\ refreshed' = TRUE
        /\ UNCHANGED <<callVars, pc, result>>
     \/ /\ tries + 1 >= Budget
        /\ Fail
  /\ Undone
  /\ UNCHANGED <<node, handle, told, before, unsure, softly, strayVars>>

\* The server does it and answers.
Answered ==
  /\ Reached
  /\ ~(Complete /\ Repeated(op))
  /\ Serve
  /\ told' = "done"
  /\ Receive
  /\ UNCHANGED <<handleVars, before, unsure, softly, strayVars>>

\* The server does not do it and says so inside a 2xx.
AnsweredSoftly ==
  /\ Reached
  /\ op.soft
  /\ Undone
  /\ told' = "soft"
  /\ softly' = TRUE
  /\ Receive
  /\ UNCHANGED <<handleVars, before, unsure, strayVars>>

\* It was done already: "once" is a success that says so, a second "start" is
\* a 409 and a second "drop" a 404.
AnsweredRepeated ==
  /\ Reached
  /\ Complete /\ Repeated(op)
  /\ Undone
  /\ IF op.does = "once"
     THEN told' = "already" /\ Receive
     ELSE told' = "conflict" /\ Fail
  /\ UNCHANGED <<handleVars, before, unsure, softly, strayVars>>

\* A request the client gave up on arrives.  It can be of the call in progress
\* only if that one has lost a transmission.
ServedLate(o) ==
  /\ o \in strays
  /\ strays' = strays \ {o}
  /\ late' = (late \/ o # op \/ ~unsure)
  /\ IF Repeated(o)
     THEN Undone
     ELSE IF Sending /\ o = op
     THEN Perform(o)
     ELSE res' = After(o) /\ UNCHANGED <<bounced, acts, mistaken>>
  /\ UNCHANGED <<handleVars, callVars, pc, tries, refreshed, result, told,
                 before, unsure, softly>>

Transmission ==
  \/ NoHost \/ NotArrived \/ AnswerLost \/ Overloaded \/ Rejected
  \/ Unauthorized \/ Answered \/ AnsweredSoftly
  \/ AnsweredRepeated

Next ==
  \/ Take \/ Authenticate \/ Call \/ Restart \/ Transmission
  \/ \E o \in strays : ServedLate(o)

Spec == Init /\ [][Next]_vars

-----------------------------------------------------------------------------
(* Properties.                                                             *)

\* The server never does another operation than the one that was called,
\* except that a method that does not check the id in its address
\* (cicd, marketplace, agentcli) may be answered by one that only reads.
OwnOperation ==
  mistaken # None => ~Checks(op) /\ mistaken.does = "read"

\* A nil error means that the server did what was asked, during this call or
\* before it, unless the failure is in its answer: never that the budget was
\* spent, that the server refused or that nothing was reached.  It does not mean
\* that the answer came whole (see Receive).
NilIsDone ==
  result = "nil" /\ Checks(op) /\ ~softly => acts > 0 \/ told = "already"

\* When a call that starts, stops or removes returns nil, the resource is as
\* the call left it, however often its requests were repeated and whatever
\* of them is still under way: only a request of an earlier operation that
\* arrives late (the stop of a restart among them) undoes it.
Settled ==
  result = "nil" /\ ~softly /\ ~late /\ mistaken = None => res = After(op)

\* "Already converted", "already running" or "not found" is the echo of the
\* call's own request, whose answer was lost, or the state it began in.
RepetitionIsTold ==
  told \in {"already", "conflict"} =>
    \/ unsure \/ late
    \/ before = IF op.does = "drop" THEN "gone" ELSE "up"

\* The server does an operation twice in one call only when the client could
\* not know that it had done it.
RepeatedOnlyWhenUnsure == acts > 1 => unsure \/ late

\* A restart starts only what it has stopped, or what it was told inside a
\* 2xx could not be stopped (services.go:107 drops that answer).
RestartStopsFirst ==
  [][then # None /\ op' = then => bounced' \/ softly']_vars

\* The inductive invariant: where the caller is in a call, and what can have
\* happened by then.
CallOK ==
  /\ pc = "idle" <=> op = None
  /\ pc = "send" => op.needs \subseteq given /\ tries < Budget
  /\ result = "none" <=> pc # "done"
  /\ then # None => pc = "send" /\ <<op, then>> \in Restarts

HistoryOK ==
  /\ then # None => acts = 0
  /\ pc = "send" /\ acts > 0 => unsure \/ late
  /\ pc = "send" => told \notin {"already", "conflict"}
  /\ pc = "send" /\ op.does \in {"once", "start", "drop"} =>
       res = before \/ unsure \/ late

IInv ==
  /\ TypeOK /\ CallOK /\ HistoryOK
  /\ NilIsDone /\ Settled /\ RepetitionIsTold /\ RepeatedOnlyWhenUnsure

\* What the tables must be for a method that does not check its address.
OnlyReadsInstead ==
  \A o \in Table : ~Checks(o) => \A q \in Instead[o] : q.does = "read"

=============================================================================
