-------------------------------- MODULE JobWait --------------------------------
(***************************************************************************)
(* The loops that wait for something a server does on its own: waitForJob   *)
(* of Go, waitForCompletion of TypeScript and wait_for_completion of Python *)
(* for a fine-tuning, a training or a knowledge base; Sandbox.wait_ready    *)
(* and wait_for_campaign of Python.  All of them poll, sleep and give up at  *)
(* a deadline, and each judges what it read in its own way.                 *)
(*                                                                         *)
(* Several waiters may wait for the same thing.  In TypeScript and Python   *)
(* the job is an object that every poll updates in place: waiters that hold *)
(* the same object read each other's answers ("shared" below).             *)
(*                                                                         *)
(* The specification is named WaitSpec, and its variables apart from those  *)
(* of ChatStream, so that one module can prove theorems about both.         *)
(***************************************************************************)
EXTENDS Naturals

CONSTANT Waiters

VARIABLES
  service,   (* what is waited for: "job", "sandbox" or "campaign"          *)
  how,       (* waiter -> "own" (Go, and the loops of Python that keep the   *)
             (* answer in a variable) or "shared"                           *)
  job,       (* what the server would answer                               *)
  ready,     (* history: the states the server's job has been in           *)
  at,        (* waiter -> "poll", "asking", "judge", "sleep" or "done"      *)
  late,      (* waiter -> its deadline has passed                           *)
  cancelled, (* waiter -> its context is done (Go)                          *)
  answer,    (* waiter -> the answer on its way to it, or "none"            *)
  seen,      (* waiter -> the last answer it holds                          *)
  result,    (* waiter -> what the wait returned                            *)
  woke,      (* history: waiter -> the job as it was when it last woke      *)
  older      (* history: waiter -> another's answer replaced its own        *)

serverVars == <<service, how, job, ready>>
waiterVars == <<at, late, cancelled, answer, seen, result, woke, older>>
waitVars == <<serverVars, waiterVars>>

\* A campaign ends "empty" when it sent to nobody.
States == {"queued", "busy", "good", "bad", "empty"}
Results == {"none", "ended", "err", "timeout", "unfinished"}

\* terminalStatuses, TERMINAL.
Terminal == {"good", "bad"}

\* What the waiter returns as the end it waited for.
Awaited == IF service = "job" THEN Terminal ELSE {"good"}

\* The job changes only so; a sandbox that was ready may expire.
Moves == {
  <<"job", "queued", "busy">>, <<"job", "queued", "bad">>,
  <<"job", "busy", "good">>, <<"job", "busy", "bad">>,
  <<"sandbox", "queued", "good">>, <<"sandbox", "queued", "bad">>,
  <<"sandbox", "good", "bad">>,
  <<"campaign", "queued", "busy">>, <<"campaign", "busy", "good">>,
  <<"campaign", "busy", "empty">>}

WaitTypeOK ==
  /\ service \in {"job", "sandbox", "campaign"}
  /\ how \in [Waiters -> {"own", "shared"}]
  /\ job \in States /\ ready \subseteq States
  /\ at \in [Waiters -> {"poll", "asking", "judge", "sleep", "done"}]
  /\ late \in [Waiters -> BOOLEAN] /\ cancelled \in [Waiters -> BOOLEAN]
  /\ answer \in [Waiters -> States \cup {"none"}]
  /\ seen \in [Waiters -> States]
  /\ result \in [Waiters -> Results]
  /\ woke \in [Waiters -> States] /\ older \in [Waiters -> BOOLEAN]

WaitInit ==
  /\ service \in {"job", "sandbox", "campaign"}
  /\ how \in [Waiters -> IF service = "job" THEN {"own", "shared"} ELSE {"own"}]
  /\ job = "queued" /\ ready = {"queued"}
  /\ at = [w \in Waiters |-> "poll"]
  /\ late = [w \in Waiters |-> FALSE]
  /\ cancelled = [w \in Waiters |-> FALSE]
  /\ answer = [w \in Waiters |-> "none"]
  /\ seen = [w \in Waiters |-> "queued"]
  /\ result = [w \in Waiters |-> "none"]
  /\ woke = [w \in Waiters |-> "queued"]
  /\ older = [w \in Waiters |-> FALSE]

-----------------------------------------------------------------------------
(* The server, the clock and the caller.                                   *)

Advance ==
  /\ job' \in States /\ <<service, job, job'>> \in Moves
  /\ ready' = ready \cup {job'}
  /\ UNCHANGED <<service, how, waiterVars>>

Deadline(w) ==
  /\ at[w] # "done" /\ ~late[w]
  /\ late' = [late EXCEPT ![w] = TRUE]
  /\ UNCHANGED <<serverVars, at, cancelled, answer, seen, result, woke, older>>

\* Only the waiters of Go have a context.
Cancel(w) ==
  /\ service = "job" /\ how[w] = "own"
  /\ at[w] # "done" /\ ~cancelled[w]
  /\ cancelled' = [cancelled EXCEPT ![w] = TRUE]
  /\ UNCHANGED <<serverVars, at, late, answer, seen, result, woke, older>>

-----------------------------------------------------------------------------
(* One turn of the loop.                                                   *)

Return(w, r) ==
  /\ at' = [at EXCEPT ![w] = "done"]
  /\ result' = [result EXCEPT ![w] = r]

Goto(w, p) ==
  /\ at' = [at EXCEPT ![w] = p]
  /\ UNCHANGED result

\* while time < deadline: of the sandbox and the campaign.
GivesUpFirst(w) == service # "job" /\ late[w]

Poll(w) ==
  /\ at[w] = "poll"
  /\ IF GivesUpFirst(w)
     THEN Return(w, IF service = "sandbox" THEN "timeout" ELSE "unfinished")
     ELSE IF cancelled[w] THEN Return(w, "err") ELSE Goto(w, "asking")
  /\ answer' = [answer EXCEPT ![w] = "none"]
  /\ UNCHANGED <<serverVars, late, cancelled, seen, woke, older>>

\* The server reads the job; a GET whose answer was lost is sent again, so it
\* may read it more than once.
Serve(w) ==
  /\ at[w] = "asking"
  /\ answer' = [answer EXCEPT ![w] = job]
  /\ UNCHANGED <<serverVars, at, late, cancelled, seen, result, woke, older>>

\* Any error of the transport ends the wait.
PollFails(w) ==
  /\ at[w] = "asking"
  /\ Return(w, "err")
  /\ UNCHANGED <<serverVars, late, cancelled, answer, seen, woke, older>>

\* Those who read what w reads.
Readers(w) == IF how[w] = "shared" THEN {v \in Waiters : how[v] = "shared"} ELSE {w}

Receive(w) ==
  /\ at[w] = "asking" /\ answer[w] # "none"
  /\ seen' = [v \in Waiters |-> IF v \in Readers(w) THEN answer[w] ELSE seen[v]]
  /\ older' = [v \in Waiters |->
                 IF v = w THEN FALSE
                 ELSE older[v] \/ (v \in Readers(w) /\ at[v] = "judge")]
  /\ Goto(w, "judge")
  /\ UNCHANGED <<serverVars, late, cancelled, answer, woke>>

\* The bug of looking at the clock before the answer.
JudgeClockFirst(w) ==
  /\ at[w] = "judge"
  /\ IF service = "job" /\ late[w] THEN Return(w, "timeout")
     ELSE IF seen[w] \in Awaited THEN Return(w, "ended")
     ELSE IF service = "sandbox" /\ seen[w] = "bad" THEN Return(w, "err")
     ELSE Goto(w, "sleep")
  /\ UNCHANGED <<serverVars, late, cancelled, answer, seen, woke, older>>

\* The bug of a loop that does not look at the clock.
JudgeForEver(w) ==
  /\ at[w] = "judge"
  /\ IF seen[w] \in Awaited THEN Return(w, "ended") ELSE Goto(w, "sleep")
  /\ UNCHANGED <<serverVars, late, cancelled, answer, seen, woke, older>>

\* The clock is looked at after the answer.
Judge(w) ==
  /\ at[w] = "judge"
  /\ IF seen[w] \in Awaited THEN Return(w, "ended")
     ELSE IF service = "sandbox" /\ seen[w] = "bad" THEN Return(w, "err")
     ELSE IF service = "job" /\ late[w] THEN Return(w, "timeout")
     ELSE Goto(w, "sleep")
  /\ UNCHANGED <<serverVars, late, cancelled, answer, seen, woke, older>>

Wake(w) ==
  /\ at[w] = "sleep"
  /\ Goto(w, "poll")
  /\ woke' = [woke EXCEPT ![w] = job]
  /\ UNCHANGED <<serverVars, late, cancelled, answer, seen, older>>

\* select between the context and the interval.
StopSleeping(w) ==
  /\ at[w] = "sleep" /\ cancelled[w]
  /\ Return(w, "err")
  /\ UNCHANGED <<serverVars, late, cancelled, answer, seen, woke, older>>

Loop(w) ==
  \/ Poll(w) \/ Serve(w) \/ PollFails(w) \/ Receive(w) \/ Judge(w)
  \/ Wake(w) \/ StopSleeping(w)

WaitNext == Advance \/ \E w \in Waiters : Loop(w) \/ Deadline(w) \/ Cancel(w)

\* Timers fire, and every request of a poll comes to an answer or an error (the
\* transports: EveryCallReturns, SendSettles).  The server owes nothing.
Fairness ==
  \A w \in Waiters :
    /\ WF_waitVars(Poll(w) \/ PollFails(w) \/ Receive(w) \/ Judge(w) \/ Wake(w))
    /\ WF_waitVars(Deadline(w))

WaitSpec == WaitInit /\ [][WaitNext]_waitVars
FairWaitSpec == WaitSpec /\ Fairness

-----------------------------------------------------------------------------
(* Properties.                                                             *)

\* A wait that says the job, the sandbox or the campaign has ended is right, and
\* a wait for a job that says it has timed out did not sleep through its end:
\* what it woke to was still running, unless a slower answer of another waiter
\* overwrote the shared job before it was judged.
VerdictIsTrue ==
  \A w \in Waiters :
    /\ result[w] = "ended" => ready \cap Awaited # {}
    /\ result[w] = "timeout" /\ service = "job" /\ woke[w] \in Terminal => older[w]

\* The inductive invariant.  What a waiter holds is a state the job was in, it
\* returns once, and what it judges is not older than the job it woke to.
HeldIsReal ==
  /\ job \in ready
  /\ \A w \in Waiters : /\ seen[w] \in ready
                        /\ answer[w] \in ready \cup {"none"}
                        /\ at[w] = "done" <=> result[w] # "none"

NotOlder ==
  service = "job" => \A w \in Waiters :
    woke[w] \in Terminal =>
      /\ job \in Terminal
      /\ at[w] = "asking" => answer[w] \in Terminal \cup {"none"}
      /\ at[w] = "judge" => seen[w] \in Terminal \/ older[w]

WaitInv == WaitTypeOK /\ HeldIsReal /\ NotOlder /\ VerdictIsTrue

\* Every wait returns, although the job may never end.
EveryWaitEnds == <>(\A w \in Waiters : at[w] = "done")

-----------------------------------------------------------------------------
(* The variant behind EveryWaitEnds.                                       *)

\* The turns a wait can still take once it is to end: of a loop that looks at the
\* clock when it has judged an answer, and of one that looks before it asks.
ClockLast == [sleep |-> 4, poll |-> 3, asking |-> 2, judge |-> 1, done |-> 0]
ClockFirst == [asking |-> 4, judge |-> 3, sleep |-> 2, poll |-> 1, done |-> 0]

TurnsLeft(w) == IF service = "job" THEN ClockLast[at[w]] ELSE ClockFirst[at[w]]

\* A wait that is late or whose context is done stays so, and every turn it takes
\* then brings it nearer to its return: it takes four at most, whatever the
\* server answers and whatever other waiters write into the job.
WindsDown ==
  [][\A w \in Waiters :
       /\ late[w] => late'[w] /\ TurnsLeft(w)' <= TurnsLeft(w)
       /\ late[w] /\ at'[w] # at[w] => TurnsLeft(w)' < TurnsLeft(w)
       /\ cancelled[w] => cancelled'[w]
       /\ cancelled[w] /\ at'[w] # at[w] => ClockFirst[at'[w]] < ClockFirst[at[w]]]_waitVars

=============================================================================
