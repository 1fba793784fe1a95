-------------------------- MODULE OperationsProofs --------------------------
(***************************************************************************)
(* Proofs about Operations: its inductive invariant, and with it that nil    *)
(* means done, that the effect of the last call stays, and that a repetition *)
(* is explained by a lost answer, for every table of operations.           *)
(***************************************************************************)
EXTENDS Operations, TLAPS

USE DEF Table

\* What the tables promise of the two operations of a restart.
LEMMA RestartFacts ==
  ASSUME NEW o \in Ops, NEW q \in Ops, <<o, q>> \in Restarts
  PROVE  /\ o.does = "down" /\ q.does = "up"
         /\ q.needs \subseteq o.needs
         /\ HolesOf(o.path) \subseteq o.needs
BY RestartAssumption DEF Checks, Arguments

\* The effect of an operation, and what may be served in its place.
LEMMA AfterType == ASSUME res \in States, NEW o PROVE After(o) \in States
BY DEF After, States

LEMMA InsteadType == ASSUME NEW o \in Ops, NEW q \in Instead[o] PROVE q \in Ops
BY DEF Instead, ServedInstead

\* A client that has not been used yet.
LEMMA InitInv == Init => IInv
<1> SUFFICES ASSUME Init PROVE IInv
  OBVIOUS
<1>1. Numbers
  BY OpsAssumption DEF Init, Numbers
<1>5. Flags
  BY DEF Init, Flags
<1>2. Names /\ Rows /\ Progress
  BY DEF Init, Names, Rows, Progress, States
<1>3. CallOK /\ HistoryOK
  BY DEF Init, CallOK, HistoryOK
<1>4. NilIsDone /\ Settled /\ RepetitionIsTold /\ RepeatedOnlyWhenUnsure
  BY DEF Init, NilIsDone, Settled, RepetitionIsTold, RepeatedOnlyWhenUnsure
<1> QED BY <1>1, <1>2, <1>3, <1>4, <1>5 DEF IInv, TypeOK

-----------------------------------------------------------------------------
(* Each step preserves the invariant.                                      *)

\* Taking a handle, or exchanging the key, touches no call.
LEMMA TakeStep == ASSUME IInv, Take \/ Authenticate PROVE IInv'
<1>1. Numbers' /\ Flags' /\ Names' /\ Rows' /\ Progress'
  BY DEF IInv, TypeOK, Numbers, Flags, Names, Rows, Progress, Take,
     Authenticate, callVars, serverVars, strayVars
<1>2. CallOK' /\ HistoryOK'
  BY DEF IInv, Take, Authenticate, CallOK, HistoryOK, callVars, serverVars,
     strayVars
<1>3. NilIsDone' /\ Settled' /\ RepetitionIsTold' /\ RepeatedOnlyWhenUnsure'
  BY DEF IInv, Take, Authenticate, NilIsDone, Settled, After, RepetitionIsTold,
     RepeatedOnlyWhenUnsure, callVars, serverVars, strayVars
<1> QED BY <1>1, <1>2, <1>3 DEF IInv, TypeOK

\* A call begins alone, or with the second operation of a restart.
LEMMA BeginStep ==
  ASSUME IInv, NEW o \in Offered, NEW args, NEW next \in Ops \cup {None},
         next # None => <<o, next>> \in Restarts, Begin(o, next, args)
  PROVE  IInv'
<1> USE DEF Begin, handleVars, strayVars
<1>1. o \in Ops
  BY OpsAssumption DEF Offered, Follows, IInv, TypeOK, Rows
<1>2. calls < MaxCalls
  BY OpsAssumption DEF Offered, IInv, TypeOK, Numbers
<1>3. Numbers'
  BY <1>2, OpsAssumption DEF IInv, TypeOK, Numbers
<1>8. Flags'
  BY DEF IInv, TypeOK, Flags
<1>4. Names'
  BY DEF IInv, TypeOK, Names, BodyUser
<1>5. Rows' /\ Progress'
  BY <1>1 DEF IInv, TypeOK, Rows, Progress
<1>6. CallOK' /\ HistoryOK'
  BY <1>1, OpsAssumption DEF CallOK, HistoryOK
<1>7. NilIsDone' /\ Settled' /\ RepetitionIsTold' /\ RepeatedOnlyWhenUnsure'
  BY DEF NilIsDone, Settled, RepetitionIsTold, RepeatedOnlyWhenUnsure
<1> QED BY <1>3, <1>4, <1>5, <1>6, <1>7, <1>8 DEF IInv, TypeOK

\* An address without a host: the request is tried again or given up.
LEMMA NoHostStep == ASSUME IInv, NoHost PROVE IInv'
<1> USE DEF NoHost, Again, Fail, Return, Undone, Sending,
            IInv, TypeOK, handleVars, callVars, serverVars, strayVars
<1>1. op \in Ops /\ then \in Ops \cup {None} /\ result = "none"
  BY OpsAssumption DEF Rows, CallOK
<1>2. then # None => op.does = "down" /\ then.does = "up" /\ Complete
  BY <1>1, RestartFacts DEF CallOK, Complete
<1>3. Numbers'
  BY <1>1, OpsAssumption DEF Numbers
<1>4. Names'
  BY DEF Names
<1>12. Flags'
  BY DEF Flags
<1>5. Rows'
  BY <1>1 DEF Rows
<1>6. Progress'
  BY <1>1 DEF Progress, CallOK
<1>7. CallOK'
  BY <1>1, <1>2, RestartFacts, OpsAssumption DEF CallOK, Numbers
<1>8. HistoryOK'
  BY <1>1, <1>2, OpsAssumption DEF CallOK, HistoryOK, Numbers
<1>9. NilIsDone'
  BY <1>1, <1>2 DEF NilIsDone, Checks, Arguments, Complete, CallOK, Numbers
<1>10. Settled'
  BY <1>1, <1>2 DEF Settled, After, Repeated
<1>11. RepetitionIsTold' /\ RepeatedOnlyWhenUnsure'
  BY <1>1, <1>2 DEF RepetitionIsTold, RepeatedOnlyWhenUnsure, HistoryOK,
     Repeated, Numbers
<1> QED BY <1>3, <1>4, <1>5, <1>6, <1>7, <1>8, <1>9, <1>10, <1>11,
       <1>12

\* A request that does not arrive leaves the call unsure.
LEMMA NotArrivedStep == ASSUME IInv, NotArrived PROVE IInv'
<1> USE DEF NotArrived, Again, Fail, Return, Undone, Sending, Reached,
            IInv, TypeOK, handleVars, callVars, serverVars, strayVars
<1>1. op \in Ops /\ then \in Ops \cup {None} /\ result = "none"
  BY OpsAssumption DEF Rows, CallOK
<1>2. then # None => op.does = "down" /\ then.does = "up" /\ Complete
  BY <1>1, RestartFacts DEF CallOK, Complete
<1>3. Numbers'
  BY <1>1, OpsAssumption DEF Numbers
<1>4. Names'
  BY DEF Names
<1>12. Flags'
  BY DEF Flags
<1>5. Rows'
  BY <1>1 DEF Rows
<1>6. Progress'
  BY <1>1 DEF Progress, CallOK
<1>7. CallOK'
  BY <1>1, <1>2, RestartFacts, OpsAssumption DEF CallOK, Numbers
<1>8. HistoryOK'
  BY <1>1, <1>2, OpsAssumption DEF CallOK, HistoryOK, Numbers
<1>9. NilIsDone'
  BY <1>1, <1>2 DEF NilIsDone, Checks, Arguments, Complete, CallOK, Numbers
<1>10. Settled'
  BY <1>1, <1>2 DEF Settled, After, Repeated
<1>11. RepetitionIsTold' /\ RepeatedOnlyWhenUnsure'
  BY <1>1, <1>2 DEF RepetitionIsTold, RepeatedOnlyWhenUnsure, HistoryOK,
     Repeated, Numbers
<1> QED BY <1>3, <1>4, <1>5, <1>6, <1>7, <1>8, <1>9, <1>10, <1>11,
       <1>12

\* A request whose answer is lost leaves the call unsure.
LEMMA AnswerLostStep == ASSUME IInv, AnswerLost PROVE IInv'
<1> USE DEF AnswerLost, Again, Fail, Return, Serve, Perform, PerformOther, Sending, Reached,
            IInv, TypeOK, handleVars, callVars, serverVars, strayVars
<1>1. op \in Ops /\ then \in Ops \cup {None} /\ result = "none"
  BY OpsAssumption DEF Rows, CallOK
<1>2. then # None => op.does = "down" /\ then.does = "up" /\ Complete
  BY <1>1, RestartFacts DEF CallOK, Complete
<1>3. Numbers'
  BY <1>1, OpsAssumption DEF Numbers
<1>4. Names'
  BY DEF Names
<1>12. Flags'
  BY DEF Flags
<1>5. Rows'
  BY <1>1, InsteadType DEF Rows
<1>6. Progress'
  BY <1>1, AfterType DEF Progress, CallOK
<1>7. CallOK'
  BY <1>1, <1>2, RestartFacts, OpsAssumption DEF CallOK, Numbers
<1>8. HistoryOK'
  BY <1>1, <1>2, OpsAssumption DEF CallOK, HistoryOK, Numbers, After
<1>9. NilIsDone'
  BY <1>1, <1>2 DEF NilIsDone, Checks, Arguments, Complete, CallOK, Numbers
<1>10. Settled'
  BY <1>1, <1>2 DEF Settled, After, Repeated
<1>11. RepetitionIsTold' /\ RepeatedOnlyWhenUnsure'
  BY <1>1, <1>2 DEF RepetitionIsTold, RepeatedOnlyWhenUnsure, HistoryOK,
     Repeated, Numbers
<1> QED BY <1>3, <1>4, <1>5, <1>6, <1>7, <1>8, <1>9, <1>10, <1>11,
       <1>12

\* A server that did nothing and says so.
LEMMA OverloadedStep == ASSUME IInv, Overloaded PROVE IInv'
<1> USE DEF Overloaded, Again, Fail, Return, Undone, Sending, Reached,
            IInv, TypeOK, handleVars, callVars, serverVars, strayVars
<1>1. op \in Ops /\ then \in Ops \cup {None} /\ result = "none"
  BY OpsAssumption DEF Rows, CallOK
<1>2. then # None => op.does = "down" /\ then.does = "up" /\ Complete
  BY <1>1, RestartFacts DEF CallOK, Complete
<1>3. Numbers'
  BY <1>1, OpsAssumption DEF Numbers
<1>4. Names'
  BY DEF Names
<1>12. Flags'
  BY DEF Flags
<1>5. Rows'
  BY <1>1 DEF Rows
<1>6. Progress'
  BY <1>1 DEF Progress, CallOK
<1>7. CallOK'
  BY <1>1, <1>2, RestartFacts, OpsAssumption DEF CallOK, Numbers
<1>8. HistoryOK'
  BY <1>1, <1>2, OpsAssumption DEF CallOK, HistoryOK, Numbers
<1>9. NilIsDone'
  BY <1>1, <1>2 DEF NilIsDone, Checks, Arguments, Complete, CallOK, Numbers
<1>10. Settled'
  BY <1>1, <1>2 DEF Settled, After, Repeated
<1>11. RepetitionIsTold' /\ RepeatedOnlyWhenUnsure'
  BY <1>1, <1>2 DEF RepetitionIsTold, RepeatedOnlyWhenUnsure, HistoryOK,
     Repeated, Numbers
<1> QED BY <1>3, <1>4, <1>5, <1>6, <1>7, <1>8, <1>9, <1>10, <1>11,
       <1>12

\* A definitive refusal ends the call in an error.
LEMMA RejectedStep == ASSUME IInv, Rejected PROVE IInv'
<1> USE DEF Rejected, Fail, Return, Undone, Sending, Reached,
            IInv, TypeOK, handleVars, callVars, serverVars, strayVars
<1>1. op \in Ops /\ then \in Ops \cup {None} /\ result = "none"
  BY OpsAssumption DEF Rows, CallOK
<1>2. then # None => op.does = "down" /\ then.does = "up" /\ Complete
  BY <1>1, RestartFacts DEF CallOK, Complete
<1>3. Numbers'
  BY <1>1, OpsAssumption DEF Numbers
<1>4. Names'
  BY DEF Names
<1>12. Flags'
  BY DEF Flags
<1>5. Rows'
  BY <1>1 DEF Rows
<1>6. Progress'
  BY <1>1 DEF Progress, CallOK
<1>7. CallOK'
  BY <1>1, <1>2, RestartFacts, OpsAssumption DEF CallOK, Numbers
<1>8. HistoryOK'
  BY <1>1, <1>2, OpsAssumption DEF CallOK, HistoryOK, Numbers
<1>9. NilIsDone'
  BY <1>1, <1>2 DEF NilIsDone, Checks, Arguments, Complete, CallOK, Numbers
<1>10. Settled'
  BY <1>1, <1>2 DEF Settled, After, Repeated
<1>11. RepetitionIsTold' /\ RepeatedOnlyWhenUnsure'
  BY <1>1, <1>2 DEF RepetitionIsTold, RepeatedOnlyWhenUnsure, HistoryOK,
     Repeated, Numbers
<1> QED BY <1>3, <1>4, <1>5, <1>6, <1>7, <1>8, <1>9, <1>10, <1>11,
       <1>12

\* A 401: the replay counts as an attempt.
LEMMA UnauthorizedStep == ASSUME IInv, Unauthorized PROVE IInv'
<1> USE DEF Unauthorized, Fail, Return, LearnUser, Undone, Sending, Reached,
            IInv, TypeOK, handleVars, callVars, serverVars, strayVars
<1>1. op \in Ops /\ then \in Ops \cup {None} /\ result = "none"
  BY OpsAssumption DEF Rows, CallOK
<1>2. then # None => op.does = "down" /\ then.does = "up" /\ Complete
  BY <1>1, RestartFacts DEF CallOK, Complete
<1>3. Numbers'
  BY <1>1, OpsAssumption DEF Numbers
<1>4. Names'
  BY DEF Names
<1>12. Flags'
  BY DEF Flags
<1>5. Rows'
  BY <1>1 DEF Rows
<1>6. Progress'
  BY <1>1 DEF Progress, CallOK
<1>7. CallOK'
  BY <1>1, <1>2, RestartFacts, OpsAssumption DEF CallOK, Numbers
<1>8. HistoryOK'
  BY <1>1, <1>2, OpsAssumption DEF CallOK, HistoryOK, Numbers
<1>9. NilIsDone'
  BY <1>1, <1>2 DEF NilIsDone, Checks, Arguments, Complete, CallOK, Numbers
<1>10. Settled'
  BY <1>1, <1>2 DEF Settled, After, Repeated
<1>11. RepetitionIsTold' /\ RepeatedOnlyWhenUnsure'
  BY <1>1, <1>2 DEF RepetitionIsTold, RepeatedOnlyWhenUnsure, HistoryOK,
     Repeated, Numbers
<1> QED BY <1>3, <1>4, <1>5, <1>6, <1>7, <1>8, <1>9, <1>10, <1>11,
       <1>12

\* An answer ends the call, or the first half of a restart.
LEMMA AnsweredStep == ASSUME IInv, Answered PROVE IInv'
<1> USE DEF Answered, Receive, Succeed, Fail, Return, Serve, Perform, PerformOther, Sending, Reached,
            IInv, TypeOK, handleVars, callVars, serverVars, strayVars
<1>1. op \in Ops /\ then \in Ops \cup {None} /\ result = "none"
  BY OpsAssumption DEF Rows, CallOK
<1>2. then # None => op.does = "down" /\ then.does = "up" /\ Complete
  BY <1>1, RestartFacts DEF CallOK, Complete
<1>3. Numbers'
  BY <1>1, OpsAssumption DEF Numbers
<1>4. Names'
  BY DEF Names
<1>12. Flags'
  BY DEF Flags
<1>5. Rows'
  BY <1>1, InsteadType DEF Rows
<1>6. Progress'
  BY <1>1, AfterType DEF Progress, CallOK
<1>7. CallOK'
  BY <1>1, <1>2, RestartFacts, OpsAssumption DEF CallOK, Numbers
<1>8. HistoryOK'
  BY <1>1, <1>2, OpsAssumption DEF CallOK, HistoryOK, Numbers, After
<1>9. NilIsDone'
  BY <1>1, <1>2 DEF NilIsDone, Checks, Arguments, Complete, CallOK, Numbers
<1>10. Settled'
  <2>1. CASE Complete
    BY <1>1, <1>2, <2>1 DEF Settled, After
  <2>2. CASE ~Complete
    BY <1>1, <1>2, <2>2, InsteadType, OpsAssumption DEF Settled
  <2> QED BY <2>1, <2>2
<1>11. RepetitionIsTold' /\ RepeatedOnlyWhenUnsure'
  BY <1>1, <1>2 DEF RepetitionIsTold, RepeatedOnlyWhenUnsure, HistoryOK,
     Repeated, Numbers
<1> QED BY <1>3, <1>4, <1>5, <1>6, <1>7, <1>8, <1>9, <1>10, <1>11,
       <1>12

\* A failure inside a 2xx is remembered.
LEMMA AnsweredSoftlyStep == ASSUME IInv, AnsweredSoftly PROVE IInv'
<1> USE DEF AnsweredSoftly, Receive, Succeed, Fail, Return, Undone, Sending, Reached,
            IInv, TypeOK, handleVars, callVars, serverVars, strayVars
<1>1. op \in Ops /\ then \in Ops \cup {None} /\ result = "none"
  BY OpsAssumption DEF Rows, CallOK
<1>2. then # None => op.does = "down" /\ then.does = "up" /\ Complete
  BY <1>1, RestartFacts DEF CallOK, Complete
<1>3. Numbers'
  BY <1>1, OpsAssumption DEF Numbers
<1>4. Names'
  BY DEF Names
<1>12. Flags'
  BY DEF Flags
<1>5. Rows'
  BY <1>1 DEF Rows
<1>6. Progress'
  BY <1>1 DEF Progress, CallOK
<1>7. CallOK'
  BY <1>1, <1>2, RestartFacts, OpsAssumption DEF CallOK, Numbers
<1>8. HistoryOK'
  BY <1>1, <1>2, OpsAssumption DEF CallOK, HistoryOK, Numbers
<1>9. NilIsDone'
  BY <1>1, <1>2 DEF NilIsDone, Checks, Arguments, Complete, CallOK, Numbers
<1>10. Settled'
  BY <1>1, <1>2 DEF Settled, After, Repeated
<1>11. RepetitionIsTold' /\ RepeatedOnlyWhenUnsure'
  BY <1>1, <1>2 DEF RepetitionIsTold, RepeatedOnlyWhenUnsure, HistoryOK,
     Repeated, Numbers
<1> QED BY <1>3, <1>4, <1>5, <1>6, <1>7, <1>8, <1>9, <1>10, <1>11,
       <1>12

\* What is done already is the echo of a lost answer or the state before.
LEMMA AnsweredRepeatedStep == ASSUME IInv, AnsweredRepeated PROVE IInv'
<1> USE DEF AnsweredRepeated, Receive, Succeed, Fail, Return, Undone, Repeated, Sending, Reached,
            IInv, TypeOK, handleVars, callVars, serverVars, strayVars
<1>1. op \in Ops /\ then \in Ops \cup {None} /\ result = "none"
  BY OpsAssumption DEF Rows, CallOK
<1>2. then # None => op.does = "down" /\ then.does = "up" /\ Complete
  BY <1>1, RestartFacts DEF CallOK, Complete
<1>3. Numbers'
  BY <1>1, OpsAssumption DEF Numbers
<1>4. Names'
  BY DEF Names
<1>12. Flags'
  BY DEF Flags
<1>5. Rows'
  BY <1>1 DEF Rows
<1>6. Progress'
  BY <1>1 DEF Progress, CallOK
<1>7. CallOK'
  BY <1>1, <1>2, RestartFacts, OpsAssumption DEF CallOK, Numbers
<1>8. HistoryOK'
  BY <1>1, <1>2, OpsAssumption DEF CallOK, HistoryOK, Numbers
<1>9. NilIsDone'
  BY <1>1, <1>2 DEF NilIsDone, Checks, Arguments, Complete, CallOK, Numbers
<1>10. Settled'
  BY <1>1, <1>2 DEF Settled, After, Repeated
<1>11. RepetitionIsTold' /\ RepeatedOnlyWhenUnsure'
  BY <1>1, <1>2 DEF RepetitionIsTold, RepeatedOnlyWhenUnsure, HistoryOK,
     Repeated, Numbers
<1> QED BY <1>3, <1>4, <1>5, <1>6, <1>7, <1>8, <1>9, <1>10, <1>11,
       <1>12

\* A late request of this call or of an earlier one.
LEMMA LateStep == ASSUME IInv, NEW o \in strays, ServedLate(o) PROVE IInv'
<1> USE DEF ServedLate, Perform, Undone, Sending, IInv, TypeOK,
            handleVars, callVars, serverVars, strayVars
<1>1. Numbers' /\ Names' /\ Rows'
  BY DEF Numbers, Names, Rows
<1>7. Flags'
  BY DEF Flags
<1>2. Progress'
  BY AfterType DEF Progress
<1>3. CallOK' /\ HistoryOK'
  BY DEF CallOK, HistoryOK, After, Numbers
<1>4. NilIsDone'
  BY DEF NilIsDone, CallOK
<1>5. Settled'
  BY DEF Settled, After, Repeated
<1>6. RepetitionIsTold' /\ RepeatedOnlyWhenUnsure'
  BY DEF RepetitionIsTold, RepeatedOnlyWhenUnsure, HistoryOK, Numbers
<1> QED BY <1>1, <1>2, <1>3, <1>4, <1>5, <1>6, <1>7

-----------------------------------------------------------------------------
\* Every step preserves the invariant.
LEMMA NextInv == ASSUME IInv, [Next]_vars PROVE IInv'
<1>1. CASE Take \/ Authenticate
  BY <1>1, TakeStep
<1>2. CASE Call
  BY <1>2, BeginStep DEF Call
<1>3. CASE Restart
  <2>1. PICK r \in Restarts : r[1] \in Offered /\ \E args \in Given(r[1]) : Begin(r[1], r[2], args)
    BY <1>3 DEF Restart
  <2>2. r[2] \in Ops /\ <<r[1], r[2]>> \in Restarts
    BY DEF Restarts
  <2> QED BY <2>1, <2>2, BeginStep
<1>4. CASE Transmission
  BY <1>4, NoHostStep, NotArrivedStep, AnswerLostStep, OverloadedStep, RejectedStep,
     UnauthorizedStep, AnsweredStep, AnsweredSoftlyStep, AnsweredRepeatedStep
  DEF Transmission
<1>5. CASE \E o \in strays : ServedLate(o)
  BY <1>5, LateStep
<1>6. CASE UNCHANGED vars
  BY <1>6 DEF IInv, TypeOK, Numbers, Flags, Names, Rows, Progress, CallOK,
     HistoryOK, NilIsDone, Settled, After, RepetitionIsTold,
     RepeatedOnlyWhenUnsure, vars, handleVars, callVars, serverVars, strayVars
<1> QED BY <1>1, <1>2, <1>3, <1>4, <1>5, <1>6 DEF Next

\* The inductive invariant of the resource clients: what a call may have done
\* by each point of its way, whatever the table of operations.
THEOREM OperationsInvariant == Spec => []IInv
BY InitInv, NextInv, PTL DEF Spec

\* A nil error means that the server did the operation, in this call or before
\* it, or told of its failure in the answer.
THEOREM NilIsEarned == Spec => []NilIsDone
<1>1. IInv => NilIsDone
  BY DEF IInv
<1> QED BY OperationsInvariant, <1>1, PTL

\* When a call returns nil the resource is as the call left it, unless a late
\* request of an earlier operation undid it.
THEOREM EffectStays == Spec => []Settled
<1>1. IInv => Settled
  BY DEF IInv
<1> QED BY OperationsInvariant, <1>1, PTL

\* An answer that says "already" or "not found" echoes the call's own lost request
\* or tells the state the call began in.
THEOREM RepetitionsAreTold == Spec => []RepetitionIsTold
<1>1. IInv => RepetitionIsTold
  BY DEF IInv
<1> QED BY OperationsInvariant, <1>1, PTL

\* An operation is done twice in one call only when the client could not know
\* that it had been done.
THEOREM RepeatsAreRetries == Spec => []RepeatedOnlyWhenUnsure
<1>1. IInv => RepeatedOnlyWhenUnsure
  BY DEF IInv
<1> QED BY OperationsInvariant, <1>1, PTL

-----------------------------------------------------------------------------
(* Another operation in place of the called one.                           *)

\* A method that checks its address is always served as itself.
LEMMA OwnStep ==
  ASSUME OnlyReadsInstead, IInv, OwnOperation, [Next]_vars PROVE OwnOperation'
<1> USE DEF OwnOperation, handleVars, callVars, serverVars, strayVars
<1>1. CASE Take \/ Authenticate
  BY <1>1 DEF Take, Authenticate
<1>2. CASE Call \/ Restart
  BY <1>2 DEF Call, Restart, Begin
<1>3. CASE Transmission
  <2> USE <1>3 DEF Transmission, NoHost, NotArrived, AnswerLost, Overloaded, Rejected,
     Unauthorized, Answered, AnsweredSoftly, AnsweredRepeated,
          Reached, Sending
  <2>1. op \in Ops /\ op.needs \subseteq given /\ then \in Ops \cup {None}
    BY OpsAssumption DEF IInv, TypeOK, Rows, CallOK
  <2>2. then # None => Checks(op) /\ HolesOf(op.path) \subseteq given
    BY <2>1, RestartFacts, RestartAssumption DEF IInv, CallOK
  <2>3. op' = op \/ (then # None /\ op' = then)
    BY DEF Again, Fail, Return, Receive, Succeed
  <2>4. UNCHANGED mistaken \/ (~Complete /\ mistaken' \in Instead[op])
    BY DEF Serve, Perform, PerformOther, Undone
  <2>5. CASE UNCHANGED mistaken
    BY <2>2, <2>3, <2>5
  <2>6. CASE ~Complete /\ mistaken' \in Instead[op]
    <3>1. ~Checks(op) /\ op' = op
      BY <2>1, <2>2, <2>3, <2>6 DEF Complete, Checks, Arguments
    <3> QED BY <3>1, <2>1, <2>6 DEF OnlyReadsInstead
  <2> QED BY <2>4, <2>5, <2>6
<1>4. CASE \E o \in strays : ServedLate(o)
  BY <1>4 DEF ServedLate, Perform, Undone
<1>5. CASE UNCHANGED vars
  BY <1>5 DEF vars
<1> QED BY <1>1, <1>2, <1>3, <1>4, <1>5 DEF Next

\* With a table in which only reading is served in place of a method that
\* does not check its address, the server never does another operation than
\* the one that was called, unless it reads.
THEOREM NothingElseIsDone ==
  ASSUME OnlyReadsInstead PROVE Spec => []OwnOperation
<1>1. Init => OwnOperation
  BY DEF Init, OwnOperation
<1>2. IInv /\ OwnOperation /\ [Next]_vars => OwnOperation'
  BY OwnStep
<1> QED BY <1>1, <1>2, OperationsInvariant, PTL DEF Spec

-----------------------------------------------------------------------------
(* Restart.                                                                *)

\* A restart goes on to its start only after the stop was done, or answered
\* with a failure that the method does not look at.
LEMMA RestartStep ==
  ASSUME IInv, Next, then # None, op' = then PROVE bounced' \/ softly'
<1>1. /\ pc = "send" /\ op \in Ops /\ then \in Ops /\ op.needs \subseteq given
      /\ <<op, then>> \in Restarts
  BY OpsAssumption DEF IInv, TypeOK, Rows, CallOK
<1>2. op.does = "down" /\ then # op /\ Complete
  BY <1>1, RestartFacts DEF Complete
<1>3. op' # op
  BY <1>2
<1>4. CASE Answered
  BY <1>4, <1>2 DEF Answered, Serve, Perform, After
<1>5. CASE AnsweredSoftly
  BY <1>5 DEF AnsweredSoftly
<1>6. CASE AnsweredRepeated
  BY <1>6, <1>2 DEF AnsweredRepeated, Repeated
<1>7. ~(NoHost \/ NotArrived \/ AnswerLost \/ Overloaded \/ Rejected \/ Unauthorized)
  BY <1>3 DEF NoHost, NotArrived, AnswerLost, Overloaded, Rejected, Unauthorized,
     Again, Fail, Return, callVars
<1>8. ~(Take \/ Authenticate \/ Call \/ Restart \/ \E o \in strays : ServedLate(o))
  BY <1>1, <1>3 DEF Take, Authenticate, Call, Restart, Offered, ServedLate, callVars
<1> QED BY <1>4, <1>5, <1>6, <1>7, <1>8 DEF Next, Transmission

\* services.Restart never starts what it has not stopped, or been told inside
\* a 2xx could not be stopped.
THEOREM RestartIsOrdered == Spec => RestartStopsFirst
<1>1. IInv /\ [Next]_vars => [then # None /\ op' = then => bounced' \/ softly']_vars
  BY RestartStep
<1> QED BY <1>1, OperationsInvariant, PTL DEF Spec, RestartStopsFirst

=============================================================================
