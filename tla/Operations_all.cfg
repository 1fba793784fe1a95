\* Every operation of the Go clients, two transmissions each.
SPECIFICATION Spec
CONSTANTS
  None = None
  Ops <- AllOps
  Budget = 2
  MaxCalls = 2
INVARIANT OwnOperation
INVARIANT NilIsDone
INVARIANT Settled
INVARIANT RepetitionIsTold
INVARIANT RepeatedOnlyWhenUnsure
PROPERTY RestartStopsFirst
CHECK_DEADLOCK FALSE
