\* A cancellable JSON call, which refreshes, next to a stream, which does not, and an
\* Authenticate that races the refresh, on a client that starts with its key alone.
SPECIFICATION FairSpec
CONSTANTS
  c1 = c1
  c2 = c2
  l1 = l1
  Calls = {c1, c2}
  Logins = {l1}
  Kind <- TwoKinds
  NodeCalls = {c1}
  Cancellable = {c1}
  HasKey = TRUE
  HasJWT = FALSE
  HasUsername = TRUE
  MaxRetries = 1
  Statuses = {200, 401, 503}
INVARIANT IInv
INVARIANT NilMeansDone
INVARIANT NodeHeaderDiscipline
INVARIANT ReplayUsesAnotherToken
INVARIANT Unauthorized401Tried
PROPERTY ImplementsContract
PROPERTY EveryCallReturns
CHECK_DEADLOCK FALSE
