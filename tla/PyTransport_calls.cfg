\* A call, a stream and an authenticate() on one client, threaded or asyncio;
\* the tasks of an asyncio client may be cancelled.
SPECIFICATION FairSpec
CONSTANTS
  c1 = c1
  c2 = c2
  l1 = l1
  Nobody = Nobody
  Calls = {c1, c2}
  Logins = {l1}
  Kind <- WithStream
  NodeCalls = {c1}
  Cancellable = {c1, l1}
  HasKey = TRUE
  HasJWT = TRUE
  MaxRetries = 1
  Statuses = {200, 401, 503}
INVARIANT IInv
INVARIANT ReplayUsesAnotherToken
INVARIANT Unauthorized401Tried
PROPERTY EveryCallReturns
PROPERTY ImplementsContract
CHECK_DEADLOCK FALSE
