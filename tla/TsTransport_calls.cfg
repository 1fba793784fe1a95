\* Two calls that share an exchange and whose deadlines may pass at any moment;
\* no server need answer.
SPECIFICATION FairSpec
CONSTANTS
  c1 = c1
  c2 = c2
  c3 = c3
  NoCall = NoCall
  Calls = {c1, c2}
  Kind <- TwoSends
  Cancellable = {}
  HasKey = TRUE
  HasJWT = TRUE
  MaxRetries = 1
  Statuses = {200, 401, 503}
INVARIANT IInv
INVARIANT SingleFlight
INVARIANT ReplayUsesAnotherToken
PROPERTY SendSettles
PROPERTY ImplementsContract
CHECK_DEADLOCK FALSE
