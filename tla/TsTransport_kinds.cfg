\* A JSON call, a download and a stream, on a client without a token: the caller may
\* abort each before it begins, under way or never, and no server need answer.
SPECIFICATION FairSpec
CONSTANTS
  c1 = c1
  c2 = c2
  c3 = c3
  NoCall = NoCall
  Calls = {c1, c2, c3}
  Kind <- MixedKinds
  Cancellable = {c1, c2, c3}
  HasKey = TRUE
  HasJWT = FALSE
  MaxRetries = 0
  Statuses = {200, 401}
PROPERTY AbortSettles
CHECK_DEADLOCK FALSE
