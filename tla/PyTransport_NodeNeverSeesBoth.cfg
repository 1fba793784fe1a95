\* The first call of a client that has a key and no token yet, to its node.
SPECIFICATION Spec
CONSTANTS
  c1 = c1
  c2 = c2
  l1 = l1
  Nobody = Nobody
  Calls = {c1}
  Logins = {}
  Kind <- OneKind
  NodeCalls = {c1}
  Cancellable = {}
  HasKey = TRUE
  HasJWT = FALSE
  MaxRetries = 3
  Statuses = {200, 401, 503}
INVARIANT NodeNeverSeesBoth
CHECK_DEADLOCK FALSE
