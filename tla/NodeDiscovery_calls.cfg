\* Three callers of one client, one of which does not resolve the node first;
\* the account's nodes change and the application may switch nodes.
SPECIFICATION FairSpec
CONSTANTS
  t1 = t1
  t2 = t2
  t3 = t3
  h1 = h1
  h2 = h2
  h3 = h3
  NoCaller = NoCaller
  Blank = Blank
  Absent = Absent
  Control = Control
  Callers = {t1, t2, t3}
  Direct = {t3}
  Rounds = 2
  SDKs = {"typescript", "python", "java", "go"}
  Hosts = {h1, h2, h3}
  Given = {Blank, h1}
  Settable = {h1}
  Listings <- ManyListings
  MaxEdits = 1
INVARIANT IInv
INVARIANT OneNodeForAll
INVARIANT AdoptsDefault
PROPERTY EveryCallReturns
CHECK_DEADLOCK FALSE
