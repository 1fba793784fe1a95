\* One caller of the Java client.
SPECIFICATION Spec
CONSTANTS
  t1 = t1
  t2 = t2
  t3 = t3
  h1 = h1
  h2 = h2
  h3 = h3
  NoCaller = NoCaller
  Blank = Blank
  Absent = Absent
  Control = Control
  Callers = {t1}
  Direct = {}
  Rounds = 1
  SDKs = {"java"}
  Hosts = {h1, h2, h3}
  Given = {Blank}
  Settable = {}
  Listings <- ManyListings
  MaxEdits = 0
INVARIANT ScanFindsTheDefault
CHECK_DEADLOCK FALSE
