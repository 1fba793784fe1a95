\* Four pages under a bound of four: a walk that asks for no page twice just reaches
\* the end, and one that a server sets back runs into the bound.
SPECIFICATION Spec
CONSTANTS
  NPages = 4
  MaxPages = 4
INVARIANT WholeWalkIsComplete
INVARIANT NoPageTwice
INVARIANT FallbackIsKept
CHECK_DEADLOCK FALSE
