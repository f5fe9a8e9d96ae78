\* Four overlapping calls and a threshold of three failures; no symmetry, one property is temporal.
\* The circuit may rest: nobody has to call.
SPECIFICATION FairSpec
CONSTANTS
  Callers = {c1, c2, c3, c4}
  Threshold = 3
CHECK_DEADLOCK FALSE
INVARIANTS
  CountMatchesState
  HalfOpenIsProbed
PROPERTIES
  OpenGetsReady
