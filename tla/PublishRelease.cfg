SPECIFICATION FairSpec
CONSTANTS
  Run = {r1, r2, r3}
  None = None
INVARIANTS
  ReleaseStays
  TagNotBehind
PROPERTY
  EventuallyPublished
CHECK_DEADLOCK FALSE
