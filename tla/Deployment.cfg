\* Policies of data, names of what is dropped, in-place changes; the system stops at MaxDeploys.
SPECIFICATION Spec
CONSTANTS
  Projects <- MCProjects
  MaxDeploys = 3
  MaxFaults = 1
INVARIANTS
  DataLostByForce
  NoLitter
PROPERTY
  ReplacedOnlyIfRenamed
CHECK_DEADLOCK FALSE
