SPECIFICATION Spec
CONSTANTS
  A = A
  B = B
  C = C
  Foreign <- MCForeign
  Account = "account"
  Ids = {A, B, C}
  Options <- MCOptions
  MaxConstructs = 3
  Callers <- MCCallers
  RequestKeys <- MCRequestKeys
SYMMETRY MCSymmetry
INVARIANTS
  WiredPathsPermitted
  DenialsHold
  ConditionsBind
  OverridesWin
  DenialsTravel
PROPERTIES
  NothingRevoked
CHECK_DEADLOCK FALSE
