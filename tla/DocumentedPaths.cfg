SPECIFICATION Spec
CONSTANTS
  A = A
  B = B
  C = C
  Foreign <- MCForeign
  Account = "account"
  Ids = {A, B, C, D}
  Options <- MCPromising
  MaxConstructs = 4
  Callers <- MCCallers
  RequestKeys <- MCRequestKeys
INVARIANT SomePathPromiseIsKept
CHECK_DEADLOCK FALSE
