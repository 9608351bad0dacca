SPECIFICATION Spec
CONSTANTS
  a = a
  b = b
  A = A
  B = B
  dash = dash
  bang = bang
  Atom <- MCAtom
  Dash = dash
  Special <- MCSpecial
  Lower <- MCLower
  Upper <- MCUpper
  HexDigit <- MCHexDigit
  RootProps <- MCRootProps
  Configs <- MCConfigs
  Overrides <- MCOverrides
  MaxNodes = 4
INVARIANTS
  TypeOK
  EnabledIsSticky
  DescendantsKeep
  FieldsAreLastGiven
  GivenTagsWin
  IdWithinLimit
  ApartUnlessHashesMeet
  ChildNamedAfterParent
CHECK_DEADLOCK FALSE
