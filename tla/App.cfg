SPECIFICATION Spec
CONSTANTS
  A = A
  B = B
  a = a
  b = b
  dash = dash
  Atom <- MCAtom
  Dash = dash
  Special <- MCSpecial
  Lower <- MCCase
  Upper <- MCCase
  HexDigit <- MCHexDigit
  Word <- MCWord
  RootProps <- MCRootProps
  Configs = {}
  Overrides <- MCOverrides
  AppTags <- MCAppTags
  Options <- MCOptions
  Ids = {A, B}
  MaxNodes = 2
  MaxConstructs = 2
SYMMETRY MCSymmetry
INVARIANTS
  TypeOK
  DisabledBranchIsEmpty
  EnabledBranchIsMade
  OwnTagsReachResources
  NamesAreUnique
  SubscriptionsRedrive
  ReferencesResolve
PROPERTIES
  ConstructionIsLocal
CHECK_DEADLOCK FALSE
