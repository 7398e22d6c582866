SPECIFICATION Spec
CONSTANTS
  Site <- MCSite
  OtherPaths = {"/", "/login", "/register", "/504.html"}
  Sizes = {0, 1, 2, 3}
  MaxChanges = 2
  Texts <- MCTexts
  None = None
INVARIANTS
  TypedIsKept
  ResponseIsWhole
  NoFileLeft
CHECK_DEADLOCK FALSE
