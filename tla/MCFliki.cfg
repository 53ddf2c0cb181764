SPECIFICATION Spec
CONSTANTS
  Headers <- SomeHeaders
  Digits = {"7"}
  HighBytes = {"hi"}
  Lines <- SomeLines
  Texts <- SomeTexts
  MaxLines = 5
  HUNK_MAX = 8
INVARIANTS
  TypeOK
  OnlyProperDiffsPass
  ProperDiffsApply
CHECK_DEADLOCK FALSE
