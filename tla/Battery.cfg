CONSTANTS
  Samples <- MCSamples
  Stale = 3
SPECIFICATION Spec
INVARIANTS
  TypeOK
  SwitchReleased
  AnswersAreFresh
PROPERTY
  OrderKept
