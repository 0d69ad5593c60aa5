CONSTANTS
  led = led
  btn = btn
  Kinds <- MCKinds
  MaxOpen = 4
SPECIFICATION Spec
INVARIANT
  AnswersOwnRequest
