\* The generated message classes against game.proto: every message, two
\* objects of it with up to three members touched, lists of up to two elements.
SPECIFICATION Spec
CONSTANTS
  MaxTouched = 3
  MaxList = 2
  MaxBody = 8
INVARIANTS ObjectExact SentAsDeclared
