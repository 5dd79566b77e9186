SPECIFICATION Spec
CONSTANTS
  CommandLines <- Good
  MaxInt = 7
  MaxPort = 3
  GuardBuffer = 2
  GuardHour = 4
  MaxCompleted = 1
  NoValue = NoValue
INVARIANTS
  GuardIsUpperBound
