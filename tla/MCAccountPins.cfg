SPECIFICATION Spec
CONSTANTS
  Flushers = {f1, f2}
  Tries = 2
  MaxVersion = 3
INVARIANTS
  FlushIsDurable
  CloseDrains
PROPERTIES
  Durable
  BothReturn
