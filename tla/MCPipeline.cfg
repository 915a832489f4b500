SPECIFICATION Spec
CONSTANTS
  Files <- MCFiles
  Detectors <- MCDetectors
  Handles <- MCHandles
  Emits <- MCEmits
  Complains <- MCComplains
  ConcurrencyChoices = {0, 1, 3}
  NumCPU = 2
INVARIANTS
  TypeOK
  BoundedConcurrency
  NoStragglers
  NoLostAppend
  NoPartialResult
  Deterministic
PROPERTIES
  ResultIsFinal
  Termination
  ImplementsContract
