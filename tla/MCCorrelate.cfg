SPECIFICATION ReportsSpec
CONSTANTS
  Pool <- MCPool
  Modules <- MCModules
INVARIANTS
  TypeOK
  OneStoryEach
  NeverUnderstated
  ConfidenceEarned
  ClassBoundsPriority
  ReportsAgree
