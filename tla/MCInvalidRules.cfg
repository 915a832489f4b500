SPECIFICATION Spec
CONSTANTS
  Situations <- MCSituations
INVARIANT InvalidRulesAreScanError
