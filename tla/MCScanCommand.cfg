SPECIFICATION Spec
CONSTANTS
  Situations <- MCSituations
INVARIANTS
  TypeOK
  CloneNotForgotten
  ExitTellsTheTruth
  EarlierReportsSurvive
  DefaultsAsDocumented
  AddedRulesUsed
