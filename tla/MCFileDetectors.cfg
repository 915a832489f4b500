SPECIFICATION Spec
CONSTANTS
  Jobs <- MCJobs
  Rules <- MCRules
INVARIANTS
  TypeOK
  AllButUnheardAnswered
  ReportsWhatItReads
  CallsResolved
