SPECIFICATION Spec
CONSTANTS
  Jobs <- MCJobs
  Rules <- MCRules
INVARIANT NoSilentOmission
