CONSTANTS
  Children = 2
  MaxForks = 4
  MaxMishaps = 1
  MaxReopens = 1
  ForkFails = {TRUE}
SPECIFICATION FairSpec
CHECK_DEADLOCK FALSE
INVARIANTS AtMostConfigured AtMostOneEscapes
PROPERTIES ZombiesReaped MasterQuits ReopenEnds
