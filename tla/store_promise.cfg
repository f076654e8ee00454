CONSTANTS
  Threads = {t1, t2}
  Procs = {t1, t2}
  ProcOf <- OneThreadPerProc
  Prefixes = {"p", "q"}
  Sizes = {100}
  Shorts = {700}
  Faults = {}
  file_count_level_1 = 2
  file_count_level_2 = 2
  max_bundle_size = 2048
  bundle_count_per_day = 5
  RandRange = 1
  PidRange = 1
  MaxId = 6
  MaxAllocs = 3
  MaxWrites = 2
  MaxCrashes = 1
SPECIFICATION FairSpec
CHECK_DEADLOCK FALSE
PROPERTIES AllocateReturns ImplementsWriteOnce
