CONSTANTS
  Threads = {t1, t2}
  Procs = {t1, t2}
  ProcOf <- OneThreadPerProc
  Prefixes = {"p"}
  Sizes = {100, 600}
  Shorts = {700}
  Faults = {"short"}
  file_count_level_1 = 2
  file_count_level_2 = 2
  max_bundle_size = 4096
  bundle_count_per_day = 2
  RandRange = 1
  PidRange = 1
  MaxId = 3
  MaxAllocs = 4
  MaxWrites = 3
  MaxCrashes = 0
SPECIFICATION Spec
CHECK_DEADLOCK FALSE
INVARIANT AckedReadable
