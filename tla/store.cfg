CONSTANTS
  Threads = {t1, t2}
  Procs = {t1, t2}
  ProcOf <- OneThreadPerProc
  Prefixes = {"p"}
  Sizes = {100, 600}
  Shorts = {700}
  Faults = {"open", "unlink", "stat", "mkdirs", "create", "write"}
  file_count_level_1 = 2
  file_count_level_2 = 2
  max_bundle_size = 3072
  bundle_count_per_day = 2
  RandRange = 1
  PidRange = 1
  MaxId = 3
  MaxAllocs = 3
  MaxWrites = 2
  MaxCrashes = 1
SPECIFICATION Spec
SYMMETRY ThreadSymmetry
CHECK_DEADLOCK FALSE
INVARIANTS LockedNow LocksAccountedFor OneWriterPerBundle AckedReadable CapacityRespected
PROPERTIES AppendOnly
