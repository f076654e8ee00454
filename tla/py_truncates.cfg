CONSTANTS
  Procs = {p1, p2}
  Lengths = {100}
  Faults = {}
  file_count_level_1 = 2
  file_count_level_2 = 2
  kBundleCountPerDay = 3
  kMaxBundleSize = 2048
  RandMax = 2
  PidRange = 1
  MaxAllocs = 3
  MaxCrashes = 0
SPECIFICATION Spec
CHECK_DEADLOCK FALSE
INVARIANTS AckedReadable
