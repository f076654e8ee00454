CONSTANTS
  Procs = {p1, p2}
  Lengths = {100}
  Faults = {"stat", "short"}
  file_count_level_1 = 2
  file_count_level_2 = 2
  kBundleCountPerDay = 3
  kMaxBundleSize = 2048
  RandMax = 2
  PidRange = 1
  MaxAllocs = 4
  MaxCrashes = 1
SPECIFICATION Spec
CHECK_DEADLOCK FALSE
SYMMETRY ProcSymmetry
INVARIANTS OneWriter LocksCollected
PROPERTIES AppendsPreserve
