CONSTANTS
  t1 = t1
  t2 = t2
  p1 = p1
  Threads = {t1, t2}
  Procs = {p1}
  ProcOf <- OneProc
  MainOf <- FirstThread
  Prefixes = {"p"}
  Sizes = {600, 1600}
  Shorts = {700}
  Faults = {"write", "short"}
  file_count_level_1 = 2
  file_count_level_2 = 2
  max_bundle_size = 6144
  bundle_count_per_day = 1
  RandRange = 1
  PidRange = 1
  MaxId = 2
  MaxAllocs = 3
  MaxWrites = 3
  MaxCrashes = 1
  Posts <- Redirects
  Kills = {p1}
  MaxRequests = 2
  MaxQuits = 1
SPECIFICATION HttpSpec
CHECK_DEADLOCK FALSE
INVARIANTS AnswersInOrder
