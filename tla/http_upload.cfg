CONSTANTS
  t1 = t1
  t2 = t2
  p1 = p1
  Threads = {t1, t2}
  Procs = {t1, t2}
  ProcOf <- OneThreadPerProc
  MainOf <- OneThreadPerProc
  Prefixes = {"p"}
  Sizes = {600, 1600}
  Shorts = {}
  Faults = {"create", "write"}
  file_count_level_1 = 2
  file_count_level_2 = 2
  max_bundle_size = 6144
  bundle_count_per_day = 3
  RandRange = 1
  PidRange = 1
  MaxId = 4
  MaxAllocs = 4
  MaxWrites = 4
  MaxCrashes = 1
  Posts <- Uploads
  Kills = {}
  MaxRequests = 3
  MaxQuits = 1
SPECIFICATION HttpSpec
CHECK_DEADLOCK FALSE
SYMMETRY ThreadSymmetry
INVARIANTS LocksReturned UrlsReadable
PROPERTIES NoRequestLost
