CONSTANTS
  Names = {a}
  SendRetries = 1
  ConnectRetries = 1
  MaxCalls = 2
  MaxTroubles = 3
  Procs = {p, q}
  Depth = 3
  Delay = 1
  Timeout = 2
  MaxNameOps = 4
  MaxNameFaults = 2
  NameFaults = {"lost", "error"}
  Inodes = {1}
  M64 = 4
  K64 = 2
  MFS_MAX_FILE_SIZE = 8
  Lengths = {0, 5}
  Counts = {5}
  Offsets = {3}
  Grace = 1
  MaxSize = 8
  MaxFileOps = 4
  MaxFileFaults = 1
  FileFaults = {"master", "reconnect", "connect", "init", "block", "read", "location"}
SPECIFICATION Spec
INVARIANTS
  NothingLeaks OneHolderUnlessRepeated LockOwned AckedStays
PROPERTIES
  ImplementsRemoteCall MkdirsMakes ReadHonest CallsReturn
CHECK_DEADLOCK FALSE
