CONSTANTS
  Threads = {t1, t2, t3}
  MaxDepth = 2
  Descs = {"a", "b"}
  Capacities = {1, 2}
  PointOf <- TwoByTwo
  MaxHash = 5
  MaxCalls = 4
  Keys = {k1, k2, k3}
  max_size = 2
  MaxCacheCalls = 6
  Tasks = {f1, f2}
  Counts = {0, 2}
  thread_size_0 = 1
  max_thread_size = 2
  MaxStarts = 2
  Pathnames <- SomePaths
  cwd <- SlashM
  mount_point <- SlashM
  InitTree <- TwoFiles
  Dirs <- RootAndM
  Inodes = {4, 5, 9}
  Fds = {3, 4, 5}
  MaxOps = 6
  Posters = {p, q}
  init_size = 1
  max_pool = 1
  PoolSizes = {0, 2}
  MaxWorkers = 3
  MaxPoolCalls = 3
  Numbers = {0, 1, 61, 7199}
  PrefixSet <- SomePrefixes
  PostfixSet <- SomePostfixes
  Sixty = 60
  Ten = 10
  HashValues = 256
  MurmurHash2 <- SomeHash
SPECIFICATION SupportSpec
INVARIANTS
  Exclusion StuckOnlyInDump RingWhole CacheSound CallsCounted DescriptorsSound RoundTrip
  OnceInOrder PoolBounded
PROPERTIES
  KeysMoveToNew RunnerProgress WorkersGoOn
CHECK_DEADLOCK FALSE
