CONSTANTS
  Tasks = {f1}
  Counts = {2}
  thread_size_0 = 2
  max_thread_size = 2
  MaxStarts = 1
SPECIFICATION FairSpec
PROPERTIES PostedIsCalled
CHECK_DEADLOCK FALSE
