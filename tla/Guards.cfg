SPECIFICATION Spec
CONSTANTS
  Issues = {1, 12}
  Rejected = {}
  FixTitles = {12}
  Scans = {s1}
  Workers = {w1}
  PageSize = 2
  MaxQueue = 1
  MaxReworks = 1
  Processes = {p1, p2}
  Limit = 2
  Window = 3
  Threads = {t1, t2}
  FailureThreshold = 2
  SuccessThreshold = 2
  HalfOpenMaxCalls = 2
  Timeout = 1
  MaxFaults = 1
  StoreWorkers = {u1, u2}
  Texts = 7
  GroupSize = 2
  QueueSize = 1
  MaxInflight = 1
  MaxRefusals = 2
  MaxCandidates = 2
  MaxRetries = 2
  TestNames = {"test_y", "tests/test_feature_impl.py"}

  
PROPERTIES
  
  
  CountersExpire
  Recovers
  IngestionEnds
CHECK_DEADLOCK FALSE
