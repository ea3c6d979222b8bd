SPECIFICATION Spec
CONSTANTS
  Threads = {t1, t2}
  MaxRestarts = 1
  MaxStarts = 2
  Keys = {k1}
  Steps = 2
  MaxRuns = 2
  MaxOverrides = 2
  Runs = {1, 2}
  PartSize = 2
  MaxWrites = 3
  MaxFaults = 1
  MaxCleanups = 1
  Tasks = {1, 2, 3}
  MaxItems = 2
  Items = {i1}
  MaxTime = 2
  MaxRequests = 2
  Calls = {1, 2, 3}
  SessionLimit = 3
  MaxResets = 1
  MaxCounts = 2
  Sessions = {s1}
  Requests = {q1, q2}
  SessionTTL = 2
  TokenLife = 2
  Deliveries = {1, 2, 3}
  PatchFiles = 2
  MaxIterations = 2
  MaxResumes = 2
  CiRuns = {1, 12}
  Handoffs = {1, 2, 3}
  IncidentPage = 1
  MaxEvents = 1
  Processes = {p1, p2}
  MaxTokens = 3
  MaxMishaps = 1
  Crowd = {p1, p2, p3}
  Profiles = {1, 2}
  Attempts = 2
  MaxChanges = 1
  Clients = {c1, c2}
  Names = {n1}
  MaxCommands = 2
  Torn = Torn
  Indexers = {x1, x2}
  Chunks = 3
  EmbedBatch = 2
  BufferLimit = 2
  MaxIndexings = 2
  MaxErrors = 2
  PipelineLength = 3
  Aliases = {k1}
  PipelineNames = {f1}
  NoFile = NoFile
  MaxEdits = 1
  MaxCatalogRuns = 2
  Scans = {z1, z2}
  EnrichPage = 1
  FindPage = 2
  MaxComments = 3
  Spoilt = {"spec"}
  MaxPlans = 2
  MaxUpsets = 1
  MaxProfiles = 2
  MaxPieces = 3
  MaxTurns = 2
INVARIANTS
  
  
  
  ScheduleIsKept
  
  
  PublishedWithCare
  
  
  ProfilesAreTried
  SettingsAreKept
  
  ChecksAreSound
  PlanIsKept
  
PROPERTIES
  ImplementsExactlyOnce
  EndedForGood
CHECK_DEADLOCK FALSE
