SPECIFICATION Spec
CONSTANTS
  Suspects = {1}
  ObservedCalls = {1, 2}
  Signatures <- MCSignatures
  Thresholds <- MCThresholds
  Exempt = {}
  violation_window_limit = 2
  HistoryLength = 2
  MaxCount = 1
  DenyKeys = {p1, p2, p3}
  cap_per_sec = 1
  MaxTracked = 2
  MaxDenials = 3
  Nodes = {n1, n2}
  Delegations = {i1}
  MaxQueued = 1
  retry_max_attempts = 1
  Clients = {c1}
  t1 = t1
  t2 = t2
  t3 = t3
  t4 = t4
  NoCommand = NoCommand
  Texts = {t1, t2, t3, t4}
  normalize_query <- MCNormalize
  Similar <- MCSimilar
  Parse <- MCParse
  cache_capacity = 2
  Ttl = 1
  Connections = {c1}
  admin = admin
  reader = reader
  UdsTokens = {admin, reader}
  TokenCapabilities <- MCCapabilities
  session_ttl = 1
  MaxSessions = 2
  Workers = {w1}
  k1 = k1
  k2 = k2
  Contexts = {k1, k2}
  MaxVersions = 2
  MaxMoves = 2
  Size <- MCSize
  capacity_bytes = 1
  hot_capacity = 1
  warm_capacity = 1
  FileCommands = {c1}
  empty = empty
  text = text
  Contents = {empty, text}
  Paths = {path}
  NoFile = NoFile
  chunks <- MCChunks
  MAX_RETRIES = 2
  n1 = n1
  n2 = n2
  n3 = n3
  MeshNodes = {n1, n2, n3}
  skew <- MCSkew
  before <- MCBefore
  Scores = {40}
  MaxWrites = 1
  MaxFetches = 0
  MaxNow = 1
  MaxDisturbed = 0
  Nonces = {x1, x2}
  Readers = {r1, r2}
  REPLAY_WINDOW = 2
  MaxClock = 2
  a1 = a1
  a2 = a2
  a3 = a3
  b1 = b1
  b2 = b2
  b3 = b3
  Agents = {a1, a2, a3}
  Blocks = {b1, b2, b3}
  Callers = {c1, c2}
  owner <- MCOwner
  requested_size <- MCRequested
  priorities <- MCPriorities
  total_capacity = 3
  max_budget = 2
  real_mode = TRUE
  MaxPoolOps = 1
  SchedulerNodes = {n1, n2, n3}
  MeshLinks <- MCLinks
  Spawns = {i1, i2}
  NoNode = NoNode
  Trust <- MCTrust
  min_remote_trust = 70
  max_local_agents <- MCRoom
  overload_threshold_percent = 80
  MaxAgentId = 1
  MaxLifecycle = 1
  DeclaredPaths <- MCDeclared
  KernelPaths <- MCKernel
  MaxLines = 2
  MAX_PATH_PREFIXES = 2
  PATH_PREFIX_MAX = 6
  PATH_BUF_MAX = 8
  CHUNK = 2
INVARIANT LatestSurvives
CHECK_DEADLOCK FALSE
