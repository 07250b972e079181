SPECIFICATION Spec
CONSTANTS
  Syscalls = {openat, unnamed}
  Table = {openat}
  TracedPids = {pid}
  Profiles = {"default", "strict"}
  ProfileAllows <- MCProfileAllows
  PerfSlots = 1
  InvalidationSlots = 1
  EventSlots = 1
  ImmuneCalls = {ptrace, execve}
  HistoryLimit = 2
  MinCount = 2
  max_patterns = 2
  PromoteCount = 3
  MaxBehind = 1
  Requests = {r1, r2}
  Plannable = {r1}
  bus_capacity = 2
  FilteredKinds = {"command", "response"}
  Configs <- MCConfigs
  Files = {f1, f2}
  MaxEdits = 2
  MaxChanges = 3
  Pieces <- MCPieces
  index_batch_size = 2
  event_capacity = 1
  Peers = {p1}
  MaxConns = 2
  BootPeers = {p1}
  MayStop = {p1}
  Prompts = {q1, q2, q3}
  SplitPrompts = {q3}
  Engines = {"llama.cpp", "vllm", "mps", "cloud", "tensorrt"}
  max_batch_size = 2
  queue_capacity = 2
  max_retries = 1
  Vendors = {"AppleSilicon"}
  GpuVram = {24}
  cpu_count = 8
  Events = {"LowBattery", "HighLoad", "HighPowerDraw", "GpuMemoryPressure", "NpuUnavailable", "Normal"}
  REPROBE = 2
  MaxEvents = 1
  MaxPolls = 2
  VramAgents = {v1, v2, v3}
  VramCallers = {c1, c2}
  VramRequests = {1, 2, 3}
  vram_capacity = 5
  circuit_breaker_threshold = 80
INVARIANTS
  TasksTypeOK
  CacheCaughtUp
  KeptTasksUnderHooks
  AnswersMatch
  OverbookedByRacesOnly
PROPERTIES
  AskedIsSettled
  ShutdownEnds
  FilesAreIndexed
  StoppedIsNoticed
  SubmittedIsAnswered
CHECK_DEADLOCK FALSE
