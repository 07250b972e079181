SPECIFICATION Spec
CONSTANTS
  Tenants = {t1, t2}
  Everyone = everyone
  AlertRules <- MCRules
  suspend_rules = {"extraction-active", "auth-probing"}
  revoke_rules = {"injection-burst"}
  opted_in = {t1}
  suspend_duration = 1
  max_per_window = 1
  breaker_window = 1
  queue_capacity = 1
  MAX_ATTEMPTS = 2
  MaxWall = 2
  Requests = {q1, q2}
  max_concurrent <- MCPlan
  PromptKinds = {k1, k2}
  capacity = 2
  max_requests = 1
  max_tokens = 1
  min_distinct = 50
  max_similarity = 50
  warmup_requests = 2
  uniform_after = 2
  history_depth = 2
  MaxTokens = 1
  MaxBucket = 4
  MaxObserved = 4
  GuardTexts <- MCGuardTexts
  InjectionRules <- MCInjectionRules
  CardDigits <- MCCardDigits
  IdDigits = 2
  MaxOctet = 4
  max_input_bytes = 11
  redact_kinds = {"CreditCard", "ThaiNationalId"}
  MAX_FINDINGS_PER_RULE = 1
  Shards = {f1}
  Bodies = {1, 2}
  MaxEntries = 2
  MaxDamage = 2
INVARIANTS
  EdgeTypeOK
  ForwardedIsAudited
  PermitsBalance
  BreakerHolds
  WindowSums
  RedactsExactly
  ReportIsRight
PROPERTIES
  KeyStaysRevoked
SYMMETRY Interchangeable
CHECK_DEADLOCK FALSE
