CONSTANTS
  t1 = t1
  t2 = t2
  p1 = p1
  Global = Global
  Tokens <- MCTokens
  Pids <- MCPids
  Classes <- MCClasses
  TokenScope <- ProcessTokens
  TokenClasses <- NoClasses
  MaxIncarnation = 2
  MapCapacity = 1
SPECIFICATION Spec
PROPERTY
  HostBornFree
