CONSTANTS
  l1 = l1
  l2 = l2
  Logs <- OneLog
  MaxEntries = 4
  Faults <- AllFaults
SPECIFICATION Spec
INVARIANTS
  ChainValidUntilDisturbed
  AckedStayUntilDisturbed
PROPERTIES
  ImplementsTrail
CHECK_DEADLOCK FALSE
