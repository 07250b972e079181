CONSTANTS
  l1 = l1
  l2 = l2
  Logs <- TwoLogs
  MaxEntries = 4
  Faults <- NoFaults
SPECIFICATION Spec
INVARIANT
  ChainValid
CHECK_DEADLOCK FALSE
