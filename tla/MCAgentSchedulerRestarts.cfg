CONSTANTS
  Agents <- TwoAgents
  Delegated <- SecondId
  Priorities <- OneLevel
  max_restarts = 1
  MaxCopies = 1
SPECIFICATION Spec
INVARIANTS
  RestartsBounded
PROPERTIES
  FailedIsRestarted
  OnlyFailedRestarts
