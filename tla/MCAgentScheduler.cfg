CONSTANTS
  Agents <- TwoAgents
  Delegated <- SecondId
  Priorities <- TwoLevels
  max_restarts = 0
  MaxCopies = 1
SPECIFICATION Spec
INVARIANTS
  NoAgentLost
PROPERTIES
  TopAgentRuns
