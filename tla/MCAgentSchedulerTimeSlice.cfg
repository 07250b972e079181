CONSTANTS
  Agents <- TwoAgents
  Delegated <- NoIds
  Priorities <- OneLevel
  max_restarts = 1
  MaxCopies = 1
SPECIFICATION Spec
PROPERTY
  EqualsShareTheLoop
