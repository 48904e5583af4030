SPECIFICATION Spec
CONSTANTS
  MaxJobs = 2
  MaxSessions = 2
  MaxCalls = 3
  Faults = {{}, {"lost", "check"}, {"lost", "check", "raise"}, {"lost", "check", "fork", "raise"}}
INVARIANTS
  SessionsApart
  OnlyKnownDeaths
PROPERTIES
  
  OwnResultsArrive
CHECK_DEADLOCK FALSE
