SPECIFICATION Spec
CONSTANTS
  Jobs = {j1}
  MaxTurns = 2
  MaxCalls = 3
  MaxCommands = 1
  MaxPrompts = 2
  TeamMode = "free"
  Calls <- MCCalls
  Schemas <- MCSchemas
CHECK_DEADLOCK FALSE
INVARIANTS NothingRunsOn OnlyEscAborts SubmitReachesHandler
PROPERTIES JobsReported 
