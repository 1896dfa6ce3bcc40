SPECIFICATION FairSpec
CONSTANTS
    Names = {n1}
    MaxRuns = 3
    MaxActive = 2
    MaxMessages = 2
    MaxRestarts = 1
    MAX_AGENT_RUNS = 2
    ROWS = 2
    EXPANDED = 1
CHECK_DEADLOCK FALSE
INVARIANTS OneLoopPerName FreeNameCanBeSpawned  ApprovalIsFinal
PROPERTIES RequestEndsRun
