SPECIFICATION Spec
CONSTANTS
    Agents = {lead, mate}
    Root = lead
    MaxTurn = 3
    MaxRetries = 1
    MaxContinuations = 1
    Requests = 3
    Tools = 2
    Tokens = 4
    Reserve = 2
    Concurrency = 2
    MaxNotices = 1
CHECK_DEADLOCK FALSE
INVARIANTS WithinBudget EndsPaired
 
