SPECIFICATION FairSpec
CONSTANTS
    Agents = {a1, a2}
    Leads = {a1}
    MaxProcs = 3
    MaxTasks = 1
    MaxLeases = 3
    MaxEdits = 2
    GitOutcomes = {"ok"}
    None = None
CHECK_DEADLOCK FALSE
INVARIANTS  DeliveredFrozen LeaseReachable
PROPERTIES ImplementsLifecycle 
