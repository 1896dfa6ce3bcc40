SPECIFICATION Spec
CONSTANTS
    Agents = {a1}
    Leads = {a1}
    MaxProcs = 2
    MaxTasks = 2
    MaxLeases = 3
    MaxEdits = 1
    GitOutcomes = {"ok"}
    None = None
CHECK_DEADLOCK FALSE
PROPERTIES ImplementsLifecycle
