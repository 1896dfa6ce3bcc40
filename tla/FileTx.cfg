SPECIFICATION FairSpec
CONSTANTS
    NumFiles = 2
    UserContents = {"u1", "u2"}
    Initial = {"u1"}
    AgentContents = {"a1"}
    Modes = {"0600", "0644"}
    Private = "0600"
    ModeChoices = {"0644"}
    Deletions = TRUE
    MaxTx = 2
    MaxUserEdits = 1
    MaxCrashes = 2
    None = None
CHECK_DEADLOCK FALSE
INVARIANTS AllOrNothing UserContentKept
PROPERTIES Recovers ImplementsChanges
