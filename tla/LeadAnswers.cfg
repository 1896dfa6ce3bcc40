SPECIFICATION Spec
CONSTANTS
    Workers = {w1}
    MaxRequests = 2
    MaxMessages = 0
    MaxPolls = 2
    MaxTeams = 1
    MaxAnswers = 2
CHECK_DEADLOCK FALSE
INVARIANT OwnVerdict
