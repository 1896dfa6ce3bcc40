SPECIFICATION FairSpec
CONSTANTS
    Workers = {w1}
    MaxRequests = 1
    MaxMessages = 1
    MaxPolls = 2
    MaxTeams = 2
    MaxAnswers = 1
CHECK_DEADLOCK FALSE
INVARIANTS ReadMeansTaken
PROPERTIES EveryMessageTaken
