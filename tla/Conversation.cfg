SPECIFICATION TalkSpec
CONSTANTS
    Window = 4
    Keep = 2
    MaxEntries = 6
    MaxNotes = 1
    MaxJumps = 1
    NOISE_FLOOR_TOKENS = 1
CHECK_DEADLOCK FALSE
INVARIANTS    TreeIsComplete ForkKeepsContext CompactionIsSafe
