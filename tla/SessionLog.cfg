SPECIFICATION Spec
CONSTANTS
    Procs = {p1, p2, p3}
    Null = Null
    Unset = Unset
    MaxEntries = 2
    MaxMoves = 2
    MaxCrashes = 1
SYMMETRY Symmetry
CHECK_DEADLOCK FALSE
INVARIANTS  Resumable RootedUnlessDamaged
PROPERTIES ConcurrentKeepsFile
