SPECIFICATION Spec
CONSTANTS
    Tracks <- MCTracks
    Fillers = {1}
    MaxDelay = 2
    Capacity = 5
INVARIANTS
    LoopIsHeard
