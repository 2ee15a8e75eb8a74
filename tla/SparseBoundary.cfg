SPECIFICATION Spec
CONSTANTS
    TrackCount = 4
    LineCounts = {2}
    Archives <- MCBoundary
INVARIANTS
    OnlyWideRefused
