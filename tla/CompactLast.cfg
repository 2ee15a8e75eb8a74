SPECIFICATION Spec
CONSTANTS
    Sizes <- MCSizes
    FreeCounts <- MCFree
INVARIANTS
    DirectoryStaged
