SPECIFICATION Spec
CONSTANTS
    Engines <- MCEngines
    Layout <- MCLayout
    Radix = 16
    MaxStream = 20
    MaxHeard = 12
INVARIANTS
    InitKeepsSong
