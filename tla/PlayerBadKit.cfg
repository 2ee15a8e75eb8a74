SPECIFICATION Spec
CONSTANTS
    Songs <- MCSongs
    Pages = {0, 1}
    Kits = {0, 1}
    Archives <- MCBadKit
    Total = 5
    Fade = 2
    Loops = TRUE
    StopAfter = 3
    Block = 2
    MaxKeys = 2
INVARIANTS
    RenderedImageIsLive
