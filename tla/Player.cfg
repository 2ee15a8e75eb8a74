SPECIFICATION Spec
CONSTANTS
    Songs <- MCSongs
    Pages = {0, 1}
    Kits = {0, 1}
    Archives <- MCPlayable
    Total = 5
    Fade = 2
    Loops = TRUE
    StopAfter = 3
    Block = 2
    MaxKeys = 2
INVARIANTS
    OneSongRendered
    AnnouncedIsRendered
    DoneIsThisTrack
    TimeLimitFades
    OneImage
    RefusedLeavesTrack
    RenderedImageIsLive
PROPERTIES
    InterruptEnds
    PlaylistEnds
    ImplementsPlaylist
