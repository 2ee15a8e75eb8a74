SPECIFICATION LoadersSpec
CONSTANTS
    TrackCount = 4
    LineCounts = {2, 3}
    Archives <- MCArchives
    LoaderSizes <- MCLoaderSizes
    LoaderFree <- MCLoaderFree
    CommandTails <- MCCommandTails
    CommandSong = 6
    CompactSongs <- MCCompactSongs
    CompactKits = {0, 1}
    CompactFiles <- MCCompactFiles
    CompactPresses = 3
    KeyChunk = 4
    KeyLag = 1
    KeyPresses = 4
INVARIANTS
    PlayingSongStaged
    TagsTruthful
    SearchEnds
    PlayedIsStaged
    AllocationGranted
    RefusedForSize
    ReadsOpenFile
    AcceptedIsUnderstood
    PlainUsageAccepted
    PlayingIsRequested
    RefusedForCause
    OneSwitchPerPress
    ActionsWerePressed
    NothingLost
PROPERTIES
    LoaderEnds
    SwitchEnds
    PatientEscapeStops
