SPECIFICATION Spec
CONSTANTS
    Musics <- MCMusics
    Engines <- MCEngines
    Descriptor = 100
    EngineSpan <- MCEngineSpan
    FreeTail <- MCFreeTail
    Tables = {9}
    Seed = 3
    MinHole = 3
    Fetched = 1
INVARIANTS
    NestingRejected
