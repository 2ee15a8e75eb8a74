SPECIFICATION Spec
CONSTANTS
    SongNumbers <- MCSongs
    Kits = {0, 1}
    Files <- MCFiles
    MaxPresses = 3
PROPERTIES
    UploadReturns
