SPECIFICATION Spec
CONSTANTS
    PageConfigs <- MCPageConfigs
    PageImages <- MCPageImages
    SnatcherMusics <- MCSnatcherMusics
    SnatcherEngines <- MCSnatcherEngines
    KcpSources <- MCKcpSources
    MovedJobs <- MCMovedJobs
    AssetNames <- MCAssetNames
    AssetWorlds <- MCAssetWorlds
    MwkCases <- MCMwkCases
    HauntedEngines <- MCHauntedEngines
    HauntedLayout <- MCHauntedLayout
    ChunkedTracks <- MCChunkedTracks
    ChipAddresses <- MCChipAddresses
    ChipFrequencies <- MCChipFrequencies
    PageBase = 20
    PageLimit = 50
    PageEnd = 58
    ChipBanks = {1, 2}
    ChipVolumes = {0, 9}
    ChipSongs = 2
    KcpSizes <- MCKcpSizes
    KcpWordLimit = 40
    KcpSegment = 16
    KcpFixed = 4
    KcpCells = 4
    ChunkedFillers = {1}
    ChunkedDelay = 2
    ChunkedCapacity = 5
    BatchCrashes = 1
INVARIANTS
    PlacementsApart
    EngineReadsSource
    PackedPlaysSource
    PagesSurvive
    StagedWhole
    BankPlaysSong
    DamageIsLocal
    ToolsAgree
    UsedIsHeard
    PagePlaysSong
    MatchesReference
    FirstPassFaithful
PROPERTIES
    PlaysAsAsked
