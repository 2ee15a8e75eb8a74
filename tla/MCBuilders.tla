------------------------------ MODULE MCBuilders ------------------------------
(***************************************************************************)
(* The Python tools, and the engines that read what they write.  They run  *)
(* one at a time and share nothing but files, so one instance has them     *)
(* all: a behaviour is a run of one of them.  w1 to w15 hold the variables *)
(* of the tool that runs; chip and player state are HauntedEngine's own,   *)
(* since its refinement is a property of the whole instance.               *)
(***************************************************************************)
EXTENDS Integers, Sequences

CONSTANTS
    PageConfigs, PageImages, SnatcherMusics, SnatcherEngines, KcpSources,
    MovedJobs, AssetNames, AssetWorlds, MwkCases, HauntedEngines, HauntedLayout,
    ChunkedTracks, ChipAddresses, ChipFrequencies,
    ChipBanks, ChipVolumes, ChipSongs,
    PageBase, PageLimit, PageEnd,        \* of a complete page
    KcpSizes, KcpWordLimit, KcpSegment,  \* of packed streams, and of their places
    KcpFixed, KcpCells,                  \* of an archive's header and of a page
    ChunkedFillers, ChunkedDelay, ChunkedCapacity,
    BatchCrashes

VARIABLES
    tool,   \* which of them runs (never changes)
    w1, w2, w3, w4, w5, w6, w7, w8, w9, w10, w11, w12, w13, w14, w15,
    file, pc, window, wanted, command, shadow, registers, fm, scc, started

work == <<w1, w2, w3, w4, w5, w6, w7, w8, w9, w10, w11, w12, w13, w14, w15>>
player == <<file, pc, window, wanted, command, shadow, registers, fm, scc, started>>
vars == <<tool, work, player>>

Pages ==
    INSTANCE CompletePages WITH
        cfg <- w1, image <- w2, pc <- w3, todo <- w4, placed <- w5, pages <- w6, archive <- w7,
        Configs <- PageConfigs, Images <- PageImages, Tracks <- <<0, 1>>,
        Base <- PageBase, Limit <- PageLimit, End <- PageEnd, Gap <- 1, Device <- {40}

Snatcher ==
    INSTANCE SnatcherPages WITH
        bank <- w1, used <- w2, trace <- w3, candidates <- w4, count <- w5, pc <- w6,
        queue <- w7, cursor <- w8, free <- w9, pieces <- w10,
        Musics <- SnatcherMusics, Engines <- SnatcherEngines, Descriptor <- 100,
        EngineSpan <- <<0, 25>>, FreeTail <- <<28, 45>>, Tables <- {9},
        Seed <- 3, MinHole <- 3, Fetched <- 1

Kcp ==
    INSTANCE KcpArchive_proofs WITH
        tool <- w1, source <- w2, pc <- w3, streams <- w4, archive <- w5, running <- w6,
        Sources <- KcpSources, PackedSizes <- KcpSizes, WordLimit <- KcpWordLimit,
        FixedSize <- KcpFixed, Segment <- KcpSegment, PageCells <- KcpCells

Moved ==
    INSTANCE MovedSongs WITH
        job <- w1, pc <- w2, common <- w3, banks <- w4, Jobs <- MovedJobs, Radix <- 16

Assets ==
    INSTANCE AssetBatchInvariant WITH
        world <- w1, pc <- w2, at <- w3, menu <- w4, files <- w5, left <- w6, made <- w7,
        failures <- w8, ksp <- w9, crashes <- w10,
        Names <- AssetNames, Worlds <- AssetWorlds, MaxCrashes <- BatchCrashes

Mwk ==
    INSTANCE MwkUsage WITH
        case <- w1, pc <- w2, waves <- w3, custom <- w4, wavekit <- w5, used <- w6,
        Cases <- MwkCases, TableSize <- 3, StartWaves <- 2, WaveSlots <- 3, Rows <- 2,
        Tones <- 3, Parts <- 2, EditSize <- 2, TopNote <- 3

Haunted ==
    INSTANCE HauntedPages WITH
        engine <- w1, pc <- w2, pages <- w3, template <- w4, overlays <- w5,
        Engines <- HauntedEngines, Layout <- HauntedLayout,
        Radix <- 16, MaxStream <- 20, MaxHeard <- 12

Chunked ==
    INSTANCE ChunkedTrack_proofs WITH
        game <- w1, track <- w2, first <- w3, pages <- w4, whole <- w5, pc <- w6, page <- w7,
        ptr <- w8, wait <- w9, ended <- w10, reg <- w11, key <- w12, ref <- w13, tick <- w14,
        again <- w15,
        Tracks <- ChunkedTracks, Fillers <- ChunkedFillers,
        MaxDelay <- ChunkedDelay, Capacity <- ChunkedCapacity

Chip ==
    INSTANCE HauntedEngine_proofs WITH
        Addresses <- ChipAddresses, Frequencies <- ChipFrequencies,
        Banks <- ChipBanks, Volumes <- ChipVolumes, SongCount <- ChipSongs

\* What the tools are given.  The instances below have no inputs of their own,
\* so that no set is defined by way of itself.
PageData ==
    INSTANCE MCPages WITH
        cfg <- w1, image <- w2, pc <- w3, todo <- w4, placed <- w5, pages <- w6, archive <- w7,
        Configs <- {}, Images <- {}, Tracks <- <<0, 1>>,
        Base <- PageBase, Limit <- PageLimit, End <- PageEnd, Gap <- 1, Device <- {40}
SnatcherData ==
    INSTANCE MCSnatcher WITH
        bank <- w1, used <- w2, trace <- w3, candidates <- w4, count <- w5, pc <- w6,
        queue <- w7, cursor <- w8, free <- w9, pieces <- w10,
        Musics <- {}, Engines <- {}, Descriptor <- 100,
        EngineSpan <- <<0, 25>>, FreeTail <- <<28, 45>>, Tables <- {9},
        Seed <- 3, MinHole <- 3, Fetched <- 1
KcpData ==
    INSTANCE MCKcp WITH
        tool <- w1, source <- w2, pc <- w3, streams <- w4, archive <- w5, running <- w6,
        Sources <- <<>>, PackedSizes <- <<>>, WordLimit <- KcpWordLimit,
        FixedSize <- KcpFixed, Segment <- KcpSegment, PageCells <- KcpCells
MovedData ==
    INSTANCE MCMoved WITH
        job <- w1, pc <- w2, common <- w3, banks <- w4, Jobs <- {}, Radix <- 16
AssetData ==
    INSTANCE MCAssets WITH
        world <- w1, pc <- w2, at <- w3, menu <- w4, files <- w5, left <- w6, made <- w7,
        failures <- w8, ksp <- w9, crashes <- w10,
        Names <- <<>>, Worlds <- {}, MaxCrashes <- BatchCrashes
MwkData ==
    INSTANCE MCMwk WITH
        case <- w1, pc <- w2, waves <- w3, custom <- w4, wavekit <- w5, used <- w6,
        Cases <- {}, TableSize <- 3, StartWaves <- 2, WaveSlots <- 3, Rows <- 2,
        Tones <- 3, Parts <- 2, EditSize <- 2, TopNote <- 3
HauntedData ==
    INSTANCE MCHaunted WITH
        engine <- w1, pc <- w2, pages <- w3, template <- w4, overlays <- w5,
        Engines <- {}, Layout <- <<>>, Radix <- 16, MaxStream <- 20, MaxHeard <- 12
ChunkedData ==
    INSTANCE MCChunkedTrack WITH
        game <- w1, track <- w2, first <- w3, pages <- w4, whole <- w5, pc <- w6, page <- w7,
        ptr <- w8, wait <- w9, ended <- w10, reg <- w11, key <- w12, ref <- w13, tick <- w14,
        again <- w15,
        Tracks <- {}, Fillers <- ChunkedFillers,
        MaxDelay <- ChunkedDelay, Capacity <- ChunkedCapacity

MCPageConfigs == PageData!MCConfigs
MCPageImages == PageData!MCImages
MCSnatcherMusics == SnatcherData!MCMusics
MCSnatcherEngines == SnatcherData!MCEngines
MCKcpSources == KcpData!MCSources
MCKcpSizes == KcpData!MCPackedSizes
MCMovedJobs == MovedData!MCJobs
MCAssetNames == AssetData!MCNames
MCAssetWorlds == AssetData!MCWorlds
MCMwkCases == MwkData!MCCases
MCHauntedEngines == HauntedData!MCEngines
MCHauntedLayout == HauntedData!MCLayout
MCChunkedTracks == ChunkedData!MCTracks
MCChipAddresses == {<<0, 1, 2>>, <<1, 2, 3>>}
MCChipFrequencies == {<<0, 1>>, <<1, 0>>}

\* Addresses are integers.
ASSUME PageAssumption ==
    /\ PageBase \in Int /\ PageLimit \in Int /\ PageEnd \in Int
    /\ \A c \in PageConfigs : c.main[1] \in Int /\ c.main[2] \in Int
    /\ \A i \in PageImages : DOMAIN i \subseteq Int

\* Archives are sequences, and every path is numbered.
ASSUME AssetAssumption == Assets!Sane

\* Containers have their parser's form, a packed stream has a length.
ASSUME KcpAssumption == Kcp!Sane

\* A track has frames, and voices have volumes.
ASSUME ChunkedAssumption == Chunked!Sane

\* The chip's registers hold what its gateways are given.
ASSUME ChipAssumption == Chip!Sane

-----------------------------------------------------------------------------
\* While another tool runs, no .ksp has been built yet.
Unplayed ==
    /\ Chip!Init
    /\ registers[0] = 0 /\ registers[6] = 0

\* What a tool with fewer variables leaves alone.
Rest11 == <<w11, w12, w13, w14, w15>>
Rest8 == <<w8, w9, w10, Rest11>>
Rest7 == <<w7, Rest8>>
Rest6 == <<w6, Rest7>>
Rest5 == <<w5, Rest6>>

Zero11 == w11 = 0 /\ w12 = 0 /\ w13 = 0 /\ w14 = 0 /\ w15 = 0
Zero8 == w8 = 0 /\ w9 = 0 /\ w10 = 0 /\ Zero11
Zero7 == w7 = 0 /\ Zero8
Zero6 == w6 = 0 /\ Zero7
Zero5 == w5 = 0 /\ Zero6

Init ==
    \/ tool = "pages" /\ Pages!Init /\ Zero8 /\ Unplayed
    \/ tool = "snatcher" /\ Snatcher!Init /\ Zero11 /\ Unplayed
    \/ tool = "kcp" /\ Kcp!Init /\ Zero7 /\ Unplayed
    \/ tool = "moved" /\ Moved!Init /\ Zero5 /\ Unplayed
    \/ tool = "assets" /\ Assets!Init /\ Zero11 /\ Unplayed
    \/ tool = "mwk" /\ Mwk!Init /\ Zero7 /\ Unplayed
    \/ tool = "haunted" /\ Haunted!Init /\ Zero6 /\ Unplayed
    \/ tool = "chunked" /\ Chunked!Init /\ Unplayed
    \/ tool = "chip" /\ w1 = 0 /\ w2 = 0 /\ w3 = 0 /\ w4 = 0 /\ Zero5 /\ Chip!Init

RunPages == tool = "pages" /\ Pages!Next /\ UNCHANGED <<tool, Rest8, player>>
RunSnatcher == tool = "snatcher" /\ Snatcher!Next /\ UNCHANGED <<tool, Rest11, player>>
RunKcp == tool = "kcp" /\ Kcp!Next /\ UNCHANGED <<tool, Rest7, player>>
RunMoved == tool = "moved" /\ Moved!Next /\ UNCHANGED <<tool, Rest5, player>>
RunAssets == tool = "assets" /\ Assets!Next /\ UNCHANGED <<tool, Rest11, player>>
RunMwk == tool = "mwk" /\ Mwk!Next /\ UNCHANGED <<tool, Rest7, player>>
RunHaunted == tool = "haunted" /\ Haunted!Next /\ UNCHANGED <<tool, Rest6, player>>
RunChunked == tool = "chunked" /\ Chunked!Next /\ UNCHANGED <<tool, player>>
RunChip == tool = "chip" /\ Chip!Next /\ UNCHANGED <<tool, work>>

Next ==
    \/ RunPages \/ RunSnatcher \/ RunKcp \/ RunMoved \/ RunAssets
    \/ RunMwk \/ RunHaunted \/ RunChunked \/ RunChip

Spec == Init /\ [][Next]_vars

-----------------------------------------------------------------------------
\* The properties of each tool, in the states of its own runs.

\* find_space moves nothing onto anything else.
PlacementsApart == tool = "pages" => Pages!PlacementsApart

\* A complete page plays the source's song.
EngineReadsSource == tool = "pages" => Pages!EngineReadsSource

\* A packed Snatcher page plays the source's song.
PackedPlaysSource == tool = "snatcher" => Snatcher!PackedPlaysSource

\* A page read back from an archive is the page that was put in.
PagesSurvive == tool = "kcp" => Kcp!PagesSurvive

\* A stream of a specialized page lies in one segment of the file.
StagedWhole == tool = "kcp" => Kcp!StagedWhole

\* A moved song is the same song.
BankPlaysSong == tool = "moved" => Moved!BankPlaysSong

\* A batch run again after an interruption is damaged in one file at most.
DamageIsLocal == tool = "assets" => Assets!DamageIsLocal

\* Two programs choose the same kit for a song no menu renames.
ToolsAgree == tool = "assets" => Assets!ToolsAgree

\* Samples reported unused are never heard.
UsedIsHeard == tool = "mwk" => Mwk!UsedIsHeard

\* A Haunted Castle page plays the source's song.
PagePlaysSong == tool = "haunted" => Haunted!PagePlaysSong

\* Chunks play like the track in one piece.
MatchesReference == tool = "chunked" => Chunked!MatchesReference

\* The first pass is what the console played.
FirstPassFaithful == tool = "chunked" => Chunked!FirstPassFaithful

\* The sample channels stay apart and the song is the one asked for.
PlaysAsAsked == Chip!PlaysAsAsked
=============================================================================
