------------------------------ MODULE MCLoaders -------------------------------
(***************************************************************************)
(* Five parts that share no state, in one instance: the sparse loader      *)
(* (with its own variables, extended), the rest of the DOS loader, its     *)
(* command line, the resident player on a compact KSP and kspplayer's      *)
(* terminal keys.  A behaviour is a run of one of them; w1 to w18 hold the *)
(* variables of the one that runs.                                         *)
(***************************************************************************)
EXTENDS MCSparseStage, Sequences

CONSTANTS
    LoaderSizes, LoaderFree, CommandTails, CommandSong,
    CompactSongs, CompactKits, CompactFiles, CompactPresses,
    KeyChunk, KeyLag, KeyPresses

\* Of two empty polls in a row the second takes an ESC for the Escape key: the
\* bytes of a cursor key are less than that apart.
ASSUME KeyAssumption == KeyChunk \in Nat \ {0} /\ KeyLag \in 0..1 /\ KeyPresses \in Nat

VARIABLES
    program,   \* which of them runs (never changes)
    w1, w2, w3, w4, w5, w6, w7, w8, w9, w10, w11, w12, w13, w14, w15, w16, w17, w18

work == <<w1, w2, w3, w4, w5, w6, w7, w8, w9, w10, w11, w12, w13, w14, w15, w16, w17, w18>>
all == <<program, work, vars>>

\* The DOS loader, with what is proved of it: Loaders_proofs uses it.
Dos2 ==
    INSTANCE Dos2Loader_proofs WITH
        file <- w1, mapper_free <- w2, pc <- w3, handle <- w4, banks <- w5, stage_count <- w6,
        sparse_mode <- w7, alloc_count <- w8, cache_count <- w9, pool <- w10, runtime <- w11,
        table <- w12, content <- w13, index <- w14,
        Sizes <- LoaderSizes, FreeCounts <- LoaderFree

Command ==
    INSTANCE CommandLine WITH
        tail <- w1, b <- w2, mode <- w3, name <- w4, song <- w5, slot <- w6,
        Tails <- CommandTails, SongCell <- CommandSong

\* The text at 81H is made of the characters of the model.
ASSUME TailAssumption == CommandTails \subseteq Seq(Command!Chars) /\ CommandSong \in Nat

\* The resident player, with what is proved of it.
Compact ==
    INSTANCE CompactKsp_proofs WITH
        file <- w1, pc <- w2, song <- w3, at <- w4, to <- w5, good <- w6, failed <- w7,
        tag <- w8, line <- w9, base <- w10, work <- w11, engine <- w12, music <- w13,
        kit <- w14, latch <- w15, down <- w16, presses <- w17, switches <- w18,
        SongNumbers <- CompactSongs, Kits <- CompactKits, Files <- CompactFiles,
        MaxPresses <- CompactPresses

\* Song numbers are bytes, files are laid out as the writer does.
ASSUME CompactAssumption == Compact!Sane

Keys ==
    INSTANCE TerminalKeysInvariant WITH
        patient <- w1, escape_state <- w2, escape_waits <- w3, tty <- w4, coming <- w5, lag <- w6,
        pressed <- w7, acted <- w8, running <- w9, input <- w10, since <- w11,
        Chunk <- KeyChunk, Habits <- BOOLEAN, MaxLag <- KeyLag, MaxPresses <- KeyPresses

\* What they are given; these instances have no inputs of their own.
Dos2Data ==
    INSTANCE MCDos2Loader WITH
        file <- w1, mapper_free <- w2, pc <- w3, handle <- w4, banks <- w5, stage_count <- w6,
        sparse_mode <- w7, alloc_count <- w8, cache_count <- w9, pool <- w10, runtime <- w11,
        table <- w12, content <- w13, index <- w14, Sizes <- {}, FreeCounts <- {}
CommandData ==
    INSTANCE MCCommandLine WITH
        tail <- w1, b <- w2, mode <- w3, name <- w4, song <- w5, slot <- w6, Tails <- {},
        SongCell <- CommandSong

CompactData ==
    INSTANCE MCCompactKsp WITH
        file <- w1, pc <- w2, song <- w3, at <- w4, to <- w5, good <- w6, failed <- w7,
        tag <- w8, line <- w9, base <- w10, work <- w11, engine <- w12, music <- w13,
        kit <- w14, latch <- w15, down <- w16, presses <- w17, switches <- w18,
        SongNumbers <- {}, Kits <- {}, Files <- {}, MaxPresses <- CompactPresses

MCLoaderSizes == Dos2Data!MCSizes
MCLoaderFree == Dos2Data!MCFree
MCCommandTails == CommandData!MCTails
MCCompactSongs == CompactData!MCSongs
MCCompactFiles == CompactData!MCFiles

-----------------------------------------------------------------------------
\* While another program runs, the sparse loader has not begun.
Unstaged == Init /\ archive = (CHOOSE a \in Archives : TRUE) /\ lines = 2 /\ song = 0

Rest15 == <<w15, w16, w17, w18>>
Rest12 == <<w12, w13, w14, Rest15>>
Rest7 == <<w7, w8, w9, w10, w11, Rest12>>

Zero15 == w15 = 0 /\ w16 = 0 /\ w17 = 0 /\ w18 = 0
Zero12 == w12 = 0 /\ w13 = 0 /\ w14 = 0 /\ Zero15
Zero7 == w7 = 0 /\ w8 = 0 /\ w9 = 0 /\ w10 = 0 /\ w11 = 0 /\ Zero12

LoadersInit ==
    \/ program = "sparse" /\ Init
       /\ w1 = 0 /\ w2 = 0 /\ w3 = 0 /\ w4 = 0 /\ w5 = 0 /\ w6 = 0 /\ Zero7
    \/ program = "dos2" /\ Dos2!Init /\ Zero15 /\ Unstaged
    \/ program = "command" /\ Command!Init /\ Zero7 /\ Unstaged
    \/ program = "compact" /\ Compact!Init /\ Unstaged
    \/ program = "keys" /\ Keys!Init /\ Zero12 /\ Unstaged

RunSparse == program = "sparse" /\ Next /\ UNCHANGED <<program, work>>
StepDos2 == program = "dos2" /\ Dos2!Step /\ UNCHANGED <<program, Rest15, vars>>
RunDos2 == program = "dos2" /\ Dos2!Next /\ UNCHANGED <<program, Rest15, vars>>
RunCommand == program = "command" /\ Command!Next /\ UNCHANGED <<program, Rest7, vars>>
PlayCompact == program = "compact" /\ Compact!Player /\ UNCHANGED <<program, vars>>
RunCompact == program = "compact" /\ Compact!Next /\ UNCHANGED <<program, vars>>
PollKeys == program = "keys" /\ Keys!Poll /\ UNCHANGED <<program, Rest12, vars>>
ArriveKeys == program = "keys" /\ Keys!Arrive /\ UNCHANGED <<program, Rest12, vars>>
RunKeys == program = "keys" /\ Keys!Next /\ UNCHANGED <<program, Rest12, vars>>

LoadersNext == RunSparse \/ RunDos2 \/ RunCommand \/ RunCompact \/ RunKeys

\* The fairness of each part's own specification.
LoadersSpec ==
    /\ LoadersInit /\ [][LoadersNext]_all
    /\ WF_all(StepDos2) /\ WF_all(PlayCompact) /\ WF_all(PollKeys) /\ WF_all(ArriveKeys)

-----------------------------------------------------------------------------
\* The properties of each part, in the states of its own runs; those of the
\* sparse loader are SparseStage's.

\* What the loader starts the player with is staged.
PlayedIsStaged == program = "dos2" => Dos2!PlayedIsStaged

\* The segments a mode needs are there once it was chosen.
AllocationGranted == program = "dos2" => Dos2!AllocationGranted

\* A file is refused for its size only if it has to be.
RefusedForSize == program = "dos2" => Dos2!RefusedForSize

\* No read from a closed file.
ReadsOpenFile == program = "dos2" => Dos2!ReadsOpenFile

\* The loader ends.
LoaderEnds == <>(program # "dos2" \/ Dos2!Over)

\* An accepted command line means what was typed.
AcceptedIsUnderstood == program = "command" => Command!AcceptedIsUnderstood

\* The documented forms are accepted.
PlainUsageAccepted == program = "command" => Command!PlainUsageAccepted

\* What plays is what was selected, unless DOS failed in the switch to it.
PlayingIsRequested == program = "compact" => Compact!PlayingIsRequested

\* A song is refused only for a reason of its own switch.
RefusedForCause == program = "compact" => Compact!RefusedForCause

\* No press selects two songs.
OneSwitchPerPress == program = "compact" => Compact!OneSwitchPerPress

\* A switch comes to an end.
SwitchEnds ==
    (program = "compact" /\ w2 # "play")
        ~> (program # "compact" \/ w2 \in Compact!Ends \cup {"play"})

\* Keys act in the order they were pressed and none is invented.
ActionsWerePressed == program = "keys" => Keys!ActionsWerePressed

\* A patient user's keys all act.
NothingLost == program = "keys" => Keys!NothingLost

\* A patient user's Escape stops the player.
PatientEscapeStops == (program = "keys" /\ Keys!EscapePressed) ~> (program # "keys" \/ ~w9)
=============================================================================
