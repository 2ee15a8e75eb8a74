------------------------------ MODULE CompactKsp ------------------------------
(***************************************************************************)
(* The resident player on a compact KSP (msx/KSPPLAYER.asm,                *)
(* ksp_runtime_path and ksp_switch_song): every song is built anew from    *)
(* the file, which stays open.  The page-0 helper of msx/KSPDOS2.asm reads *)
(* 16 KiB file segments through one cache line; the MWK uploader           *)
(* (msx/KSPMWK.asm) borrows that line as its DOS buffer, and lives in the  *)
(* segment that later holds packed streams and the driver's work RAM.      *)
(*                                                                         *)
(* Data is what a segment holds; a directory or stream is the interval of  *)
(* file segments it is read from, in order.  Any DOS call may fail: the    *)
(* caller does not look at the helper's carry, and what it then reads is   *)
(* refused, lucky, or leads anywhere ("runaway").                          *)
(***************************************************************************)
EXTENDS Integers, FiniteSets

CONSTANTS
    SongNumbers,   \* song numbers of a session
    Kits,          \* MWK sample kits
    Files,         \* compact KSP files
    MaxPresses     \* bound: key presses of the user

NoKit == -1
Junk == -1        \* a line no whole segment was read into
NoTag == 255      \* ksp_direct_cache_tag = FFH
MaxSegments == 32 \* the loader refuses a file of more (Dos2Loader)

Segments == 0..(MaxSegments - 1)
Interval == {i \in Segments \X Segments : i[1] <= i[2]}

File ==
    [ songs : SUBSET SongNumbers,
      unplayable : SUBSET SongNumbers, \* too large, no MWM, kit missing or bad
      tail : Interval,                 \* directory offset in the trailer
      directory : Interval,
      engine : Interval, packedEngine : BOOLEAN,
      music : [SongNumbers -> Interval], packed : SUBSET SongNumbers,
      kit : [SongNumbers -> Kits \cup {NoKit}],
      partial : SUBSET Kits,           \* end in a chunk below 16 KiB
      scan : [SongNumbers -> Interval] ]  \* entries up to that of its kit

\* ksp_write_file puts the engine first, then the songs, then the directory
\* and the trailer.  A raw engine is copied from file segment 0 alone, which
\* must survive the upload of a kit.  The player refuses a directory of more
\* than 255 entries.
Layout(f) ==
    /\ Cardinality(f.songs) <= 254
    /\ f.engine[1] = 0 /\ f.engine[2] <= f.directory[1]
    /\ ~f.packedEngine =>
         /\ f.engine[2] = 0
         /\ f.tail[2] = 0 => \A s \in f.songs : f.kit[s] = NoKit
    /\ f.directory[2] <= f.tail[1]
    /\ \A s \in f.songs :
         /\ f.engine[2] <= f.music[s][1]
         /\ f.music[s][2] <= f.directory[1]
         /\ f.directory[1] <= f.scan[s][1]
         /\ f.scan[s][2] <= f.directory[2]

\* Song numbers are bytes, and files are laid out as the writer does.
Sane ==
    /\ SongNumbers \subseteq 0..255
    /\ NoKit \notin Kits
    /\ MaxPresses \in Nat
    /\ \A f \in Files : f \in File /\ Layout(f)

VARIABLES
    file,      \* never changes
    pc,
    song,      \* song_number, ksp_page2_current_song
    at, to,    \* file segments still to be read in this phase
    good,      \* all bytes read in this switch were the file's
    failed,    \* a DOS call of this switch failed
    tag,       \* ksp_direct_cache_tag
    line,      \* what stage_pool+1, the cache line, holds
    base,      \* stage_pool still holds file segment 0
    work,      \* kss_segments+2: "uploader", "stream" or "cleared"
    engine,    \* the engine segment: "none", "good", "damaged"
    music,     \* the song whose music is in the music segment
    kit,       \* the sample kit in OPL4 RAM
    latch,     \* ksp_page2_key_latch
    down,      \* keys held down
    presses,   \* presses so far
    switches   \* songs selected so far

reading == <<at, to, good, failed>>
cache == <<tag, line, base>>
memory == <<work, engine, music, kit>>
keyboard == <<down, presses>>
vars == <<file, pc, song, reading, cache, memory, latch, keyboard, switches>>

Damaged == -2
Keys == {"escape", "next", "previous"}   \* Space and Right are one
Selecting == {"next", "previous"}
LastSegment == file.tail[2]

-----------------------------------------------------------------------------
Init ==
    /\ file \in Files
    /\ song \in SongNumbers
    /\ pc = "trailer" /\ at = file.tail[1] /\ to = file.tail[2]
    /\ good = TRUE /\ failed = FALSE
    /\ tag = NoTag /\ line = (IF LastSegment = 0 THEN Junk ELSE 1)
    /\ base = TRUE
    /\ work = "uploader" /\ engine = "none" /\ music = Damaged /\ kit = NoKit
    /\ latch = FALSE
    /\ down \in SUBSET Keys /\ presses = 0 /\ switches = 0

Reading == {"trailer", "directory", "scan", "engine", "music"}
HasRead(phase) == pc = phase /\ at > to

\* The next phase reads this interval.
Read(phase, interval) == pc' = phase /\ at' = interval[1] /\ to' = interval[2]

\* The next phase reads nothing through the helper.
Continue(phase) == pc' = phase /\ UNCHANGED <<at, to>>

\* Bytes that are not the file's may be refused or lead anywhere.
Astray == ~good /\ (Continue("format_error") \/ Continue("runaway"))

\* One segment through ksp_direct_cache_segment: <<tag, line, failed>> after
\* it.  A failed SEEK leaves the line alone, a failed READ spoils it; the tag
\* follows only a successful READ.  The byte readers try again at the next
\* byte.
MutFetched ==
    IF tag = at THEN {<<tag, line, failed>>}
    ELSE {<<at, at, failed>>, <<at, at, TRUE>>, <<tag, line, TRUE>>,
          <<at, Junk, TRUE>>}
Fetched ==
    IF tag = at THEN {<<tag, line, failed>>}
    ELSE {<<at, at, failed>>, <<at, at, TRUE>>, <<tag, line, TRUE>>,
          <<tag, Junk, TRUE>>}

MutNextSegmentStuck == at
NextSegment == at + 1

Fetch ==
    /\ pc \in Reading /\ at <= to
    /\ \E f \in Fetched :
         /\ tag' = f[1] /\ line' = f[2] /\ failed' = f[3]
         /\ good' = (good /\ line' = at /\ (failed' => failed))
    /\ at' = NextSegment
    /\ UNCHANGED <<file, pc, song, to, base, memory, latch, keyboard,
                   switches>>

\* ksp_parse_directory, after the directory's offset.
Trailer ==
    /\ HasRead("trailer")
    /\ Read("directory", file.directory) \/ Astray
    /\ UNCHANGED <<file, song, good, failed, cache, memory, latch, keyboard,
                   switches>>

\* All entries were scanned for ENGN 0 and the SONG; a song with a kit has
\* them scanned again for its MWK.
Directory ==
    /\ HasRead("directory")
    /\ \/ song \notin file.songs /\ Continue("format_error")
       \/ /\ song \in file.songs
          /\ IF file.kit[song] = NoKit THEN Continue("invalidate")
             ELSE Read("scan", file.scan[song])
       \/ song \in file.unplayable /\ Continue("format_error")
       \/ Astray
    /\ UNCHANGED <<file, song, good, failed, cache, memory, latch, keyboard,
                   switches>>

Scan ==
    /\ HasRead("scan")
    /\ Continue("upload") \/ Astray
    /\ UNCHANGED <<file, song, good, failed, cache, memory, latch, keyboard,
                   switches>>

\* ksp_prepare_work_segment calls 8000H in the work segment.  The uploader
\* reads the kit through the segment the loader entered for file segment 1,
\* in chunks of 16 KiB.  For a last chunk of less, direct_chunk_ready and
\* direct_chunk_final jump to each other for ever.
Upload ==
    /\ pc = "upload"
    /\ IF work # "uploader"
       THEN Continue("runaway") /\ UNCHANGED <<kit, line, base, failed>>
       ELSE /\ IF LastSegment = 0 THEN base' = FALSE /\ UNCHANGED line
               ELSE line' = Junk /\ UNCHANGED base
            /\ \/ /\ good => file.kit[song] \notin file.partial
                  /\ kit' = IF good THEN file.kit[song] ELSE NoKit
                  /\ Continue("invalidate") /\ UNCHANGED failed
               \/ /\ good => file.kit[song] \in file.partial
                  /\ kit' = NoKit
                  /\ Continue("hang") /\ UNCHANGED failed
               \/ /\ kit' = NoKit
                  /\ IF song \in file.unplayable THEN failed' \in {failed, TRUE}
                     ELSE failed' = TRUE
                  /\ Continue("format_error")
    /\ UNCHANGED <<file, song, good, tag, work, engine, music, latch,
                   keyboard, switches>>

MutInvalidated == tag
Invalidated == NoTag

\* A packed stream is collected in the work segment before it is decoded.
WorkFor(isPacked) == IF isPacked THEN "stream" ELSE work

\* The helper with B = 2, then ksp_materialize: the sizes and the engine.
Invalidate ==
    /\ pc = "invalidate"
    /\ tag' = Invalidated
    /\ \/ /\ IF file.packedEngine THEN Read("engine", file.engine)
             ELSE Continue("engine")
          /\ work' = WorkFor(file.packedEngine)
       \/ /\ song \in file.unplayable /\ Continue("format_error")
          /\ UNCHANGED work
    /\ UNCHANGED <<file, song, good, failed, line, base, engine, music, kit,
                   latch, keyboard, switches>>

Engine ==
    /\ HasRead("engine")
    /\ engine' = IF (IF file.packedEngine THEN good ELSE base) THEN "good"
                 ELSE "damaged"
    /\ \/ /\ Read("music", file.music[song])
          /\ work' = WorkFor(song \in file.packed)
       \/ Astray /\ UNCHANGED work
    /\ UNCHANGED <<file, song, good, failed, cache, music, kit, latch,
                   keyboard, switches>>

\* ksp_compact_mwm refuses what is no MWM.
Music ==
    /\ HasRead("music")
    /\ music' = IF good THEN song ELSE Damaged
    /\ \/ song \notin file.unplayable /\ Continue("install")
       \/ song \in file.unplayable /\ Continue("format_error")
       \/ Astray
    /\ UNCHANGED <<file, song, good, failed, cache, work, engine, kit, latch,
                   keyboard, switches>>

\* ksp_clear_work_segment, the patches, and the page-2 runtime with its data
\* copied anew; MBWave's INIT then uses the work segment as page 3.
MutFreshLatch == FALSE
FreshLatch == TRUE

Install ==
    /\ pc = "install"
    /\ work' = "cleared" /\ latch' = FreshLatch
    /\ Continue("play")
    /\ UNCHANGED <<file, song, good, failed, cache, engine, music, kit,
                   keyboard, switches>>

-----------------------------------------------------------------------------
\* ksp_page2_play_loop, once per frame.  ksp_track_count is the number of SONG
\* entries.
Tracks == Cardinality(file.songs)

Target ==
    IF "next" \in down
    THEN IF song + 1 = Tracks THEN 0 ELSE (song + 1) % 256
    ELSE (IF song = 0 THEN Tracks ELSE song) - 1

EscapeKey ==
    /\ pc = "play" /\ "escape" \in down
    /\ Continue("exit")
    /\ UNCHANGED <<file, song, good, failed, cache, memory, latch, keyboard,
                   switches>>

NoKey ==
    /\ pc = "play" /\ down = {}
    /\ latch' = FALSE
    /\ UNCHANGED <<file, pc, song, reading, cache, memory, keyboard,
                   switches>>

\* ksp_page2_select_pressed, the silence, and ksp_switch_song.
SelectSong ==
    /\ pc = "play" /\ "escape" \notin down /\ down # {} /\ ~latch
    /\ latch' = TRUE
    /\ song' = Target
    /\ switches' = switches + 1
    /\ Read("trailer", file.tail)
    /\ good' = TRUE /\ failed' = FALSE
    /\ UNCHANGED <<file, cache, memory, keyboard>>

Press(k) ==
    /\ k \notin down /\ presses < MaxPresses
    /\ down' = down \cup {k} /\ presses' = presses + 1
    /\ UNCHANGED <<file, pc, song, reading, cache, memory, latch, switches>>

Release(k) ==
    /\ k \in down
    /\ down' = down \ {k}
    /\ UNCHANGED <<file, pc, song, reading, cache, memory, latch, presses,
                   switches>>

Ends == {"format_error", "runaway", "hang", "exit"}
Stopped == pc \in Ends /\ UNCHANGED vars

Player ==
    \/ Fetch \/ Trailer \/ Directory \/ Scan \/ Upload \/ Invalidate
    \/ Engine \/ Music \/ Install
    \/ EscapeKey \/ NoKey \/ SelectSong

User == \E k \in Keys : Press(k) \/ Release(k)

Next == Player \/ User \/ Stopped

Spec == Init /\ [][Next]_vars /\ WF_vars(Player)

-----------------------------------------------------------------------------
\* Properties.

TypeOK ==
    /\ file \in Files
    /\ pc \in Reading \cup {"upload", "invalidate", "install", "play"}
              \cup Ends
    /\ song \in 0..255
    /\ at \in 0..(to + 1) /\ to \in Segments
    /\ good \in BOOLEAN /\ failed \in BOOLEAN
    /\ tag \in Segments \cup {NoTag} /\ line \in Segments \cup {Junk}
    /\ base \in BOOLEAN
    /\ work \in {"uploader", "stream", "cleared"}
    /\ engine \in {"none", "good", "damaged"}
    /\ music \in SongNumbers \cup {Damaged}
    /\ kit \in Kits \cup {NoKit}
    /\ latch \in BOOLEAN
    /\ down \subseteq Keys /\ presses \in 0..MaxPresses /\ switches \in Nat

\* If no DOS call failed in the switch that led to it, what plays is the
\* engine, the music and the kit of the selected song (KSPPLAYER.asm:
\* "materializing afterwards guarantees pristine playback data"), whatever
\* failed in the switches before it.
PlayingIsRequested ==
    pc = "play" /\ ~failed =>
        /\ engine = "good"
        /\ music = song
        /\ file.kit[song] # NoKit => kit = file.kit[song]

\* A song the file holds and the player can play is refused only for a DOS
\* failure during its own switch: no earlier failure leaves a stale cache line
\* behind.
RefusedForCause ==
    pc = "format_error" =>
        failed \/ song \notin file.songs \/ song \in file.unplayable

\* A key held down, also across the seconds a switch takes, selects one song:
\* there is a press for every switch.
OneSwitchPerPress == switches <= presses

\* A switch comes to an end: whatever DOS answers, the player plays, refuses
\* the song, or is lost in the uploader or in bytes that are not the file's.
SwitchEnds == pc # "play" ~> pc \in Ends \cup {"play"}

\* The associated MWK data "is streamed from the still-open DOS file into
\* MoonSound during reload": the uploader hands back to the player, which goes
\* on or refuses the song.
UploadReturns == pc = "upload" ~> pc \in {"invalidate", "format_error"}
=============================================================================
