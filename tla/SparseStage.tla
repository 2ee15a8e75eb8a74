------------------------------ MODULE SparseStage ------------------------------
(***************************************************************************)
(* The sparse staging of a large KCPZ archive by the MSX-DOS2 loader       *)
(* (msx/KSPDOS2.asm, stage_sparse_file and what it calls), over a session  *)
(* of track changes requested by the resident player.                      *)
(*                                                                         *)
(* The archive stays on disk, cut into 16 KiB file segments.  Mapper slot  *)
(* 0 of the pool holds file segment 0 for ever; the other slots are cache  *)
(* lines, replaced round-robin, that hold the one or two segments of the   *)
(* selected song's packed overlay.  stage_segments maps each file segment  *)
(* to the slot the player reads it from.  Addresses are the real 24-bit    *)
(* file offsets, with the loader's 8- and 16-bit arithmetic.               *)
(***************************************************************************)
EXTENDS Integers

CONSTANTS
    TrackCount,   \* songs of the archive
    LineCounts,   \* sparse_cache_count: 2, or 3 when the mapper has room
    Archives      \* the archives a session may be about

SegBytes == 16384
WordBytes == 65536
TableEntries == 32
NoTag == 255      \* an empty cache line
NoPage == 255     \* page map entry of a song that does not exist
Junk == -1        \* a slot no segment was completely read into

Tracks == 0..(TrackCount - 1)
Segments == 0..(TableEntries - 1)

\* The stream of a song occupies [offset, offset + size) of the file, which
\* calculate_stage_count limits to TableEntries segments.
Archive ==
    {a \in [mapped : [Tracks -> BOOLEAN],
            offset : [Tracks -> 0..(TableEntries * SegBytes)],
            size : [Tracks -> 1..(WordBytes - 1)]] :
        \A s \in Tracks :
            a.offset[s] + a.size[s] <= TableEntries * SegBytes}

ASSUME SizeAssumption ==
    /\ TrackCount \in 1..255
    /\ LineCounts \subseteq {2, 3}

ASSUME ArchiveAssumption == \A a \in Archives : a \in Archive

VARIABLES
    archive,     \* the file (never changes)
    lines,       \* sparse_cache_count (never changes)
    pc,          \* where the loader is; "play" while the player runs
    song,        \* song_number
    content,     \* the file segment each pool slot holds
    table,       \* stage_segments: file segment -> slot
    tags,        \* sparse_cache_tags: cache line -> file segment
    nextLine,    \* sparse_cache_next
    protected,   \* sparse_protected_segment
    initialized  \* sparse_initialized

file == <<archive, lines>>
cache == <<content, table, tags, nextLine>>
vars == <<file, pc, song, cache, protected, initialized>>

Lines == 0..(lines - 1)
Slots == 0..lines

-----------------------------------------------------------------------------
\* sparse_pointer_segment: bits 14 and up of a 24-bit offset, in one byte.
PointerSegment(high, low) == (high * 4 + (low \div SegBytes)) % 256

FirstSegment(a, s) ==
    PointerSegment(a.offset[s] \div WordBytes, a.offset[s] % WordBytes)

\* The segment of the stream's last byte as stage_sparse_first_loaded computes
\* it: ADD HL,DE / DEC HL / ADC A,0.  DEC HL leaves the carry of the addition
\* alone and does not borrow from the high byte.
EndSegment(a, s) ==
    LET sum == (a.offset[s] % WordBytes) + a.size[s]
        low == (sum - 1) % WordBytes
        high == ((a.offset[s] \div WordBytes) + (sum \div WordBytes)) % 256
    IN PointerSegment(high, low)

\* The segments the stream really occupies.
LastSegment(a, s) == (a.offset[s] + a.size[s] - 1) \div SegBytes
Needed(a, s) == (a.offset[s] \div SegBytes)..LastSegment(a, s)

-----------------------------------------------------------------------------
\* stage_sparse_segment: read file segment k into a slot.  The table entry is
\* set before the disk is asked; a failed read leaves junk in the slot.
ReadInto(k, slot, ok) ==
    /\ table' = [table EXCEPT ![k] = slot]
    /\ content' = [content EXCEPT ![slot] = IF ok THEN k ELSE Junk]

MutHit(k) == tags[0] = k
Hit(k) == \E l \in Lines : tags[l] = k

\* The search for a victim starts at sparse_cache_next and walks past lines
\* that hold the protected segment.
Distance(l) == (l - nextLine + lines) % lines

Victim(l) ==
    /\ tags[l] # protected
    /\ \A m \in Lines : Distance(m) < Distance(l) => tags[m] = protected

LineAfter(l) == IF l + 1 = lines THEN 0 ELSE l + 1

MutTagged(k, l) == [tags EXCEPT ![nextLine] = k]
Tagged(k, l) == [tags EXCEPT ![l] = k]

\* stage_sparse_ensure_segment; `failed' is where a disk error leads.
Ensure(k, done, failed) ==
    \/ /\ k = 0 \/ Hit(k)
       /\ IF k = 0 THEN UNCHANGED table
          ELSE \E l \in Lines :
                 /\ tags[l] = k
                 /\ \A m \in Lines : tags[m] = k => l <= m
                 /\ table' = [table EXCEPT ![k] = l + 1]
       /\ pc' = done
       /\ UNCHANGED <<content, tags, nextLine>>
    \/ /\ k # 0 /\ ~Hit(k)
       /\ \E l \in Lines, ok \in BOOLEAN :
            /\ Victim(l)
            /\ nextLine' = LineAfter(l)
            /\ ReadInto(k, l + 1, ok)
            /\ tags' = IF ok THEN Tagged(k, l) ELSE tags
            /\ pc' = IF ok THEN done ELSE failed

-----------------------------------------------------------------------------
Init ==
    /\ archive \in Archives
    /\ lines \in LineCounts
    /\ pc = "stage"
    /\ song \in Tracks
    /\ content = [s \in Slots |-> Junk]
    /\ table = [k \in Segments |-> 0]
    /\ tags = [l \in Lines |-> NoTag]
    /\ nextLine = 0
    /\ protected = NoTag
    /\ initialized = FALSE

ResetTable == [k \in Segments |-> 0]

\* stage_sparse_file: every table entry aliases segment 0; the first call also
\* empties the cache and reads segment 0.
StageFirst ==
    /\ pc = "stage" /\ ~initialized
    /\ tags' = [l \in Lines |-> NoTag]
    /\ nextLine' = 0
    /\ table' = [ResetTable EXCEPT ![0] = 0]
    /\ \E ok \in BOOLEAN :
         /\ content' = [content EXCEPT ![0] = IF ok THEN 0 ELSE Junk]
         /\ initialized' = ok
         /\ pc' = IF ok THEN "lookup" ELSE "disk_error"
    /\ UNCHANGED <<file, song, protected>>

StageAgain ==
    /\ pc = "stage" /\ initialized
    /\ table' = ResetTable
    /\ pc' = "lookup"
    /\ UNCHANGED <<file, song, content, tags, nextLine, protected,
                   initialized>>

MutProtect == 0
Protect == FirstSegment(archive, song)

\* The page map and the overlay descriptor in segment 0.
Lookup ==
    /\ pc = "lookup"
    /\ IF archive.mapped[song]
       THEN /\ protected' = Protect
            /\ pc' = "first"
       ELSE pc' = "no_song" /\ UNCHANGED protected
    /\ UNCHANGED <<file, song, cache, initialized>>

EnsureFirst ==
    /\ pc = "first"
    /\ Ensure(FirstSegment(archive, song), "end", "disk_error")
    /\ UNCHANGED <<file, song, protected, initialized>>

FindEnd ==
    LET first == FirstSegment(archive, song)
        end == EndSegment(archive, song)
    IN
    /\ pc = "end"
    /\ \/ end = first /\ pc' = "staged"
       \/ end = (first + 1) % 256 /\ pc' = "second"
       \/ end \notin {first, (first + 1) % 256} /\ pc' = "too_wide"
    /\ UNCHANGED <<file, song, cache, protected, initialized>>

EnsureSecond ==
    /\ pc = "second"
    /\ Ensure(EndSegment(archive, song), "staged", "disk_error")
    /\ UNCHANGED <<file, song, protected, initialized>>

\* stage_sparse_done, then launch_player copies the table to the player.
Launch ==
    /\ pc = "staged"
    /\ protected' = NoTag
    /\ pc' = "play"
    /\ UNCHANGED <<file, song, cache, initialized>>

\* The player's Right, Left and Space keys; the track number wraps.
SwitchSong ==
    /\ pc = "play"
    /\ song' \in {song, (song + 1) % TrackCount,
                  (song + TrackCount - 1) % TrackCount}
    /\ pc' = "stage"
    /\ UNCHANGED <<file, cache, protected, initialized>>

\* Every staging error ends in stage_read_error, which leaves the program.
Errors == {"disk_error", "no_song", "too_wide"}

StageReadError ==
    /\ pc \in Errors
    /\ UNCHANGED vars

Quit == pc = "play" /\ pc' = "exit"
        /\ UNCHANGED <<file, song, cache, protected, initialized>>

Stopped == pc = "exit" /\ UNCHANGED vars

Next ==
    \/ StageFirst \/ StageAgain \/ Lookup \/ EnsureFirst \/ FindEnd
    \/ EnsureSecond \/ Launch \/ SwitchSong \/ StageReadError \/ Quit
    \/ Stopped

Spec == Init /\ [][Next]_vars

-----------------------------------------------------------------------------
\* Properties.

TypeOK ==
    /\ archive \in Archives /\ lines \in LineCounts
    /\ pc \in {"stage", "lookup", "first", "end", "second", "staged", "play",
               "exit"} \cup Errors
    /\ song \in Tracks
    /\ content \in [Slots -> Segments \cup {Junk}]
    /\ table \in [Segments -> Slots]
    /\ tags \in [Lines -> (Segments \ {0}) \cup {NoTag}]
    /\ nextLine \in Lines
    /\ protected \in 0..255
    /\ initialized \in BOOLEAN

\* While a song plays, every file segment its packed overlay occupies, and
\* segment 0 with the template and the maps, is read through the table from a
\* slot that holds exactly that segment, whatever the songs before it evicted.
PlayingSongStaged ==
    pc = "play" => \A k \in {0} \cup Needed(archive, song) :
                        content[table[k]] = k

\* A tag never claims a segment its line does not hold, so a hit may skip the
\* disk; and no segment is held twice.
TagsTruthful ==
    pc \notin Errors =>
        /\ \A l \in Lines : tags[l] # NoTag => content[l + 1] = tags[l]
        /\ \A l, m \in Lines : tags[l] = tags[m] /\ tags[l] # NoTag => l = m

\* KSPDOS2.asm, at stage_sparse_first_loaded: "Determine the segment containing
\* the packed stream's final byte"; only an overlay that really occupies more
\* than two segments ("one overlay may span at most two pages") is refused.
OnlyWideRefused ==
    pc = "too_wide" =>
        LastSegment(archive, song) > FirstSegment(archive, song) + 1

\* The search for a victim always ends: some line may be replaced.
SearchEnds ==
    pc \in {"first", "second"} => \E l \in Lines : tags[l] # protected

\* The playing song's segments are all cached, so that its replay (Space) reads
\* no disk ("Sparse files refill only cache misses").
ReplayHits ==
    pc = "play" => \A k \in Needed(archive, song) \ {0} : Hit(k)
=============================================================================
