------------------------------ MODULE Dos2Loader ------------------------------
(***************************************************************************)
(* KSPPLAY.COM from the parsed command line to the resident player         *)
(* (msx/KSPDOS2.asm): it sizes and inspects the file, chooses how much of  *)
(* it to keep in mapper RAM, allocates the segments, stages the file and   *)
(* hands over; the resident player comes back for every Konami track       *)
(* change.  The staging of a sparse file is the module SparseStage; here   *)
(* it is one step.  MSX-DOS2 (external) may fail at every call.            *)
(***************************************************************************)
EXTENDS Integers, Sequences, FiniteSetsExt

CONSTANTS
    Sizes,       \* file sizes of a session
    FreeCounts   \* free mapper segments EXTBIO may report

SegBytes == 16384
TableEntries == 32
MinSize == 64       \* a shorter file has none of the headers looked for
SizeLimit == 256 * SegBytes  \* beyond 4 MiB SegmentsOf wraps to a small count
StageLimit == 32    \* calculate_stage_count: cp 33
NoSeg == 0          \* a table entry never written
Junk == -1          \* a segment nothing was read into

Kinds == {"kcpx", "kcpz", "ksp", "kss"}

VARIABLES
    file,         \* kind and size (never changes)
    mapper_free,  \* never changes
    pc,
    handle,       \* the DOS file handle: "none", "open" or "closed"
    banks,        \* declared_banks: runtime segments besides the staging
    stage_count,
    sparse_mode,  \* 0 whole file, 1 sparse KCPZ, 2 compact KSP
    alloc_count,  \* stage_alloc_count
    cache_count,  \* sparse_cache_count
    pool,         \* segments allocated for staging, in order
    runtime,      \* kss_segments: segments allocated for the player
    table,        \* stage_segments: file segment -> mapper segment
    content,      \* file segment a mapper segment holds
    index         \* stage_index, or the pool slot stage_ksp_file fills

plan == <<banks, stage_count, sparse_mode, alloc_count, cache_count>>
memory == <<pool, runtime, table, content, index>>
vars == <<file, mapper_free, pc, handle, plan, memory>>

Kcp == file.kind \in {"kcpx", "kcpz"}
LastSegment == (file.size - 1) \div SegBytes
FileSegments == 0..LastSegment

-----------------------------------------------------------------------------
Init ==
    /\ file \in [kind : Kinds, size : Sizes]
    /\ mapper_free \in FreeCounts
    /\ pc = "open" /\ handle = "none"
    /\ banks = 0 /\ stage_count = 0 /\ sparse_mode = 0
    /\ alloc_count = 0 /\ cache_count = 0
    /\ pool = <<>> /\ runtime = <<>>
    /\ table = [k \in 0..(TableEntries - 1) |-> NoSeg]
    /\ content = [s \in 1..mapper_free |-> Junk]
    /\ index = 0

\* A DOS call fails and the program ends with that message.
Fails(at, error) == pc = at /\ pc' = error

DosFails ==
    /\ \/ \E at \in {"open", "measure", "close"} : Fails(at, "dos_error")
       \/ Fails("rewind", "stage_seek_error")
       \/ Fails("sparse", "stage_read_error")
    /\ UNCHANGED <<file, mapper_free, handle, plan, memory>>

Open ==
    /\ pc = "open"
    /\ handle' = "open" /\ pc' = "measure"
    /\ UNCHANGED <<file, mapper_free, plan, memory>>

\* SEEK to the end, SEEK to the start, READ of the header.
Measure ==
    /\ pc = "measure"
    /\ pc' = "inspect"
    /\ UNCHANGED <<file, mapper_free, handle, plan, memory>>

\* inspect_header with probe_kcp_header and probe_compact_ksp_file; the latter
\* reads the file's trailer.
Inspect ==
    /\ pc = "inspect"
    /\ banks' = CASE file.kind = "kcpx" -> 1
                  [] file.kind = "kcpz" -> 2
                  [] file.kind = "ksp"  -> 3
                  [] file.kind = "kss"  -> banks
    /\ pc' \in IF Kcp THEN {"count"}
               ELSE IF file.kind = "ksp" THEN {"count", "format_error"}
               ELSE {"format_error"}
    /\ UNCHANGED <<file, mapper_free, handle, stage_count, sparse_mode,
                   alloc_count, cache_count, memory>>

\* calculate_stage_count: ceil(size / 4000H) in one byte.
MutSegmentsOf(size) == (size \div SegBytes) % 256
SegmentsOf(size) == ((size + SegBytes - 1) \div SegBytes) % 256

TooMany(count) == count = 0 \/ count > StageLimit

CountStage ==
    /\ pc = "count"
    /\ IF TooMany(SegmentsOf(file.size))
       THEN pc' = "file_too_large" /\ UNCHANGED stage_count
       ELSE pc' = "choose" /\ stage_count' = SegmentsOf(file.size)
    /\ UNCHANGED <<file, mapper_free, handle, banks, sparse_mode, alloc_count,
                   cache_count, memory>>

\* choose_staging_mode
Plan(mode, count, lines) ==
    /\ sparse_mode' = mode /\ alloc_count' = count /\ cache_count' = lines
    /\ pc' = "allocate"

SparseLines == IF mapper_free - banks >= 4 THEN 4 ELSE 3

MutFits(count) == count <= mapper_free
MutFitsStrictly(count) == banks + count < mapper_free
Fits(count) == banks + count <= mapper_free

ChooseMode ==
    /\ pc = "choose"
    /\ \/ /\ file.kind = "ksp" /\ Fits(3)
          /\ Plan(2, 3, 0)
       \/ /\ Kcp /\ Fits(stage_count)
          /\ Plan(0, stage_count, cache_count)
       \/ /\ file.kind = "kcpz" /\ ~Fits(stage_count) /\ Fits(3)
          /\ Plan(1, SparseLines, SparseLines - 1)
       \/ /\ IF file.kind = "ksp" THEN ~Fits(3)
             ELSE ~Fits(stage_count) /\ (file.kind = "kcpz" => ~Fits(3))
          /\ pc' = "mapper_error"
          /\ UNCHANGED <<sparse_mode, alloc_count, cache_count>>
    /\ UNCHANGED <<file, mapper_free, handle, banks, stage_count, memory>>

\* allocate_fixed_segments: ALL_SEG hands out free segments one after another.
Allocate ==
    /\ pc = "allocate"
    /\ pool' = [i \in 1..alloc_count |-> i]
    /\ runtime' = [i \in 1..banks |-> alloc_count + i]
    /\ table' = IF sparse_mode = 0
                THEN [k \in DOMAIN table |->
                        IF k < alloc_count THEN k + 1 ELSE table[k]]
                ELSE table
    /\ pc' = IF alloc_count + banks <= mapper_free THEN "rewind"
             ELSE "mapper_error"
    /\ UNCHANGED <<file, mapper_free, handle, plan, content, index>>

\* seek_start, then stage_file.
Rewind ==
    /\ pc = "rewind"
    /\ pc' = CASE sparse_mode = 0 -> "full"
               [] sparse_mode = 1 -> "sparse"
               [] sparse_mode = 2 -> "ksp"
    /\ table' = IF sparse_mode = 2 THEN [k \in DOMAIN table |-> pool[1]]
                ELSE table
    /\ UNCHANGED <<file, mapper_free, handle, plan, pool, runtime, content,
                   index>>

\* READ of one file segment into a mapper segment.
ReadInto(k, seg, ok) ==
    content' = [content EXCEPT ![seg] = IF ok THEN k ELSE Junk]

MutNextIndex == (index + 1) % StageLimit
NextIndex == index + 1

\* stage_loop: one sequential READ; the last one may be short.
StageFull ==
    /\ pc = "full"
    /\ \E ok \in BOOLEAN :
         /\ ReadInto(index, table[index], ok)
         /\ index' = IF ok THEN NextIndex ELSE index
         /\ pc' = CASE ~ok -> "stage_read_error"
                    [] ok /\ index' = stage_count -> "staged"
                    [] ok /\ index' # stage_count -> "full"
    /\ UNCHANGED <<file, mapper_free, handle, plan, pool, runtime, table>>

\* The logical segment stage_ksp_file reads into pool slot i.
KspSegment(i) == IF i = 2 THEN stage_count - 1 ELSE i

\* stage_ksp_segment loads SEEK's method, register A, with 0 and then overwrites
\* it with the offset's top byte.
SeekMethod(k) == k \div 4

\* What READ may leave in the slot.  Methods 1 and 2 add the offset to the
\* position behind segment 1 and to the end of the file: both are beyond the
\* end, and of the last segment EOF_ERROR counts as read.  What DOS does with an
\* unknown method is not known.
Landed(k) ==
    CASE SeekMethod(k) = 0 -> {k}
      [] SeekMethod(k) \in {1, 2} -> {Junk}
      [] OTHER -> {k, Junk}

\* stage_ksp_file, one stage_ksp_segment: slots 0, 1 and 2 of the pool are meant
\* for file segments 0, 1 and the last one, as far as the file has them.
StageKsp ==
    /\ pc = "ksp"
    /\ LET k == KspSegment(index)
           slot == pool[index + 1]
       IN /\ table' = [table EXCEPT ![k] = slot]
          /\ \/ /\ pc' = "stage_read_error"
                /\ ReadInto(k, slot, FALSE) /\ UNCHANGED index
             \/ /\ \E found \in Landed(k) : content' = [content EXCEPT ![slot] = found]
                /\ index' = index + 1
                /\ pc' = IF index' = 3 \/ stage_count <= index' THEN "staged" ELSE "ksp"
    /\ UNCHANGED <<file, mapper_free, handle, plan, pool, runtime>>

\* stage_sparse_file (see SparseStage): the whole table is rewritten.
StageSparse ==
    /\ pc = "sparse"
    /\ table' = [k \in DOMAIN table |-> pool[1]]
    /\ content' = [content EXCEPT ![pool[1]] = 0]
    /\ pc' = "staged"
    /\ UNCHANGED <<file, mapper_free, handle, plan, pool, runtime, index>>

\* cache_kcp_info (its failure only loses the titles), then the file is closed
\* unless tracks are read from it later.
MutKeepsFile == FALSE
KeepsFile == sparse_mode # 0

Staged ==
    /\ pc = "staged"
    /\ pc' = IF KeepsFile THEN "play" ELSE "close"
    /\ UNCHANGED <<file, mapper_free, handle, plan, memory>>

Close ==
    /\ pc = "close"
    /\ handle' = "closed" /\ pc' = "play"
    /\ UNCHANGED <<file, mapper_free, plan, memory>>

\* sparse_reload_entry: a Konami track change comes back to the loader.  A
\* compact KSP changes songs without it.
Reload ==
    /\ pc = "play" /\ Kcp
    /\ pc' = IF sparse_mode = 0 THEN "play" ELSE "sparse"
    /\ UNCHANGED <<file, mapper_free, handle, plan, memory>>

Quit == pc = "play" /\ pc' = "exit"
        /\ UNCHANGED <<file, mapper_free, handle, plan, memory>>

Errors == {"dos_error", "format_error", "file_too_large", "mapper_error",
           "stage_seek_error", "stage_read_error"}

Stopped == pc \in Errors \cup {"exit"} /\ UNCHANGED vars

Step ==
    \/ Open \/ Measure \/ Inspect \/ CountStage \/ ChooseMode \/ Allocate
    \/ Rewind \/ StageFull \/ StageKsp \/ StageSparse \/ Staged \/ Close
    \/ DosFails

Next == Step \/ Reload \/ Quit \/ Stopped

Spec == Init /\ [][Next]_vars /\ WF_vars(Step)

-----------------------------------------------------------------------------
\* Properties.

\* The segments of a compact KSP that are staged: file segments 0 and 1, and the
\* last one while its offset is below 64 KiB.  KDIR and META of a longer file are
\* read from the file by the player, through its cache line (CompactKsp).
KspStaged == {0, 1} \cup (IF LastSegment < 4 THEN {LastSegment} ELSE {})

\* The segments the player finds in the mapper when it starts.
Promised ==
    CASE sparse_mode = 0 -> FileSegments
      [] sparse_mode = 1 -> {0}
      [] sparse_mode = 2 -> KspStaged \cap FileSegments

\* calculate_stage_count: "ceil(file_size / 4000H)"; choose_staging_mode: "Use
\* whole-file staging whenever it fits."  The player finds every such segment
\* through the table, in a segment of the staging pool.
PlayedIsStaged ==
    pc = "play" => \A k \in Promised :
        /\ k \in DOMAIN table /\ table[k] \in Range(pool)
        /\ content[table[k]] = k

\* stage_ksp_file: "Compact KSP direct mode initially retains the first two 16
\* KiB source segments and the final segment containing KDIR/META."
DirectoryStaged ==
    pc = "play" /\ sparse_mode = 2 => content[table[LastSegment]] = LastSegment

\* The mode that is chosen fits the mapper: ALL_SEG never fails after the
\* choice, staged data never shares a segment with the player's own, and the
\* sparse cache has the two or three lines SparseStage assumes, one less than
\* the pool has segments.
AllocationGranted ==
    pool # <<>> =>
        /\ pc # "mapper_error"
        /\ Range(pool) \cap Range(runtime) = {}
        /\ Range(pool) \cup Range(runtime) \subseteq 1..mapper_free
        /\ sparse_mode = 1 => cache_count \in {2, 3} /\ Len(pool) = cache_count + 1

\* A file is refused for want of memory only if no mode its kind has would
\* fit ("Use whole-file staging whenever it fits", and the sparse modes
\* otherwise), and as too large only above 512 KiB.
RefusedForSize ==
    /\ pc = "mapper_error" =>
         /\ file.kind = "ksp" => 6 > mapper_free
         /\ file.kind = "kcpx" => 1 + Cardinality(FileSegments) > mapper_free
         /\ file.kind = "kcpz" => 2 + Min({3, Cardinality(FileSegments)}) > mapper_free
    /\ pc = "file_too_large" => file.size > StageLimit * SegBytes

\* DOS is never asked to read from a file that is not open, also when the
\* player comes back.
ReadsOpenFile ==
    pc \in {"measure", "inspect", "rewind", "full", "ksp", "sparse"} =>
        handle = "open"

\* Without a DOS failure or with one, the loader comes to an end: the player
\* starts or a message is printed.
Over == pc \in Errors \cup {"play"}
LoaderEnds == <>Over
=============================================================================
