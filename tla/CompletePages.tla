---------------------------- MODULE CompletePages ----------------------------
(***************************************************************************)
(* Complete pages (tools/build_konami_complete_pages.py): a game's sound   *)
(* engine and the data of one song are moved into one 16 KiB page.  What a *)
(* trace saw the song read is cut into ranges, each range is given a place *)
(* in the page, and every pointer that leads to a moved byte is rewritten: *)
(* operands of the code, the song table, descriptors, pointer tables and   *)
(* the targets of stream commands.  A page is stored as its differences    *)
(* from a template all songs share.                                        *)
(*                                                                         *)
(* One cell stands for a byte or a word, so an address is one cell.  The   *)
(* engine is external: Heard says how it reads a song.                     *)
(***************************************************************************)
EXTENDS Integers, SequencesExt, FiniteSetsExt

CONSTANTS
    Configs,   \* Config records, as in CONFIGS
    Images,    \* loaded sources: functions from addresses to cells
    Tracks,    \* tracks of the song table to build pages for, in order
    Base, Limit, End,   \* PAGE_ADDRESS, PAYLOAD_LIMIT, PAGE_ADDRESS + PAGE_SIZE
    Gap,       \* cells between two ranges that are not worth a second one
    Device     \* addresses of the SCC

None == -1

\* Stream commands.  JUMP and REPEAT are followed by a target, REPEAT by a
\* count first; VOICE by an index into the pointer table of instruments.
STOP == 1
JUMP == 2
REPEAT == 3
VOICE == 4
Operand == JUMP :> 1 @@ REPEAT :> 2

\* OUT (A8H),A and the jump that replaces it.
SlotOut == 8
JrZero == 9

Extent(from, to, dest) == [from |-> from, to |-> to, dest |-> dest]

VARIABLES
    cfg, image,   \* what is built (never changes)
    pc,
    todo,         \* ranges without a place
    placed,       \* placements: extents moved so far
    pages,        \* the pages of the tracks built
    archive       \* template and overlays

vars == <<cfg, image, pc, todo, placed, pages, archive>>

Track == Tracks[Len(pages) + 1]
Cell(memory, a) == IF a \in DOMAIN memory THEN memory[a] ELSE STOP

-----------------------------------------------------------------------------
\* How the engine reads a song (external).  Code is what the configuration
\* says the addresses of the engine hold.
Literal(role) == CHOOSE a \in DOMAIN cfg.code : cfg.code[a] = role

MaxSteps == 9

\* One channel: what it plays, the cells it reads and where its commands are.
Channel(memory, start, voices) ==
    LET Read(s, cells) == s.read \cup cells
        step[n \in 0..MaxSteps] ==
          IF n = 0 THEN [at |-> start, notes |-> <<>>, read |-> {}, commands |-> {}]
          ELSE LET s == step[n - 1]
                   op == Cell(memory, s.at)
                   arg == Cell(memory, s.at + 1)
                   target == Cell(memory, s.at + Operand[op])
               IN CASE op = STOP -> [s EXCEPT !.read = Read(s, {s.at})]
                    [] op \in DOMAIN Operand ->
                         [at |-> target,
                          notes |-> IF op = JUMP THEN s.notes ELSE Append(s.notes, arg),
                          read |-> Read(s, s.at..(s.at + Operand[op])),
                          commands |-> s.commands \cup {s.at}]
                    [] op = VOICE ->
                         [s EXCEPT !.at = @ + 2,
                                   !.notes = Append(@, Cell(memory, Cell(memory, voices + arg))),
                                   !.read = Read(s, {s.at, s.at + 1, Cell(memory, voices + arg)})]
                    [] OTHER ->
                         [s EXCEPT !.at = @ + 1, !.notes = Append(@, op),
                                   !.read = Read(s, {s.at})]
    IN step[MaxSteps]

\* The song table leads to the descriptor of a track, and the cells after its
\* first one to its channels; 0 is a channel without a stream.
Channels == 1..cfg.channels

Streams(memory, table, track) ==
    [c \in Channels |-> Cell(memory, Cell(memory, table + track) + c)]

Song(memory, table, voices, track) ==
    [c \in {d \in Channels : Streams(memory, table, track)[d] # 0} |->
        Channel(memory, Streams(memory, table, track)[c], voices)]

SourceSong(track) ==
    Song(image, image[Literal("table")], image[Literal("voices")], track)

Notes(song) == [c \in DOMAIN song |-> song[c].notes]

\* The trace of a track: the loaded data read and the commands found there.
TraceRanges(track) == UNION {SourceSong(track)[c].read : c \in DOMAIN SourceSong(track)}
TracedCommands(track) ==
    UNION {SourceSong(track)[c].commands : c \in DOMAIN SourceSong(track)}

-----------------------------------------------------------------------------
\* AddressMap: the first extent with the address says where it went.
Goes(map, a) ==
    LET i == SelectInSeq(map, LAMBDA m : m.from <= a /\ a < m.to)
    IN IF i = 0 THEN None ELSE map[i].dest + a - map[i].from

\* An address moved if it is mapped, and as it is otherwise.
Moved(map, a) == IF Goes(map, a) = None THEN a ELSE Goes(map, a)

MainDest ==
    IF Base <= cfg.main[1] /\ cfg.main[2] <= End THEN cfg.main[1] ELSE Base

Main == Extent(cfg.main[1], cfg.main[2], MainDest)
Wrapper == Extent(cfg.wrapper[1], cfg.wrapper[2], cfg.wrapperDest)
Work == Extent(cfg.work[1], cfg.work[2], cfg.workDest)

\* What is mapped before any range of a song is.
Fixed == <<Main, Wrapper, Work>>

InExtents(map, a) == \E i \in DOMAIN map : map[i].from <= a /\ a < map[i].to

Taken(extent) == [from |-> extent.dest, to |-> extent.dest + extent.to - extent.from]

\* occupied: page cells no range may be given.
Occupied ==
    {Taken(Main), Taken(Wrapper), Taken(Work),
     [from |-> cfg.gateway, to |-> cfg.gateway + 1]}

\* Descriptors to be kept in the page: the track's and those the engine starts
\* with.
Kept(track) == {track} \cup cfg.bootstrap
Descriptor(track) == image[cfg.table + track]

\* wanted, without what is in the image for every song.
Wanted(track) ==
    LET cells == TraceRanges(track)
                 \cup UNION {t[1]..(t[2] - 1) : t \in cfg.pointerTables}
                 \cup cfg.table..(cfg.table + Max(Range(Tracks) \cup cfg.bootstrap))
                 \cup UNION {Descriptor(t)..(Descriptor(t) + cfg.channels) : t \in Kept(track)}
                 \cup UNION {Range(Streams(image, cfg.table, t)) : t \in Kept(track)}
    IN {a \in cells : a \in DOMAIN image /\ ~InExtents(Fixed, a)}

\* merged_ranges: ranges with short gaps between them become one.
Merged(cells) ==
    LET filled == cells \cup {x \in DOMAIN image :
                                \E a \in cells, b \in cells :
                                   a < x /\ x < b /\ b - a <= Gap + 1}
    IN {r \in [from : {a \in filled : a - 1 \notin filled},
               to : {a + 1 : a \in {b \in filled : b + 1 \notin filled}}] :
          r.from < r.to /\ r.from..(r.to - 1) \subseteq filled}

\* The order in which ranges are given places: by address, or larger first.
Before(r, s) ==
    IF cfg.packs /\ r.to - r.from # s.to - s.from
    THEN r.to - r.from > s.to - s.from
    ELSE r.from < s.from

-----------------------------------------------------------------------------
Init ==
    /\ cfg \in Configs /\ image \in Images
    /\ pc = "begin" /\ todo = {} /\ placed = <<>> /\ pages = <<>>
    /\ archive = <<>>

Begin ==
    /\ pc = "begin"
    /\ todo' = Merged(Wanted(Track))
    /\ placed' = <<>>
    /\ pc' = "place"
    /\ UNCHANGED <<cfg, image, pages, archive>>

\* find_space: candidate d has room for a range of that size.
Apart(d, size, used) == d + size <= used.from \/ used.to <= d

MutRoom(d, size) == d + size <= Limit /\ \A used \in Occupied : Apart(d, size, used)

Room(d, size) ==
    /\ Base <= d /\ d + size <= Limit
    /\ \A used \in Occupied : Apart(d, size, used)
    /\ \A i \in DOMAIN placed : Apart(d, size, Taken(placed[i]))

\* Every second address is tried.
Candidates == {d \in Base..(Limit - 1) : (d - Base) % 2 = 0}

Preferred(range) ==
    IF ~cfg.packs /\ Base <= range.from /\ range.to <= Limit THEN {range.from}
    ELSE IF range.from = cfg.main[2] THEN {MainDest + cfg.main[2] - cfg.main[1]}
    ELSE {}

IsNext(range) == range \in todo /\ \A r \in todo \ {range} : Before(range, r)

\* allocate_overlay_ranges, one range.
Place ==
    /\ pc = "place"
    /\ \E range \in todo : \E d \in Candidates \cup Preferred(range) :
         LET size == range.to - range.from
         IN /\ IsNext(range) /\ Room(d, size)
            /\ d \notin Preferred(range) =>
                 /\ \A p \in Preferred(range) : ~Room(p, size)
                 /\ \A c \in Candidates : Room(c, size) => d <= c
            /\ placed' = Append(placed, Extent(range.from, range.to, d))
            /\ todo' = todo \ {range}
    /\ UNCHANGED <<cfg, image, pc, pages, archive>>

\* ValueError: "track overlay does not fit page 1".
Refuse ==
    /\ pc = "place"
    /\ \E range \in todo :
         /\ IsNext(range)
         /\ \A d \in Candidates \cup Preferred(range) : ~Room(d, range.to - range.from)
    /\ pc' = "refused"
    /\ UNCHANGED <<cfg, image, todo, placed, pages, archive>>

-----------------------------------------------------------------------------
\* make_page: the map, and the bytes moved.
Map == Fixed \o placed

Copied ==
    LET moves == <<Main, Wrapper>> \o placed
        From(a) == {i \in DOMAIN moves :
                      Taken(moves[i]).from <= a /\ a < Taken(moves[i]).to}
    IN [a \in Base..(End - 1) |->
          IF From(a) = {} THEN 0
          ELSE LET m == moves[Max(From(a))] IN image[m.from + a - m.dest]]

\* patch_code: the operands of instructions the disassembly found, and those
\* of missed ones that lead above the payload; the device stays where it is.
\* Tables between the instructions are left alone.
Literals == {"table", "voices", "device", "entry"}

Patched(role, v) ==
    CASE role = "slot" -> JrZero
      [] role \in Literals -> IF v \in Device THEN v ELSE Moved(Map, v)
      [] role = "missed" -> IF Goes(Map, v) >= Limit THEN Goes(Map, v) ELSE v
      [] role = "data" -> v

PatchCode(page) ==
    LET Source(a) == CHOOSE c \in DOMAIN cfg.code : Goes(Fixed, c) = a
        here == {Goes(Fixed, c) : c \in DOMAIN cfg.code}
    IN [a \in DOMAIN page |->
          IF a \in here THEN Patched(cfg.code[Source(a)], page[a]) ELSE page[a]]

\* The song table's entries and the descriptors they lead to.
MutPatchDescriptors(page, track) ==
    [a \in DOMAIN page |->
       IF \E t \in Kept(track) : a = Goes(Map, cfg.table + t)
       THEN Moved(Map, page[a])
       ELSE page[a]]

PatchDescriptors(page, track) ==
    [a \in DOMAIN page |->
       IF \/ \E t \in Kept(track) : a = Goes(Map, cfg.table + t)
          \/ \E t \in Kept(track), c \in Channels :
                a = Goes(Map, Descriptor(t)) + c
       THEN Moved(Map, page[a])
       ELSE page[a]]

\* "arbitrary music words must never be guessed to be pointers"
PatchTables(page) ==
    LET Entries == UNION {t[1]..(t[2] - 1) : t \in cfg.pointerTables}
    IN [a \in DOMAIN page |->
          IF \E e \in Entries : a = Goes(Map, e) THEN Moved(Map, page[a]) ELSE page[a]]

\* Stream targets: each placement is read from its start while it is changed.
IsCommand(track, source, op) ==
    op \in DOMAIN Operand /\ (cfg.traced => source \in TracedCommands(track))

PatchStreams(page, track) ==
    LET Patch(block, m, a) ==
          LET at == a + Operand[block[a]]
          IN IF IsCommand(track, m.from + a - m.dest, block[a]) /\ at < Taken(m).to
             THEN [block EXCEPT ![at] = Moved(Map, @)]
             ELSE block
    IN FoldLeft(LAMBDA p, m :
                  FoldLeft(LAMBDA block, a : Patch(block, m, a), p,
                           [i \in 1..(m.to - m.from) |-> m.dest + i - 1]),
                page, placed)

MakePage ==
    /\ pc = "place" /\ todo = {}
    /\ LET page == PatchStreams(PatchTables(PatchDescriptors(
                                  PatchCode(Copied), Track)), Track)
       IN pages' = Append(pages, page)
    /\ pc' = IF Len(pages') = Len(Tracks) THEN "pack" ELSE "begin"
    /\ UNCHANGED <<cfg, image, todo, placed, archive>>

\* common_template and overlay_from_template: the runs of cells in which a page
\* differs from what all have in common.
Template ==
    [a \in Base..(End - 1) |->
       IF \A i \in DOMAIN pages : pages[i][a] = pages[1][a] THEN pages[1][a] ELSE 0]

Overlay(template, page) ==
    {<<a, page[a]>> : a \in {b \in DOMAIN page : page[b] # template[b]}}

Pack ==
    /\ pc = "pack"
    /\ archive' = [template |-> Template,
                   overlays |-> [i \in DOMAIN pages |-> Overlay(Template, pages[i])]]
    /\ pc' = "packed"
    /\ UNCHANGED <<cfg, image, todo, placed, pages>>

Stopped == pc \in {"packed", "refused"} /\ UNCHANGED vars

Next == Begin \/ Place \/ Refuse \/ MakePage \/ Pack \/ Stopped

Spec == Init /\ [][Next]_vars

-----------------------------------------------------------------------------
\* Properties.

\* find_space: no range of a song is moved onto the engine, its workspace, the
\* gateway or another range, or out of the payload.
PlacementsApart ==
    \A i \in DOMAIN placed :
        LET t == Taken(placed[i])
        IN /\ Base <= t.from /\ t.to <= Limit
           /\ \A used \in Occupied : Apart(t.from, t.to - t.from, used)
           /\ \A j \in DOMAIN placed :
                i # j => Apart(t.from, t.to - t.from, Taken(placed[j]))

\* What a player makes of the archive for one song.
Materialized(i) ==
    [a \in Base..(End - 1) |->
       LET changes == {c \in archive.overlays[i] : c[1] = a}
       IN IF changes = {} THEN archive.template[a]
          ELSE (CHOOSE c \in changes : TRUE)[2]]

\* Without a trace of the stream commands every cell that looks like one is
\* taken for one: such drivers are left alone if no parameter or note does.
Plain ==
    \A a \in DOMAIN image :
        image[a] \in DOMAIN Operand =>
            \E i \in DOMAIN Tracks : a \in TracedCommands(Tracks[i])

\* The engine in the page of a song, materialized from the archive, plays what
\* it plays in the game, from pointers that are all the page's own; code that
\* is data is untouched, and so are the addresses of the SCC.
EngineReadsSource ==
    pc = "packed" /\ (cfg.traced \/ Plain) =>
        \A i \in DOMAIN Tracks :
            LET page == Materialized(i)
                At(role) == page[Goes(Fixed, Literal(role))]
            IN /\ Notes(Song(page, At("table"), At("voices"), Tracks[i]))
                    = Notes(SourceSong(Tracks[i]))
               /\ At("slot") = JrZero
               /\ At("entry") = Goes(Fixed, image[Literal("entry")])
               /\ At("missed") = Goes(Fixed, image[Literal("missed")])
               /\ \A role \in {"device", "data"} : At(role) = image[Literal(role)]
=============================================================================
