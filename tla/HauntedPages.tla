----------------------------- MODULE HauntedPages -----------------------------
(***************************************************************************)
(* build_haunted_castle_msx_complete_pages.py: one page for each song of   *)
(* the arcade driver.  The core, the pointer matrix, the shared tail and   *)
(* the work RAM have fixed places; the song's data, found by parsing its   *)
(* streams, is placed between them, and every pointer on the way from the  *)
(* wrapper to the last note is rewritten.  The file holds what the pages   *)
(* have in common and an overlay for each.                                 *)
(*                                                                         *)
(* A byte has Radix values and a word is two.  The assembler and the       *)
(* driver are external: Heard says how the driver reads a song.            *)
(***************************************************************************)
EXTENDS Integers, SequencesExt, FiniteSetsExt

CONSTANTS
    Engines,   \* memories of the adapted driver, see the MC module
    Layout,    \* source and destination of its parts
    Radix,
    MaxStream, \* bound: commands of a stream, and streams of a song
    MaxHeard   \* bound: commands of a channel that are compared

Songs == 0..(Layout.songs - 1)
Columns == 0..(Layout.columns - 1)
Group(column) == Layout.groups[column + 1]   \* 0: no sequence

VARIABLES engine, pc, pages, template, overlays

vars == <<engine, pc, pages, template, overlays>>

Image == engine.image
Word(memory, a) == memory[a] + Radix * memory[a + 1]
Put(memory, a, word) == [memory EXCEPT ![a] = word % Radix, ![a + 1] = word \div Radix]

-----------------------------------------------------------------------------
\* Bytes behind a command, by interpreter group; 0D and 0E hold pointers, 08
\* has subcommands, 0F ends.
MainArgs ==
    <<(9 :> 1 @@ 10 :> 2 @@ 11 :> 1 @@ 12 :> 1 @@ 14 :> 2),
      (9 :> 1 @@ 10 :> 1 @@ 11 :> 1 @@ 12 :> 4 @@ 14 :> 2),
      (9 :> 1 @@ 10 :> 1 @@ 11 :> 0 @@ 12 :> 0 @@ 14 :> 1)>>

SubArgs ==
    <<(0 :> 0 @@ 1 :> 0 @@ 2 :> 2 @@ 3 :> 1),
      (0 :> 0 @@ 1 :> 0 @@ 2 :> 1 @@ 3 :> 0),
      (0 :> 0 @@ 1 :> 0 @@ 2 :> 1 @@ 3 :> 1)>>

SUB == 8
JUMP == 13
RESOURCE == 14
END == 15

HasResource(group) == group \in {1, 2}

\* Operand of a jump: a byte follows the command first.
JumpOperand(a) == a + 2

\* parse_stream from start on; end -1 where it is refused.
Times(f(_), start, n) == FoldLeft(LAMBDA s, i : f(s), start, [i \in 1..n |-> i])

ParseStream(memory, start, group) ==
    LET Byte(a) == IF a \in DOMAIN memory THEN memory[a] ELSE END
        Step(s) ==
          LET op == Byte(s.at)
          IN IF s.end # 0 THEN s
             ELSE IF s.at \notin DOMAIN memory THEN [s EXCEPT !.end = -1]
             ELSE IF op < SUB THEN [s EXCEPT !.at = @ + 1]
             ELSE IF op = END THEN [s EXCEPT !.end = s.at + 1]
             ELSE IF op = JUMP THEN [s EXCEPT !.end = s.at + 4, !.jumps = {JumpOperand(s.at)}]
             ELSE IF op = RESOURCE /\ HasResource(group)
                  THEN [s EXCEPT !.at = @ + 3, !.resources = @ \cup {s.at + 1}]
             ELSE IF op # SUB THEN [s EXCEPT !.at = @ + 1 + MainArgs[group][op]]
             ELSE IF Byte(s.at + 1) \in DOMAIN SubArgs[group]
                  THEN [s EXCEPT !.at = @ + 2 + SubArgs[group][Byte(s.at + 1)]]
             ELSE [s EXCEPT !.end = -1]
    IN Times(Step, [start |-> start, group |-> group, at |-> start, end |-> 0,
                    jumps |-> {}, resources |-> {}], MaxStream)

\* collect_stream_metadata: all streams reached, by start and group.
Roots(song) == [c \in Columns |-> Word(Image, Layout.table[1] + 2 * (song * Layout.columns + c))]

Reached(song) ==
    LET Step(s) ==
          IF s.pending = {} THEN s
          ELSE LET next == CHOOSE p \in s.pending : TRUE
                   parsed == ParseStream(Image, next[1], next[2])
                   targets == {<<Word(Image, o), next[2]>> : o \in parsed.jumps}
               IN [parsed |-> s.parsed \cup {parsed}, visited |-> s.visited \cup {next},
                   pending |-> (s.pending \cup targets) \ (s.visited \cup {next})]
    IN Times(Step, [parsed |-> {}, visited |-> {},
                    pending |-> {<<Roots(song)[c], Group(c)>> : c \in {d \in Columns : Group(d) # 0}}],
             MaxStream).parsed

-----------------------------------------------------------------------------
\* Ranges [start, end), as sets of addresses while they are collected.
Span(range) == range[1]..(range[2] - 1)
Fixed == UNION {Span(Layout.core), Span(Layout.table), Span(Layout.tail), Span(Layout.work),
                Span(Layout.wrapper)}

\* The primary range ends at the first root of any song behind this song's.
Primary(song) ==
    LET own == {Roots(song)[c] : c \in Columns}
        behind == {r \in UNION {{Roots(s)[c] : c \in Columns} : s \in Songs} : r > Max(own)}
    IN Span(<<Min(own), IF behind = {} THEN Layout.tail[2] ELSE Min(behind)>>)

Wanted(song, streams) ==
    LET targets == {Word(Image, o) : o \in UNION {s.resources : s \in streams}}
    IN Primary(song)
       \cup UNION {Span(<<s.start, s.end>>) : s \in streams}
       \cup UNION {Span(r) : r \in {q \in Layout.common : targets \cap Span(q) # {}}}

\* merged_ranges, subtract_ranges: the pieces left, in order.
Pieces(addresses) ==
    LET starts == SelectSeq([i \in 1..(Max(addresses) + 1) |-> i - 1],
                            LAMBDA a : a \in addresses /\ a - 1 \notin addresses)
    IN [i \in DOMAIN starts |->
          <<starts[i], Min({b \in starts[i]..(Max(addresses) + 1) : b \notin addresses})>>]

Placed(pieces) ==
    FoldLeft(LAMBDA placed, p :
               Append(placed, [source |-> p[1], end |-> p[2],
                               destination |-> IF placed = <<>> THEN Layout.data
                                               ELSE Last(placed).destination + Last(placed).end
                                                    - Last(placed).source]),
             <<>>, pieces)

\* AddressMap
FixedRanges ==
    {[source |-> Layout[part][1], end |-> Layout[part][2], destination |-> Layout.to[part]] :
       part \in {"core", "table", "work", "tail", "wrapper"}}
NoAddress == -1
Get(map, a) ==
    LET held == {r \in map : r.source <= a /\ a < r.end}
    IN IF held = {} THEN NoAddress
       ELSE LET r == CHOOSE q \in held : TRUE IN r.destination + a - r.source

Copy(map) ==
    LET Source(b) == {a \in DOMAIN Image : Get(map, a) = b}
    IN [b \in Layout.page |->
          IF Source(b) = {} \/ Source(b) \subseteq Span(Layout.work) THEN 0
          ELSE Image[CHOOSE a \in Source(b) : TRUE]]

-----------------------------------------------------------------------------
\* The wrapper is assembled for its new place; the addresses of the driver in
\* it are found as bytes and have to be as many as expected.
Wrapper(map) ==
    LET Found(cells, old) ==
          {i \in 1..(Len(cells) - 1) : cells[i] + Radix * cells[i + 1] = old}
        Replace(s, d) ==
          LET at == Found(s.cells, d.old)
          IN IF ~s.ok \/ Get(map, d.old) = NoAddress \/ Cardinality(at) # d.expected
             THEN [s EXCEPT !.ok = FALSE]
             ELSE [s EXCEPT !.cells =
                     [i \in DOMAIN @ |-> IF i \in at THEN Get(map, d.old) % Radix
                                         ELSE IF i - 1 \in at THEN Get(map, d.old) \div Radix
                                         ELSE @[i]]]
    IN FoldLeft(Replace, [ok |-> TRUE, cells |-> engine.wrapper], engine.dependencies)

\* patch_core: operands that are mapped, and every entry of the code tables.
PatchCore(page, map) ==
    LET known == {o \in engine.operands : Get(map, Word(Image, o)) # NoAddress}
        core == Layout.to.core
    IN FoldSet(LAMBDA o, m : Put(m, core + o, Get(map, Word(Image, o))),
               page, known \cup engine.codeTables)

\* build_page
MutPointers(streams) == UNION {s.jumps : s \in streams}
Pointers(streams) == UNION {s.jumps \cup s.resources : s \in streams}

MakePage(song) ==
    LET streams == Reached(song)
        placed == Placed(Pieces(Wanted(song, streams) \ Fixed))
        map == FixedRanges \cup ToSet(placed)
        wrapper == Wrapper(map)
        copied == [b \in Layout.page |->
                     IF b - Layout.to.wrapper + 1 \in DOMAIN wrapper.cells
                     THEN wrapper.cells[b - Layout.to.wrapper + 1] ELSE Copy(map)[b]]
        rooted == FoldSet(LAMBDA c, m : Put(m, Layout.to.table + 2 * (song * Layout.columns + c),
                                            Get(map, Roots(song)[c])),
                          PatchCore(copied, map), Columns)
        pointed == FoldSet(LAMBDA o, m : Put(m, Get(map, o), Get(map, Word(Image, o))),
                           rooted, Pointers(streams))
        refused ==
            \/ \E s \in streams : s.end = -1
            \/ placed # <<>> /\ Last(placed).destination + Last(placed).end - Last(placed).source
                                    > Layout.to.tail
            \/ ~wrapper.ok
            \/ \E o \in engine.codeTables : Get(map, Word(Image, o)) = NoAddress
            \/ \E c \in Columns : Get(map, Roots(song)[c]) = NoAddress
            \/ \E o \in Pointers(streams) :
                 Get(map, o) = NoAddress \/ Get(map, Word(Image, o)) = NoAddress
    IN IF refused THEN [ok |-> FALSE]
       ELSE [ok |-> TRUE, page |-> [pointed EXCEPT ![Layout.window] = song]]

-----------------------------------------------------------------------------
\* common_template: a byte that differs between pages is 0.
Template(all) ==
    [b \in Layout.page |-> IF \A i, j \in DOMAIN all : all[i][b] = all[j][b] THEN all[1][b] ELSE 0]

\* overlay_from_template: runs of bytes that differ.
Overlay(common, page) ==
    LET differ == {b \in Layout.page : page[b] # common[b]}
    IN {[start |-> r[1], bytes |-> [i \in 1..(r[2] - r[1]) |-> page[r[1] + i - 1]]] :
          r \in IF differ = {} THEN {} ELSE ToSet(Pieces(differ))}

ApplyOverlay(common, overlay) ==
    [b \in Layout.page |->
       LET over == {r \in overlay : r.start <= b /\ b < r.start + Len(r.bytes)}
       IN IF over = {} THEN common[b]
          ELSE LET r == CHOOSE q \in over : TRUE IN r.bytes[b - r.start + 1]]

Init == engine \in Engines /\ pc = "pages" /\ pages = <<>> /\ template = <<>> /\ overlays = <<>>

BuildPage ==
    /\ pc = "pages" /\ Len(pages) < Layout.songs
    /\ LET made == MakePage(Len(pages))
       IN IF made.ok THEN pages' = Append(pages, made.page) /\ UNCHANGED pc
          ELSE pc' = "refused" /\ UNCHANGED pages
    /\ UNCHANGED <<engine, template, overlays>>

WriteKcpx ==
    /\ pc = "pages" /\ Len(pages) = Layout.songs
    /\ template' = Template(pages)
    /\ overlays' = [i \in DOMAIN pages |-> Overlay(template', pages[i])]
    /\ pc' = "written"
    /\ UNCHANGED <<engine, pages>>

Stopped == pc \in {"written", "refused"} /\ UNCHANGED vars

Next == BuildPage \/ WriteKcpx \/ Stopped

Spec == Init /\ [][Next]_vars

-----------------------------------------------------------------------------
\* The driver (external): the wrapper's first word is its entry, whose operand
\* is a code table, whose entry is the routine with the pointer matrix.
Cell(memory, a) == IF a \in DOMAIN memory THEN memory[a] ELSE 0
Heard(memory, wrapper, song, column) ==
    LET At(a) == Cell(memory, a) + Radix * Cell(memory, a + 1)
        matrix == At(At(At(At(wrapper) + 1)) + 1)
        group == Group(column)
        Step(s) ==
          LET op == Cell(memory, s.at)
              Skip(size) == [s EXCEPT !.at = @ + 1 + size, !.heard = Append(@, <<op>>)]
          IN IF op < SUB THEN Skip(0)
             ELSE IF op = END THEN s
             ELSE IF op = JUMP THEN [s EXCEPT !.at = At(s.at + 2)]
             ELSE IF op = RESOURCE /\ HasResource(group)
                  THEN [s EXCEPT !.at = @ + 3,
                                 !.heard = Append(@, <<Cell(memory, At(s.at + 1))>>)]
             ELSE IF op = SUB THEN Skip(1 + SubArgs[group][Cell(memory, s.at + 1)])
             ELSE Skip(MainArgs[group][op])
    IN Times(Step, [at |-> At(matrix + 2 * (song * Layout.columns + column)), heard |-> <<>>],
             MaxHeard).heard

Channels == {c \in Columns : Group(c) # 0}
Played(memory, wrapper, song) == [c \in Channels |-> Heard(memory, wrapper, song, c)]

\* Each stream lies in one of the pieces that are moved, and a stream that reads
\* a pointer reads it as one.
Whole(song) ==
    \A s \in Reached(song) :
        \/ Span(<<s.start, s.end>>) \cap Fixed = {}
        \/ \E part \in {"core", "table", "tail"} : Span(<<s.start, s.end>>) \subseteq Span(Layout[part])
Unmixed(song) ==
    \A s, t \in Reached(song) : \A o \in s.jumps \cup s.resources :
        {o, o + 1} \cap Span(<<t.start, t.end>>) # {} => o \in t.jumps \cup t.resources

\* A page rebuilt from the file leads the driver where its own memory does, from
\* the wrapper on: code, pointer matrix, jumps and instruments all lead to
\* what they led to.
PagePlaysSong ==
    pc = "written" =>
        \A song \in Songs :
            Whole(song) /\ Unmixed(song) =>
                LET page == ApplyOverlay(template, overlays[song + 1])
                IN /\ page[Layout.window] = song
                   /\ Played(page, Layout.to.wrapper, song)
                        = Played(Image, Layout.wrapper[1], song)

\* The driver's initialization (external) clears its work RAM from the address
\* in an operand up to a page number in the code.
Initialized(memory, operand) ==
    [a \in DOMAIN memory |->
       IF Word(memory, operand) <= a /\ a < engine.cleared THEN 0 ELSE memory[a]]

\* README.md gives the work RAM and the song's data places of their own in a
\* page: a song is still there when the driver has cleared its work RAM.
InitKeepsSong ==
    pc = "written" =>
        \A song \in Songs :
            Whole(song) /\ Unmixed(song) =>
                LET page == ApplyOverlay(template, overlays[song + 1])
                IN Played(Initialized(page, Layout.to.core + engine.clears), Layout.to.wrapper, song)
                     = Played(Initialized(Image, engine.clears), Layout.wrapper[1], song)
=============================================================================
