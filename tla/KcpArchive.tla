------------------------------ MODULE KcpArchive ------------------------------
(***************************************************************************)
(* The archives of complete pages (KCPX, KCPZ) as three tools write them:  *)
(* build_konami_complete_pages.py packs pages it has built,                *)
(* convert_specialized_complete_pages_to_kcp.py rebuilds the pages of the  *)
(* older Quarth and Salamander containers, and                             *)
(* convert_sccplus_kcpx_to_kcpz.py compresses the archive of a bundle.     *)
(* A page is stored as a template and an overlay, both compressed; records *)
(* say where the streams are, in one word or, in version 2, in two.        *)
(* A bundle whose tracks have several pages comes with a patch of the      *)
(* player: a gateway that turns the page under the engine that calls it.   *)
(*                                                                         *)
(* The ZX0 packer is external: a packed stream is its data and some size.  *)
(***************************************************************************)
EXTENDS Integers, SequencesExt, FiniteSetsExt

CONSTANTS
    Sources,      \* what each tool may be given
    PackedSizes,  \* sizes a stream of each tool may be packed to
    WordLimit,    \* largest number a word holds
    FixedSize,    \* cells of an archive before its records
    Segment,      \* cells of a staging segment
    PageCells

Tools == DOMAIN Sources
TailOffset == 3   \* cells of the file before the archive
Cells == 0..(PageCells - 1)
EngineValue == 99 \* a cell an engine has written
Packed(raw, size) == [raw |-> raw, size |-> size]

Blocks == [at : Nat, cells : Seq(Int)]

\* A source as its parser leaves it.  Of a tool that checks no word, what is
\* packed fits one: a page is 16 KiB and has a number of one byte.
IsSource(t, s) ==
    /\ s.pages \in Seq({s.pages[i] : i \in DOMAIN s.pages})
    /\ t = "complete" =>
          /\ s.kind = "pages" /\ \A i \in DOMAIN s.pages : s.pages[i] \in [Cells -> Int]
          /\ FixedSize + 4 + 8 * Len(s.pages) <= WordLimit
    /\ t = "specialized" => s.kind \in {"QCPX", "SCPX"}
    /\ t = "bundle" => s.kind = "KCPX" /\ \A i \in DOMAIN s.pages : s.pages[i] \in Seq(Blocks)
AreSizes(t, sizes) == sizes \subseteq Nat \ {0} /\ (t = "bundle" \/ sizes \subseteq 1..WordLimit)

VARIABLES
    tool, source,  \* what is converted (never change)
    pc,
    streams,       \* the template's packed stream, then the overlays'
    archive,       \* what is or will be written; while it is staged, how far it is
    running        \* the player's: format, page, its cells and the engine's state

vars == <<tool, source, pc, streams, archive, running>>

-----------------------------------------------------------------------------
\* Pages.  Blocks [at, cells] are laid over each other in order: the last one
\* that has a cell decides it.
Setting(blocks, a) == {i \in DOMAIN blocks : a - blocks[i].at + 1 \in DOMAIN blocks[i].cells}

Over(page, blocks) ==
    [a \in Cells |->
       IF Setting(blocks, a) = {} THEN page[a]
       ELSE LET b == blocks[Max(Setting(blocks, a))] IN b.cells[a - b.at + 1]]

Block(at, cells) == [at |-> at, cells |-> cells]
Blank == [a \in Cells |-> 0]

Fits(blocks) == \A i \in DOMAIN blocks : blocks[i].at + Len(blocks[i].cells) <= PageCells

\* materialize_quarth: engine, common data and payload; words of the common
\* data are patched last.
QuarthBlocks(i) ==
    LET p == source.pages[i]
        common == Len(source.engine)
    IN <<Block(0, source.engine), Block(common, source.common),
         Block(source.payloadAt, p.payload)>>
       \o [k \in DOMAIN p.patches |->
             Block(common + p.patches[k].at, p.patches[k].cells)]

\* materialize_salamander: over the template, addresses are the page's.
SalamanderBlocks(i) ==
    <<Block(0, source.pages[i].payload)>> \o source.pages[i].patches

\* The pages a source stands for.
PageOf(i) ==
    CASE source.kind = "QCPX" -> Over(Blank, QuarthBlocks(i))
      [] source.kind = "SCPX" -> Over(source.template, SalamanderBlocks(i))
      [] source.kind = "KCPX" -> Over(source.template, source.pages[i])
      [] source.kind = "pages" -> source.pages[i]

\* split_container, parse_kcpx: sources that are refused.
WellFormed ==
    /\ source.pages # <<>>
    /\ CASE source.kind = "QCPX" ->
              /\ Len(source.engine) + Len(source.common) <= PageCells
              /\ \A i \in DOMAIN source.pages : Fits(QuarthBlocks(i))
         [] source.kind = "SCPX" ->
              \A i \in DOMAIN source.pages : Fits(SalamanderBlocks(i))
         [] source.kind = "KCPX" -> ~source.trailing
         [] OTHER -> TRUE

\* common_template and overlay_from_template.
Template ==
    [a \in Cells |->
       IF \A i \in DOMAIN source.pages : PageOf(i)[a] = PageOf(1)[a] THEN PageOf(1)[a] ELSE 0]

\* The runs of cells that differ, found from the first cell to the last.
Behind(b) == b.at + Len(b.cells)

Lengthened(b, cell) == Block(b.at, Append(b.cells, cell))

RunsAfter(template, page, runs, a) ==
    IF page[a] = template[a] THEN runs
    ELSE IF runs # <<>> /\ Behind(runs[Len(runs)]) = a
         THEN [runs EXCEPT ![Len(runs)] = Lengthened(@, page[a])]
    ELSE Append(runs, Block(a, <<page[a]>>))

Overlay(template, page) ==
    LET runs[n \in 0..PageCells] ==
            IF n = 0 THEN <<>> ELSE RunsAfter(template, page, runs[n - 1], n - 1)
    IN runs[PageCells]

\* What is compressed: a bundle's own streams, or the new template and overlays.
RawStreams ==
    IF source.kind = "KCPX" THEN <<source.template>> \o source.pages
    ELSE <<Template>> \o [i \in DOMAIN source.pages |-> Overlay(Template, PageOf(i))]

-----------------------------------------------------------------------------
\* Layout.
MutVersion(offsets) == 1
Version(offsets) == IF \E i \in DOMAIN offsets : offsets[i] > WordLimit THEN 2 ELSE 1

RecordSize(version) == IF version = 2 THEN 8 ELSE 6
DataStart(version) == FixedSize + 4 + (Len(streams) - 1) * RecordSize(version)

\* append_staged: no packed stream crosses a segment of the staged file.
MutAligned(at, size) == at
Aligned(at, size) ==
    LET within == (at + TailOffset) % Segment
    IN IF within + size > Segment THEN at + Segment - within ELSE at

\* The other tools put one stream behind the other.
Offsets(start) ==
    LET at[i \in 1..Len(streams)] ==
            IF i = 1 THEN start ELSE at[i - 1] + streams[i - 1].size
    IN at

\* Overlays decide the version.
VersionUsed == Version(Tail(Offsets(DataStart(1))))

At == Offsets(DataStart(VersionUsed))

\* ValueError; build_konami_complete_pages.py cuts what does not fit a word.
Refused ==
    /\ tool = "bundle"
    /\ \/ At[1] > WordLimit
       \/ \E i \in DOMAIN streams : streams[i].size > WordLimit

Word(n) == n % (WordLimit + 1)
OffsetField(version, i, at) == IF version = 2 /\ i > 1 THEN at ELSE Word(at)

Archive(version, offsets) ==
    [version |-> version,
     records |-> [i \in DOMAIN streams |->
                    [size |-> Word(streams[i].size), at |-> OffsetField(version, i, offsets[i])]],
     data    |-> {[at |-> offsets[i], stream |-> streams[i]] : i \in DOMAIN streams}]

\* parse_kcpz and the players: what is where a record says.
Stream(a, i) ==
    LET found == {d \in a.data : d.at = a.records[i].at /\ d.stream.size = a.records[i].size}
    IN IF found = {} THEN {} ELSE {(CHOOSE d \in found : TRUE).stream.raw}

-----------------------------------------------------------------------------
Init ==
    /\ tool \in Tools /\ source \in Sources[tool]
    /\ pc = "parse" /\ streams = <<>> /\ archive = {} /\ running = {}

Parse ==
    /\ pc = "parse"
    /\ pc' = IF WellFormed THEN "compress" ELSE "refused"
    /\ UNCHANGED <<tool, source, streams, archive, running>>

\* compress, compress_one; a packer that fails ends the tool.
Compress ==
    /\ pc = "compress"
    /\ \/ \E sizes \in [DOMAIN RawStreams -> PackedSizes[tool]] :
             streams' = [i \in DOMAIN RawStreams |-> Packed(RawStreams[i], sizes[i])]
          /\ pc' = "build"
       \/ pc' = "refused" /\ UNCHANGED streams
    /\ UNCHANGED <<tool, source, archive, running>>

Build ==
    /\ pc = "build" /\ tool # "specialized"
    /\ IF Refused THEN pc' = "refused" /\ UNCHANGED archive
       ELSE /\ archive' = Archive(VersionUsed, At)
            /\ pc' = IF tool = "bundle" THEN "validate" ELSE "written"
    /\ UNCHANGED <<tool, source, streams, running>>

\* write_generic: a version 1 archive, its streams staged one after another,
\* from the end of the records on.
StartStaging ==
    /\ pc = "build" /\ tool = "specialized"
    /\ archive' = [end |-> DataStart(1), at |-> <<>>]
    /\ pc' = "stage"
    /\ UNCHANGED <<tool, source, streams, running>>

\* append_staged of the next stream; an offset that is no word is refused.
AppendStaged ==
    /\ pc = "stage"
    /\ LET i == Len(archive.at) + 1
           at == Aligned(archive.end, streams[i].size)
       IN /\ i \in DOMAIN streams
          /\ IF at > WordLimit THEN pc' = "refused" /\ archive' = {}
             ELSE archive' = [end |-> at + streams[i].size, at |-> Append(archive.at, at)]
                  /\ UNCHANGED pc
    /\ UNCHANGED <<tool, source, streams, running>>

WriteStaged ==
    /\ pc = "stage" /\ Len(archive.at) + 1 \notin DOMAIN streams
    /\ archive' = Archive(1, archive.at)
    /\ pc' = "written"
    /\ UNCHANGED <<tool, source, streams, running>>

\* process: "every stream was decompressed again and compared", and every page,
\* which materialize refuses if a block overruns it.
Validate ==
    /\ pc = "validate"
    /\ pc' = IF /\ \A i \in DOMAIN streams : Stream(archive, i) = {RawStreams[i]}
                /\ \A i \in DOMAIN source.pages : Fits(source.pages[i])
             THEN "written" ELSE "refused"
    /\ UNCHANGED <<tool, source, streams, archive, running>>

\* The gateway's patch: the player reads a KCPX as it is or the KCPZ made of it.
Formats == {"KCPX", "KCPZ"}
StreamFor(format, i) == IF format = "KCPX" THEN {RawStreams[i]} ELSE Stream(archive, i)

Covered(i) == {a \in Cells : Setting(source.pages[i], a) # {}}
\* Engine and state: cells of the template no overlay covers.
EngineCells == Cells \ UNION {Covered(i) : i \in DOMAIN source.pages}

\* A song is selected: the template is copied, the overlay laid over it.
Materialize(format, i) ==
    /\ pc = "written" /\ tool = "bundle" /\ pc' = "playing"
    /\ \E template \in StreamFor(format, 1), overlay \in StreamFor(format, i + 1) :
          running' = [format |-> format, page |-> i, cells |-> Over(template, overlay),
                      state |-> [a \in EngineCells |-> template[a]]]
    /\ UNCHANGED <<tool, source, streams, archive>>

\* The engine writes its state.
EngineStep ==
    /\ pc = "playing"
    /\ \E a \in EngineCells :
          running' = [format |-> running.format, page |-> running.page,
                      cells |-> [running.cells EXCEPT ![a] = EngineValue],
                      state |-> [running.state EXCEPT ![a] = EngineValue]]
    /\ UNCHANGED <<tool, source, pc, streams, archive>>

\* An overlay over the running page, whose engine asked for it.
Overlaid(i, overlay) ==
    /\ running' = [format |-> running.format, page |-> i,
                   cells |-> Over(running.cells, overlay), state |-> running.state]
    /\ UNCHANGED <<tool, source, pc, streams, archive>>

\* The gateway of the bundle as it was built: the records are in storage.
KcpxGateway(i) == pc = "playing" /\ running.format = "KCPX" /\ Overlaid(i, RawStreams[i + 1])

\* kcp_page_gateway of the patch that comes with the KCPZ: "neither path
\* recopies the 16K template".
MutKcpPageGateway(i) ==
    /\ pc = "playing"
    /\ \E template \in StreamFor(running.format, 1),
          overlay \in StreamFor(running.format, i + 1) :
          /\ running' = [running EXCEPT !.page = i, !.cells = Over(template, overlay)]
          /\ UNCHANGED <<tool, source, pc, streams, archive>>
KcpPageGateway(i) ==
    /\ pc = "playing"
    /\ \E overlay \in StreamFor(running.format, i + 1) : Overlaid(i, overlay)

Stopped == pc \in {"written", "refused"} /\ UNCHANGED vars

Next ==
    \/ Parse \/ Compress \/ Build \/ StartStaging \/ AppendStaged \/ WriteStaged
    \/ Validate \/ EngineStep \/ Stopped
    \/ \E i \in DOMAIN source.pages :
         KcpxGateway(i) \/ KcpPageGateway(i) \/ \E f \in Formats : Materialize(f, i)

Spec == Init /\ [][Next]_vars

-----------------------------------------------------------------------------
\* Properties.

\* "Every reconstructed 16 KB page is byte-identical": a page read from the
\* archive that was written is the page the source stood for.
PageSurvives(i) ==
    \E template \in Stream(archive, 1), overlay \in Stream(archive, i + 1) :
        Over(template, overlay) = PageOf(i)

\* However often a track turned its page, in either format: the overlay's cells
\* are the page's, and the engine's state is what the engine wrote last.
TurnedPage ==
    /\ \A a \in Covered(running.page) : running.cells[a] = PageOf(running.page)[a]
    /\ \A a \in EngineCells : running.cells[a] = running.state[a]

\* What is put into an archive is what a player gets out of it.
PagesSurvive ==
    /\ pc \in {"written", "playing"} => \A i \in DOMAIN source.pages : PageSurvives(i)
    /\ pc = "playing" => TurnedPage

\* The cells of a stream, which is at `at' of the archive, are in one segment of
\* the file.
Whole(at, size) ==
    (at + TailOffset) \div Segment = (at + TailOffset + size - 1) \div Segment

\* The streams of specialized pages that fit a segment are staged in one, so
\* that a player never turns the page within a stream.  Nothing checks that
\* they do fit.
StagedWhole ==
    pc = "written" /\ tool = "specialized" =>
        \A d \in archive.data :
            d.stream.size \in 1..Segment => Whole(d.at, d.stream.size)
=============================================================================
