---------------------------- MODULE SnatcherPages ----------------------------
(***************************************************************************)
(* Snatcher's complete pages (tools/build_snatcher_complete_page.py).  The *)
(* engine stays in place in the page; the music of a track is packed into  *)
(* the holes a trace found in it and into the rest of the page.  Passages  *)
(* that occur twice can be stored once, called with the driver's own F9    *)
(* and FA commands, and a stream too long for a hole is cut and continued  *)
(* with an FD jump.  Distances in the streams are relative to the command, *)
(* so every one is computed anew.                                          *)
(*                                                                         *)
(* A cell is a byte or the word of an operand.  The driver is external:    *)
(* Heard says how it reads a stream.                                       *)
(***************************************************************************)
EXTENDS Integers, SequencesExt, FiniteSetsExt

CONSTANTS
    Musics,     \* banks: functions from addresses to cells
    Descriptor, \* where the track's descriptor is in them
    Engines,    \* sets of page cells of the engine a trace saw used
    EngineSpan, \* page cells of the engine, from the first to before the last
    FreeTail,   \* first and last free cell behind it
    Tables,     \* page cells of the driver's own tables of pointers
    Seed,       \* shortest passage worth a call
    MinHole,    \* smallest hole that is used
    Fetched     \* cells of an instruction after its first

CALL == 1     \* F9 distance
RETURN == 2   \* FA
LOOP == 3     \* FB count distance
JUMP == 4     \* FD distance
STOP == 5     \* FF
Note == 10    \* notes are the cells from here on
Handler == 99 \* an entry of the tables

ControlLength == CALL :> 2 @@ LOOP :> 3 @@ JUMP :> 2
Channels == 1..2
Unused == -1  \* FFFFH in a descriptor

VARIABLES
    bank, used,      \* what is packed, and the engine cells in use (never change)
    trace,           \* what a trace of the track reported (never changes)
    candidates,      \* passages that may be shared, the longest first
    count,           \* how many of them are
    pc,
    queue, cursor,   \* nodes without a place, and what of the first has one
    free,            \* holes left
    pieces           \* pieces placed

input == <<bank, used, trace, candidates>>
vars == <<input, count, pc, queue, cursor, free, pieces>>

Cell(memory, a) == IF a \in DOMAIN memory THEN memory[a] ELSE STOP

-----------------------------------------------------------------------------
\* The driver (external): one return slot and one loop counter per channel.
MaxSteps == 60

Heard(memory, start) ==
    LET step[n \in 0..MaxSteps] ==
          IF n = 0
          THEN [at |-> start, slot |-> STOP, called |-> FALSE, loops |-> 0, notes |-> <<>>,
                commands |-> {}, read |-> {}, inside |-> {}, nested |-> FALSE]
          ELSE LET s == step[n - 1]
                   op == Cell(memory, s.at)
                   length == IF op \in DOMAIN ControlLength THEN ControlLength[op] ELSE 1
                   target == s.at + length - Cell(memory, s.at + length - 1)
                   seen == [s EXCEPT !.commands = @ \cup {s.at},
                                     !.read = @ \cup s.at..(s.at + length - 1),
                                     !.inside = IF s.called THEN @ \cup {s.at} ELSE @]
               IN CASE op = CALL -> [seen EXCEPT !.at = target, !.slot = s.at + length,
                                                 !.called = TRUE, !.nested = @ \/ s.called]
                    [] op = RETURN -> [seen EXCEPT !.at = s.slot, !.called = FALSE]
                    [] op = LOOP -> IF s.loops + 1 < Cell(memory, s.at + 1)
                                    THEN [seen EXCEPT !.at = target, !.loops = @ + 1]
                                    ELSE [seen EXCEPT !.at = s.at + length, !.loops = 0]
                    [] op = JUMP -> [seen EXCEPT !.at = target]
                    [] op = STOP -> seen
                    [] OTHER -> [seen EXCEPT !.at = s.at + 1, !.notes = Append(@, op)]
    IN step[MaxSteps]

Ended(memory, heard) == Cell(memory, heard.at) = STOP

\* A descriptor holds the channels' distances from itself.
Streams(memory, descriptor) ==
    [c \in {d \in Channels : Cell(memory, descriptor + d) # Unused} |->
       Heard(memory, descriptor + memory[descriptor + c])]

\* read_traces: commands are the boundaries, inside those run by an F9.
TraceOf(music) ==
    LET streams == Streams(music, Descriptor)
        All(part) == UNION {streams[c][part] : c \in DOMAIN streams}
    IN [boundaries |-> All("commands"), inside |-> All("inside"),
        readable |-> All("read") \cup Descriptor..(Descriptor + Max(Channels)),
        targets |-> {Descriptor} \cup {Descriptor + music[Descriptor + c] : c \in DOMAIN streams},
        nested |-> \E c \in DOMAIN streams : streams[c].nested]

-----------------------------------------------------------------------------
\* find_phrases.  Two equal passages are made as long as they can be; they do
\* not overlap.
Controls(music, tr) ==
    {[at |-> c, op |-> music[c], to |-> c + ControlLength[music[c]]
                                        - music[c + ControlLength[music[c]] - 1]] :
       c \in {b \in tr.boundaries : music[b] \in DOMAIN ControlLength}}

Same(music, tr, i, j) == {i, j} \subseteq tr.readable /\ music[i] = music[j]

Longest(music, tr, i, j) ==
    LET back == Max({k \in 0..i : \A n \in 1..k : Same(music, tr, i - n, j - n)})
        first == i - back
        second == j - back
    IN [first |-> first, second |-> second,
        length |-> Max({k \in 0..(second - first) :
                          \A n \in 0..(k - 1) : Same(music, tr, first + n, second + n)})]

Passages(music, tr) ==
    {Longest(music, tr, p[1], p[2]) :
       p \in {q \in tr.readable \X tr.readable :
                q[1] < q[2] /\ \A n \in 0..(Seed - 1) : Same(music, tr, q[1] + n, q[2] + n)}}

\* Nothing enters or leaves a passage but at its ends, and it neither calls
\* nor returns: "F9 has only one return slot and therefore cannot nest".
Safe(music, tr, start, end) ==
    /\ \A t \in tr.targets : ~(start < t /\ t < end)
    /\ \A c \in Controls(music, tr) :
         IF c.at \in start..(end - 1) THEN c.op # CALL /\ c.to \in start..(end - 1)
         ELSE c.to \notin start..(end - 1)
    /\ \A b \in tr.boundaries \cap start..(end - 1) : music[b] \notin {RETURN, STOP}

Spans(p) == {p.first..(p.first + p.length - 1), p.second..(p.second + p.length - 1)}

FindPhrases(music, tr) ==
    LET good == {p \in Passages(music, tr) :
                   /\ p.length >= Seed
                   /\ {p.first, p.second, p.first + p.length, p.second + p.length}
                        \subseteq tr.boundaries
                   /\ \A start \in {p.first, p.second} :
                        Safe(music, tr, start, start + p.length)}
        Before(p, q) ==
          \/ p.length > q.length
          \/ p.length = q.length /\ p.first < q.first
          \/ p.length = q.length /\ p.first = q.first /\ p.second < q.second
    IN FoldLeft(LAMBDA chosen, p :
                  IF \A q \in Range(chosen) : UNION Spans(p) \cap UNION Spans(q) = {}
                  THEN Append(chosen, p) ELSE chosen,
                <<>>, SetToSortSeq(good, Before))

-----------------------------------------------------------------------------
\* Runs of consecutive members of a set, as [from, to).
Runs(cells) ==
    {[from |-> a, to |-> Min({b \in {c + 1 : c \in cells} : b > a /\ b \notin cells})] :
       a \in {c \in cells : c - 1 \notin cells}}

\* required_mask and free_intervals
FreeIntervals ==
    LET protected == {a \in EngineSpan[1]..(EngineSpan[2] - 1) :
                        \E u \in used : u <= a /\ a <= u + Fetched}
    IN {h \in Runs(EngineSpan[1]..(EngineSpan[2] - 1) \ protected) : h.to - h.from >= MinHole}
       \cup {[from |-> FreeTail[1], to |-> FreeTail[2]]}

Phrases == SubSeq(candidates, 1, count)

\* make_nodes: the data of a range with calls for its passages.  src is the
\* address a cell comes from (STOP's address 0 for none), cut whether a piece
\* may end before the cell.
Item(v, src, cut) == [v |-> v, src |-> src, cut |-> cut]

RangeNode(range) ==
    LET Starting(a) == {p \in ToSet(Phrases) : a \in {p.first, p.second}}
        Emit(s, a) ==
          IF a < s.next THEN s
          ELSE IF Starting(a) # {}
          THEN [items |-> s.items \o <<Item(CALL, a, TRUE), Item(0, 0, FALSE)>>,
                next |-> a + (CHOOSE p \in Starting(a) : TRUE).length]
          ELSE [items |-> Append(s.items, Item(bank[a], a, a \in trace.boundaries)),
                next |-> a + 1]
    IN [shared |-> 0,
        items |-> FoldLeft(Emit, [items |-> <<>>, next |-> range.from],
                           [i \in 1..(range.to - range.from) |-> range.from + i - 1]).items]

SharedNode(p) ==
    [shared |-> p.first,
     items |-> Append([i \in 1..p.length |->
                         Item(bank[p.first + i - 1], p.first + i - 1,
                              p.first + i - 1 \in trace.boundaries)],
                      Item(RETURN, 0, TRUE))]

\* The nodes, the longest first.
Nodes ==
    LET ranges == {RangeNode(r) : r \in Runs(trace.readable)}
        shared == {SharedNode(p) : p \in ToSet(Phrases)}
    IN SetToSortSeq(ranges \cup shared,
                    LAMBDA n, m : \/ Len(n.items) > Len(m.items)
                                  \/ /\ Len(n.items) = Len(m.items)
                                     /\ n.shared < m.shared
                                  \/ /\ Len(n.items) = Len(m.items)
                                     /\ n.shared = m.shared
                                     /\ n.items[1].src < m.items[1].src)

-----------------------------------------------------------------------------
Init ==
    /\ bank \in Musics /\ used \in Engines
    /\ trace = TraceOf(bank) /\ ~trace.nested
    /\ candidates = FindPhrases(bank, trace)
    /\ count = 0 /\ pc = "nodes"
    /\ queue = <<>> /\ cursor = 0 /\ free = {} /\ pieces = <<>>

\* build_page: a layout with one more shared passage than the last one.
MakeNodes ==
    /\ pc = "nodes"
    /\ queue' = Nodes /\ cursor' = 0
    /\ free' = FreeIntervals /\ pieces' = <<>>
    /\ pc' = "allocate"
    /\ UNCHANGED <<input, count>>

\* allocate_nodes: the largest hole is used first.
IsLargest(hole) == \A h \in free : h.to - h.from <= hole.to - hole.from

Node == Head(queue)
Remaining == Len(Node.items) - cursor

Piece(from, to, dest, jumps) ==
    [node |-> Node, from |-> from, to |-> to, dest |-> dest, jumps |-> jumps]

PlaceRest ==
    /\ pc = "allocate" /\ queue # <<>>
    /\ \E hole \in free :
         /\ IsLargest(hole) /\ hole.to - hole.from > ControlLength[JUMP]
         /\ Remaining <= hole.to - hole.from
         /\ pieces' = Append(pieces, Piece(cursor + 1, Len(Node.items), hole.from, FALSE))
         /\ free' = (free \ {hole}) \cup {[hole EXCEPT !.from = @ + Remaining]}
    /\ queue' = Tail(queue) /\ cursor' = 0
    /\ UNCHANGED <<input, count, pc>>

\* Pieces end before a command, and leave room for the jump to the next one.
MutCuts(hole) ==
    {b \in (cursor + 1)..(Len(Node.items) - 1) :
       Node.items[b + 1].cut /\ b <= cursor + hole.to - hole.from}
Cuts(hole) ==
    {b \in (cursor + 1)..(Len(Node.items) - 1) :
       Node.items[b + 1].cut /\ b <= cursor + hole.to - hole.from - ControlLength[JUMP]}

PlacePart ==
    /\ pc = "allocate" /\ queue # <<>>
    /\ \E hole \in free :
         /\ IsLargest(hole) /\ hole.to - hole.from > ControlLength[JUMP]
         /\ Remaining > hole.to - hole.from
         /\ IF Cuts(hole) = {}
            THEN free' = free \ {hole} /\ UNCHANGED <<pieces, cursor>>
            ELSE /\ pieces' = Append(pieces, Piece(cursor + 1, Max(Cuts(hole)), hole.from, TRUE))
                 /\ cursor' = Max(Cuts(hole))
                 /\ free' = (free \ {hole}) \cup
                      {[hole EXCEPT !.from = @ + Max(Cuts(hole)) - cursor + ControlLength[JUMP]]}
    /\ UNCHANGED <<input, count, pc, queue>>

\* ValueError: another passage is shared, or the track "does not fit page 1".
DoesNotFit ==
    /\ pc = "allocate" /\ queue # <<>>
    /\ \A hole \in free : hole.to - hole.from <= ControlLength[JUMP]
    /\ IF count < Len(candidates)
       THEN count' = count + 1 /\ pc' = "nodes"
       ELSE pc' = "refused" /\ UNCHANGED count
    /\ UNCHANGED <<input, queue, cursor, free, pieces>>

Packed ==
    /\ pc = "allocate" /\ queue = <<>>
    /\ pc' = "packed"
    /\ UNCHANGED <<input, count, queue, cursor, free, pieces>>

Stopped == pc \in {"packed", "refused"} /\ UNCHANGED vars

Next == MakeNodes \/ PlaceRest \/ PlacePart \/ DoesNotFit \/ Packed \/ Stopped

Spec == Init /\ [][Next]_vars

-----------------------------------------------------------------------------
\* build_page: where the cells went.  source_map has those outside shared
\* passages, and the insides of passages as they are in the shared copy.
Went(i, index) == pieces[i].dest + index - pieces[i].from
Cells == {<<i, index>> : i \in DOMAIN pieces, index \in 1..Max({pieces[j].to : j \in DOMAIN pieces})}
Stored == {c \in Cells : pieces[c[1]].from <= c[2] /\ c[2] <= pieces[c[1]].to}
ItemOf(c) == pieces[c[1]].node.items[c[2]]
IsShared(c) == pieces[c[1]].node.shared # 0

MapOf(shared, address) ==
    LET at == {c \in Stored : IsShared(c) = shared /\ ItemOf(c).src = address}
    IN {Went(c[1], c[2]) : c \in at}

Entry(p) == CHOOSE d \in MapOf(TRUE, p.first) : TRUE

SourceMap(address) ==
    IF MapOf(FALSE, address) # {} THEN MapOf(FALSE, address)
    ELSE {Entry(p) + address - start :
            p \in {q \in ToSet(Phrases) : address \in UNION Spans(q)},
            start \in {s \in {0} \cup UNION {{q.first, q.second} : q \in ToSet(Phrases)} :
                         \E q \in ToSet(Phrases) : s \in {q.first, q.second}
                                              /\ address \in s..(s + q.length - 1)}}

\* The operand of the command at cell c: a caller's distance to its passage, or
\* the distance to where the target went.
Distance(c) ==
    LET item == ItemOf(c)
        at == Went(c[1], c[2])
        length == ControlLength[item.v]
        target == item.src + length - bank[item.src + length - 1]
        calls == {p \in ToSet(Phrases) : item.src \in {p.first, p.second} /\ ~IsShared(c)}
    IN IF calls # {} THEN at + length - Entry(CHOOSE p \in calls : TRUE)
       ELSE at + length - (CHOOSE d \in IF IsShared(c) THEN MapOf(TRUE, target)
                                        ELSE SourceMap(target) : TRUE)

IsControl(c) == ItemOf(c).cut /\ ItemOf(c).src # 0 /\ ItemOf(c).v \in DOMAIN ControlLength

NextPiece(i) ==
    CHOOSE j \in DOMAIN pieces : pieces[j].node = pieces[i].node /\ pieces[j].from = pieces[i].to + 1

\* The page: music, jumps between pieces and operands are written in this
\* order, and the driver's tables last of all.
Write(page, a, v) == [x \in DOMAIN page \cup {a} |-> IF x = a THEN v ELSE page[x]]

MusicWritten ==
    LET music == [a \in {Went(c[1], c[2]) : c \in Stored} |->
                    (ItemOf(CHOOSE c \in Stored : Went(c[1], c[2]) = a)).v]
        jumps == {i \in DOMAIN pieces : pieces[i].jumps}
        EndOf(i) == Went(i, pieces[i].to) + 1
        jumping == [a \in {EndOf(i) : i \in jumps} \cup {EndOf(i) + 1 : i \in jumps} |->
                      IF \E i \in jumps : EndOf(i) = a THEN JUMP
                      ELSE LET i == CHOOSE j \in jumps : EndOf(j) + 1 = a
                           IN EndOf(i) + ControlLength[JUMP] - pieces[NextPiece(i)].dest]
        operands == [a \in {Went(c[1], c[2]) + ControlLength[ItemOf(c).v] - 1 :
                              c \in {d \in Stored : IsControl(d)}} |->
                       Distance(CHOOSE c \in Stored :
                          IsControl(c) /\ Went(c[1], c[2]) + ControlLength[ItemOf(c).v] - 1 = a)]
    IN operands @@ jumping @@ music

Page ==
    LET desc == CHOOSE d \in SourceMap(Descriptor) : TRUE
        channels == [a \in {desc + c : c \in {d \in Channels :
                              /\ bank[Descriptor + d] # Unused
                              /\ SourceMap(Descriptor + bank[Descriptor + d]) # {}}} |->
                       (CHOOSE d \in SourceMap(Descriptor + bank[Descriptor + a - desc]) : TRUE)
                       - desc]
    IN channels @@ [a \in Tables |-> Handler] @@ MusicWritten

NewDescriptor == CHOOSE d \in SourceMap(Descriptor) : TRUE

-----------------------------------------------------------------------------
\* Properties.

\* The notes of every channel are those of the game's own bank; of one that
\* plays on for ever, as many as a quarter of the steps are enough for.
PlaysSource ==
    LET packed == Streams(Page, NewDescriptor)
        source == Streams(bank, Descriptor)
        n == MaxSteps \div 4
    IN /\ DOMAIN packed = DOMAIN source
       /\ \A c \in DOMAIN source :
            IF Ended(bank, source[c]) THEN packed[c].notes = source[c].notes
            ELSE SubSeq(packed[c].notes, 1, n) = SubSeq(source[c].notes, 1, n)

\* The tables, which are written last, lie in cells that hold no music.
TablesKept == Tables \subseteq used

\* A passage is shared that lies inside a phrase the music itself calls.
Nested == \E p \in ToSet(Phrases) : {p.first, p.second} \cap trace.inside # {}

\* "Large tracks factor identical complete command passages through the
\* driver's native F9 and FA commands": cut, moved, shared and continued by
\* jumps, each channel plays the notes it plays in the game's own bank, unless
\* a generated call nests in one of the music's own, or the tables are written
\* over music.
PackedPlaysSource == pc = "packed" /\ TablesKept /\ ~Nested => PlaysSource

\* find_phrases rejects passages whose call would nest ("F9 has only one return
\* slot and therefore cannot nest"), so that no call needs to be excepted.
NestingRejected == pc = "packed" /\ TablesKept => PlaysSource
=============================================================================
