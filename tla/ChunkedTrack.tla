----------------------------- MODULE ChunkedTrack -----------------------------
(***************************************************************************)
(* PC Engine tracks replayed on an SCC+ (three bundles under ksp/).  A     *)
(* converter turns the state of the voices in every frame into delayed     *)
(* events (bomberman94_convert.py, encode), a builder cuts events too long *)
(* for one page into chunks that name their successors                     *)
(* (build_bomberman94_chunked.py), and a Z80 engine replays them.  The     *)
(* engine is compared tick by tick with a reference that plays the track   *)
(* unsplit (validate_chunked_engine.py).  Parodius has one page per track; *)
(* Magical Chase continues a track in its own way.                         *)
(***************************************************************************)
EXTENDS Integers, SequencesExt, FiniteSetsExt

CONSTANTS
    Tracks,     \* what may be converted: [frames, loop]
    Fillers,    \* numbers of pages the tracks before it may take
    MaxDelay,   \* longest delay of an event (254)
    Capacity    \* bytes of events one page has room for

Games == {"bomberman", "magical", "parodius"}
Voices == {"scc", "psg"}
Silent == [v \in Voices |-> [tone |-> 0, vol |-> 0]]
EndMark == MaxDelay + 1

VARIABLES
    game, track,         \* what is converted
    first, pages,        \* the pages built, from the first one on
    whole,               \* the track as one block
    pc,                  \* where the Z80 is
    page, ptr, wait, ended,       \* the engine's overlay and state
    reg, key,            \* SCC+ and PSG registers; B8AFH, SCC+ voices on
    ref,                 \* the reference's state
    tick, again          \* history: ticks of the first pass; the pass is over

built == <<game, track, first, pages, whole>>  \* never change
engine == <<page, ptr, wait, ended, reg, key>>
vars == <<built, pc, engine, ref, tick, again>>

-----------------------------------------------------------------------------
\* encode: frame f is stored if a voice changed.  A tone (period and waveform)
\* is stored when its voice sounds and did not sound that way before.
Frame(f) == IF f = 0 THEN Silent ELSE track.frames[f]

Active(f, v) == Frame(f)[v].vol > 0
ToneChanged(f, v) ==
    Active(f, v) /\ (~Active(f - 1, v) \/ Frame(f)[v].tone # Frame(f - 1)[v].tone)
VolChanged(f, v) == Frame(f)[v].vol # Frame(f - 1)[v].vol

EventFrames ==
    {f \in DOMAIN track.frames :
       f = 1 \/ \E v \in Voices : ToneChanged(f, v) \/ VolChanged(f, v)}

LastEvent == Max(EventFrames)

\* An empty event every EndMark frames fills a longer gap.
MutStoredFrames == EventFrames
StoredFrames ==
    {f \in 1..LastEvent :
       (f - Max({e \in EventFrames : e <= f})) % EndMark = 0}

\* The n-th of them, which is the n-th record.
Stored(n) ==
    CHOOSE f \in StoredFrames : Cardinality({g \in StoredFrames : g <= f}) = n

Records ==
    [n \in 1..Cardinality(StoredFrames) |->
       LET f == Stored(n)
       IN [delay |-> f - (IF n = 1 THEN 0 ELSE Stored(n - 1)) - 1,
           tones |-> [v \in {u \in Voices : ToneChanged(f, u)} |-> Frame(f)[v].tone],
           vols  |-> [v \in {u \in Voices : VolChanged(f, u)} |-> Frame(f)[v].vol]]]

Size(record) ==
    1 + Cardinality(DOMAIN record.tones) + Cardinality(DOMAIN record.vols)

\* split_track: a chunk is closed by the first event that does not fit.  The
\* chunk each event is in, and the bytes the chunk then has.
Cut(records) ==
    LET cut[n \in 0..Len(records)] ==
          IF n = 0 THEN [chunk |-> 1, bytes |-> 0]
          ELSE LET size == Size(records[n])
               IN IF cut[n - 1].bytes > 0 /\ cut[n - 1].bytes + size > Capacity
                  THEN [chunk |-> cut[n - 1].chunk + 1, bytes |-> size]
                  ELSE [cut[n - 1] EXCEPT !.bytes = @ + size]
    IN cut

Chunks(records) ==
    IF game = "parodius" THEN <<records>>
    ELSE LET cut == Cut(records)
             In(k) == {n \in DOMAIN records : cut[n].chunk = k}
         IN [k \in 1..cut[Len(records)].chunk |->
               SubSeq(records, Min(In(k)), Max(In(k)))]

Block(records, loops, more, restarts, next) ==
    [records |-> records, loops |-> loops, more |-> more,
     restarts |-> restarts, next |-> next]

\* main and make_chunk: flags 01H (loop), 08H (another page follows) and 10H
\* (that page starts the track again), and the page that follows.
Pages(records) ==
    LET chunks == Chunks(records)
        count == Len(chunks)
        Page(i) ==
          LET follows == count > 1 /\ (i < count \/ track.loop)
          IN Block(chunks[i], count = 1 /\ track.loop, follows,
                   follows /\ i = count,
                   IF i < count THEN first + i ELSE first)
    IN [p \in first..(first + count - 1) |-> Page(p - first + 1)]

\* The byte after the event with index i - 1 of a stream.
DelayAt(records, i) ==
    IF i > Len(records) THEN EndMark ELSE records[i].delay

\* What an event leaves in the registers.
Written(event, regs) ==
    [v \in Voices |->
       [tone |-> IF v \in DOMAIN event.tones THEN event.tones[v] ELSE regs[v].tone,
        vol  |-> IF v \in DOMAIN event.vols THEN event.vols[v] ELSE regs[v].vol]]

\* silence clears the volumes and, one byte further, the voices' switches.
Silenced(regs) == [v \in Voices |-> [regs[v] EXCEPT !.vol = 0]]

-----------------------------------------------------------------------------
\* validate_chunked_engine.py: the unsplit track, in a machine without pages.
State(at, delay, over, sound, on) ==
    [ptr |-> at, wait |-> delay, ended |-> over, reg |-> sound, key |-> on]

RefEvent(s) ==
    LET event == whole.records[s.ptr]
        after == DelayAt(whole.records, s.ptr + 1)
        sound == Written(event, s.reg)
    IN IF after # EndMark THEN State(s.ptr + 1, after, s.ended, sound, s.key)
       ELSE IF whole.loops THEN State(1, 0, s.ended, Silenced(sound), FALSE)
       ELSE State(s.ptr, s.wait, TRUE, Silenced(sound), FALSE)

RefInit ==
    LET s == State(1, DelayAt(whole.records, 1), FALSE, Silent, TRUE)
    IN IF s.wait = 0 THEN RefEvent(s) ELSE s

RefPlay(s) ==
    IF s.ended THEN s
    ELSE IF s.wait > 0 THEN [s EXCEPT !.wait = @ - 1]
    ELSE RefEvent(s)

-----------------------------------------------------------------------------
Init ==
    /\ game \in Games /\ track \in Tracks /\ first \in Fillers
    /\ whole = Block(Records, track.loop, FALSE, FALSE, 0)
    /\ pages = Pages(whole.records)
    /\ \A p \in DOMAIN pages : p < 127
    /\ pc = "init" /\ page = first /\ ptr = 1 /\ wait = 0 /\ ended = FALSE
    /\ reg = Silent /\ key = FALSE
    /\ ref = RefInit
    /\ tick = 0 /\ again = FALSE

\* init: the voices on, then load_chunk_start, which applies the first event
\* at once if its delay is 0.
EngineInit ==
    /\ pc = "init"
    /\ reg' = Silent /\ key' = TRUE /\ ended' = FALSE
    /\ ptr' = 1 /\ wait' = DelayAt(pages[page].records, 1)
    /\ pc' = IF wait' = 0 THEN "apply" ELSE "compare"
    /\ UNCHANGED <<built, page, ref, tick, again>>

\* play
Play ==
    /\ pc = "ret"
    /\ ref' = RefPlay(ref)
    /\ tick' = IF again \/ ended THEN tick ELSE tick + 1
    /\ IF ended THEN pc' = "compare" /\ UNCHANGED wait
       ELSE IF wait = 0 THEN pc' = "apply" /\ UNCHANGED wait
       ELSE pc' = "compare" /\ wait' = wait - 1
    /\ UNCHANGED <<built, page, ptr, ended, reg, key, again>>

ApplyEvent ==
    /\ pc = "apply"
    /\ LET records == pages[page].records
           after == DelayAt(records, ptr + 1)
       IN /\ reg' = Written(records[ptr], reg)
          /\ IF after = EndMark THEN pc' = "stream_end" /\ UNCHANGED <<wait, ptr>>
             ELSE pc' = "compare" /\ wait' = after /\ ptr' = ptr + 1
    /\ UNCHANGED <<built, page, ended, key, ref, tick, again>>

Silence == reg' = Silenced(reg) /\ key' = FALSE

\* stream_end, flag 10H: the gateway brings the first page back, and its first
\* event is due at the next tick.
Restart ==
    /\ pc = "stream_end" /\ pages[page].more /\ pages[page].restarts
    /\ Silence
    /\ page' = pages[page].next
    /\ ptr' = 1 /\ wait' = 0 /\ again' = TRUE /\ pc' = "compare"
    /\ UNCHANGED <<built, ended, ref, tick>>

\* ordinary_continuation: "never execute a zero-delay first event until the
\* next PLAY tick"; Magical Chase calls load_chunk_start, which does.
MutContinuesAtOnce == TRUE
ContinuesAtOnce == game = "magical"

Continue ==
    /\ pc = "stream_end" /\ pages[page].more /\ ~pages[page].restarts
    /\ page' = pages[page].next
    /\ ptr' = 1 /\ wait' = DelayAt(pages[page'].records, 1)
    /\ pc' = IF ContinuesAtOnce /\ wait' = 0 THEN "apply" ELSE "compare"
    /\ UNCHANGED <<built, ended, reg, key, ref, tick, again>>

\* local_end, final_end
LocalEnd ==
    /\ pc = "stream_end" /\ ~pages[page].more
    /\ Silence
    /\ IF pages[page].loops
       THEN ptr' = 1 /\ wait' = 0 /\ again' = TRUE /\ UNCHANGED ended
       ELSE ended' = TRUE /\ UNCHANGED <<ptr, wait, again>>
    /\ pc' = "compare"
    /\ UNCHANGED <<built, page, ref, tick>>

\* compare, which changes nothing, and the next tick of the driver.
Compare == pc = "compare" /\ pc' = "ret" /\ UNCHANGED <<built, engine, ref, tick, again>>

Next == EngineInit \/ Play \/ ApplyEvent \/ Restart \/ Continue \/ LocalEnd \/ Compare

\* The validator calls play once per tick.
Spec == Init /\ [][Next]_vars /\ WF_vars(Next)

-----------------------------------------------------------------------------
\* Properties.

\* Pages of Magical Chase that would be entered one tick early; its builder
\* relies on there being none.
EntersEarly ==
    game = "magical" /\ \E p \in DOMAIN pages :
        p # first /\ DelayAt(pages[p].records, 1) = 0

\* validate_chunked_engine.py: "matched the unsplit reference streams".  Pages
\* are invisible: at each tick, also after a restart, the registers, the delay
\* and the end are those of the track played in one piece.
MatchesReference ==
    pc = "compare" /\ ~EntersEarly =>
        /\ reg = ref.reg /\ key = ref.key
        /\ wait = ref.wait /\ ended = ref.ended

Sounds(v) == reg[v].vol > 0 /\ (v = "scc" => key)

\* Up to the last change of a track what is heard in each tick is what the PC
\* Engine played in that frame: delays, empty events and page changes add up.
FirstPassFaithful ==
    pc = "compare" /\ ~again /\ ~EntersEarly /\ tick + 1 < LastEvent =>
        \A v \in Voices :
            /\ Sounds(v) <=> Active(tick + 1, v)
            /\ Sounds(v) => reg[v] = Frame(tick + 1)[v]

\* "full-track loop" (bomberman94_convert.py, the loop flag): a voice that is
\* given a volume is heard, in the second pass as in the first.
LoopIsHeard == pc = "compare" => \A v \in Voices : reg[v].vol > 0 => Sounds(v)
=============================================================================
