------------------------------- MODULE MwkUsage -------------------------------
(***************************************************************************)
(* mwk_usage.py: which sample records of a wave kit a song can select.     *)
(* The song and the kit are files the tool parses; what the driver does    *)
(* while it plays them is external.  A file is a sequence of cells, and a  *)
(* cell holds what the code reads at once: a byte, an offset, a row's      *)
(* masks as the number of bits set in them.                                *)
(***************************************************************************)
EXTENDS Integers, SequencesExt, FiniteSetsExt

CONSTANTS
    Cases,        \* what may be inspected: [song, kit], see the MC module
    TableSize,    \* bound for 220: positions in an edit-mode song
    StartWaves,   \* bound for 24: channels with a first wave
    WaveSlots,    \* bound for 48
    Rows,         \* bound for 16: rows of a pattern
    Tones,        \* bound for 64: tone records of a kit
    Parts,        \* bound for 8: parts of a patch
    EditSize,     \* bound for 16: edit data of a patch or a sample
    TopNote       \* bound for 95

EMPTY == 255      \* a row without events
WAVE == 98        \* first wave-change event
CUSTOM == 176     \* first patch that is the kit's
RAM == 1          \* flags of a tone: it has a record, and samples
ROM == 33         \* a record without samples (bit 5)

VARIABLES case, pc, waves, custom, wavekit, used

vars == <<case, pc, waves, custom, wavekit, used>>

Slice(file, from, size) == SubSeq(file, from + 1, from + size)
Refused == [ok |-> FALSE]

-----------------------------------------------------------------------------
\* Pattern groups: a size, a count and the patterns.  A pattern ends where the
\* next one of its group starts, the last one with the group.
Pattern(group, offsets, first, count, index) ==
    LET at == offsets[index + 1] - offsets[first + 1]
        last == index = first + count - 1 \/ index + 2 > Len(offsets)
        size == IF last THEN Len(group) - at ELSE offsets[index + 2] - offsets[index + 1]
    IN IF at < 0 \/ at >= Len(group) \/ size <= 0 \/ at + size > Len(group) THEN <<>>
       ELSE Slice(group, at, size)

Patterns(file, start, offsets) ==
    LET step[n \in 0..Len(offsets)] ==
          IF n = 0 THEN [ok |-> TRUE, cursor |-> start, patterns |-> <<>>]
          ELSE LET s == step[n - 1]
                   first == Len(s.patterns)
                   size == file[s.cursor + 1]
                   count == file[s.cursor + 2]
                   group == Slice(file, s.cursor + 2, size)
                   known == Min({first + count, Len(offsets)}) - first
               IN IF ~s.ok \/ first = Len(offsets) THEN s
                  ELSE IF s.cursor + 2 > Len(file) THEN Refused
                  ELSE IF count = 0 \/ s.cursor + 2 + size > Len(file) THEN Refused
                  ELSE [ok |-> TRUE, cursor |-> s.cursor + 2 + size,
                        patterns |-> s.patterns \o
                            [i \in 1..known |->
                               Pattern(group, offsets, first, count, first + i - 1)]]
    IN step[Len(offsets)]

IsWave(event) == WAVE <= event /\ event < WAVE + WaveSlots

\* A row: an event, the masks, an event for every bit.
MutRowWaves(pattern, at) ==
    LET events == Slice(pattern, at + 2, pattern[at + 2])
    IN {e - WAVE : e \in {x \in ToSet(events) : IsWave(x)}}
RowWaves(pattern, at) ==
    LET events == <<pattern[at + 1]>> \o Slice(pattern, at + 2, pattern[at + 2])
    IN {e - WAVE : e \in {x \in ToSet(events) : IsWave(x)}}

PatternWaves(pattern) ==
    LET step[r \in 0..Rows] ==
          IF r = 0 THEN [ok |-> TRUE, cursor |-> 0, waves |-> {}]
          ELSE LET s == step[r - 1]
               IN IF ~s.ok THEN s
                  ELSE IF s.cursor + 1 > Len(pattern) THEN Refused
                  ELSE IF pattern[s.cursor + 1] = EMPTY THEN [s EXCEPT !.cursor = @ + 1]
                  ELSE IF s.cursor + 2 > Len(pattern) THEN Refused
                  ELSE IF s.cursor + 2 + pattern[s.cursor + 2] > Len(pattern) THEN Refused
                  ELSE [s EXCEPT !.cursor = @ + 2 + pattern[s.cursor + 2],
                                 !.waves = @ \cup RowWaves(pattern, s.cursor)]
    IN step[Rows]

\* parse_mwm.  The header: length, first waves, wave table.
HeaderSize == 1 + StartWaves + WaveSlots

SongInfo(file, edit) ==
    LET header == IF edit THEN TableSize ELSE 0
        length == file[header + 1]
        positions == IF edit THEN Slice(file, 0, Min({length + 1, TableSize}))
                     ELSE Slice(file, HeaderSize, length + 1)
        cursor == header + HeaderSize + (IF edit THEN 0 ELSE length + 1)
        offsets == Slice(file, cursor, Max(ToSet(positions)) + 1)
        parsed == Patterns(file, cursor + Len(offsets), offsets)
        read == {PatternWaves(parsed.patterns[p + 1]) : p \in ToSet(positions)}
        first == {w - 1 : w \in {x \in ToSet(Slice(file, header + 1, StartWaves)) : x \in 1..WaveSlots}}
        all == first \cup UNION {r.waves : r \in read}
    IN IF Len(file) < header + HeaderSize THEN Refused
       ELSE IF Len(file) < cursor \/ Len(file) < cursor + Max(ToSet(positions)) + 1 THEN Refused
       ELSE IF ~parsed.ok THEN Refused
       ELSE IF \E r \in read : ~r.ok THEN Refused
       ELSE [ok |-> TRUE, waves |-> all,
             patches |-> {w \in {file[header + 2 + StartWaves + i] : i \in all} : w >= CUSTOM}]

-----------------------------------------------------------------------------
\* parse_mwk: tone flags, patches, edit data, and a record for each tone that
\* has one; records follow each other.
PatchAt(file, at) == [i \in 1..Parts |-> Slice(file, at + 1 + 2 * (i - 1), 2)]  \* note, tone

Payload(flags, file, header) == IF flags = ROM THEN 0 ELSE file[header + 1]

KitInfo(file, edit) ==
    LET count == file[1]
        patchSize == 1 + 2 * Parts
        after == 1 + Tones + count * patchSize
        start == after + (IF edit THEN count * EditSize ELSE 0)
        Record(s, tone) ==
          LET flags == file[2 + tone]
              header == s.cursor + (IF edit THEN EditSize ELSE 0)
              size == Payload(flags, file, header)
          IN IF ~s.ok \/ flags \notin {RAM, ROM} THEN s
             ELSE IF header + 1 > Len(file) THEN Refused
             ELSE IF header + 1 + size > Len(file) THEN Refused
             ELSE [ok |-> TRUE, cursor |-> header + 1 + size,
                   samples |-> s.samples @@ (tone :> Slice(file, header + 1, size))]
        read == FoldLeft(Record, [ok |-> TRUE, cursor |-> start, samples |-> <<>>],
                         [t \in 1..Tones |-> t - 1])
    IN IF Len(file) < 1 + Tones \/ Len(file) < start THEN Refused
       ELSE IF ~read.ok THEN Refused
       ELSE [ok |-> TRUE, samples |-> read.samples,
             patches |-> [p \in 1..count |-> PatchAt(file, 1 + Tones + (p - 1) * patchSize)]]

\* A note plays the first part that ends above it; 0 ends above all.
Selects(part, note) == note < part[1] \/ part[1] = 0

Reachable(patch) ==
    UNION {LET i == SelectInSeq(patch, LAMBDA part : Selects(part, note))
           IN IF i = 0 THEN {} ELSE {patch[i][2]} : note \in 0..TopNote}

-----------------------------------------------------------------------------
Init ==
    /\ case \in Cases
    /\ pc = "song" /\ waves = {} /\ custom = {} /\ wavekit = <<>> /\ used = {}

ParseSong ==
    /\ pc = "song"
    /\ LET info == SongInfo(case.song.file, case.song.edit)
       IN IF info.ok THEN pc' = "kit" /\ waves' = info.waves /\ custom' = info.patches
          ELSE pc' = "refused" /\ UNCHANGED <<waves, custom>>
    /\ UNCHANGED <<case, wavekit, used>>

ParseKit ==
    /\ pc = "kit"
    /\ LET info == KitInfo(case.kit.file, case.kit.edit)
       IN IF info.ok THEN pc' = "inspect" /\ wavekit' = [samples |-> info.samples, patches |-> info.patches]
          ELSE pc' = "refused" /\ UNCHANGED wavekit
    /\ UNCHANGED <<case, waves, custom, used>>

\* A patch the kit does not have is a warning.
Inspect ==
    /\ pc = "inspect"
    /\ used' = UNION {Reachable(wavekit.patches[p - CUSTOM + 1]) :
                        p \in {q \in custom : q - CUSTOM < Len(wavekit.patches)}}
    /\ pc' = "report"
    /\ UNCHANGED <<case, waves, custom, wavekit>>

Stopped == pc \in {"report", "refused"} /\ UNCHANGED vars

Next == ParseSong \/ ParseKit \/ Inspect \/ Stopped

Spec == Init /\ [][Next]_vars

-----------------------------------------------------------------------------
\* Properties.  case.song and case.kit say what the files hold.

\* Waves the driver selects while it plays the song's positions.
Selected ==
    {w - 1 : w \in {x \in ToSet(case.song.start) : x \in 1..WaveSlots}}
    \cup UNION {{e - WAVE : e \in {x \in ToSet(row) : IsWave(x)}} :
                  row \in UNION {ToSet(case.song.plays[p + 1]) : p \in ToSet(case.song.positions)}}
Heard(patch, note) ==
    {patch[i][2] : i \in {j \in 1..Parts : /\ Selects(patch[j], note)
                                           /\ \A k \in 1..(j - 1) : ~Selects(patch[k], note)}}

\* A song that plays a patch of the kit on any note has the tone it sounds
\* among the used ones, a used one can sound, and each tone's samples are the
\* ones the kit has for it, whatever edit data and header-only tones precede.
UsedIsHeard ==
    pc = "report" =>
        /\ used = UNION {Heard(case.kit.patches[p - CUSTOM + 1], note) :
                           p \in {q \in {case.song.table[w + 1] : w \in Selected} :
                                    q >= CUSTOM /\ q - CUSTOM < Len(case.kit.patches)},
                           note \in 0..TopNote}
        /\ wavekit.samples = case.kit.samples
=============================================================================
