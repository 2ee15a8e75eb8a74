------------------------------ MODULE MovedSongs ------------------------------
(***************************************************************************)
(* Songs moved to a place of their own with the data they share.  Quarth   *)
(* is cut into mapper banks (repack_quarth_banked.py) or complete pages    *)
(* (build_quarth_16k_complete_page.py), Salamander into complete pages     *)
(* (build_salamander_complete_page.py).  A bank holds the common block     *)
(* (song table, descriptors, pointer tables) and the streams of a group of *)
(* songs.  Streams are not parsed: every byte that looks like a command    *)
(* with a target in the group's range is taken for one.                    *)
(*                                                                         *)
(* A byte has Radix values and a word is two, so operands can look like    *)
(* commands.  The engine is external: Heard says how it reads a song.      *)
(***************************************************************************)
EXTENDS Integers, SequencesExt, FiniteSetsExt

CONSTANTS
    Jobs,   \* what may be built: see the MC module
    Radix

CALL == 9    \* the last digits of F9H, FBH, FCH, FDH and FFH
COUNT == 11
REPEAT == 12
JUMP == 13
STOP == 15
VOICE == 8   \* an instrument of the volume table follows
Sentinels == {255, 252}  \* FFFFH, FFCFH

VARIABLES job, pc, common, banks

vars == <<job, pc, common, banks>>

Word(memory, a) == memory[a] + Radix * memory[a + 1]
Put(memory, a, word) == [memory EXCEPT ![a] = word % Radix, ![a + 1] = word \div Radix]
Image == job.image
In(range, a) == range[1] <= a /\ a < range[2]
Salamander == job.builder = "salamander"

\* Commands with a target, and how far behind the command it is.
OperandOf ==
    IF Salamander THEN CALL :> 1 @@ JUMP :> 1 @@ COUNT :> 2 @@ REPEAT :> 2
    ELSE CALL :> 1 @@ JUMP :> 1 @@ REPEAT :> 1

-----------------------------------------------------------------------------
\* The engine (external) reads the song table, a descriptor and its streams.
MaxSteps == 12
Cell(memory, a) == IF a \in DOMAIN memory THEN memory[a] ELSE STOP

Heard(memory, start, voices) ==
    LET step[n \in 0..MaxSteps] ==
          IF n = 0 THEN [at |-> start, notes |-> <<>>, commands |-> {}]
          ELSE LET s == step[n - 1]
                   op == Cell(memory, s.at)
                   jumps == [s EXCEPT !.at = Cell(memory, @ + OperandOf[op])
                                             + Radix * Cell(memory, @ + OperandOf[op] + 1),
                                      !.commands = @ \cup {s.at}]
                   entry == voices + 2 * Cell(memory, s.at + 1)
               IN CASE op \in DOMAIN OperandOf -> jumps
                    [] op = VOICE ->
                         [s EXCEPT !.at = @ + 2,
                                   !.notes = Append(@, Cell(memory, Cell(memory, entry)
                                                 + Radix * Cell(memory, entry + 1)))]
                    [] op = STOP -> s
                    [] OTHER -> [s EXCEPT !.at = @ + 1, !.notes = Append(@, op)]
    IN step[MaxSteps]

Song(memory, table, voices, track) ==
    LET descriptor == Word(memory, table + 2 * track)
    IN [c \in 1..job.channels |->
          LET pointer == Word(memory, descriptor + 2 * c)
          IN IF pointer \in Sentinels THEN [at |-> 0, notes |-> <<>>, commands |-> {}]
             ELSE Heard(memory, pointer, voices)]

Notes(song) == [c \in DOMAIN song |-> song[c].notes]
SourceSong(track) == Song(Image, job.common[1], job.voices, track)

-----------------------------------------------------------------------------
\* The common block and its place; Salamander's stays where it is.
NoPlace == -1
InCommon(a) == In(job.common, a)
CommonAddress(a) == job.base + a - job.common[1]

Tracks == UNION {job.groups[g].tracks : g \in DOMAIN job.groups}
DescriptorOf(track) == Word(Image, job.common[1] + 2 * track)

\* make_common: entries of the tracks in trackinfo and of the pointer tables.
CommonFields ==
    {job.common[1] + 2 * t : t \in Tracks}
    \cup UNION {{t.at + 2 * i : i \in t.first..(t.entries - 1)} : t \in job.tables}

MoveCommon(fields) ==
    LET moved == [a \in CommonAddress(job.common[1])..(CommonAddress(job.common[2]) - 1) |->
                    Image[a - job.base + job.common[1]]]
    IN FoldSet(LAMBDA f, m : Put(m, CommonAddress(f), CommonAddress(Word(Image, f))),
               moved, fields)

-----------------------------------------------------------------------------
\* A group's ranges follow each other from its data address on.
DataStart == IF job.builder = "bank" THEN CommonAddress(job.common[2]) ELSE job.data

Places(group) ==
    FoldLeft(LAMBDA places, r :
               Append(places, [from |-> r[1], to |-> r[2],
                               dest |-> IF places = <<>> THEN DataStart
                                        ELSE Last(places).dest + Last(places).to - Last(places).from]),
             <<>>, <<group.streams>> \o group.extra)

DataAddress(group, a) ==
    LET i == SelectInSeq(Places(group), LAMBDA p : p.from <= a /\ a < p.to)
    IN IF i = 0 THEN NoPlace ELSE Places(group)[i].dest + a - Places(group)[i].from

\* relocate_pointer: the common block comes first, or last in a page.
Relocated(group, a) ==
    IF job.builder = "bank" /\ a \in Sentinels THEN a
    ELSE IF Salamander THEN (IF In(group.streams, a) THEN DataAddress(group, a) ELSE a)
    ELSE IF job.builder = "bank" /\ InCommon(a) THEN CommonAddress(a)
    ELSE IF DataAddress(group, a) # NoPlace THEN DataAddress(group, a)
    ELSE IF InCommon(a) THEN CommonAddress(a) ELSE NoPlace

\* Descriptors end where the next one starts; Salamander's have a fixed size.
DescriptorFields(track) ==
    LET end == IF Salamander THEN DescriptorOf(track) + 2 + 2 * job.channels
               ELSE DescriptorOf(track + 1)
    IN {a \in (DescriptorOf(track) + 2)..(end - 1) : (a - DescriptorOf(track)) % 2 = 0}

\* The volume table, or its entry that points out of the common block, too.
GroupFields(group) ==
    UNION {DescriptorFields(t) : t \in group.tracks} \cup job.outside

\* Commands of a stream range, in order of address.  The bank repacker skips
\* operands it has rewritten; Salamander's reads what it has written.
Skips == job.builder = "bank"

Streams(group, memory) ==
    LET place == Places(group)[1]
        At(a) == place.dest + a - place.from
        Scan(s, a) ==
          LET op == IF Salamander THEN s.memory[At(a)] ELSE Image[a]
              operand == a + OperandOf[op]
              target == IF Salamander THEN Word(s.memory, At(operand)) ELSE Word(Image, operand)
          IN IF \/ a \in s.consumed
                \/ op \notin DOMAIN OperandOf
             THEN s
             ELSE IF operand + 2 > place.to THEN s
             ELSE IF ~In(group.streams, target) THEN s
             ELSE [memory |-> Put(s.memory, At(operand), Relocated(group, target)),
                   consumed |-> IF Skips THEN s.consumed \cup {operand, operand + 1} ELSE {}]
    IN FoldLeft(Scan, [memory |-> memory, consumed |-> {}],
                [i \in 1..(place.to - place.from) |-> place.from + i - 1]).memory

\* make_bank, page_payload: what the engine finds with a group's bank mapped.
CommonPlace(a) == IF Salamander THEN a ELSE CommonAddress(a)

MakeBank(group) ==
    LET data == [a \in UNION {Places(group)[i].dest..(Places(group)[i].dest
                                 + Places(group)[i].to - Places(group)[i].from - 1) :
                              i \in DOMAIN Places(group)} |->
                   LET p == CHOOSE q \in ToSet(Places(group)) :
                              q.dest <= a /\ a < q.dest + q.to - q.from
                   IN Image[p.from + a - p.dest]]
        pointed == FoldSet(LAMBDA f, m : Put(m, CommonPlace(f), Relocated(group, Word(Image, f))),
                           data @@ common, GroupFields(group))
    IN Streams(group, pointed)

\* ValueError
CommonRefused == \E f \in CommonFields : ~InCommon(Word(Image, f))

GroupRefused(group) ==
    \/ \E t \in group.tracks :
         ~Salamander /\ (DescriptorOf(t + 1) - DescriptorOf(t)) \notin {n \in 3..100 : n % 2 = 0}
    \/ \E f \in GroupFields(group) : Relocated(group, Word(Image, f)) = NoPlace
    \/ Last(Places(group)).dest + Last(Places(group)).to - Last(Places(group)).from > job.end

-----------------------------------------------------------------------------
Init == job \in Jobs /\ pc = "common" /\ common = <<>> /\ banks = <<>>

MakeCommon ==
    /\ pc = "common"
    /\ IF Salamander
       THEN common' = [a \in job.common[1]..(job.common[2] - 1) |-> Image[a]] /\ pc' = "banks"
       ELSE IF CommonRefused THEN pc' = "refused" /\ UNCHANGED common
       ELSE common' = MoveCommon(CommonFields) /\ pc' = "banks"
    /\ UNCHANGED <<job, banks>>

NextBank ==
    /\ pc = "banks"
    /\ LET group == job.groups[Len(banks) + 1]
       IN IF GroupRefused(group) THEN pc' = "refused" /\ UNCHANGED banks
          ELSE /\ banks' = Append(banks, MakeBank(group))
               /\ pc' = IF Len(banks') = Len(job.groups) THEN "written" ELSE pc
    /\ UNCHANGED <<job, common>>

Stopped == pc \in {"written", "refused"} /\ UNCHANGED vars

Next == MakeCommon \/ NextBank \/ Stopped

Spec == Init /\ [][Next]_vars

\* make_tail's selector compares with the first track behind each bank; a page
\* is found in the map of songs.
MutSelected(track) ==
    IF job.builder = "bank"
    THEN IF track <= Max(job.groups[1].tracks) + 1 THEN 1 ELSE 2
    ELSE CHOOSE g \in DOMAIN job.groups : track \in job.groups[g].tracks
Selected(track) ==
    IF job.builder = "bank"
    THEN IF track < job.split[1] THEN 1 ELSE IF track < job.split[2] THEN 2 ELSE 1
    ELSE CHOOSE g \in DOMAIN job.groups : track \in job.groups[g].tracks

-----------------------------------------------------------------------------
\* Properties.

Commands(track) == UNION {SourceSong(track)[c].commands : c \in 1..job.channels}
GroupCommands(group) == UNION {Commands(t) : t \in group.tracks}

\* Music in which nothing but a command looks like one.  The bank repacker
\* need not care for operands it rewrites.
Plain(group) ==
    \A a \in group.streams[1]..(group.streams[2] - 3) :
        Image[a] \in DOMAIN OperandOf =>
            \/ a \in GroupCommands(group)
            \/ /\ job.builder = "bank"
               /\ \E c \in GroupCommands(group) :
                    a \in {c + 1, c + 2} /\ In(group.streams, Word(Image, c + 1))
            \/ ~In(group.streams, Word(Image, a + OperandOf[Image[a]]))

\* "No F9/FC/FD stream target crosses one of these boundaries."
Closed(group) ==
    \A c \in GroupCommands(group) : In(group.streams, Word(Image, c + OperandOf[Image[c]]))

\* The bank the selector maps plays each of its songs as the game does: table,
\* descriptors, volumes and stream targets all lead into that bank.
BankPlaysSong ==
    pc = "written" /\ (\A g \in DOMAIN job.groups :
                         Plain(job.groups[g]) /\ Closed(job.groups[g])) =>
        \A t \in Tracks :
            Notes(Song(banks[Selected(t)], CommonPlace(job.common[1]), CommonPlace(job.voices), t))
                = Notes(SourceSong(t))
=============================================================================
