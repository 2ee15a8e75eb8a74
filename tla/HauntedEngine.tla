----------------------------- MODULE HauntedEngine -----------------------------
(***************************************************************************)
(* The wrapper build_haunted_castle_full_ksp_v2.py assembles around the    *)
(* arcade driver: INIT and STOP, and the gateways that replace its access  *)
(* to the K007232.  A gateway writes registers through two ports and keeps *)
(* what the two channels share (volumes, loop flags, banks) in the         *)
(* driver's shadow bytes.  The driver itself is external: it calls the     *)
(* gateways in any order its sequences ask for.  Before that, the script   *)
(* writes the .ksp file from which a song is loaded, and reads it back.    *)
(***************************************************************************)
EXTENDS Integers, SequencesExt, FiniteSetsExt

CONSTANTS
    Addresses,    \* <<high, middle, low>> bytes of a sample's address
    Frequencies,  \* <<high, low>> bytes
    Banks,        \* in 0..3
    Volumes,      \* in 0..15
    SongCount     \* bound for 21

Channels == {0, 1}
NoWindow == 255
BANK == 16     \* pseudo-register 10H
VOLUME == 12
LOOP == 13
Registers == 0..LOOP \cup {BANK}
HeaderSize == 1    \* cells of the KSSX header
Opaque == 254      \* a cell whose value does not matter here

VARIABLES
    file,      \* the .ksp: cells and directory
    pc,        \* "build", "validate", "refused", "stopped", "loaded", "ready"
    window,    \* the byte at SONG_WINDOW
    wanted,    \* the song the player asked for
    command,   \* last command given to the driver
    shadow,    \* 8315H volumes, 8316H loop flags, 8317H banks
    registers, \* of the sample chip
    fm,        \* FM channels whose key is on
    scc,       \* the SCC's key mask
    started    \* channels that have had a sample in this song

vars == <<file, pc, window, wanted, command, shadow, registers, fm, scc, started>>

AndByte(byte, low) == IF low THEN byte % 16 ELSE 16 * (byte \div 16)
Base(c, first) == first + 6 * c
NoShadow == [volume |-> 0, loop |-> 0, bank |-> 0]

\* k7_write_bc: a register is selected, then written.
Write(chip, register, byte) == [chip EXCEPT ![register] = byte]

-----------------------------------------------------------------------------
\* The .ksp file.

Chunk(type, id, data) == [type |-> type, id |-> id, data |-> data]

\* The chunks main lists; the sample ROM and the texts are opaque.
Chunks ==
    <<Chunk("ENGN", 0, <<Opaque, Opaque>>), Chunk("EDES", 0, <<Opaque>>)>>
    \o [i \in 1..SongCount |-> Chunk("SONG", i - 1, <<i - 1>>)]
    \o <<Chunk("K7RM", 0, <<Opaque, Opaque>>), Chunk("HMAP", 0, <<Opaque>>),
         Chunk("META", 0, <<Opaque>>), Chunk("SYMB", 0, <<Opaque>>)>>

\* write_ksp: data behind the header, entries at a running cursor.  A checksum
\* is the data it is taken of.
Payload(chunks) ==
    [i \in 1..HeaderSize |-> Opaque] \o FlattenSeq([i \in DOMAIN chunks |-> chunks[i].data])
Cursor(chunks, i) == Len(Payload(SubSeq(chunks, 1, i - 1)))

Write_ksp(chunks) ==
    [cells |-> Payload(chunks),
     directory |-> [i \in DOMAIN chunks |->
                      [type |-> chunks[i].type, id |-> chunks[i].id,
                       at |-> Cursor(chunks, i), size |-> Len(chunks[i].data),
                       crc |-> chunks[i].data]]]

Slice(f, e) == SubSeq(f.cells, e.at + 1, e.at + e.size)
Keys(f) == {<<e.type, e.id>> : e \in ToSet(f.directory)}

\* validate_ksp
Valid(f) ==
    /\ Cardinality(Keys(f)) = Len(f.directory)
    /\ \A e \in ToSet(f.directory) : Slice(f, e) = e.crc
    /\ {<<"ENGN", 0>>, <<"EDES", 0>>} \subseteq Keys(f)
    /\ \E k \in Keys(f) : k[1] = "SONG"

\* The SONG chunk of a song, one cell.
SongCell(s) ==
    Slice(file, CHOOSE e \in ToSet(file.directory) : e.type = "SONG" /\ e.id = s)[1]

\* A frequency is what the chip had when the program was loaded.
Init ==
    /\ file = <<>> /\ pc = "build"
    /\ window = NoWindow /\ wanted = 0
    /\ command = 0 /\ shadow = NoShadow /\ fm = {} /\ scc = 0 /\ started = {}
    /\ registers \in {[r \in Registers |->
                         IF r \in {0, 6} THEN f[2] ELSE IF r \in {1, 7} THEN f[1] ELSE 0] :
                        f \in Frequencies}

\* main, which refuses ROMs it does not know.
Build ==
    /\ pc = "build"
    /\ \/ file' = Write_ksp(Chunks) /\ pc' = "validate"
       \/ pc' = "refused" /\ UNCHANGED file
    /\ UNCHANGED <<window, wanted, command, shadow, registers, fm, scc, started>>

Validate ==
    /\ pc = "validate"
    /\ pc' = IF Valid(file) THEN "stopped" ELSE "refused"
    /\ UNCHANGED <<file, window, wanted, command, shadow, registers, fm, scc, started>>

Refused == pc = "refused" /\ UNCHANGED vars

\* The engine image with the song's cell in the window, or, as materialize_kss
\* writes the standalone file, with none.
Load ==
    /\ pc = "stopped"
    /\ \E s \in 0..(SongCount - 1) : wanted' = s /\ window' \in {SongCell(s), NoWindow}
    /\ pc' = "loaded" /\ shadow' = NoShadow
    /\ UNCHANGED <<file, command, registers, fm, scc, started>>

\* INIT with the song in A too; the driver clears its memory, loop flags and
\* volumes, and is given the command of the song.
SongOf(a) ==
    IF window < SongCount THEN window ELSE IF a < SongCount THEN a ELSE 0

InitSong ==
    /\ pc = "loaded"
    /\ command' = 80 + SongOf(wanted)
    /\ shadow' = NoShadow
    /\ registers' = Write(Write(registers, LOOP, 0), VOLUME, 0)
    /\ started' = {}
    /\ pc' = "ready"
    /\ UNCHANGED <<file, window, wanted, fm, scc>>

-----------------------------------------------------------------------------
\* k7_start: DE and C are the address, B the bank.
MutNewBank(c, bank) ==
    IF c = 0 THEN 4 * ((shadow.bank \div 4) % 4) + bank ELSE (shadow.bank % 4) + 2 * bank
NewBank(c, bank) ==
    IF c = 0 THEN 4 * ((shadow.bank \div 4) % 4) + bank ELSE (shadow.bank % 4) + 4 * bank

Start(c, address, bank) ==
    /\ pc = "ready"
    /\ shadow' = [shadow EXCEPT !.bank = NewBank(c, bank)]
    /\ LET low == Write(registers, Base(c, 2), address[3])
           middle == Write(low, Base(c, 3), address[2])
           high == Write(middle, Base(c, 4), address[1])
       IN registers' = Write(high, BANK, NewBank(c, bank))
    /\ started' = started \cup {c}
    /\ UNCHANGED <<file, pc, window, wanted, command, fm, scc>>

\* k7_frequency
Frequency(c, f) ==
    /\ pc = "ready"
    /\ registers' = Write(Write(registers, Base(c, 0), f[2]), Base(c, 1), f[1])
    /\ UNCHANGED <<file, pc, window, wanted, command, shadow, fm, scc, started>>

\* k7_volume writes the register twice, as the driver did.
NewVolume(c, v) ==
    IF c = 0 THEN AndByte(shadow.volume, TRUE) + 16 * v ELSE AndByte(shadow.volume, FALSE) + v

Volume(c, v) ==
    /\ pc = "ready"
    /\ shadow' = [shadow EXCEPT !.volume = NewVolume(c, v)]
    /\ registers' = Write(Write(registers, VOLUME, NewVolume(c, v)), VOLUME, NewVolume(c, v))
    /\ UNCHANGED <<file, pc, window, wanted, command, fm, scc, started>>

\* k7_channel_stop keeps the other channel's loop flag.
ChannelStop(c) ==
    /\ pc = "ready"
    /\ shadow' = [shadow EXCEPT !.loop = IF c = 0 THEN 2 * ((@ \div 2) % 2) ELSE @ % 2]
    /\ registers' = Write(registers, LOOP, shadow'.loop)
    /\ UNCHANGED <<file, pc, window, wanted, command, fm, scc, started>>

\* The driver's writes to the FM and SCC chips.
Note ==
    /\ pc = "ready"
    /\ \/ fm' \in {{}, {8}} /\ UNCHANGED scc
       \/ scc' \in {0, 31} /\ UNCHANGED fm
    /\ UNCHANGED <<file, pc, window, wanted, command, shadow, registers, started>>

\* STOP: the SCC's mask, FM registers B0H to B8H and the loop flags.
Stop ==
    /\ pc = "ready"
    /\ scc' = 0 /\ fm' = fm \ {r - 176 : r \in 176..184}
    /\ registers' = Write(registers, LOOP, 0)
    /\ pc' = "stopped"
    /\ UNCHANGED <<file, window, wanted, command, shadow, started>>

Next ==
    \/ Build \/ Validate \/ Refused \/ Load \/ InitSong \/ Note \/ Stop
    \/ \E c \in Channels :
         \/ \E a \in Addresses, b \in Banks : Start(c, a, b)
         \/ \E f \in Frequencies : Frequency(c, f)
         \/ \E v \in Volumes : Volume(c, v)
         \/ ChannelStop(c)

Spec == Init /\ [][Next]_vars

-----------------------------------------------------------------------------
\* Properties.

\* The chip's shared registers, read back by channel.
Field(byte, c, size, high) == IF c = high THEN (byte \div size) % size ELSE byte % size

Chip ==
    INSTANCE PcmChannels WITH
        song <- IF command = 0 THEN -1 ELSE command - 80,
        channel <-
          [c \in Channels |->
             [sample |-> IF c \in started
                         THEN <<registers[Base(c, 4)], registers[Base(c, 3)], registers[Base(c, 2)]>>
                         ELSE -1,
              bank |-> IF c \in started THEN Field(registers[BANK], c, 4, 1) ELSE -1,
              frequency |-> <<registers[Base(c, 1)], registers[Base(c, 0)]>>,
              volume |-> Field(registers[VOLUME], c, 16, 0)]]

\* Through ports and shadow bytes the two channels stay apart: a step changes
\* one channel's sample and bank, frequency or volume and nothing of the other
\* channel's, also after STOP, another song and INIT; and the song that plays is
\* the one the player asked for, whether its number comes from the file's SONG
\* chunk or in A.
PlaysAsAsked == Chip!Spec /\ [](pc = "ready" => command = 80 + wanted)
=============================================================================
