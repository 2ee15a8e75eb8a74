------------------------- MODULE HauntedEngine_proofs -------------------------
(***************************************************************************)
(* The assembled wrapper implements PcmChannels: for every set of sample   *)
(* addresses, frequencies, banks and volumes the chip can be given, and    *)
(* however its driver calls the gateways, plays, stops and changes songs.  *)
(***************************************************************************)
EXTENDS HauntedEngine, SequenceTheorems, TLAPS

\* What the gateways are given fits the chip's registers, and a song number
\* is never the byte of an empty window.
Sane ==
    /\ \A a \in Addresses : a = <<a[1], a[2], a[3]>>
    /\ \A f \in Frequencies : f = <<f[1], f[2]>>
    /\ Banks \subseteq 0..3 /\ Volumes \subseteq 0..15
    /\ SongCount \in 1..NoWindow

-----------------------------------------------------------------------------
\* The inductive invariant, by what it is about.

States == {"build", "validate", "refused", "stopped", "loaded", "ready"}

Types ==
    /\ pc \in States
    /\ DOMAIN registers = Registers /\ registers = [r \in Registers |-> registers[r]]
    /\ shadow \in [volume : 0..255, loop : Nat, bank : 0..15]
    /\ wanted \in 0..(SongCount - 1)
    /\ started \subseteq Channels

\* The file is the one write_ksp wrote, and it is only played once it is valid.
FileInv ==
    /\ pc \in {"validate", "stopped", "loaded", "ready"} => file = Write_ksp(Chunks)
    /\ pc \in {"stopped", "loaded", "ready"} => Valid(file)

\* The window is empty or holds the song that was asked for.
WindowInv == pc = "loaded" => window \in {wanted, NoWindow}

\* While the driver runs, the shared registers are its shadow bytes.
ShadowInv ==
    pc = "ready" =>
        /\ registers[VOLUME] = shadow.volume
        /\ started # {} => registers[BANK] = shadow.bank

SongInv == pc = "ready" => command = 80 + wanted

Inv == Types /\ FileInv /\ WindowInv /\ ShadowInv /\ SongInv

-----------------------------------------------------------------------------
\* The song chunk of a song is found, and holds the song's number: a file that
\* passed validate_ksp has the bytes each checksum was taken of.
LEMMA FunctionIsSeq ==
    ASSUME NEW S, NEW n \in Nat, NEW f \in [1..n -> S]
    PROVE  f \in Seq(S) /\ Len(f) = n
OBVIOUS

\* The elements of three sequences in one.
LEMMA ConcatThree ==
    ASSUME NEW S, NEW x \in Seq(S), NEW y \in Seq(S), NEW z \in Seq(S),
           NEW all, all = x \o y \o z
    PROVE  /\ DOMAIN all = 1..(Len(x) + Len(y) + Len(z))
           /\ \A i \in 1..Len(x) : all[i] = x[i]
           /\ \A i \in 1..Len(y) : all[Len(x) + i] = y[i]
           /\ \A i \in 1..Len(z) : all[Len(x) + Len(y) + i] = z[i]
<1>1. Len(x) \in Nat /\ Len(y) \in Nat /\ Len(z) \in Nat
  OBVIOUS
<1>2. x \o y \in Seq(S) /\ Len(x \o y) = Len(x) + Len(y)
      /\ \A i \in 1..(Len(x) + Len(y)) :
           (x \o y)[i] = IF i <= Len(x) THEN x[i] ELSE y[i - Len(x)]
  BY ConcatProperties
<1>3. PICK w \in Seq(S) : w = x \o y
  BY <1>2
<1>4. w \o z \in Seq(S) /\ Len(w \o z) = Len(w) + Len(z)
      /\ \A i \in 1..(Len(w) + Len(z)) :
           (w \o z)[i] = IF i <= Len(w) THEN w[i] ELSE z[i - Len(w)]
  BY ConcatProperties
<1> QED
  BY <1>1, <1>2, <1>3, <1>4

LEMMA SongIsFound ==
    ASSUME Sane, NEW s \in 0..(SongCount - 1)
    PROVE  /\ DOMAIN Chunks = 1..(6 + SongCount)
           /\ Chunks[s + 3] = Chunk("SONG", s, <<s>>)
           /\ \A i \in DOMAIN Chunks :
                Chunks[i].type = "SONG" => Chunks[i].data = <<Chunks[i].id>>
<1>1. SongCount \in Nat /\ SongCount >= 1
  BY DEF Sane, NoWindow
<1>2. PICK front : front = <<Chunk("ENGN", 0, <<Opaque, Opaque>>), Chunk("EDES", 0, <<Opaque>>)>>
  OBVIOUS
<1>3. PICK songs : songs = [i \in 1..SongCount |-> Chunk("SONG", i - 1, <<i - 1>>)]
  OBVIOUS
<1>4. PICK back : back = <<Chunk("K7RM", 0, <<Opaque, Opaque>>), Chunk("HMAP", 0, <<Opaque>>),
                           Chunk("META", 0, <<Opaque>>), Chunk("SYMB", 0, <<Opaque>>)>>
  OBVIOUS
<1>5. PICK Parts : Parts = {front[i] : i \in 1..2} \cup {songs[i] : i \in 1..SongCount}
                       \cup {back[i] : i \in 1..4}
  OBVIOUS
<1>6. front \in Seq(Parts) /\ Len(front) = 2
  <2>1. front \in [1..2 -> Parts]
    BY <1>2, <1>5
  <2> QED
    BY <2>1, FunctionIsSeq
<1>7. songs \in Seq(Parts) /\ Len(songs) = SongCount
  <2>1. songs \in [1..SongCount -> Parts]
    BY <1>3, <1>5
  <2> QED
    BY <1>1, <2>1, FunctionIsSeq
<1>8. back \in Seq(Parts) /\ Len(back) = 4
  <2>1. back \in [1..4 -> Parts]
    BY <1>4, <1>5
  <2> QED
    BY <2>1, FunctionIsSeq
<1>9. Chunks = front \o songs \o back
  BY <1>2, <1>3, <1>4 DEF Chunks
<1>10. /\ DOMAIN Chunks = 1..(Len(front) + Len(songs) + Len(back))
       /\ \A i \in 1..Len(front) : Chunks[i] = front[i]
       /\ \A i \in 1..Len(songs) : Chunks[Len(front) + i] = songs[i]
       /\ \A i \in 1..Len(back) : Chunks[Len(front) + Len(songs) + i] = back[i]
  <2>1. PICK all : all = front \o songs \o back
    OBVIOUS
  <2>2. /\ DOMAIN all = 1..(Len(front) + Len(songs) + Len(back))
        /\ \A i \in 1..Len(front) : all[i] = front[i]
        /\ \A i \in 1..Len(songs) : all[Len(front) + i] = songs[i]
        /\ \A i \in 1..Len(back) : all[Len(front) + Len(songs) + i] = back[i]
    <3>1. front \in Seq(Parts) /\ songs \in Seq(Parts) /\ back \in Seq(Parts)
      BY <1>6, <1>7, <1>8
    <3> QED
      BY <2>1, <3>1, ConcatThree
  <2> QED
    BY <1>9, <2>1, <2>2
<1>11. DOMAIN Chunks = 1..(6 + SongCount)
  BY <1>1, <1>6, <1>7, <1>8, <1>10
<1>12. /\ \A i \in 1..2 : Chunks[i] = front[i]
       /\ \A i \in 1..SongCount : Chunks[2 + i] = songs[i]
       /\ \A i \in 1..4 : Chunks[2 + SongCount + i] = back[i]
  BY <1>1, <1>6, <1>7, <1>8, <1>10
<1>13. \A i \in 1..2 : front[i].type # "SONG"
  BY <1>2 DEF Chunk
<1>14. \A i \in 1..4 : back[i].type # "SONG"
  BY <1>4 DEF Chunk
<1>15. \A i \in 1..SongCount : songs[i] = Chunk("SONG", i - 1, <<i - 1>>)
  BY <1>3
<1>16. Chunks[s + 3] = Chunk("SONG", s, <<s>>)
  <2>1. s + 1 \in 1..SongCount /\ 2 + (s + 1) = s + 3 /\ (s + 1) - 1 = s
    BY <1>1
  <2> QED
    BY <1>12, <1>15, <2>1
<1>17. ASSUME NEW i \in 1..(6 + SongCount), Chunks[i].type = "SONG"
       PROVE  Chunks[i].data = <<Chunks[i].id>>
  <2>1. CASE i \in 1..2
    BY <1>12, <1>13, <1>17, <2>1
  <2>2. CASE i - 2 \in 1..SongCount
    <3>1. Chunks[i] = Chunk("SONG", (i - 2) - 1, <<(i - 2) - 1>>)
      <4>1. 2 + (i - 2) = i
        OBVIOUS
      <4> QED
        BY <1>12, <1>15, <2>2, <4>1
    <3> QED
      BY <3>1 DEF Chunk
  <2>3. CASE i > 2 + SongCount
    <3>1. PICK k \in 1..4 : i = 2 + SongCount + k
      <4>1. i - 2 - SongCount \in 1..4 /\ i = 2 + SongCount + (i - 2 - SongCount)
        BY <1>1, <2>3
      <4> QED
        BY <4>1
    <3>2. Chunks[i] = back[k]
      BY <1>1, <1>12, <3>1
    <3> QED
      BY <1>14, <1>17, <3>2
  <2> QED
    BY <1>1, <2>1, <2>2, <2>3
<1> QED
  BY <1>11, <1>16, <1>17

LEMMA SongCellIsSong ==
    ASSUME Sane, NEW s \in 0..(SongCount - 1), file = Write_ksp(Chunks), Valid(file)
    PROVE  SongCell(s) = s
<1> DEFINE found(e) == e \in ToSet(file.directory) /\ e.type = "SONG" /\ e.id = s
           d == file.directory
<1>1. DOMAIN d = 1..(6 + SongCount)
  BY SongIsFound DEF Write_ksp
<1>2. \A i \in 1..(6 + SongCount) :
        d[i].type = Chunks[i].type /\ d[i].id = Chunks[i].id /\ d[i].crc = Chunks[i].data
  BY SongIsFound DEF Write_ksp
<1>3. ToSet(d) = {d[i] : i \in 1..(6 + SongCount)}
  BY <1>1 DEF ToSet
<1> HIDE DEF d
<1>4. s + 3 \in 1..(6 + SongCount)
  BY DEF Sane, NoWindow
<1>5. found(d[s + 3])
  <2>1. Chunks[s + 3].type = "SONG" /\ Chunks[s + 3].id = s
    <3>1. Chunks[s + 3] = Chunk("SONG", s, <<s>>)
      BY SongIsFound
    <3> QED
      BY <3>1 DEF Chunk
  <2> QED
    BY <1>2, <1>3, <1>4, <2>1 DEF d
<1>6. PICK e : e = CHOOSE x \in ToSet(file.directory) : x.type = "SONG" /\ x.id = s
  OBVIOUS
<1>7. found(e)
  BY <1>5, <1>6
<1>8. e.crc = <<s>>
  <2>1. PICK i \in 1..(6 + SongCount) : e = d[i]
    BY <1>3, <1>7 DEF d
  <2>2. Chunks[i].data = <<Chunks[i].id>>
    BY <1>2, <1>7, <2>1, SongIsFound
  <2> QED
    BY <1>2, <1>7, <2>1, <2>2
<1>9. Slice(file, e) = e.crc
  BY <1>7 DEF Valid
<1> QED
  BY <1>6, <1>8, <1>9 DEF SongCell

-----------------------------------------------------------------------------
\* The registers after a write, and what the shared bytes keep of the channel
\* that is not written.
LEMMA WriteChanges ==
    ASSUME NEW chip, DOMAIN chip = Registers, chip = [r \in Registers |-> chip[r]],
           NEW register \in Registers, NEW byte
    PROVE  /\ DOMAIN Write(chip, register, byte) = Registers
           /\ Write(chip, register, byte) = [r \in Registers |-> Write(chip, register, byte)[r]]
           /\ \A r \in Registers :
                Write(chip, register, byte)[r] = IF r = register THEN byte ELSE chip[r]
BY DEF Write

LEMMA RegistersApart ==
    ASSUME NEW c \in Channels
    PROVE  /\ \A n \in {0, 1, 2, 3, 4} : Base(c, n) \in Registers \ {VOLUME, LOOP, BANK}
           /\ \A d \in Channels, m, n \in {0, 1, 2, 3, 4} :
                Base(c, m) = Base(d, n) => c = d /\ m = n
           /\ {VOLUME, LOOP, BANK} \subseteq Registers
           /\ VOLUME # LOOP /\ VOLUME # BANK /\ LOOP # BANK
BY DEF Channels, Base, Registers, VOLUME, LOOP, BANK

LEMMA BankFields ==
    ASSUME NEW c \in Channels, NEW b \in 0..3, shadow.bank \in 0..15
    PROVE  /\ NewBank(c, b) \in 0..15
           /\ Field(NewBank(c, b), c, 4, 1) = b
           /\ \A d \in Channels \ {c} :
                Field(NewBank(c, b), d, 4, 1) = Field(shadow.bank, d, 4, 1)
<1> DEFINE old == shadow.bank
<1>1. CASE c = 0
  BY <1>1 DEF Channels, NewBank, Field
<1>2. CASE c = 1
  BY <1>2 DEF Channels, NewBank, Field
<1> QED
  BY <1>1, <1>2 DEF Channels

LEMMA VolumeFields ==
    ASSUME NEW c \in Channels, NEW v \in 0..15, shadow.volume \in 0..255
    PROVE  /\ NewVolume(c, v) \in 0..255
           /\ Field(NewVolume(c, v), c, 16, 0) = v
           /\ \A d \in Channels \ {c} :
                Field(NewVolume(c, v), d, 16, 0) = Field(shadow.volume, d, 16, 0)
<1>1. PICK old \in 0..255 : old = shadow.volume
  OBVIOUS
<1>2. CASE c = 0
  <2>1. NewVolume(c, v) = (old % 16) + 16 * v
    BY <1>1, <1>2 DEF NewVolume, AndByte
  <2>2. (old % 16) + 16 * v \in 0..255 /\ ((old % 16) + 16 * v) % 16 = old % 16
        /\ (((old % 16) + 16 * v) \div 16) % 16 = v
    OBVIOUS
  <2> QED
    BY <1>1, <1>2, <2>1, <2>2 DEF Channels, Field
<1>3. CASE c = 1
  <2>1. NewVolume(c, v) = 16 * (old \div 16) + v
    BY <1>1, <1>3 DEF NewVolume, AndByte
  <2>2. 16 * (old \div 16) + v \in 0..255 /\ (16 * (old \div 16) + v) % 16 = v
        /\ ((16 * (old \div 16) + v) \div 16) % 16 = (old \div 16) % 16
    OBVIOUS
  <2> QED
    BY <1>1, <1>3, <2>1, <2>2 DEF Channels, Field
<1> QED
  BY <1>2, <1>3 DEF Channels

-----------------------------------------------------------------------------
\* What a channel sounds like: PcmChannels' state, read from the registers.
Heard(c) ==
    [sample |-> IF c \in started
                THEN <<registers[Base(c, 4)], registers[Base(c, 3)], registers[Base(c, 2)]>>
                ELSE -1,
     bank |-> IF c \in started THEN Field(registers[BANK], c, 4, 1) ELSE -1,
     frequency |-> <<registers[Base(c, 1)], registers[Base(c, 0)]>>,
     volume |-> Field(registers[VOLUME], c, 16, 0)]

LEMMA StartHeard ==
    ASSUME Sane, Inv, NEW c \in Channels, NEW a \in Addresses, NEW b \in Banks, Start(c, a, b)
    PROVE  /\ Inv'
           /\ Heard(c)' = [sample |-> a, bank |-> b,
                        frequency |-> Heard(c).frequency, volume |-> Heard(c).volume]
           /\ \A d \in Channels \ {c} : Heard(d)' = Heard(d)
           /\ command' = command
<1> DEFINE low == Write(registers, Base(c, 2), a[3])
           middle == Write(low, Base(c, 3), a[2])
           high == Write(middle, Base(c, 4), a[1])
           bank == NewBank(c, b)
<1>1. pc = "ready" /\ registers' = Write(high, BANK, bank)
      /\ shadow' = [shadow EXCEPT !.bank = bank] /\ started' = started \cup {c}
      /\ UNCHANGED <<file, pc, window, wanted, command, fm, scc>>
  BY DEF Start
<1>2. \A n \in {0, 1, 2, 3, 4} : Base(c, n) \in Registers \ {VOLUME, LOOP, BANK}
  BY RegistersApart
<1>3. DOMAIN low = Registers /\ low = [r \in Registers |-> low[r]]
      /\ \A r \in Registers : low[r] = IF r = Base(c, 2) THEN a[3] ELSE registers[r]
  BY <1>2, WriteChanges DEF Inv, Types
<1> HIDE DEF low
<1>4. DOMAIN middle = Registers /\ middle = [r \in Registers |-> middle[r]]
      /\ \A r \in Registers : middle[r] = IF r = Base(c, 3) THEN a[2] ELSE low[r]
  BY <1>2, <1>3, WriteChanges
<1> HIDE DEF middle
<1>5. DOMAIN high = Registers /\ high = [r \in Registers |-> high[r]]
      /\ \A r \in Registers : high[r] = IF r = Base(c, 4) THEN a[1] ELSE middle[r]
  BY <1>2, <1>4, WriteChanges
<1> HIDE DEF high, bank
<1>6. BANK \in Registers /\ VOLUME \in Registers /\ VOLUME # BANK
  BY RegistersApart
<1>7. DOMAIN registers' = Registers /\ registers' = [r \in Registers |-> registers'[r]]
      /\ \A r \in Registers : registers'[r] = IF r = BANK THEN bank ELSE high[r]
  BY <1>1, <1>5, <1>6, WriteChanges
<1>8. /\ bank \in 0..15 /\ Field(bank, c, 4, 1) = b
      /\ \A d \in Channels \ {c} : Field(bank, d, 4, 1) = Field(shadow.bank, d, 4, 1)
  BY BankFields DEF Inv, Types, Sane, bank
<1>9. /\ registers'[Base(c, 4)] = a[1] /\ registers'[Base(c, 3)] = a[2]
      /\ registers'[Base(c, 2)] = a[3]
      /\ registers'[Base(c, 1)] = registers[Base(c, 1)]
      /\ registers'[Base(c, 0)] = registers[Base(c, 0)]
      /\ registers'[BANK] = bank /\ registers'[VOLUME] = registers[VOLUME]
  BY <1>2, <1>3, <1>4, <1>5, <1>6, <1>7, RegistersApart
<1>10. ASSUME NEW d \in Channels \ {c}, NEW n \in {0, 1, 2, 3, 4}
       PROVE  registers'[Base(d, n)] = registers[Base(d, n)]
  <2>1. Base(d, n) \in Registers \ {VOLUME, LOOP, BANK}
        /\ \A m \in {0, 1, 2, 3, 4} : Base(d, n) # Base(c, m)
    BY RegistersApart
  <2> QED
    BY <1>3, <1>4, <1>5, <1>7, <2>1
<1>11. Inv'
  <2>1. Types'
    BY <1>1, <1>7, <1>8 DEF Inv, Types
  <2>2. FileInv' /\ WindowInv' /\ SongInv'
    BY <1>1 DEF Inv, FileInv, WindowInv, SongInv, Valid, Keys, Slice
  <2>3. ShadowInv'
    BY <1>1, <1>9 DEF Inv, Types, ShadowInv
  <2> QED
    BY <2>1, <2>2, <2>3 DEF Inv
<1>12. Heard(c)' = [sample |-> a, bank |-> b,
                        frequency |-> Heard(c).frequency, volume |-> Heard(c).volume]
  <2>1. a = <<a[1], a[2], a[3]>>
    BY DEF Sane
  <2>2. Heard(c)' = [sample |-> <<a[1], a[2], a[3]>>, bank |-> b,
                     frequency |-> <<registers[Base(c, 1)], registers[Base(c, 0)]>>,
                     volume |-> Field(registers[VOLUME], c, 16, 0)]
    BY <1>1, <1>8, <1>9 DEF Heard
  <2> QED
    BY <2>1, <2>2 DEF Heard
<1>13. ASSUME NEW d \in Channels \ {c}
       PROVE  Heard(d)' = Heard(d)
  <2>1. d \in started' <=> d \in started
    BY <1>1
  <2>2. d \in started => Field(registers[BANK], d, 4, 1) = Field(registers'[BANK], d, 4, 1)
    BY <1>1, <1>8, <1>9 DEF Inv, ShadowInv
  <2> QED
    BY <1>9, <1>10, <2>1, <2>2 DEF Heard
<1> QED
  BY <1>1, <1>11, <1>12, <1>13

\* The abstract step of a channel that gets a sample.
LEMMA StartStep ==
    ASSUME Sane, Inv, NEW c \in Channels, NEW a \in Addresses, NEW b \in Banks, Start(c, a, b)
    PROVE  Chip!Start(c)
<1> DEFINE channel == [d \in Channels |-> Heard(d)]
<1>1. command' = command
  BY StartHeard
<1>2. channel' = [channel EXCEPT ![c] =
                   [sample |-> a, bank |-> b, frequency |-> @.frequency, volume |-> @.volume]]
  <2>1. channel' = [d \in Channels |-> Heard(d)']
    OBVIOUS
  <2> QED
    BY <2>1, StartHeard
<1> QED
  BY <1>1, <1>2 DEF Chip!Start, Heard

\* A pitch and a volume, and a channel that stops: nothing else is heard.
LEMMA FrequencyStep ==
    ASSUME Sane, Inv, NEW c \in Channels, NEW f \in Frequencies, Frequency(c, f)
    PROVE  Inv' /\ Chip!Frequency(c)
<1> DEFINE channel == [d \in Channels |-> Heard(d)]
           low == Write(registers, Base(c, 0), f[2])
<1>1. pc = "ready" /\ registers' = Write(low, Base(c, 1), f[1])
      /\ UNCHANGED <<file, pc, window, wanted, command, shadow, fm, scc, started>>
  BY DEF Frequency
<1>2. \A n \in {0, 1, 2, 3, 4} : Base(c, n) \in Registers \ {VOLUME, LOOP, BANK}
  BY RegistersApart
<1>3. DOMAIN low = Registers /\ low = [r \in Registers |-> low[r]]
      /\ \A r \in Registers : low[r] = IF r = Base(c, 0) THEN f[2] ELSE registers[r]
  BY <1>2, WriteChanges DEF Inv, Types
<1> HIDE DEF low
<1>4. DOMAIN registers' = Registers /\ registers' = [r \in Registers |-> registers'[r]]
      /\ \A r \in Registers : registers'[r] = IF r = Base(c, 1) THEN f[1] ELSE low[r]
  BY <1>1, <1>2, <1>3, WriteChanges
<1>5. /\ registers'[Base(c, 0)] = f[2] /\ registers'[Base(c, 1)] = f[1]
      /\ \A n \in {2, 3, 4} : registers'[Base(c, n)] = registers[Base(c, n)]
      /\ registers'[BANK] = registers[BANK] /\ registers'[VOLUME] = registers[VOLUME]
  BY <1>2, <1>3, <1>4, RegistersApart
<1>6. ASSUME NEW d \in Channels \ {c}, NEW n \in {0, 1, 2, 3, 4}
      PROVE  registers'[Base(d, n)] = registers[Base(d, n)]
  <2>1. Base(d, n) \in Registers /\ \A m \in {0, 1, 2, 3, 4} : Base(d, n) # Base(c, m)
    BY RegistersApart
  <2> QED
    BY <1>3, <1>4, <2>1
<1>7. Inv'
  <2>1. Types'
    BY <1>1, <1>4 DEF Inv, Types
  <2>2. FileInv' /\ WindowInv' /\ SongInv'
    BY <1>1 DEF Inv, FileInv, WindowInv, SongInv, Valid, Keys, Slice
  <2>3. ShadowInv'
    BY <1>1, <1>5 DEF Inv, ShadowInv
  <2> QED
    BY <2>1, <2>2, <2>3 DEF Inv
<1>8. Heard(c)' = [Heard(c) EXCEPT !.frequency = f]
  <2>1. f = <<f[1], f[2]>>
    BY DEF Sane
  <2> QED
    BY <1>1, <1>5, <2>1 DEF Heard
<1>9. \A d \in Channels \ {c} : Heard(d)' = Heard(d)
  BY <1>1, <1>5, <1>6 DEF Heard
<1>10. channel' = [channel EXCEPT ![c].frequency = f]
  <2>1. channel' = [d \in Channels |-> Heard(d)']
    OBVIOUS
  <2> QED
    BY <1>8, <1>9, <2>1
<1> QED
  BY <1>1, <1>7, <1>10 DEF Chip!Frequency, Heard

LEMMA VolumeStep ==
    ASSUME Sane, Inv, NEW c \in Channels, NEW v \in Volumes, Volume(c, v)
    PROVE  Inv' /\ Chip!Volume(c)
<1> DEFINE channel == [d \in Channels |-> Heard(d)]
           byte == NewVolume(c, v)
           once == Write(registers, VOLUME, byte)
<1>1. pc = "ready" /\ registers' = Write(once, VOLUME, byte)
      /\ shadow' = [shadow EXCEPT !.volume = byte]
      /\ UNCHANGED <<file, pc, window, wanted, command, fm, scc, started>>
  BY DEF Volume
<1>2. VOLUME \in Registers /\ BANK \in Registers /\ VOLUME # BANK
      /\ \A d \in Channels, n \in {0, 1, 2, 3, 4} : Base(d, n) \in Registers \ {VOLUME}
  BY RegistersApart
<1>3. /\ byte \in 0..255 /\ Field(byte, c, 16, 0) = v
      /\ \A d \in Channels \ {c} : Field(byte, d, 16, 0) = Field(shadow.volume, d, 16, 0)
  BY VolumeFields DEF Inv, Types, Sane
<1> HIDE DEF byte
<1>4. DOMAIN once = Registers /\ once = [r \in Registers |-> once[r]]
      /\ \A r \in Registers : once[r] = IF r = VOLUME THEN byte ELSE registers[r]
  BY <1>2, WriteChanges DEF Inv, Types
<1> HIDE DEF once
<1>5. DOMAIN registers' = Registers /\ registers' = [r \in Registers |-> registers'[r]]
      /\ \A r \in Registers : registers'[r] = IF r = VOLUME THEN byte ELSE once[r]
  BY <1>1, <1>2, <1>4, WriteChanges
<1>6. /\ registers'[VOLUME] = byte /\ registers'[BANK] = registers[BANK]
      /\ \A d \in Channels, n \in {0, 1, 2, 3, 4} :
           registers'[Base(d, n)] = registers[Base(d, n)]
  BY <1>2, <1>4, <1>5
<1>7. Inv'
  <2>1. Types'
    BY <1>1, <1>3, <1>5 DEF Inv, Types
  <2>2. FileInv' /\ WindowInv' /\ SongInv'
    BY <1>1 DEF Inv, FileInv, WindowInv, SongInv, Valid, Keys, Slice
  <2>3. ShadowInv'
    BY <1>1, <1>6 DEF Inv, Types, ShadowInv
  <2> QED
    BY <2>1, <2>2, <2>3 DEF Inv
<1>8. Heard(c)' = [Heard(c) EXCEPT !.volume = v]
  BY <1>1, <1>3, <1>6 DEF Heard
<1>9. \A d \in Channels \ {c} : Heard(d)' = Heard(d)
  <2>1. registers[VOLUME] = shadow.volume
    BY <1>1 DEF Inv, ShadowInv
  <2> QED
    BY <1>1, <1>3, <1>6, <2>1 DEF Heard
<1>10. channel' = [channel EXCEPT ![c].volume = v]
  <2>1. channel' = [d \in Channels |-> Heard(d)']
    OBVIOUS
  <2> QED
    BY <1>8, <1>9, <2>1
<1> QED
  BY <1>1, <1>7, <1>10 DEF Chip!Volume, Heard

\* Clearing the loop flags is not heard, by the driver or by STOP.
LEMMA LoopUnheard ==
    ASSUME Inv, NEW byte, registers' = Write(registers, LOOP, byte), UNCHANGED started
    PROVE  /\ DOMAIN registers' = Registers /\ registers' = [r \in Registers |-> registers'[r]]
           /\ registers'[BANK] = registers[BANK] /\ registers'[VOLUME] = registers[VOLUME]
           /\ \A d \in Channels : Heard(d)' = Heard(d)
<1>1. /\ LOOP \in Registers /\ VOLUME \in Registers /\ BANK \in Registers
      /\ LOOP # VOLUME /\ LOOP # BANK
      /\ \A d \in Channels, n \in {0, 1, 2, 3, 4} : Base(d, n) \in Registers \ {LOOP}
  BY DEF Channels, Base, Registers, VOLUME, LOOP, BANK
<1>2. DOMAIN registers' = Registers /\ registers' = [r \in Registers |-> registers'[r]]
      /\ \A r \in Registers : registers'[r] = IF r = LOOP THEN byte ELSE registers[r]
  BY <1>1, WriteChanges DEF Inv, Types
<1>3. /\ registers'[BANK] = registers[BANK] /\ registers'[VOLUME] = registers[VOLUME]
      /\ \A d \in Channels, n \in {0, 1, 2, 3, 4} :
           registers'[Base(d, n)] = registers[Base(d, n)]
  BY <1>1, <1>2
<1> QED
  BY <1>2, <1>3 DEF Heard

\* INIT: the song is the one asked for, and both channels fall silent.
LEMMA InitSongStep ==
    ASSUME Sane, Inv, InitSong
    PROVE  Inv' /\ \E n \in 0..(SongCount - 1) : Chip!Select(n)
<1> DEFINE channel == [d \in Channels |-> Heard(d)]
           flags == Write(registers, LOOP, 0)
<1>1. /\ pc = "loaded" /\ pc' = "ready" /\ command' = 80 + SongOf(wanted)
      /\ shadow' = NoShadow /\ started' = {} /\ registers' = Write(flags, VOLUME, 0)
      /\ UNCHANGED <<file, window, wanted, fm, scc>>
  BY DEF InitSong
<1>2. wanted \in 0..(SongCount - 1) /\ SongOf(wanted) = wanted
  BY <1>1 DEF Inv, Types, WindowInv, SongOf, Sane, NoWindow
<1>3. /\ LOOP \in Registers /\ VOLUME \in Registers /\ LOOP # VOLUME
      /\ \A d \in Channels, n \in {0, 1, 2, 3, 4} : Base(d, n) \in Registers \ {VOLUME, LOOP}
  BY DEF Channels, Base, Registers, VOLUME, LOOP, BANK
<1>4. DOMAIN flags = Registers /\ flags = [r \in Registers |-> flags[r]]
      /\ \A r \in Registers : flags[r] = IF r = LOOP THEN 0 ELSE registers[r]
  BY <1>3, WriteChanges DEF Inv, Types
<1> HIDE DEF flags
<1>5. DOMAIN registers' = Registers /\ registers' = [r \in Registers |-> registers'[r]]
      /\ \A r \in Registers : registers'[r] = IF r = VOLUME THEN 0 ELSE flags[r]
  BY <1>1, <1>3, <1>4, WriteChanges
<1>6. /\ registers'[VOLUME] = 0
      /\ \A d \in Channels, n \in {0, 1, 2, 3, 4} :
           registers'[Base(d, n)] = registers[Base(d, n)]
  BY <1>3, <1>4, <1>5
<1>7. Inv'
  <2>1. Types'
    BY <1>1, <1>2, <1>5 DEF Inv, Types, States, NoShadow
  <2>2. FileInv' /\ WindowInv' /\ SongInv'
    BY <1>1, <1>2 DEF Inv, FileInv, WindowInv, SongInv, Valid, Keys, Slice
  <2>3. ShadowInv'
    BY <1>1, <1>6 DEF ShadowInv, NoShadow
  <2> QED
    BY <2>1, <2>2, <2>3 DEF Inv
<1>8. \A d \in Channels : Heard(d)' = Chip!Silent(Heard(d).frequency)
  BY <1>1, <1>6 DEF Heard, Chip!Silent, Chip!NoSample, Field, Channels
<1>9. channel' = [d \in Channels |-> Chip!Silent(channel[d].frequency)]
  <2>1. channel' = [d \in Channels |-> Heard(d)']
    OBVIOUS
  <2> QED
    BY <1>8, <2>1
<1>10. (IF command = 0 THEN -1 ELSE command - 80)' = wanted
  BY <1>1, <1>2 DEF Sane, NoWindow
<1>11. PICK n \in 0..(SongCount - 1) : n = wanted
  BY <1>2
<1>12. Chip!Select(n)
  BY <1>9, <1>10, <1>11 DEF Chip!Select, Chip!Channels, Channels, Heard
<1> QED
  BY <1>7, <1>12

\* Every other step is silent.
Silent ==
    \/ Build \/ Validate \/ Refused \/ Load \/ Note \/ Stop \/ UNCHANGED vars
    \/ \E c \in Channels : ChannelStop(c)

LEMMA SilentStep ==
    ASSUME Sane, Inv, Silent
    PROVE  Inv' /\ command' = command /\ \A d \in Channels : Heard(d)' = Heard(d)
<1> USE DEF Inv, States
<1>1. CASE Build \/ Validate \/ Refused \/ Note \/ UNCHANGED vars
  <2>1. UNCHANGED <<window, wanted, command, shadow, registers, started>>
    BY <1>1 DEF Build, Validate, Refused, Note, vars
  <2>2. Types' /\ ShadowInv' /\ SongInv' /\ WindowInv'
    BY <1>1, <2>1
    DEF Types, ShadowInv, SongInv, WindowInv, Build, Validate, Refused, Note, vars
  <2>3. FileInv'
    BY <1>1 DEF FileInv, Build, Validate, Refused, Note, vars, Valid, Keys, Slice
  <2> QED
    BY <2>1, <2>2, <2>3 DEF Heard
<1>2. CASE Load
  <2>1. PICK s \in 0..(SongCount - 1) : wanted' = s /\ window' \in {SongCell(s), NoWindow}
    BY <1>2 DEF Load
  <2>2. pc = "stopped" /\ pc' = "loaded" /\ shadow' = NoShadow
        /\ UNCHANGED <<file, command, registers, fm, scc, started>>
    BY <1>2 DEF Load
  <2>3. SongCell(s) = s
    BY <2>2, SongCellIsSong DEF FileInv
  <2>4. Types' /\ WindowInv' /\ ShadowInv' /\ SongInv'
    BY <2>1, <2>2, <2>3 DEF Types, WindowInv, ShadowInv, SongInv, NoShadow
  <2>5. FileInv'
    BY <2>2 DEF FileInv, Valid, Keys, Slice
  <2> QED
    BY <2>2, <2>4, <2>5 DEF Heard
<1>3. CASE Stop
  <2>1. pc = "ready" /\ pc' = "stopped" /\ registers' = Write(registers, LOOP, 0)
        /\ UNCHANGED <<file, window, wanted, command, shadow, started>>
    BY <1>3 DEF Stop
  <2>2. /\ DOMAIN registers' = Registers /\ registers' = [r \in Registers |-> registers'[r]]
        /\ \A d \in Channels : Heard(d)' = Heard(d)
    BY <2>1, LoopUnheard
  <2>3. Types' /\ WindowInv' /\ ShadowInv' /\ SongInv'
    BY <2>1, <2>2 DEF Types, WindowInv, ShadowInv, SongInv
  <2>4. FileInv'
    BY <2>1 DEF FileInv, Valid, Keys, Slice
  <2> QED
    BY <2>1, <2>2, <2>3, <2>4
<1>4. ASSUME NEW c \in Channels, ChannelStop(c)
      PROVE  Inv' /\ command' = command /\ \A d \in Channels : Heard(d)' = Heard(d)
  <2>1. /\ pc = "ready" /\ registers' = Write(registers, LOOP, shadow'.loop)
        /\ shadow' = [shadow EXCEPT !.loop = IF c = 0 THEN 2 * ((@ \div 2) % 2) ELSE @ % 2]
        /\ UNCHANGED <<file, pc, window, wanted, command, fm, scc, started>>
    BY <1>4 DEF ChannelStop
  <2>2. /\ DOMAIN registers' = Registers /\ registers' = [r \in Registers |-> registers'[r]]
        /\ registers'[BANK] = registers[BANK] /\ registers'[VOLUME] = registers[VOLUME]
        /\ \A d \in Channels : Heard(d)' = Heard(d)
    BY <2>1, LoopUnheard
  <2>3. shadow' \in [volume : 0..255, loop : Nat, bank : 0..15]
        /\ shadow'.volume = shadow.volume /\ shadow'.bank = shadow.bank
    BY <2>1 DEF Types
  <2>4. Types' /\ WindowInv' /\ ShadowInv' /\ SongInv'
    BY <2>1, <2>2, <2>3 DEF Types, WindowInv, ShadowInv, SongInv
  <2>5. FileInv'
    BY <2>1 DEF FileInv, Valid, Keys, Slice
  <2> QED
    BY <2>1, <2>2, <2>4, <2>5
<1> QED
  BY <1>1, <1>2, <1>3, <1>4 DEF Silent

-----------------------------------------------------------------------------
LEMMA InitInv == ASSUME Sane, Init PROVE Inv
<1>1. DOMAIN registers = Registers /\ registers = [r \in Registers |-> registers[r]]
  BY DEF Init
<1>2. wanted \in 0..(SongCount - 1) /\ pc \in States /\ started \subseteq Channels
  <2>1. SongCount \in Nat /\ SongCount >= 1
    BY DEF Sane, NoWindow
  <2> QED
    BY <2>1 DEF Init, States
<1>3. shadow \in [volume : 0..255, loop : Nat, bank : 0..15]
  BY DEF Init, NoShadow
<1> QED
  BY <1>1, <1>2, <1>3 DEF Inv, Types, Init, FileInv, WindowInv, ShadowInv, SongInv

\* The initial chip is a silent one, and every step is one of PcmChannels or is
\* not heard.
LEMMA InitRefines == ASSUME Sane, Init PROVE Chip!Init
<1> DEFINE channel == [d \in Channels |-> Heard(d)]
<1>1. PICK f \in Frequencies :
        registers = [r \in Registers |->
                       IF r \in {0, 6} THEN f[2] ELSE IF r \in {1, 7} THEN f[1] ELSE 0]
  BY DEF Init
<1>2. \A d \in Channels :
        /\ Base(d, 0) \in {0, 6} /\ Base(d, 1) \in {1, 7}
        /\ Base(d, 0) \in Registers /\ Base(d, 1) \in Registers /\ VOLUME \in Registers
  BY DEF Channels, Base, Registers, LOOP, VOLUME, BANK
<1>3. \A d \in Channels :
        registers[Base(d, 0)] = f[2] /\ registers[Base(d, 1)] = f[1]
  BY <1>1, <1>2
<1>4. registers[VOLUME] = 0
  <2>1. VOLUME \in Registers /\ VOLUME \notin {0, 6} /\ VOLUME \notin {1, 7}
    BY DEF Registers, LOOP, VOLUME, BANK
  <2> QED
    BY <1>1, <2>1
<1>5. f = <<f[1], f[2]>>
  BY DEF Sane
<1>6. \A d \in Channels : Heard(d) = Chip!Silent(f)
  BY <1>3, <1>4, <1>5 DEF Init, Heard, Chip!Silent, Chip!NoSample, Field, Channels
<1> QED
  BY <1>6 DEF Init, Heard, Chip!Init, Chip!NoSong, Chip!Channels, Channels

LEMMA NextRefines ==
    ASSUME Sane, Inv, [Next]_vars
    PROVE  Inv' /\ [Chip!Next]_(Chip!vars)
<1>1. ASSUME NEW c \in Channels, NEW a \in Addresses, NEW b \in Banks, Start(c, a, b)
      PROVE  Inv' /\ Chip!Next
  BY <1>1, StartHeard, StartStep DEF Chip!Next, Chip!Channels, Channels
<1>2. ASSUME NEW c \in Channels, NEW f \in Frequencies, Frequency(c, f)
      PROVE  Inv' /\ Chip!Next
  BY <1>2, FrequencyStep DEF Chip!Next, Chip!Channels, Channels
<1>3. ASSUME NEW c \in Channels, NEW v \in Volumes, Volume(c, v)
      PROVE  Inv' /\ Chip!Next
  BY <1>3, VolumeStep DEF Chip!Next, Chip!Channels, Channels
<1>4. ASSUME InitSong
      PROVE  Inv' /\ Chip!Next
  BY <1>4, InitSongStep DEF Chip!Next
<1>5. ASSUME Silent
      PROVE  Inv' /\ UNCHANGED Chip!vars
  BY <1>5, SilentStep DEF Chip!vars, Heard
<1> QED
  BY <1>1, <1>2, <1>3, <1>4, <1>5 DEF Next, Silent

\* The wrapper implements PcmChannels: both sample channels and the song.
THEOREM ChipRefines == Sane => (Spec => PlaysAsAsked)
<1> SUFFICES ASSUME Sane PROVE Spec => PlaysAsAsked
  OBVIOUS
<1>1. Init => Inv /\ Chip!Init
  BY InitInv, InitRefines
<1>2. Inv /\ [Next]_vars => Inv' /\ [Chip!Next]_(Chip!vars)
  BY NextRefines
<1>3. Inv => (pc = "ready" => command = 80 + wanted)
  BY DEF Inv, SongInv
<1> QED
  BY <1>1, <1>2, <1>3, PTL DEF Spec, Chip!Spec, PlaysAsAsked
=============================================================================
