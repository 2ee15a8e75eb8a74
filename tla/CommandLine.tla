------------------------------ MODULE CommandLine ------------------------------
(***************************************************************************)
(* The command tail of KSPPLAY.COM, read one character at a time           *)
(* (msx/KSPDOS2.asm, parse_command_line): a file name, an optional song    *)
(* number and, by the usage message, an optional SCC slot, with the        *)
(* loader's 8-bit decimal accumulators.                                    *)
(***************************************************************************)
EXTENDS Naturals, SequencesExt

CONSTANTS
    Tails,      \* command tails, as sequences of characters
    SongCell    \* where song_number lies, counted from filename: 115

Digits == <<"0", "1", "2", "3", "4", "5", "6", "7", "8", "9">>
Digit == [c \in Range(Digits) |-> CHOOSE d \in 0..9 : Digits[d + 1] = c]
Space == " "
Tab == "TAB"
Return == "CR"
Chars == DOMAIN Digit \cup {Space, Tab, Return, "F", "a"}

DefaultSlot == 2    \* SCC_SLOT_DEFAULT

\* Behind filename lie header, hex_buffer, file_handle, song_number and scc_slot.
\* hex_buffer is printed from before OPEN looks at the name: the bytes that stay
\* as parse_name_loop wrote them, its closing zero included.
NameRoom == SongCell - 3

VARIABLES
    tail,  \* the text at 81H (never changes)
    b,     \* register B: characters left
    mode,  \* the loop that is running
    name,  \* the characters copied to filename and behind it
    song,  \* song_number
    slot   \* scc_slot

text == <<name, song, slot>>
vars == <<tail, b, mode, text>>

Char == tail[Len(tail) - b + 1]

-----------------------------------------------------------------------------
\* A digit is accumulated in one byte: A = A*2 + A*8 + C.
MutPlusDigit(value) == (value * 10 + Digit[Char]) % 100
PlusDigit(value) == (value * 10 + Digit[Char]) % 256

Code(c) ==
    CASE c \in DOMAIN Digit -> 48 + Digit[c]
      [] c = "F" -> 70
      [] c = "a" -> 97
      [] OTHER -> 13

\* parse_name_loop counts no bytes: a byte stored n bytes behind filename may be
\* song_number or scc_slot.  What lies behind them is written again before it is
\* read, up to a tail's 127 characters.
Spill(n, byte) ==
    /\ song' = IF n = SongCell THEN byte ELSE song
    /\ slot' = IF n = SongCell + 1 THEN byte ELSE slot

EndsName(c) == c \in {Space, Tab}

\* parse_scc_slot_done: a primary slot, or an expanded one with bits 4-6 clear.
ValidSlot(s) == s < 4 \/ (s >= 128 /\ (s \div 16) % 8 = 0)

Goto(m) == mode' = m /\ UNCHANGED <<b, text>>
Eat == b' = b - 1

Init ==
    /\ tail \in Tails
    /\ b = Len(tail)
    /\ mode = "skip"
    /\ name = <<>> /\ song = 0 /\ slot = DefaultSlot

\* parse_skip, parse_name_loop
Name ==
    \/ /\ mode = "skip"
       /\ IF b = 0 THEN Goto("bad")
          ELSE IF Char # Space THEN Goto("name")
          ELSE Eat /\ UNCHANGED <<mode, text>>
    \/ /\ mode = "name"
       /\ IF b = 0 \/ EndsName(Char)
          THEN /\ mode' = IF b = 0 THEN "good" ELSE "song_skip"
               /\ Spill(Len(name), 0) /\ UNCHANGED <<b, name>>
          ELSE /\ Eat /\ name' = Append(name, Char)
               /\ Spill(Len(name), Code(Char)) /\ UNCHANGED mode

MutAfterSkip == "bad"
AfterSkip == "good"

\* parse_song_skip, parse_song_loop.  Any character that is no digit ends the
\* program, so parse_scc_slot_skip is only reached with no character left.
Song ==
    \/ /\ mode = "song_skip"
       /\ IF b = 0 THEN Goto(AfterSkip)
          ELSE IF Char # Space THEN mode' = "song" /\ song' = 0 /\ UNCHANGED <<b, name, slot>>
          ELSE Eat /\ UNCHANGED <<mode, text>>
    \/ /\ mode = "song"
       /\ IF b = 0 THEN Goto("slot_skip")
          ELSE IF Char \notin DOMAIN Digit THEN Goto("bad")
          ELSE Eat /\ song' = PlusDigit(song)
               /\ UNCHANGED <<mode, name, slot>>

\* parse_scc_slot_skip, parse_scc_slot_loop, parse_scc_slot_done
SccSlot ==
    /\ mode \in {"slot_skip", "slot", "slot_done"}
    /\ CASE mode = "slot_skip" ->
              IF b = 0 \/ Char = Return THEN Goto("good")
              ELSE IF Char = Space THEN Eat /\ UNCHANGED <<mode, text>>
              ELSE mode' = "slot" /\ slot' = 0 /\ UNCHANGED <<b, name, song>>
         [] mode = "slot" ->
              IF b = 0 \/ Char \in {Space, Tab, Return} THEN Goto("slot_done")
              ELSE IF Char \notin DOMAIN Digit THEN Goto("bad")
              ELSE Eat /\ slot' = PlusDigit(slot)
                   /\ UNCHANGED <<mode, name, song>>
         [] mode = "slot_done" ->
              Goto(IF ValidSlot(slot) THEN "good" ELSE "bad")
    /\ UNCHANGED tail

Parsed == mode \in {"good", "bad"} /\ UNCHANGED vars

Next == ((Name \/ Song) /\ UNCHANGED tail) \/ SccSlot \/ Parsed

Spec == Init /\ [][Next]_vars

-----------------------------------------------------------------------------
\* Properties.

\* The reference grammar: the words of a tail are what blanks separate, each
\* known by the position it starts at.
Blank(i) == tail[i] \in {Space, Tab}

WordStarts == {i \in DOMAIN tail : ~Blank(i) /\ (i = 1 \/ Blank(i - 1))}

\* The n-th word starts at i.
Starts(n, i) == i \in WordStarts /\ Cardinality({k \in WordStarts : k < i}) = n - 1

\* The positions of the word at i, and the word spelt out.
Word(i) == {k \in i..Len(tail) : \A j \in i..k : ~Blank(j)}

Spells(w, i) == Word(i) = i..(i + Len(w) - 1) /\ \A k \in DOMAIN w : w[k] = tail[i + k - 1]

IsNumber(i) == \A k \in Word(i) : tail[k] \in DOMAIN Digit

\* What the digits of the word at i are worth, up to each position and in all.
Worth(i) ==
    LET worth[k \in 0..Len(tail)] ==
            IF k < i THEN 0
            ELSE IF k \in Word(i) /\ tail[k] \in DOMAIN Digit
                 THEN 10 * worth[k - 1] + Digit[tail[k]]
            ELSE worth[k - 1]
    IN worth

Value(i) == Worth(i)[Len(tail)]

\* What is accepted is understood, if the name has room: the file is the first
\* word and the song the second, modulo 256, or 0 if there is none, and nothing
\* sets the slot.
AcceptedIsUnderstood ==
    mode = "good" /\ Len(name) < NameRoom =>
        \E i \in WordStarts :
            /\ Starts(1, i) /\ Spells(name, i) /\ slot = DefaultSlot
            /\ \/ WordStarts = {i} /\ song = 0
               \/ \E j \in WordStarts :
                      Starts(2, j) /\ IsNumber(j) /\ song = Value(j) % 256

\* "Usage: KSPPLAY.COM FILE.KSP [SONG]" (KSPDOS2.asm:10): a file name, or a
\* file name and a number that only spaces separate, with nothing after the
\* number, is accepted.
PlainUsageAccepted ==
    mode = "bad" =>
        \/ WordStarts = {}
        \/ \E k \in DOMAIN tail : tail[k] = Tab
        \/ \E j \in WordStarts : Starts(2, j) /\ (~IsNumber(j) \/ Len(tail) \notin Word(j))

\* "KSPPLAY.COM FILE.KSP [SONG] [SCC_SLOT_DECIMAL]" (msg_usage): a valid slot
\* after a song number is accepted.
SlotAccepted ==
    mode = "bad" =>
        ~ /\ \A k \in DOMAIN tail : tail[k] # Tab
          /\ \E j, s \in WordStarts :
                /\ Starts(2, j) /\ IsNumber(j)
                /\ Starts(3, s) /\ IsNumber(s) /\ Cardinality(WordStarts) = 3
                /\ Value(s) < 256 /\ ValidSlot(Value(s))
=============================================================================
