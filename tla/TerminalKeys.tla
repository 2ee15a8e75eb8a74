----------------------------- MODULE TerminalKeys -----------------------------
(***************************************************************************)
(* How kspplayer turns keyboard bytes into actions (terminal_poll_action   *)
(* in src/kspplayer.c, the POSIX branch).  Cursor keys arrive as escape    *)
(* sequences that start with the byte of the Escape key itself, so a lone  *)
(* Escape is only known by what does not follow it.  The terminal (an      *)
(* external queue of bytes) may deliver the bytes of one key over several  *)
(* turns of the main loop, and the user may type ahead while the loop is   *)
(* busy replacing the song.                                                *)
(***************************************************************************)
EXTENDS Naturals, Sequences

CONSTANTS
    Chunk,       \* sizeof(input): bytes one poll reads at most
    Habits,      \* is the user patient? (TRUE, FALSE or either)
    MaxLag,      \* empty polls between two bytes of one key
    MaxPresses   \* bound: keys pressed

Keys == {"escape", "left", "right", "up", "letter"}

\* What a terminal sends for a key, in either cursor mode; the letter is one
\* that also ends a sequence.
Encodings(key) ==
    CASE key = "escape" -> {<<"ESC">>}
      [] key = "left"   -> {<<"ESC", "[", "D">>, <<"ESC", "O", "D">>}
      [] key = "right"  -> {<<"ESC", "[", "C">>, <<"ESC", "O", "C">>}
      [] key = "up"     -> {<<"ESC", "[", "A">>}
      [] key = "letter" -> {<<"C">>}

VARIABLES
    patient,       \* waits for each key to be taken in (never changes)
    escape_state,  \* 0 idle, 1 after ESC, 2 after ESC [ or ESC O
    escape_waits,  \* empty polls since ESC
    input,         \* bytes of a read() that are not looked at yet
    tty,           \* bytes the terminal holds for read()
    coming,        \* bytes of the last key still on their way
    lag,           \* empty polls since the last of its bytes arrived
    pressed,       \* history: keys pressed
    since,         \* history: the key whose ESC was seen last in state 0
    acted,         \* history: actions returned, with the key they are for
    running        \* the main loop still polls

parser == <<escape_state, escape_waits>>
user == <<coming, pressed>>
vars == <<patient, parser, input, tty, user, lag, since, acted, running>>

\* A byte, and the number of the key it comes from, which the code cannot see.
Sent(encoding, number) == [n \in DOMAIN encoding |-> [byte |-> encoding[n], key |-> number]]

-----------------------------------------------------------------------------
\* One byte: the automaton's next state and the action it returns.
MutAfterByte(state, key) ==
    CASE state = 0 -> [state |-> IF key = "ESC" THEN 1 ELSE 0, act |-> "none"]
      [] state = 1 -> IF key = "[" THEN [state |-> 2, act |-> "none"]
                      ELSE [state |-> 0, act |-> "quit"]
      [] state = 2 -> [state |-> 0,
                       act |-> IF key = "C" THEN "next"
                               ELSE IF key = "D" THEN "previous" ELSE "none"]

MutAfterByteSwallowed(state, key) ==
    CASE state = 0 -> [state |-> IF key = "ESC" THEN 1 ELSE 0, act |-> "none"]
      [] state = 1 -> [state |-> IF key \in {"[", "O"} THEN 2 ELSE 0,
                       act |-> "none"]
      [] state = 2 -> [state |-> 0,
                       act |-> IF key = "C" THEN "next"
                               ELSE IF key = "D" THEN "previous" ELSE "none"]

AfterByte(state, key) ==
    CASE state = 0 -> [state |-> IF key = "ESC" THEN 1 ELSE 0, act |-> "none"]
      [] state = 1 -> IF key \in {"[", "O"} THEN [state |-> 2, act |-> "none"]
                      ELSE [state |-> 0, act |-> "quit"]
      [] state = 2 -> [state |-> 0,
                       act |-> IF key = "C" THEN "next"
                               ELSE IF key = "D" THEN "previous" ELSE "none"]

MutTimedOut == escape_waits + 1 >= 1
TimedOut == escape_waits + 1 >= 2

Init ==
    /\ patient \in Habits
    /\ escape_state = 0 /\ escape_waits = 0
    /\ input = <<>> /\ tty = <<>> /\ coming = <<>> /\ lag = 0
    /\ pressed = <<>> /\ since = 0 /\ acted = <<>>
    /\ running = TRUE

Return(action, number) ==
    /\ acted' = IF action = "none" THEN acted ELSE Append(acted, [act |-> action, key |-> number])
    /\ running' = (action # "quit")

\* terminal_poll_action when read() finds bytes.
Read ==
    /\ running /\ input = <<>> /\ tty # <<>>
    /\ LET count == IF Len(tty) < Chunk THEN Len(tty) ELSE Chunk
       IN input' = SubSeq(tty, 1, count) /\ tty' = SubSeq(tty, count + 1, Len(tty))
    /\ UNCHANGED <<patient, parser, user, lag, since, acted, running>>

\* One turn of its loop.  The first action returns: the bytes behind it, which
\* are in a local buffer, are forgotten.
Scan ==
    /\ running /\ input # <<>>
    /\ LET b == Head(input)
           after == AfterByte(escape_state, b.byte)
       IN /\ escape_state' = after.state
          /\ since' = IF escape_state = 0 /\ after.state = 1 THEN b.key ELSE since
          /\ Return(after.act, since)
          /\ input' = IF after.act = "none" THEN Tail(input) ELSE <<>>
    /\ escape_waits' = 0
    /\ UNCHANGED <<patient, tty, user, lag>>

\* terminal_poll_action when read() finds none.
PollNothing ==
    /\ running /\ input = <<>> /\ tty = <<>>
    /\ coming # <<>> => lag < MaxLag
    /\ lag' = IF coming # <<>> THEN lag + 1 ELSE 0
    /\ IF escape_state # 1 THEN UNCHANGED parser /\ Return("none", since)
       ELSE IF TimedOut
            THEN escape_state' = 0 /\ escape_waits' = 0 /\ Return("quit", since)
            ELSE /\ escape_waits' = escape_waits + 1
                 /\ UNCHANGED escape_state
                 /\ Return("none", since)
    /\ UNCHANGED <<patient, input, tty, user, since>>

\* The user and the terminal.
Press(key) ==
    /\ running /\ coming = <<>> /\ Len(pressed) < MaxPresses
    /\ patient => input = <<>> /\ tty = <<>>
    /\ \E encoding \in Encodings(key) : coming' = Sent(encoding, Len(pressed) + 1)
    /\ pressed' = Append(pressed, key)
    /\ lag' = 0
    /\ UNCHANGED <<patient, parser, input, tty, since, acted, running>>

Arrive ==
    /\ running /\ coming # <<>>
    /\ tty' = Append(tty, Head(coming))
    /\ coming' = Tail(coming)
    /\ lag' = 0
    /\ UNCHANGED <<patient, parser, input, pressed, since, acted, running>>

Stopped == ~running /\ UNCHANGED vars

Poll == Read \/ Scan \/ PollNothing

Next == Poll \/ (\E key \in Keys : Press(key)) \/ Arrive \/ Stopped

\* The loop polls at least every 25 ms; bytes that were sent arrive.
Spec == Init /\ [][Next]_vars /\ WF_vars(Poll) /\ WF_vars(Arrive)

-----------------------------------------------------------------------------
\* Properties.

Meaning(key) ==
    CASE key = "escape" -> "quit"
      [] key = "left"   -> "previous"
      [] key = "right"  -> "next"
      [] OTHER          -> "none"

\* No key is invented and none overtakes another: an action is what the key
\* means whose first byte began its sequence.  In particular a cursor key whose
\* bytes trickle in never quits, and a letter is never the end of another key.
ActionsWerePressed ==
    /\ \A i \in DOMAIN acted :
         acted[i].key \in DOMAIN pressed /\ acted[i].act = Meaning(pressed[acted[i].key])
    /\ \A i, j \in DOMAIN acted : i < j => acted[i].key < acted[j].key

\* Keys that should act: those that mean something, up to the first Escape.
ShouldAct ==
    {k \in DOMAIN pressed :
       /\ Meaning(pressed[k]) # "none"
       /\ \A j \in 1..(k - 1) : pressed[j] # "escape"}

\* When the user waits for each key to be taken in, every one acts: whenever
\* the parser is at rest, all that should have acted.
NothingLost ==
    patient /\ input = <<>> /\ tty = <<>> /\ coming = <<>> /\ escape_state = 0 =>
        \A k \in ShouldAct :
            \E i \in DOMAIN acted : acted[i] = [act |-> Meaning(pressed[k]), key |-> k]

\* The two-poll timeout recognizes a lone ESC: the Escape of a patient user
\* always stops the player.
EscapePressed == patient /\ \E k \in DOMAIN pressed : pressed[k] = "escape"
PatientEscapeStops == EscapePressed ~> ~running
=============================================================================
