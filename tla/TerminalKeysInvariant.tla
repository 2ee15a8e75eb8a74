----------------------- MODULE TerminalKeysInvariant -------------------------
(***************************************************************************)
(* The inductive invariant of TerminalKeys, which Loaders_proofs proves:   *)
(* the bytes under way, whichever queue they are in, belong together, and  *)
(* the parser is where the first of them needs it.                         *)
(***************************************************************************)
EXTENDS TerminalKeys

Bytes == [byte : {"ESC", "[", "O", "A", "C", "D"}, key : Nat]
Stream == (input \o tty) \o coming

Cursor == {"left", "right", "up"}
Final == [key \in Cursor |-> CASE key = "left" -> "D" [] key = "right" -> "C" [] OTHER -> "A"]

First(b, keys) == b.byte = "ESC" \/ keys[b.key] = "letter"
Last(b, keys) == keys[b.key] \in Cursor => b.byte = Final[keys[b.key]]

\* b comes right after a.
Follows(a, b, keys) ==
    IF Last(a, keys) THEN First(b, keys)
    ELSE /\ b.key = a.key
         /\ IF a.byte = "ESC" THEN b.byte \in {"[", "O"} ELSE b.byte = Final[keys[b.key]]

\* From the middle of a key on, or from its beginning, keys come in whole and in order.
Orderly(s, keys) ==
    /\ \A i \in 1..Len(s) : s[i].key \in 1..Len(keys) /\ (keys[s[i].key] = "letter" => s[i].byte = "C")
    /\ \A i, j \in 1..Len(s) :
         i < j => s[i].key <= s[j].key /\ (First(s[j], keys) => s[i].key < s[j].key)
    /\ \A i \in 1..Len(s) : IF i = Len(s) THEN Last(s[i], keys) ELSE Follows(s[i], s[i + 1], keys)

\* What the parser has seen of the key it is in, and what it has not.
InKey(s, keys) ==
    /\ since \in 1..Len(keys) /\ keys[since] # "letter"
    /\ keys[since] \in Cursor =>
         s # <<>> /\ s[1].key = since
         /\ IF escape_state = 1 THEN s[1].byte \in {"[", "O"} ELSE s[1].byte = Final[keys[since]]
    /\ keys[since] \notin Cursor => escape_state = 1 /\ (s # <<>> => First(s[1], keys))

ActedInv ==
    /\ \A i \in 1..Len(acted) :
         /\ acted[i].key \in 1..since /\ acted[i].act = Meaning(pressed[acted[i].key])
         /\ escape_state # 0 => acted[i].key < since
    /\ \A i, j \in 1..Len(acted) : i < j => acted[i].key < acted[j].key

\* A cursor key whose bytes are late is not taken for an Escape.
WaitInv ==
    escape_state = 1 /\ pressed[since] \in Cursor /\ input = <<>> /\ tty = <<>> => escape_waits <= lag

Done(key) == \E i \in 1..Len(acted) : acted[i] = [act |-> Meaning(pressed[key]), key |-> key]

PatienceInv ==
    patient =>
        /\ \A i \in 1..Len(Stream) : Stream[i].key = Len(pressed)
        /\ \A k \in ShouldAct :
             \/ Done(k)
             \/ escape_state # 0 /\ since = k
             \/ \E i \in 1..Len(Stream) : First(Stream[i], pressed) /\ Stream[i].key = k

TypeInv ==
    /\ patient \in BOOLEAN /\ running \in BOOLEAN
    /\ escape_state \in 0..2 /\ escape_waits \in Nat /\ lag \in Nat
    /\ input \in Seq(Bytes)
    /\ tty \in Seq(Bytes)
    /\ coming \in Seq(Bytes)
    /\ pressed \in Seq(Keys) /\ since \in 0..Len(pressed)
    /\ acted \in Seq([act : {"quit", "next", "previous"}, key : Nat])

\* No key that has yet to begin is the one the parser is in, or an earlier one.
StreamInv ==
    /\ Orderly(Stream, pressed)
    /\ \A i \in 1..Len(Stream) : First(Stream[i], pressed) => since < Stream[i].key

ParserInv == escape_state # 0 => InKey(Stream, pressed)

Inv == TypeInv /\ StreamInv /\ ParserInv /\ WaitInv /\ ActedInv /\ PatienceInv
=============================================================================
