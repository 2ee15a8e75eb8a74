------------------------------- MODULE MCMoved -------------------------------
(***************************************************************************)
(* Games for MovedSongs: two songs of two channels in two groups that      *)
(* overlap; jumps, jumps whose operands look like jumps, streams that end  *)
(* just before one, an instrument outside the common block.                *)
(***************************************************************************)
EXTENDS MovedSongs

Fill(at, bytes) == [a \in at..(at + Len(bytes) - 1) |-> bytes[a - at + 1]]
W(a) == <<a % Radix, a \div Radix>>

\* Table of two songs, their descriptors of two channels, and two instruments,
\* whose first may be outside.
Common(at, c, outside) ==
    Fill(at, W(at + 6) \o W(at + 12) \o W(at + 18)
             \o <<0, 0>> \o W(c[1]) \o W(c[2]) \o <<0, 0>> \o W(c[3]) \o W(c[4])
             \o W(outside) \o W(at + 22) \o <<7, 6>>)

Channels == {<<88, 100, 100, 104>>, <<88, 96, 255, 104>>, <<88, 96, 104, 104>>}

\* Jumps, a jump whose operand looks like one, a stream that ends before one.
First == {<<1, VOICE, 0, 2, JUMP, 8, 5, STOP>>, <<1, JUMP, 13, 5, 6, 3, VOICE, 1>>,
          <<1, 4, STOP, JUMP, 2, 6, 0, STOP>>}
Later == {<<3, JUMP, 4, 6, 5, STOP>>, <<3, VOICE, 0, REPEAT, 8, 6, 5, STOP>>, <<3, 4, 5, 6, 2, VOICE, 1, STOP>>}
\* Salamander's commands with a count.
Counted == {<<1, REPEAT, JUMP, 2, 6, 2, STOP, 0>>, <<1, 2, REPEAT, 3, 8, 5, STOP, 0>>}
CountedLater == {<<3, VOICE, 0, COUNT, 2, 8, 6, STOP>>}

Streamed(f, l) ==
    Fill(88, f) @@ Fill(96, <<7, CALL, 0, 6, 2, VOICE, 1, STOP>>) @@ Fill(104, l)
    @@ [a \in 88..120 |-> 0] @@ Fill(140, <<5, 5>>)

Group(tracks, from, to, extra) == [tracks |-> tracks, streams |-> <<from, to>>, extra |-> extra]

Job(builder, c, f, l, block, groups, base, data, tables, outside) ==
    [builder |-> builder, channels |-> 2, common |-> <<block, block + 24>>,
     voices |-> block + 18, groups |-> groups, base |-> base, data |-> data, end |-> 210,
     tables |-> tables, outside |-> outside, split |-> <<1, 2>>,
     image |-> Common(block, c, IF builder = "salamander" THEN block + 23 ELSE 140)
               @@ Streamed(f, l)]

Lookups == <<<<140, 142>>>>

MCJobs ==
    {Job("bank", c, f, l, 64, <<Group({0}, 88, 104, Lookups), Group({1}, 100, 112, Lookups)>>,
         160, 0, {}, {82, 84}) : c \in Channels, f \in First, l \in Later}
    \cup {Job("quarth", c, f, l, 64, <<Group({0}, 88, 104, Lookups), Group({1}, from, 112, Lookups)>>,
              120, 160, {[at |-> 82, first |-> 1, entries |-> 2]}, {82}) :
            c \in Channels, f \in First, l \in Later, from \in {100, 104}}
    \cup {Job("salamander", c, f, l, 150, <<Group({0}, 88, 104, <<>>), Group({1}, 100, 112, <<>>)>>,
              150, 64, {}, {}) : c \in Channels, f \in {<<1, VOICE, 0, 2, JUMP, 8, 5, STOP>>} \cup Counted, l \in CountedLater}
=============================================================================
