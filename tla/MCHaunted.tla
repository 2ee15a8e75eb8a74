------------------------------ MODULE MCHaunted -------------------------------
(* Small drivers: a core with an entry, a code table and a routine; two songs  *)
(* of three columns; instruments in a shared range and in the tail.            *)
EXTENDS HauntedPages

MCLayout ==
    [songs |-> 2, columns |-> 3, groups |-> <<1, 3, 0>>,
     core |-> <<0, 12>>, table |-> <<12, 24>>, tail |-> <<72, 80>>, work |-> <<232, 234>>,
     wrapper |-> <<240, 244>>, common |-> {<<60, 66>>}, data |-> 166,
     to |-> [core |-> 128, table |-> 140, wrapper |-> 158, work |-> 162, tail |-> 216],
     window |-> 156, page |-> 128..223]

W(a) == <<a % 16, a \div 16>>
Fill(at, bytes) == [a \in at..(at + Len(bytes) - 1) |-> bytes[a - at + 1]]

Core == <<0>> \o <<1>> \o W(4) \o W(6) \o <<2>> \o W(12) \o <<3>> \o W(232)

\* Streams from 24 on, from 40 on, from 52 on and in the tail.
Melodies == {<<1, RESOURCE>> \o W(62) \o <<10, 14, 13, 2, JUMP, 0>> \o W(24),
             <<1, SUB, 2, 13, 13, 2, RESOURCE>> \o W(76) \o <<END, 5, 6>>,
             <<1, 2, RESOURCE>> \o W(54) \o <<JUMP, 0>> \o W(34) \o <<3, 4, 5, 12, 8, END>>,
             <<1, SUB, 5, 13, 13, 2, 4, 5, 3, END, 5, 6>>}
Drums == {<<4, RESOURCE, 13, 11, SUB, 3, 13, 3, JUMP, 0>> \o W(40)}
         \cup {<<4, RESOURCE, 5, JUMP, 0>> \o W(target) \o <<6, 7, END, 15, 3>> : target \in {46, 47}}
Later == {<<2, 3, END, 5, 6, 7>>, <<RESOURCE>> \o W(64) \o <<2, END, 4>>,
          <<2, 3, JUMP, 0>> \o W(73)}

MCEngines ==
    {[image |-> Fill(0, Core) @@ Fill(12, W(24) \o W(40) \o W(25) \o W(r) \o W(drum) \o W(r))
                @@ Fill(24, m) @@ Fill(40, d) @@ Fill(52, l)
                @@ [a \in 24..71 |-> a % 8]
                @@ Fill(72, <<2, 1, END, 3, 5, 4, 6, END>>) @@ Fill(232, <<0, 0>>)
                @@ Fill(240, W(1) \o W(232)),
      wrapper |-> W(1) \o W(second),
      dependencies |-> <<[old |-> 1, expected |-> 1], [old |-> 232, expected |-> 1]>>,
      operands |-> {2, 7, 10}, codeTables |-> {4}, clears |-> 10, cleared |-> 236] :
        m \in Melodies, d \in Drums, l \in Later, r \in {52, 73, 69}, drum \in {40, 41},
        second \in {232, 17}}
=============================================================================
