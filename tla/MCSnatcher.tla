------------------------------ MODULE MCSnatcher ------------------------------
(***************************************************************************)
(* Banks with a passage that occurs twice: in one channel, in two, in a    *)
(* loop, in a phrase the music calls itself, and one bank without any.     *)
(***************************************************************************)
EXTENDS SnatcherPages

Put(at, cells) == [a \in at..(at + Len(cells) - 1) |-> cells[a - at + 1]]

\* Notes; a loop in the passage; a loop back to the cell before it.
Passage == {<<10, 11, 12, 13, 14, 15, 16, 17, 18>>, <<10, 11, LOOP, 2, 4, 14, 15, 16, 17>>,
            <<10, 11, 12, 13, 14, 15, LOOP, 2, 10>>}
\* Channel 1 at 103, channel 2 where it ends.
Shapes(p) ==
    {<<<<19>> \o p \o <<20>> \o p \o <<STOP>>, <<21, STOP>>>>,
     <<<<19>> \o p \o <<20>> \o p \o <<JUMP, 2 * Len(p) + 3>>, <<STOP>>>>,
     <<<<19>> \o p \o <<STOP>>, <<22>> \o p \o <<STOP>>>>,
     <<<<CALL, -1, STOP, 19>> \o p \o <<23, RETURN>>, <<24>> \o p \o <<STOP>>>>,
     <<<<20>> \o p \o <<JUMP, 6>>, <<17, 18, 19, 20, JUMP, 4>>>>}

MCMusics ==
    {Put(100, <<0, 3, 3 + Len(s[1])>>) @@ Put(103, s[1]) @@ Put(103 + Len(s[1]), s[2]) :
       s \in UNION {Shapes(p) : p \in Passage}}
    \cup {Put(100, <<0, 3, Unused>>) @@ Put(103, <<10, 11, 12, 13, 14, 15, 16, 17, STOP>>)}

MCEngineSpan == <<0, 25>>
MCFreeTail == <<28, 45>>
MCEngines ==
    {{0, 9} \cup kept : kept \in {{}, {1, 15, 21, 23}, {4, 15, 17, 20, 23}, {11, 13, 15, 20}, {5, 14, 16, 18, 20}, {7, 15, 17, 19, 21, 23}}}
    \cup {{0, 12}}
=============================================================================
