---------------------------- MODULE MCCommandLine ----------------------------
(***************************************************************************)
(* Command tails for CommandLine: every way to put up to three short words *)
(* and blanks of each kind together, and names that end before, in and     *)
(* behind the cell song_number is in (6 in this instance).                 *)
(***************************************************************************)
EXTENDS CommandLine

Blanks == {<<>>, <<Space>>, <<Space, Space>>, <<Tab>>}
FileWords == {<<>>, <<"F">>, <<"F", "1">>}
LongWords == {[k \in 1..n |-> "F"] : n \in 3..8}
SongWords == {<<>>, <<"7">>, <<"2", "5", "6">>, <<"1", "9", "9">>, <<"9", "a">>}
SlotWords == {<<>>, <<"3">>, <<"1", "3", "1">>, <<"1", "4", "4">>}
Ends == {<<>>, <<Space>>, <<Return>>}

MCTails ==
    {t[1] \o t[2] \o t[3] \o t[4] \o t[5] \o t[6] \o t[7] :
       t \in (Blanks \X FileWords \X Blanks \X SongWords \X Blanks \X SlotWords
              \X Ends)
         \cup ({<<>>} \X LongWords \X Blanks \X SongWords \X {<<>>} \X {<<>>} \X Ends)}
=============================================================================
