------------------------------- MODULE MCPages -------------------------------
(***************************************************************************)
(* Pages for CompletePages: two songs of two channels, with streams that   *)
(* use every command, share a tail, jump from range to range and have      *)
(* parameters that look like commands; with and without a trace of the     *)
(* commands, placed by address or by size, with and without a descriptor   *)
(* the engine starts at.                                                   *)
(***************************************************************************)
EXTENDS CompletePages

Streams1 == {<<11, JUMP, 64>>, <<REPEAT, 12, 64>>, <<VOICE, 1, STOP>>, <<VOICE, 0, JUMP, 37>>,
             <<REPEAT, JUMP, 64>>, <<40, STOP>>}
Streams2 == {<<13, STOP>>, <<JUMP, 37>>, <<36, JUMP, 67, STOP>>, <<REPEAT, JUMP, 37>>,
             <<14, VOICE, 1, JUMP, 64>>}

Put(at, cells) == [a \in at..(at + Len(cells) - 1) |-> cells[a - at + 1]]

\* The page is 20..57, its payload ends at 50.  Code 20..25, song table 26 and
\* 27, descriptors 28 and 60, instrument table 32 and 33, streams from 37 and 64.
MCImages ==
    {Put(20, <<SlotOut, 26, 32, 80, 40, 41>>) @@ Put(26, <<28, 60>>)
     @@ Put(28, <<0, 37, 0>>) @@ Put(60, <<0, 64, 37>>)
     @@ Put(32, <<35, 63>>) @@ Put(35, <<7>>) @@ Put(63, <<6>>)
     @@ Put(37, s) @@ Put(64, t) @@ Put(70, <<21>>)
     @@ [a \in 20..70 |-> 0] : s \in Streams1, t \in Streams2}

Code == 20 :> "slot" @@ 21 :> "table" @@ 22 :> "voices" @@ 23 :> "missed"
        @@ 24 :> "device" @@ 25 :> "data" @@ 70 :> "entry"

MCConfigs ==
    {[code |-> Code, channels |-> 2, main |-> <<20, 26>>,
      wrapper |-> <<70, 71>>, wrapperDest |-> 31, work |-> <<80, 82>>,
      workDest |-> 52, gateway |-> 42, table |-> 26,
      pointerTables |-> {<<32, 34>>}, traced |-> t, packs |-> p, bootstrap |-> b] :
       t \in BOOLEAN, p \in BOOLEAN, b \in {{}, {1}}}

MCTracks == <<0, 1>>
=============================================================================
