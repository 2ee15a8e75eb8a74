----------------------------- MODULE MCCompactKsp -----------------------------
(***************************************************************************)
(* Compact files for CompactKsp: up to three songs in one to seven file    *)
(* segments.                                                               *)
(***************************************************************************)
EXTENDS CompactKsp

MCSongs == 0..2
None == [s \in MCSongs |-> NoKit]
Everywhere(interval) == [s \in MCSongs |-> interval]

\* Engine and songs without kits; every stream ends in the segment the
\* directory and the trailer are read from.
Small ==
    [songs |-> {0, 1}, unplayable |-> {}, tail |-> <<1, 1>>,
     directory |-> <<1, 1>>, engine |-> <<0, 0>>, packedEngine |-> TRUE,
     music |-> [s \in MCSongs |-> IF s = 0 THEN <<0, 1>> ELSE <<1, 1>>],
     packed |-> {0}, kit |-> None, partial |-> {},
     scan |-> Everywhere(<<1, 1>>)]

\* The directory straddles a boundary and the kit's entry is before it.
Straddling ==
    [Small EXCEPT !.directory = <<0, 1>>,
                  !.music = Everywhere(<<0, 0>>),
                  !.kit = [s \in MCSongs |-> IF s = 1 THEN 0 ELSE NoKit],
                  !.partial = {0},
                  !.scan = Everywhere(<<0, 0>>)]

\* All of the file is in segment 0.
Tiny ==
    [Small EXCEPT !.tail = <<0, 0>>, !.directory = <<0, 0>>,
                  !.music = Everywhere(<<0, 0>>),
                  !.kit = [s \in MCSongs |-> 0], !.partial = {0},
                  !.scan = Everywhere(<<0, 0>>)]

\* A raw engine, a kit of one whole segment and one of less, a song that is
\* refused.
WithKit ==
    [Small EXCEPT !.songs = MCSongs, !.unplayable = {2},
                  !.tail = <<5, 6>>, !.directory = <<5, 5>>,
                  !.packedEngine = FALSE,
                  !.music = [s \in MCSongs |-> <<s, 2>>],
                  !.packed = {},
                  !.kit = [s \in MCSongs |-> s % 2], !.partial = {1},
                  !.scan = Everywhere(<<5, 5>>)]

\* Song numbers with a gap.
Gap == [Small EXCEPT !.songs = {0, 2}]

\* Directory and trailer both straddle a boundary.
Long ==
    [Small EXCEPT !.tail = <<3, 4>>, !.directory = <<2, 3>>,
                  !.music = [s \in MCSongs |-> <<s, s + 1>>],
                  !.scan = Everywhere(<<2, 3>>)]

MCFiles == {Small, Long, Straddling, Tiny, WithKit, Gap}
=============================================================================
