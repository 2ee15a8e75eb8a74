---------------------------- MODULE MCChunkedTrack ----------------------------
(***************************************************************************)
(* Tracks for ChunkedTrack: every three frames of two voices, the second   *)
(* held for short or long, with and without a loop; a page has room for    *)
(* two or three events.                                                    *)
(***************************************************************************)
EXTENDS ChunkedTrack

Notes == {[tone |-> 0, vol |-> 0], [tone |-> 1, vol |-> 1], [tone |-> 2, vol |-> 1]}

States == {[scc |-> n, psg |-> m] : n \in Notes, m \in {Silent["psg"], [tone |-> 1, vol |-> 1]}}

\* A track starts with a rest or with a note of the PSG's.
Starts == {Silent, [Silent EXCEPT !["psg"] = [tone |-> 1, vol |-> 1]]}

MCTracks ==
    {[loop |-> l, frames |-> <<s>> \o [i \in 1..h |-> t] \o <<u>>] :
       l \in BOOLEAN, h \in {1, 4}, s \in Starts, t \in States, u \in States}
=============================================================================
