------------------------------- MODULE Playlist -------------------------------
(***************************************************************************)
(* What a listener may expect of kspplayer (docs/KSPPLAYER.md): one song of *)
(* the archive is heard at a time, a move goes to the nearest song before  *)
(* or after it and starts an unfinished track, and a track that is over is *)
(* always followed by a move or by the end of the program.                 *)
(***************************************************************************)
EXTENDS Integers

VARIABLES
    songs,     \* the archive's songs (never changes)
    unrefused, \* no switch is refused half-way (never changes)
    sound,     \* every song can be switched to (never changes)
    heard,     \* the song being rendered
    over,      \* its track has ended
    closed     \* the program has ended

vars == <<songs, unrefused, sound, heard, over, closed>>

Init == heard \in songs /\ over = FALSE /\ closed = FALSE

Follows(s, t) ==
    \/ t > s /\ \A u \in songs : u > s => t <= u
    \/ t < s /\ \A u \in songs : u < s => t >= u

Move ==
    /\ ~closed
    /\ \E s \in songs : Follows(heard, s) /\ heard' = s
    /\ over' = FALSE
    /\ UNCHANGED <<songs, unrefused, sound, closed>>

TrackEnds ==
    /\ ~closed /\ ~over
    /\ over' = TRUE
    /\ UNCHANGED <<songs, unrefused, sound, heard, closed>>

Close ==
    /\ ~closed
    /\ closed' = TRUE
    /\ over' \in {over, FALSE}
    /\ UNCHANGED <<songs, unrefused, sound, heard>>

Next == Move \/ TrackEnds \/ Close

GoesOn == over /\ (Move \/ Close)

\* The steps are promised of an archive whose switches are not refused half-way,
\* the progress of one every song of which can be switched to.
Spec ==
    /\ unrefused => Init
    /\ [][unrefused => Next]_vars
    /\ sound => WF_vars(GoesOn)
=============================================================================
