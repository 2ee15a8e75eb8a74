------------------------------ MODULE PcmChannels ------------------------------
(***************************************************************************)
(* What the arcade driver of Haunted Castle asks of the K007232 sample     *)
(* chip: two channels that share its volume and bank registers and do not  *)
(* disturb each other, and one song that was selected.                     *)
(***************************************************************************)
EXTENDS Integers

CONSTANTS
    Addresses, Frequencies, Banks, Volumes,
    SongCount

VARIABLES song, channel

vars == <<song, channel>>

Channels == {0, 1}
NoSong == -1
\* A channel has no sample, and no bank, before its first one.
NoSample == -1
Silent(frequency) ==
    [sample |-> NoSample, bank |-> NoSample, frequency |-> frequency, volume |-> 0]

Init == song = NoSong /\ channel \in [Channels -> {Silent(f) : f \in Frequencies}]

\* Work RAM and volumes are cleared; the chip keeps its frequencies.
Select(n) ==
    /\ song' = n
    /\ channel' = [c \in Channels |-> Silent(channel[c].frequency)]

Start(c) ==
    \E a \in Addresses, b \in Banks :
        /\ channel' = [channel EXCEPT ![c] =
                         [sample |-> a, bank |-> b,
                          frequency |-> @.frequency, volume |-> @.volume]]
        /\ UNCHANGED song
Frequency(c) ==
    \E f \in Frequencies : channel' = [channel EXCEPT ![c].frequency = f] /\ UNCHANGED song
Volume(c) ==
    \E v \in Volumes : channel' = [channel EXCEPT ![c].volume = v] /\ UNCHANGED song

Next ==
    \/ \E n \in 0..(SongCount - 1) : Select(n)
    \/ \E c \in Channels : Start(c) \/ Frequency(c) \/ Volume(c)

Spec == Init /\ [][Next]_vars
=============================================================================
