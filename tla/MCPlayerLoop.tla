---------------------------- MODULE MCPlayerLoop ----------------------------
(***************************************************************************)
(* Small archives for PlayerLoop: three songs, two KCP pages, two kits.    *)
(***************************************************************************)
EXTENDS PlayerLoop

MCSongs == 0..2

PlainArchive ==
    [mode |-> "plain", songs |-> MCSongs,
     length |-> [s \in MCSongs |-> CASE s = 0 -> 3 [] s = 1 -> 0 [] s = 2 -> 9],
     page |-> [s \in MCSongs |-> NoPage], kit |-> [s \in MCSongs |-> NoKit],
     badKits |-> {}, badImages |-> {}, unattachable |-> {}]

KcpArchive(pages) ==
    [PlainArchive EXCEPT !.mode = "kcp", !.page = pages]

\* The song numbers of a compact archive need not be contiguous.
CompactArchive(songs, kits) ==
    [PlainArchive EXCEPT !.mode = "compact", !.songs = songs, !.kit = kits]

SharedKits == [s \in MCSongs |-> IF s = 1 THEN NoKit ELSE s \div 2]

\* Archives every song of which can be switched to.
MCSound ==
    {PlainArchive,
     KcpArchive([s \in MCSongs |-> s % 2]),
     CompactArchive(MCSongs, SharedKits),
     CompactArchive({0, 2}, [s \in MCSongs |-> s \div 2])}

\* Archives with a song that cannot be materialized, attached or installed.
MCBroken ==
    {KcpArchive([s \in MCSongs |-> IF s = 2 THEN NoPage ELSE s]),
     [CompactArchive(MCSongs, SharedKits) EXCEPT !.badImages = {1}],
     [CompactArchive(MCSongs, SharedKits) EXCEPT !.unattachable = {2}]}

MCPlayable == MCSound \cup MCBroken

\* An archive with an MWK the player cannot decode.
MCBadKit ==
    {[CompactArchive(MCSongs, SharedKits) EXCEPT !.badKits = {1}]}
=============================================================================
