-------------------------------- MODULE MCMwk ---------------------------------
(***************************************************************************)
(* Songs and kits for MwkUsage, in the formats of editor and runtime;      *)
(* three patterns in one, two or three groups; tones with, without and     *)
(* with header-only samples; a song and a kit that are cut short.          *)
(***************************************************************************)
EXTENDS MwkUsage

\* Layout of a song: groups are sequences of patterns, patterns of rows.
Row(row) == IF row = <<>> THEN <<EMPTY>> ELSE <<row[1], Len(row) - 1>> \o Tail(row)
Bytes(pattern) == FlattenSeq([i \in DOMAIN pattern |-> Row(pattern[i])])
GroupBytes(group) == FlattenSeq([i \in DOMAIN group |-> Bytes(group[i])])
Offsets(base, group) ==
    [i \in DOMAIN group |-> base + Len(GroupBytes(SubSeq(group, 1, i - 1)))]

Pad(s, n) == s \o [i \in 1..(n - Len(s)) |-> 0]

MCSong(edit, positions, start, table, groups) ==
    LET header == <<Len(positions) - 1>> \o start \o table
        top == Max(ToSet(positions)) + 1
        all == FlattenSeq([g \in DOMAIN groups |-> Offsets(10 * g, groups[g])])
        offsets == SubSeq(all, 1, top)
        data == FlattenSeq([g \in DOMAIN groups |->
                   <<Len(GroupBytes(groups[g])), Len(groups[g])>> \o GroupBytes(groups[g])])
    IN [file |-> (IF edit THEN Pad(positions, TableSize) \o header ELSE header \o positions)
                 \o offsets \o data,
        edit |-> edit, positions |-> positions, start |-> start, table |-> table,
        plays |-> FlattenSeq(groups)]

\* Rows without events, with a wave as the row's own event, as a channel's.
Empty == <<>>
PatternsUsed == {<<Empty, <<1>>>>, <<<<99>>, Empty>>, <<<<2, 5, 98>>, <<1, 100>>>>, <<Empty, <<3, 99, 7>>>>}

Songs ==
    {MCSong(edit, positions, start, <<5, 176, 178>>, groups) :
        edit \in BOOLEAN, positions \in {<<0>>, <<1, 0>>, <<2>>}, start \in {<<0, 0>>, <<2, 9>>},
        groups \in UNION {{<<<<a, b>>, <<c>>>>, <<<<a>>, <<b, c>>>>, <<<<a, b, c>>>>} :
                            a, b, c \in PatternsUsed}}

\* Layout of a kit: samples by tone, a tone without samples is header-only.
MCKit(edit, patches, samples, rom, size) ==
    LET Flags(t) == IF t \in rom THEN ROM ELSE IF t \in DOMAIN samples THEN RAM ELSE 0
        editData == IF edit THEN [i \in 1..EditSize |-> 1] ELSE <<>>
        records == FlattenSeq([t \in 1..Tones |->
                     IF Flags(t - 1) = 0 THEN <<>>
                     ELSE editData \o <<IF t - 1 \in rom THEN size ELSE Len(samples[t - 1])>>
                          \o samples[t - 1]])
        patchBytes == FlattenSeq([p \in DOMAIN patches |-> <<0>> \o FlattenSeq(patches[p])])
    IN [file |-> <<Len(patches)>> \o [t \in 1..Tones |-> Flags(t - 1)] \o patchBytes
                 \o FlattenSeq([p \in DOMAIN patches |-> editData]) \o records,
        edit |-> edit, patches |-> patches, samples |-> samples]

Patches == {<<<<2, 0>>, <<0, 1>>>>, <<<<0, 2>>, <<0, 1>>>>, <<<<1, 1>>, <<2, 0>>>>}

Kits ==
    {MCKit(edit, patches, samples, {t \in DOMAIN samples : samples[t] = <<>>}, size) :
        edit \in BOOLEAN, patches \in {<<p, q, p>> : p, q \in Patches} \cup {<<p>> : p \in Patches},
        samples \in {0 :> <<4, 4>> @@ 1 :> <<>> @@ 2 :> <<6>>, 1 :> <<5>>, 0 :> <<>> @@ 2 :> <<7, 7>>},
        size \in {0, 1}}

Cut(part) == [part EXCEPT !.file = SubSeq(@, 1, Len(@) - 1)]

MCCases ==
    LET kit == CHOOSE k \in Kits : Len(k.patches) = 3
        song == CHOOSE s \in Songs : Selects(<<2>>, 1)
    IN {[song |-> s, kit |-> kit] : s \in Songs} \cup {[song |-> song, kit |-> k] : k \in Kits}
       \cup {[song |-> Cut(song), kit |-> kit], [song |-> song, kit |-> Cut(kit)]}
=============================================================================
