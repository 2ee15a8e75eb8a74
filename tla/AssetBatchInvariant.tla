-------------------------- MODULE AssetBatchInvariant --------------------------
(***************************************************************************)
(* The inductive invariant of AssetBatch, by what it is about.  It is      *)
(* proved in Builders_proofs, for the batches MCBuilders runs.             *)
(***************************************************************************)
EXTENDS AssetBatch

\* An archive is a sequence of members, and the numbered paths have a place for
\* every one that is extracted.
Sane ==
    /\ Names \in Seq(Range(Names))
    /\ \A archives \in Worlds :
         /\ Len(MembersOf(archives)) \in Nat
         /\ DOMAIN MembersOf(archives) = 1..Len(MembersOf(archives))
         /\ \A i \in DOMAIN MembersOf(archives) :
              LET member == MembersOf(archives)[i]
              IN IF member.type = "menu" THEN DOMAIN member.data \subseteq Nat
                 ELSE \E p \in DOMAIN Names :
                        /\ Names[p].dir = Collection(member)
                        /\ Names[p].type = member.type
                        /\ Names[p].stem = member.name

-----------------------------------------------------------------------------
\* The inductive invariant.

States == {"extract", "write", "create", "done", "error"}

\* The menu record a song has when every archive is read.
Menus(key) == {i \in DOMAIN Members : Members[i].type = "menu" /\ key \in Listed(Members[i])}
KitOf(key) ==
    LET member == Members[Min(Menus(key))]
    IN member.data[Min(Naming(member, key[2]))].kit

\* No other song's KSP has the same path.
Alone(song) == \A other \in Songs : Output(other) = Output(song) => other = song

MadeOf(song) ==
    [song |-> files[song], driver |-> files[Driver(song)],
     pack |-> Samplepack(song, KitName(song))]

Types ==
    /\ world \in Worlds /\ pc \in States
    /\ at \in 1..(Len(Members) + 1)
    /\ DOMAIN files \subseteq DOMAIN Names /\ files = [p \in DOMAIN files |-> files[p]]
    /\ menu = [k \in DOMAIN menu |-> menu[k]]

\* A file that is there is the first archive's, or cut; what has been passed is
\* there.  A file is only written when no earlier member has its path.
FilesInv ==
    /\ \A p \in DOMAIN files : files[p] \in {Cut, Original(p)}
    /\ \A i \in DOMAIN Members :
         i < at /\ Members[i].type # "menu" => Target(Members[i]) \in DOMAIN files
    /\ pc = "write" =>
         /\ at \in DOMAIN Members /\ Members[at].type # "menu"
         /\ Target(Members[at]) \in DOMAIN files
         /\ \A i \in DOMAIN Members :
              i < at /\ Members[i].type # "menu" => Target(Members[i]) # Target(Members[at])

\* Every file cut for good was being written when a run was interrupted.
Writing == IF pc = "write" THEN {Target(Members[at])} ELSE {}
Damaged == {p \in DOMAIN files : files[p] # Original(p)} \ Writing
CrashInv == crashes \in Nat /\ Cardinality(Damaged) <= crashes

\* The menu has the records of the members passed.
MenuInv ==
    \A key :
        /\ key \in DOMAIN menu <=> \E i \in Menus(key) : i < at
        /\ key \in DOMAIN menu => menu[key] = KitOf(key)

\* Every song is counted: still to do, made or failed.
CountInv ==
    /\ pc \in {"extract", "write"} => made = {} /\ failures = 0
    /\ pc \in {"create", "done"} =>
         /\ at > Len(Members) /\ Drivers # {}
         /\ left \subseteq Songs /\ made \subseteq Songs /\ left \cap made = {}
         /\ failures = Cardinality(Songs \ (left \cup made))
         /\ pc = "done" => left = {}

KspInv ==
    pc \in {"create", "done"} =>
        \A song \in made :
            Alone(song) => Output(song) \in DOMAIN ksp /\ ksp[Output(song)] = MadeOf(song)

Inv == Types /\ FilesInv /\ CrashInv /\ MenuInv /\ CountInv /\ KspInv
=============================================================================
