------------------------------ MODULE AssetBatch ------------------------------
(***************************************************************************)
(* dmv_mwm_to_ksp.py: songs, wave kits and drivers are extracted from ZIP  *)
(* archives into a directory per collection, and a KSP file is made of     *)
(* every song found there, with the kit its menu record or its header      *)
(* names.  Files that exist are kept, so the tool can be started again     *)
(* after it was interrupted, and keeps what a cut write has left.          *)
(* mwk_usage.py's choice of a kit is compared with it, without a fix file  *)
(* and with the extracted files as its directory of kits.                  *)
(*                                                                         *)
(* Paths are numbered in sorted order.  The files of an archive and what   *)
(* mbwave2ksp does with a song are external.                               *)
(***************************************************************************)
EXTENDS Integers, SequencesExt, FiniteSetsExt

CONSTANTS
    Names,       \* path -> [dir, type, stem, eight]: eight is the stem's start
    Worlds,      \* sequences of archives, sorted by name
    MaxCrashes   \* bound: interruptions

VARIABLES world, pc, at, menu, files, left, made, failures, ksp, crashes

vars == <<world, pc, at, menu, files, left, made, failures, ksp, crashes>>

NoKit == 0    \* "", "NONE", "*": a kit is named by its eight characters
NoPath == 0
Put(store, path, data) ==
    [p \in DOMAIN store \cup {path} |-> IF p = path THEN data ELSE store[p]]
Cut == [id |-> "cut", edit |-> FALSE, kit |-> NoKit]  \* of an interrupted write

-----------------------------------------------------------------------------
\* extract_assets: the archive DMVFT comes first.
Archives(archives) ==
    SelectSeq(archives, LAMBDA a : a.stem = "DMVFT")
    \o SelectSeq(archives, LAMBDA a : a.stem # "DMVFT")

MembersOf(archives) ==
    FoldLeft(LAMBDA all, a : all \o [i \in DOMAIN a.members |-> [stem |-> a.stem] @@ a.members[i]],
             <<>>, Archives(archives))
Members == MembersOf(world)

\* archive_collection: the first directory, else the archive's own name.
Collection(member) == IF member.under # <<>> THEN Head(member.under) ELSE member.stem

\* Directories below the collection's are dropped.
Target(member) ==
    CHOOSE p \in DOMAIN Names :
        /\ Names[p].dir = Collection(member)
        /\ Names[p].type = member.type
        /\ Names[p].stem = member.name

\* A menu's records; the first that names a song stays.
Listed(member) == {<<Collection(member), r.song>> : r \in Range(member.data)}
Naming(member, song) == {i \in DOMAIN member.data : member.data[i].song = song}

Recorded(known, member) ==
    [k \in DOMAIN known \cup Listed(member) |->
       IF k \in DOMAIN known THEN known[k] ELSE member.data[Min(Naming(member, k[2]))].kit]

-----------------------------------------------------------------------------
\* find_samplepack: names match in eight characters; a kit in the song's own
\* directory comes first, another one must be the only one.
Kits(eight) == {p \in DOMAIN files : Names[p].type = "mwk" /\ Names[p].eight = eight}
Beside(song, paths) == {p \in paths : Names[p].dir = Names[song].dir}

Samplepack(song, kit) ==
    IF kit = NoKit THEN NoPath
    ELSE IF Beside(song, Kits(kit)) # {} THEN Min(Beside(song, Kits(kit)))
    ELSE IF Cardinality(Kits(kit)) = 1 THEN Min(Kits(kit))
    ELSE NoPath

\* song_metadata reads the name where a runtime song has it.  An edit-mode
\* song's header is 220 bytes further on, and no kit is named by what it has
\* there.
HeaderKit(song) == IF files[song].edit THEN NoKit ELSE files[song].kit

MenuKey(song) == <<Names[song].dir, Names[song].stem>>
KitName(song) == IF MenuKey(song) \in DOMAIN menu THEN menu[MenuKey(song)] ELSE HeaderKit(song)

Drivers == {p \in DOMAIN files : Names[p].type = "driver"}
Driver(song) == IF Beside(song, Drivers) # {} THEN Min(Beside(song, Drivers)) ELSE Min(Drivers)
Songs == {p \in DOMAIN files : Names[p].type = "mwm"}
Output(song) == MenuKey(song)

-----------------------------------------------------------------------------
\* mwk_usage.py: parse_mwm finds the name in the headers of both kinds, and
\* reads no menu.
OwnKit(song) == files[song].kit

\* Candidates with the same content count as one.
Only(paths) == Cardinality({files[p] : p \in paths}) = 1

MutFindMwk(song, kit) ==
    LET exact == {p \in Kits(kit) : Names[p].stem = kit}
    IN IF kit = NoKit THEN NoPath
       ELSE IF Only(Beside(song, exact)) THEN Min(Beside(song, exact))
       ELSE IF Beside(song, exact) = {} /\ Only(exact) THEN Min(exact)
       ELSE NoPath

FindMwk(song, kit) ==
    LET beside == Beside(song, Kits(kit))
    IN IF kit = NoKit THEN NoPath
       ELSE IF Only(beside) THEN Min(beside)
       ELSE IF beside = {} /\ Only(Kits(kit)) THEN Min(Kits(kit))
       ELSE NoPath

-----------------------------------------------------------------------------
Init ==
    /\ world \in Worlds
    /\ pc = "extract" /\ at = 1 /\ menu = <<>> /\ files = <<>>
    /\ left = {} /\ made = {} /\ failures = 0 /\ ksp = <<>> /\ crashes = 0

\* A menu is read whether or not its songs are extracted already.
MutReadMenu ==
    /\ pc = "extract" /\ at <= Len(Members) /\ Members[at].type = "menu"
    /\ menu' = IF Listed(Members[at]) \subseteq {MenuKey(song) : song \in Songs}
               THEN menu ELSE Recorded(menu, Members[at])
    /\ at' = at + 1
    /\ UNCHANGED <<world, pc, files, left, made, failures, ksp, crashes>>
ReadMenu ==
    /\ pc = "extract" /\ at <= Len(Members) /\ Members[at].type = "menu"
    /\ menu' = Recorded(menu, Members[at])
    /\ at' = at + 1
    /\ UNCHANGED <<world, pc, files, left, made, failures, ksp, crashes>>

\* A duplicate, equal or different, is skipped.
Keep ==
    /\ pc = "extract" /\ at <= Len(Members) /\ Members[at].type # "menu"
    /\ Target(Members[at]) \in DOMAIN files
    /\ at' = at + 1
    /\ UNCHANGED <<world, pc, menu, files, left, made, failures, ksp, crashes>>

OpenTarget ==
    /\ pc = "extract" /\ at <= Len(Members) /\ Members[at].type # "menu"
    /\ Target(Members[at]) \notin DOMAIN files
    /\ files' = Put(files, Target(Members[at]), Cut)
    /\ pc' = "write"
    /\ UNCHANGED <<world, at, menu, left, made, failures, ksp, crashes>>

WriteTarget ==
    /\ pc = "write"
    /\ files' = [files EXCEPT ![Target(Members[at])] = Members[at].data]
    /\ pc' = "extract" /\ at' = at + 1
    /\ UNCHANGED <<world, menu, left, made, failures, ksp, crashes>>

\* create_ksp_files; RuntimeError without songs or drivers.
Extracted ==
    /\ pc = "extract" /\ at > Len(Members)
    /\ IF Songs = {} \/ Drivers = {}
       THEN pc' = "error" /\ UNCHANGED left
       ELSE pc' = "create" /\ left' = Songs
    /\ UNCHANGED <<world, at, menu, files, made, failures, ksp, crashes>>

\* mbwave2ksp may refuse any song, and take a cut one if its header is whole.
Create ==
    /\ pc = "create" /\ left # {}
    /\ LET song == Min(left)
       IN /\ left' = left \ {song}
          /\ \/ /\ failures' = failures + 1
                /\ UNCHANGED <<made, ksp>>
             \/ /\ ksp' = Put(ksp, Output(song),
                              [song |-> files[song], driver |-> files[Driver(song)],
                               pack |-> Samplepack(song, KitName(song))])
                  /\ made' = made \cup {song}
                  /\ UNCHANGED failures
    /\ UNCHANGED <<world, pc, at, menu, files, crashes>>

Report ==
    /\ pc = "create" /\ left = {}
    /\ pc' = "done"
    /\ UNCHANGED <<world, at, menu, files, left, made, failures, ksp, crashes>>

\* Interrupted at any point, and started again.
Restart ==
    /\ pc \in {"extract", "write", "create"} /\ crashes < MaxCrashes
    /\ crashes' = crashes + 1
    /\ pc' = "extract" /\ at' = 1 /\ menu' = <<>>
    /\ left' = {} /\ made' = {} /\ failures' = 0
    /\ UNCHANGED <<world, files, ksp>>

Stopped == pc \in {"done", "error"} /\ UNCHANGED vars

Next ==
    \/ ReadMenu \/ Keep \/ OpenTarget \/ WriteTarget \/ Extracted
    \/ Create \/ Report \/ Restart \/ Stopped

Spec == Init /\ [][Next]_vars

-----------------------------------------------------------------------------
\* Properties.

\* The member a path, or a song's menu record, is first found in.
Original(path) ==
    Members[Min({i \in DOMAIN Members :
                   Members[i].type # "menu" /\ Target(Members[i]) = path})].data

Listing(song) ==
    {i \in DOMAIN Members :
       /\ Members[i].type = "menu" /\ Collection(Members[i]) = Names[song].dir
       /\ \E r \in Range(Members[i].data) : r.song = Names[song].stem}
NamedKit(song) ==
    IF Listing(song) # {}
    THEN LET records == Members[Min(Listing(song))].data
         IN records[Min({i \in DOMAIN records : records[i].song = Names[song].stem})].kit
    ELSE IF Original(song).edit THEN NoKit ELSE Original(song).kit

\* A batch that ends, however often it was interrupted, has a file for every
\* member and counted every song it made no KSP of.  Each interruption damages
\* one file at most, for good; a KSP has the song, the driver and the kit of the
\* first archive that has them, unless one of these very files is damaged.
DamageIsLocal ==
    pc = "done" =>
        /\ failures = Cardinality(Songs \ made)
        /\ \A i \in DOMAIN Members :
             Members[i].type # "menu" => Target(Members[i]) \in DOMAIN files
        /\ Cardinality({p \in DOMAIN files : files[p] # Original(p)}) <= crashes
        /\ \A song \in made :
             (\A other \in Songs : Output(other) = Output(song) => other = song) =>
                LET made1 == ksp[Output(song)]
                IN /\ made1.song \in {Cut, Original(song)}
                   /\ made1.driver \in {Cut, Original(Driver(song))}
                   /\ made1.song # Cut => made1.pack = Samplepack(song, NamedKit(song))

\* Where both tools find a kit for a song, the analysis is about the samples
\* that were packed, unless the menu names another kit than the song does.
ToolsAgree ==
    \A song \in Songs :
        LET found == FindMwk(song, OwnKit(song))
            packed == Samplepack(song, KitName(song))
        IN found # NoPath /\ packed # NoPath /\ files[found] # files[packed] =>
               /\ MenuKey(song) \in DOMAIN menu
               /\ menu[MenuKey(song)] # OwnKit(song)
=============================================================================
