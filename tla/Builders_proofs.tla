---------------------------- MODULE Builders_proofs ----------------------------
(***************************************************************************)
(* What the tools and the engines of MCBuilders keep, for every set of     *)
(* inputs they are given.  A tool only has its own steps, so that what is  *)
(* proved of a component is lifted to the instance that runs it.           *)
(***************************************************************************)
EXTENDS MCBuilders, FiniteSetTheorems, WellFoundedInduction, TLAPS

-----------------------------------------------------------------------------
\* The chip is played by one of the tools and left alone by the others.
THEOREM SpecPlaysAsAsked == Spec => PlaysAsAsked
<1>1. Init => Chip!Init
  BY DEF Init, Unplayed
<1>2. [Next]_vars => [Chip!Next]_(Chip!vars)
  BY DEF Next, RunPages, RunSnatcher, RunKcp, RunMoved, RunAssets, RunMwk, RunHaunted,
         RunChunked, RunChip, vars, player, Chip!vars
<1>3. Chip!Sane => (Chip!Spec => Chip!PlaysAsAsked)
  BY Chip!ChipRefines
<1>4. Chip!Sane
  BY ChipAssumption
<1> QED
  BY <1>1, <1>2, <1>3, <1>4, PTL DEF Spec, Chip!Spec, PlaysAsAsked

-----------------------------------------------------------------------------
\* Placements of the complete pages.

Ranges == [from : Int, to : Int]
Extents == [from : Int, to : Int, dest : Int]

\* PlacementsApart speaks of placements: that these are extents of integers is
\* what makes it inductive, since a range gets its place by comparing addresses.
PagesInv ==
    tool = "pages" =>
        /\ w1 \in PageConfigs /\ w2 \in PageImages
        /\ w4 \subseteq Ranges /\ w5 \in Seq(Extents)
        /\ Pages!PlacementsApart

\* What is wanted of a song are addresses of the image.
LEMMA WantedAreRanges ==
    ASSUME w2 \in PageImages, NEW track
    PROVE  Pages!Merged(Pages!Wanted(track)) \subseteq Ranges
<1> DEFINE cells == Pages!Wanted(track)
<1>1. cells \subseteq DOMAIN w2 /\ DOMAIN w2 \subseteq Int
  BY PageAssumption DEF Pages!Wanted
<1> HIDE DEF cells
<1>2. Pages!Merged(cells) \subseteq Ranges
  BY <1>1 DEF Pages!Merged, Ranges
<1> QED
  BY <1>2 DEF cells

\* A range with room, behind the placements that already are apart.
LEMMA RoomKeepsApart ==
    ASSUME w5 \in Seq(Extents), Pages!PlacementsApart,
           NEW range \in Ranges, NEW d \in Int, Pages!Room(d, range.to - range.from),
           w5' = Append(w5, Pages!Extent(range.from, range.to, d)), w1' = w1
    PROVE  w5' \in Seq(Extents) /\ Pages!PlacementsApart'
<1> DEFINE new == Pages!Extent(range.from, range.to, d)
<1>1. new \in Extents /\ Pages!Taken(new) = [from |-> d, to |-> d + range.to - range.from]
  BY DEF Pages!Extent, Pages!Taken, Ranges, Extents
<1>2. PICK n \in Nat : n = Len(w5)
  OBVIOUS
<1>3. /\ DOMAIN w5 = 1..n /\ DOMAIN w5' = 1..(n + 1)
      /\ w5'[n + 1] = new /\ \A i \in 1..n : w5'[i] = w5[i] /\ w5[i] \in Extents
      /\ w5' \in Seq(Extents)
  BY <1>1, <1>2
<1> HIDE DEF new
<1>4. Pages!Occupied' = Pages!Occupied
  BY DEF Pages!Occupied, Pages!Taken, Pages!Main, Pages!Wrapper, Pages!Work, Pages!MainDest,
         Pages!Extent
<1>5. /\ PageBase <= d /\ d + (range.to - range.from) <= PageLimit
      /\ \A used \in Pages!Occupied : Pages!Apart(d, range.to - range.from, used)
      /\ \A i \in 1..n : Pages!Apart(d, range.to - range.from, Pages!Taken(w5[i]))
  BY <1>3 DEF Pages!Room
<1>6. /\ Pages!Taken(new).from = d /\ Pages!Taken(new).to = d + (range.to - range.from)
      /\ Pages!Taken(new).to - Pages!Taken(new).from = range.to - range.from
  BY <1>1 DEF Ranges
<1>7. ASSUME NEW i \in 1..n
      PROVE  LET t == Pages!Taken(w5[i])
             IN /\ PageBase <= t.from /\ t.to <= PageLimit
                /\ \A used \in Pages!Occupied : Pages!Apart(t.from, t.to - t.from, used)
                /\ \A j \in 1..n : i # j => Pages!Apart(t.from, t.to - t.from, Pages!Taken(w5[j]))
  BY <1>3 DEF Pages!PlacementsApart
<1>8. ASSUME NEW i \in 1..n
      PROVE  Pages!Apart(Pages!Taken(w5[i]).from, Pages!Taken(w5[i]).to - Pages!Taken(w5[i]).from,
                         Pages!Taken(new))
  <2>1. PICK e \in Extents : e = w5[i]
    BY <1>3
  <2>2. Pages!Apart(d, range.to - range.from, Pages!Taken(e))
    BY <1>5, <2>1
  <2>3. Pages!Taken(e).from \in Int /\ Pages!Taken(e).to \in Int
    BY DEF Pages!Taken, Extents
  <2> QED
    BY <1>6, <2>1, <2>2, <2>3 DEF Pages!Apart, Ranges
<1>9. ASSUME NEW i \in 1..(n + 1)
      PROVE  LET t == Pages!Taken(w5'[i])
             IN /\ PageBase <= t.from /\ t.to <= PageLimit
                /\ \A used \in Pages!Occupied : Pages!Apart(t.from, t.to - t.from, used)
                /\ \A j \in 1..(n + 1) :
                     i # j => Pages!Apart(t.from, t.to - t.from, Pages!Taken(w5'[j]))
  <2>1. CASE i = n + 1
    BY <1>3, <1>5, <1>6, <2>1
  <2>2. CASE i \in 1..n
    BY <1>3, <1>7, <1>8, <2>2
  <2>3. i = n + 1 \/ i \in 1..n
    OBVIOUS
  <2> QED
    BY <2>1, <2>2, <2>3, Zenon
<1>10. Pages!PlacementsApart'
  BY <1>3, <1>4, <1>9 DEF Pages!PlacementsApart, Pages!Taken, Pages!Apart
<1> QED
  BY <1>3, <1>10

\* What find_space of build_konami_complete_pages.py moves into a complete page
\* lies in the page, and on nothing else that is there.
THEOREM SpecPlacementsApart == Spec => []PlacementsApart
<1>1. Init => PagesInv
  <2> SUFFICES ASSUME Init, tool = "pages" PROVE PagesInv
    BY DEF PagesInv
  <2>1. Pages!Init
    BY DEF Init
  <2> QED
    BY <2>1 DEF PagesInv, Pages!Init, Pages!PlacementsApart
<1>2. PagesInv /\ [Next]_vars => PagesInv'
  <2> SUFFICES ASSUME PagesInv, [Next]_vars, tool = "pages" PROVE PagesInv'
    BY DEF PagesInv, Next, RunPages, RunSnatcher, RunKcp, RunMoved, RunAssets, RunMwk,
           RunHaunted, RunChunked, RunChip, vars
  <2>1. /\ w1 \in PageConfigs /\ w2 \in PageImages
        /\ w4 \subseteq Ranges /\ w5 \in Seq(Extents) /\ Pages!PlacementsApart
    BY DEF PagesInv
  <2>2. Pages!Next \/ UNCHANGED vars
    BY DEF Next, RunPages, RunSnatcher, RunKcp, RunMoved, RunAssets, RunMwk,
           RunHaunted, RunChunked, RunChip
  <2>3. CASE Pages!Begin
    <3>1. w4' \subseteq Ranges
      BY <2>1, <2>3, WantedAreRanges DEF Pages!Begin
    <3> QED
      BY <2>1, <2>3, <3>1 DEF PagesInv, Pages!Begin, Pages!PlacementsApart
  <2>4. CASE Pages!Place
    <3>1. PICK range \in w4 :
            \E d \in Pages!Candidates \cup Pages!Preferred(range) :
              /\ Pages!Room(d, range.to - range.from)
              /\ w5' = Append(w5, Pages!Extent(range.from, range.to, d))
              /\ w4' = w4 \ {range}
      BY <2>4 DEF Pages!Place
    <3> PICK d \in Pages!Candidates \cup Pages!Preferred(range) :
          /\ Pages!Room(d, range.to - range.from)
          /\ w5' = Append(w5, Pages!Extent(range.from, range.to, d))
          /\ w4' = w4 \ {range}
      BY <3>1
    <3>2. range \in Ranges
      BY <2>1
    <3>3. d \in Int
      BY <2>1, <3>2, PageAssumption
      DEF Pages!Candidates, Pages!Preferred, Pages!MainDest, Ranges
    <3>4. w1' = w1 /\ w2' = w2
      BY <2>4 DEF Pages!Place
    <3>5. w5' \in Seq(Extents) /\ Pages!PlacementsApart'
      BY <2>1, <3>2, <3>3, <3>4, RoomKeepsApart
    <3> QED
      BY <2>1, <3>4, <3>5 DEF PagesInv
  <2>5. CASE Pages!Refuse \/ Pages!MakePage \/ Pages!Pack \/ Pages!Stopped \/ UNCHANGED vars
    <3>1. UNCHANGED <<w1, w2, w4, w5>>
      BY <2>5 DEF Pages!Refuse, Pages!MakePage, Pages!Pack, Pages!Stopped, Pages!vars, vars, work
    <3>2. Pages!Occupied' = Pages!Occupied
      BY <3>1 DEF Pages!Occupied, Pages!Taken, Pages!Main, Pages!Wrapper, Pages!Work,
                  Pages!MainDest, Pages!Extent
    <3>3. Pages!PlacementsApart'
      BY <2>1, <3>1, <3>2 DEF Pages!PlacementsApart, Pages!Taken, Pages!Apart
    <3> QED
      BY <2>1, <3>1, <3>3 DEF PagesInv
  <2> QED
    BY <2>2, <2>3, <2>4, <2>5 DEF Pages!Next
<1>3. PagesInv => PlacementsApart
  BY DEF PagesInv, PlacementsApart
<1> QED
  BY <1>1, <1>2, <1>3, PTL DEF Spec

-----------------------------------------------------------------------------
\* The batch of songs.  w1 is AssetBatch's world, w2 its pc, w3 at, w4 menu, w5
\* files, w6 left, w7 made, w8 failures, w9 ksp and w10 crashes.

\* The module's cardinality is that of the library's facts.
LEMMA SameCardinality == ASSUME NEW S PROVE Assets!Cardinality(S) = Cardinality(S)
BY DEF Cardinality, Assets!Cardinality

\* The smallest of some natural numbers is one of them.
LEMMA MinIsLeast ==
    ASSUME NEW S, S \subseteq Nat, S # {}
    PROVE  Assets!Min(S) \in S /\ \A n \in S : Assets!Min(S) <= n
<1>1. \E m \in S : \A n \in S : ~(<<n, m>> \in OpToRel(<, Nat))
  BY NatLessThanWellFounded, WFMin, Zenon
<1>2. OpToRel(<, Nat) = {ss \in Nat \X Nat : ss[1] < ss[2]}
  BY Zenon DEF OpToRel
<1>3. PICK R : R = {ss \in Nat \X Nat : ss[1] < ss[2]}
  OBVIOUS
<1>4. PICK m \in S : \A n \in S : ~(<<n, m>> \in R)
  BY <1>1, <1>2, <1>3, Zenon
<1>5. ASSUME NEW n \in S
      PROVE  m <= n
  <2>1. n \in Nat /\ m \in Nat
    BY <1>4
  <2>2. <<n, m>> \in R <=> n < m
    BY <1>3, <2>1
  <2> QED
    BY <1>4, <2>1, <2>2
<1> QED
  BY <1>5 DEF Assets!Min

LEMMA LeastIsMin ==
    ASSUME NEW S, S \subseteq Nat, NEW m \in S, \A n \in S : ~(n < m)
    PROVE  Assets!Min(S) = m
<1>1. Assets!Min(S) \in S /\ Assets!Min(S) <= m
  BY MinIsLeast
<1>2. m \in Nat /\ Assets!Min(S) \in Nat /\ ~(Assets!Min(S) < m)
  BY <1>1
<1> QED
  BY <1>1, <1>2

\* Both programs take the kit in the song's directory, and the only one else.
LEMMA KitsAgree == Assets!ToolsAgree
<1> SUFFICES ASSUME NEW song \in Assets!Songs,
                    Assets!FindMwk(song, Assets!OwnKit(song)) # Assets!NoPath,
                    Assets!Samplepack(song, Assets!KitName(song)) # Assets!NoPath
             PROVE  \/ Assets!FindMwk(song, Assets!OwnKit(song))
                         = Assets!Samplepack(song, Assets!KitName(song))
                    \/ /\ Assets!MenuKey(song) \in DOMAIN w4
                       /\ w4[Assets!MenuKey(song)] # Assets!OwnKit(song)
  BY DEF Assets!ToolsAgree
\* A song packed with a kit that no menu names is a runtime song.
<1>1. CASE Assets!KitName(song) # Assets!OwnKit(song)
  <2>1. Assets!KitName(song) # Assets!NoKit
    BY DEF Assets!Samplepack
  <2>2. CASE Assets!MenuKey(song) \in DOMAIN w4
    BY <1>1, <2>2 DEF Assets!KitName
  <2>3. CASE Assets!MenuKey(song) \notin DOMAIN w4
    BY <1>1, <2>1, <2>3 DEF Assets!KitName, Assets!HeaderKit, Assets!OwnKit
  <2> QED
    BY <2>2, <2>3
<1>2. CASE Assets!KitName(song) = Assets!OwnKit(song)
  <2> DEFINE kits == Assets!Kits(Assets!KitName(song))
             beside == Assets!Beside(song, kits)
  <2>1. CASE beside # {}
    BY <1>2, <2>1 DEF Assets!FindMwk, Assets!Samplepack
  <2>2. CASE beside = {}
    <3>1. {w5[p] : p \in beside} = {}
      BY <2>2
    <3>2. ~Assets!Only(beside)
      BY <3>1, SameCardinality, FS_EmptySet DEF Assets!Only
    <3> QED
      BY <1>2, <2>2, <3>2 DEF Assets!FindMwk, Assets!Samplepack
  <2> QED
    BY <2>1, <2>2
<1> QED
  BY <1>1, <1>2

-----------------------------------------------------------------------------
\* The members of a run, which no step changes.
LEMMA Layout ==
    ASSUME Assets!Types
    PROVE  /\ Len(Assets!Members) \in Nat /\ DOMAIN Assets!Members = 1..Len(Assets!Members)
           /\ \A i \in DOMAIN Assets!Members :
                /\ Assets!Members[i].type = "menu" => DOMAIN Assets!Members[i].data \subseteq Nat
                /\ Assets!Members[i].type # "menu" =>
                     Assets!Target(Assets!Members[i]) \in DOMAIN AssetNames
           /\ DOMAIN AssetNames \subseteq Nat
<1>1. Assets!Members = Assets!MembersOf(w1) /\ w1 \in AssetWorlds
  BY DEF Assets!Members, Assets!Types
<1>2. /\ Len(Assets!Members) \in Nat /\ DOMAIN Assets!Members = 1..Len(Assets!Members)
      /\ \A i \in DOMAIN Assets!Members :
           IF Assets!Members[i].type = "menu" THEN DOMAIN Assets!Members[i].data \subseteq Nat
           ELSE \E p \in DOMAIN AssetNames :
                  /\ AssetNames[p].dir = Assets!Collection(Assets!Members[i])
                  /\ AssetNames[p].type = Assets!Members[i].type
                  /\ AssetNames[p].stem = Assets!Members[i].name
  BY Zenon, <1>1, AssetAssumption DEF Assets!Sane
<1>3. ASSUME NEW i \in DOMAIN Assets!Members, Assets!Members[i].type # "menu"
      PROVE  Assets!Target(Assets!Members[i]) \in DOMAIN AssetNames
  <2>1. \E p \in DOMAIN AssetNames :
          /\ AssetNames[p].dir = Assets!Collection(Assets!Members[i])
          /\ AssetNames[p].type = Assets!Members[i].type
          /\ AssetNames[p].stem = Assets!Members[i].name
    BY <1>2, <1>3
  <2> QED
    BY <2>1, Zenon DEF Assets!Target
<1>4. DOMAIN AssetNames \subseteq Nat
  BY AssetAssumption DEF Assets!Sane
<1> QED
  BY <1>2, <1>3, <1>4

LEMMA Frozen ==
    ASSUME w1' = w1
    PROVE  /\ Assets!Members' = Assets!Members
           /\ \A p : Assets!Original(p)' = Assets!Original(p)
           /\ \A key : /\ Assets!Menus(key)' = Assets!Menus(key)
                       /\ Assets!KitOf(key)' = Assets!KitOf(key)
<1>1. Assets!Members' = Assets!Members
  BY DEF Assets!Members
<1> QED
  BY <1>1 DEF Assets!Original, Assets!Menus, Assets!KitOf

\* The member that is read when no earlier one has its path is the first.
LEMMA FirstIsOriginal ==
    ASSUME Assets!Types, NEW i \in DOMAIN Assets!Members, Assets!Members[i].type # "menu",
           \A j \in DOMAIN Assets!Members :
              j < i /\ Assets!Members[j].type # "menu" =>
                Assets!Target(Assets!Members[j]) # Assets!Target(Assets!Members[i])
    PROVE  Assets!Original(Assets!Target(Assets!Members[i])) = Assets!Members[i].data
<1> DEFINE same == {j \in DOMAIN Assets!Members :
                      /\ Assets!Members[j].type # "menu"
                      /\ Assets!Target(Assets!Members[j]) = Assets!Target(Assets!Members[i])}
<1>1. same \subseteq Nat /\ i \in same /\ \A j \in same : ~(j < i)
  BY Layout
<1>2. Assets!Min(same) = i
  BY <1>1, LeastIsMin
<1> QED
  BY <1>2 DEF Assets!Original

\* Likewise for a menu's record.
LEMMA FirstIsKept ==
    ASSUME Assets!Types, NEW key, NEW i \in Assets!Menus(key), \A j \in Assets!Menus(key) : ~(j < i)
    PROVE  Assets!KitOf(key)
             = Assets!Members[i].data[Assets!Min(Assets!Naming(Assets!Members[i], key[2]))].kit
<1>1. Assets!Menus(key) \subseteq Nat
  BY Layout DEF Assets!Menus
<1>2. Assets!Min(Assets!Menus(key)) = i
  BY <1>1, LeastIsMin
<1> QED
  BY <1>2 DEF Assets!KitOf

\* The paths are numbered, so there are finitely many files.
LEMMA FilesFinite ==
    ASSUME Assets!Types
    PROVE  IsFiniteSet(DOMAIN w5) /\ DOMAIN w5 \subseteq Nat
<1>1. Len(AssetNames) \in Nat /\ DOMAIN AssetNames = 1..Len(AssetNames)
  BY AssetAssumption DEF Assets!Sane
<1>2. IsFiniteSet(DOMAIN AssetNames)
  BY <1>1, FS_Interval
<1> QED
  BY <1>1, <1>2, FS_Subset DEF Assets!Types

\* Unless a write begins, ends or is interrupted, the damage is the same.
LEMMA DamageStays ==
    ASSUME Assets!CrashInv, w2 # "write", w2' # "write", UNCHANGED <<w1, w5, w10>>
    PROVE  Assets!CrashInv'
<1>1. \A p : Assets!Original(p)' = Assets!Original(p)
  BY Frozen
<1>2. Assets!Damaged' = Assets!Damaged
  BY <1>1 DEF Assets!Damaged, Assets!Writing
<1> QED
  BY <1>2 DEF Assets!CrashInv

-----------------------------------------------------------------------------
\* The steps of an extraction.
LEMMA ReadMenuKeeps == ASSUME Assets!Inv, Assets!ReadMenu PROVE Assets!Inv'
<1>1. /\ w2 = "extract" /\ w3 <= Len(Assets!Members) /\ Assets!Members[w3].type = "menu"
      /\ w4' = Assets!Recorded(w4, Assets!Members[w3]) /\ w3' = w3 + 1
      /\ UNCHANGED <<w1, w2, w5, w6, w7, w8, w9, w10>>
  BY DEF Assets!ReadMenu
<1>2. /\ Assets!Members' = Assets!Members /\ \A p : Assets!Original(p)' = Assets!Original(p)
      /\ \A key : /\ Assets!Menus(key)' = Assets!Menus(key)
                  /\ Assets!KitOf(key)' = Assets!KitOf(key)
  BY <1>1, Frozen
<1>3. /\ Len(Assets!Members) \in Nat /\ DOMAIN Assets!Members = 1..Len(Assets!Members)
      /\ w3 \in DOMAIN Assets!Members
  BY <1>1, Layout DEF Assets!Inv, Assets!Types
<1>4. /\ DOMAIN w4' = DOMAIN w4 \cup Assets!Listed(Assets!Members[w3])
      /\ w4' = [k \in DOMAIN w4' |-> w4'[k]]
      /\ \A k \in DOMAIN w4 : w4'[k] = w4[k]
      /\ \A k \in Assets!Listed(Assets!Members[w3]) \ DOMAIN w4 :
           w4'[k] = Assets!Members[w3].data[Assets!Min(Assets!Naming(Assets!Members[w3], k[2]))].kit
  BY <1>1 DEF Assets!Recorded
<1>5. Assets!Types'
  BY <1>1, <1>2, <1>3, <1>4 DEF Assets!Inv, Assets!Types
<1>6. Assets!FilesInv'
  <2>1. ASSUME NEW i \in DOMAIN Assets!Members, i < w3', Assets!Members[i].type # "menu"
        PROVE  Assets!Target(Assets!Members[i]) \in DOMAIN w5
    <3>1. i < w3
      BY <1>1, <1>3, <2>1
    <3> QED
      BY <2>1, <3>1 DEF Assets!Inv, Assets!FilesInv
  <2> QED
    BY <1>1, <1>2, <2>1 DEF Assets!Inv, Assets!FilesInv
<1>7. ASSUME NEW key
      PROVE  /\ key \in DOMAIN w4' <=> \E i \in Assets!Menus(key) : i < w3'
             /\ key \in DOMAIN w4' => w4'[key] = Assets!KitOf(key)
  <2>1. /\ key \in DOMAIN w4 <=> \E i \in Assets!Menus(key) : i < w3
        /\ key \in DOMAIN w4 => w4[key] = Assets!KitOf(key)
    BY DEF Assets!Inv, Assets!MenuInv
  <2>2. w3 \in Assets!Menus(key) <=> key \in Assets!Listed(Assets!Members[w3])
    BY <1>1, <1>3 DEF Assets!Menus
  <2>3. \A i \in Assets!Menus(key) : i < w3' <=> i < w3 \/ i = w3
    BY <1>1, <1>3 DEF Assets!Menus
  <2>4. key \in DOMAIN w4' <=> \E i \in Assets!Menus(key) : i < w3'
    BY <1>4, <2>1, <2>2, <2>3
  <2>5. ASSUME key \in Assets!Listed(Assets!Members[w3]) \ DOMAIN w4
        PROVE  w4'[key] = Assets!KitOf(key)
    <3>1. w3 \in Assets!Menus(key) /\ \A j \in Assets!Menus(key) : ~(j < w3)
      BY <2>1, <2>2, <2>5
    <3>2. Assets!KitOf(key)
            = Assets!Members[w3].data[Assets!Min(Assets!Naming(Assets!Members[w3], key[2]))].kit
      BY <3>1, FirstIsKept DEF Assets!Inv
    <3> QED
      BY <1>4, <2>5, <3>2
  <2> QED
    BY <1>4, <2>1, <2>4, <2>5
<1>8. Assets!MenuInv'
  BY <1>2, <1>7 DEF Assets!MenuInv
<1>9. Assets!CrashInv'
  BY <1>1, DamageStays DEF Assets!Inv
<1> QED
  BY <1>1, <1>5, <1>6, <1>8, <1>9 DEF Assets!Inv, Assets!CountInv, Assets!KspInv

\* What was there before a step that passes a member, or a file, stays passed.
LEMMA KeepKeeps == ASSUME Assets!Inv, Assets!Keep PROVE Assets!Inv'
<1>1. /\ w2 = "extract" /\ w3 <= Len(Assets!Members) /\ Assets!Members[w3].type # "menu"
      /\ Assets!Target(Assets!Members[w3]) \in DOMAIN w5 /\ w3' = w3 + 1
      /\ UNCHANGED <<w1, w2, w4, w5, w6, w7, w8, w9, w10>>
  BY DEF Assets!Keep
<1>2. /\ Assets!Members' = Assets!Members /\ \A p : Assets!Original(p)' = Assets!Original(p)
      /\ \A key : /\ Assets!Menus(key)' = Assets!Menus(key)
                  /\ Assets!KitOf(key)' = Assets!KitOf(key)
  BY <1>1, Frozen
<1>3. /\ Len(Assets!Members) \in Nat /\ DOMAIN Assets!Members = 1..Len(Assets!Members)
      /\ w3 \in DOMAIN Assets!Members
  BY <1>1, Layout DEF Assets!Inv, Assets!Types
<1>4. Assets!Types'
  BY <1>1, <1>2, <1>3 DEF Assets!Inv, Assets!Types
<1>5. \A i \in DOMAIN Assets!Members : i < w3' <=> i < w3 \/ i = w3
  BY <1>1, <1>3
<1>6. Assets!FilesInv'
  <2>1. \A i \in DOMAIN Assets!Members :
          i < w3' /\ Assets!Members[i].type # "menu" =>
             Assets!Target(Assets!Members[i]) \in DOMAIN w5
    BY <1>1, <1>5 DEF Assets!Inv, Assets!FilesInv
  <2> QED
    BY <1>1, <1>2, <2>1 DEF Assets!Inv, Assets!FilesInv
<1>7. Assets!MenuInv'
  <2>1. \A key : w3 \notin Assets!Menus(key)
    BY <1>1 DEF Assets!Menus
  <2>2. \A key, i : i \in Assets!Menus(key) => i \in DOMAIN Assets!Members
    BY DEF Assets!Menus
  <2>3. \A key : (\E i \in Assets!Menus(key) : i < w3') <=> (\E i \in Assets!Menus(key) : i < w3)
    BY <1>5, <2>1, <2>2
  <2> QED
    BY <1>1, <1>2, <2>3 DEF Assets!Inv, Assets!MenuInv
<1>8. Assets!CrashInv'
  BY <1>1, DamageStays DEF Assets!Inv
<1> QED
  BY <1>1, <1>4, <1>6, <1>7, <1>8 DEF Assets!Inv, Assets!CountInv, Assets!KspInv

LEMMA OpenTargetKeeps == ASSUME Assets!Inv, Assets!OpenTarget PROVE Assets!Inv'
<1> DEFINE path == Assets!Target(Assets!Members[w3])
<1>1. /\ w2 = "extract" /\ w3 <= Len(Assets!Members) /\ Assets!Members[w3].type # "menu"
      /\ path \notin DOMAIN w5 /\ w5' = Assets!Put(w5, path, Assets!Cut) /\ w2' = "write"
      /\ UNCHANGED <<w1, w3, w4, w6, w7, w8, w9, w10>>
  BY DEF Assets!OpenTarget
<1>2. /\ Assets!Members' = Assets!Members /\ \A p : Assets!Original(p)' = Assets!Original(p)
      /\ \A key : /\ Assets!Menus(key)' = Assets!Menus(key)
                  /\ Assets!KitOf(key)' = Assets!KitOf(key)
  BY <1>1, Frozen
<1>3. w3 \in DOMAIN Assets!Members /\ path \in DOMAIN AssetNames
  BY <1>1, Layout DEF Assets!Inv, Assets!Types
<1> HIDE DEF path
<1>4. /\ DOMAIN w5' = DOMAIN w5 \cup {path} /\ w5' = [p \in DOMAIN w5' |-> w5'[p]]
      /\ w5'[path] = Assets!Cut /\ \A p \in DOMAIN w5 : w5'[p] \in {Assets!Cut, w5[p]}
  BY <1>1 DEF Assets!Put
<1>5. Assets!Types'
  BY <1>1, <1>2, <1>3, <1>4 DEF Assets!Inv, Assets!Types, Assets!States
<1>6. Assets!FilesInv'
  <2>1. \A p \in DOMAIN w5' : w5'[p] \in {Assets!Cut, Assets!Original(p)}
    BY <1>4 DEF Assets!Inv, Assets!FilesInv
  <2>2. \A i \in DOMAIN Assets!Members :
          i < w3 /\ Assets!Members[i].type # "menu" =>
             /\ Assets!Target(Assets!Members[i]) \in DOMAIN w5
             /\ Assets!Target(Assets!Members[i]) # path
    BY <1>1 DEF Assets!Inv, Assets!FilesInv
  <2> QED
    BY <1>1, <1>2, <1>3, <1>4, <2>1, <2>2 DEF Assets!FilesInv, path
<1>7. Assets!MenuInv'
  BY <1>1, <1>2 DEF Assets!Inv, Assets!MenuInv
<1>8. Assets!CrashInv'
  <2>1. Assets!Writing = {} /\ Assets!Writing' = {path}
    BY <1>1, <1>2 DEF Assets!Writing, path
  <2>2. \A p \in DOMAIN w5 : w5'[p] = w5[p]
    BY <1>1 DEF Assets!Put
  <2>3. Assets!Damaged' = Assets!Damaged
    BY <1>1, <1>2, <1>4, <2>1, <2>2 DEF Assets!Damaged
  <2> QED
    BY <1>1, <2>3 DEF Assets!Inv, Assets!CrashInv
<1> QED
  BY <1>1, <1>5, <1>6, <1>7, <1>8 DEF Assets!Inv, Assets!CountInv, Assets!KspInv

LEMMA WriteTargetKeeps == ASSUME Assets!Inv, Assets!WriteTarget PROVE Assets!Inv'
<1> DEFINE path == Assets!Target(Assets!Members[w3])
<1>1. /\ w2 = "write" /\ w5' = [w5 EXCEPT ![path] = Assets!Members[w3].data]
      /\ w2' = "extract" /\ w3' = w3 + 1
      /\ UNCHANGED <<w1, w4, w6, w7, w8, w9, w10>>
  BY DEF Assets!WriteTarget
<1>2. /\ Assets!Members' = Assets!Members /\ \A p : Assets!Original(p)' = Assets!Original(p)
      /\ \A key : /\ Assets!Menus(key)' = Assets!Menus(key)
                  /\ Assets!KitOf(key)' = Assets!KitOf(key)
  BY <1>1, Frozen
<1>3. /\ w3 \in DOMAIN Assets!Members /\ Assets!Members[w3].type # "menu" /\ path \in DOMAIN w5
      /\ Assets!Members[w3].data = Assets!Original(path)
  BY <1>1, FirstIsOriginal DEF Assets!Inv, Assets!FilesInv
<1>4. Len(Assets!Members) \in Nat /\ DOMAIN Assets!Members = 1..Len(Assets!Members)
  BY Layout DEF Assets!Inv
<1> HIDE DEF path
<1>5. /\ DOMAIN w5' = DOMAIN w5 /\ w5' = [p \in DOMAIN w5' |-> w5'[p]]
      /\ w5'[path] = Assets!Original(path)
      /\ \A p \in DOMAIN w5 : w5'[p] \in {Assets!Original(p), w5[p]}
  BY <1>1, <1>3 DEF Assets!Inv, Assets!Types
<1>6. Assets!Types'
  BY <1>1, <1>2, <1>3, <1>4, <1>5 DEF Assets!Inv, Assets!Types, Assets!States
<1>7. \A i \in DOMAIN Assets!Members : i < w3' <=> i < w3 \/ i = w3
  BY <1>1, <1>3, <1>4
<1>8. Assets!FilesInv'
  <2>1. \A p \in DOMAIN w5' : w5'[p] \in {Assets!Cut, Assets!Original(p)}
    BY <1>5 DEF Assets!Inv, Assets!FilesInv
  <2>2. \A i \in DOMAIN Assets!Members :
          i < w3' /\ Assets!Members[i].type # "menu" =>
             Assets!Target(Assets!Members[i]) \in DOMAIN w5
    BY <1>3, <1>7 DEF Assets!Inv, Assets!FilesInv, path
  <2> QED
    BY <1>1, <1>2, <1>5, <2>1, <2>2 DEF Assets!FilesInv
<1>9. Assets!MenuInv'
  <2>1. \A key : w3 \notin Assets!Menus(key)
    BY <1>3 DEF Assets!Menus
  <2>2. \A key, i : i \in Assets!Menus(key) => i \in DOMAIN Assets!Members
    BY DEF Assets!Menus
  <2>3. \A key : (\E i \in Assets!Menus(key) : i < w3') <=> (\E i \in Assets!Menus(key) : i < w3)
    BY <1>7, <2>1, <2>2
  <2> QED
    BY <1>1, <1>2, <2>3 DEF Assets!Inv, Assets!MenuInv
<1>10. Assets!CrashInv'
  <2>1. Assets!Writing = {path} /\ Assets!Writing' = {}
    BY <1>1 DEF Assets!Writing, path
  <2>2. \A p \in DOMAIN w5 : p # path => w5'[p] = w5[p]
    BY <1>1 DEF Assets!Inv, Assets!Types
  <2>3. Assets!Damaged' = Assets!Damaged
    BY <1>2, <1>5, <2>1, <2>2 DEF Assets!Damaged
  <2> QED
    BY <1>1, <2>3 DEF Assets!Inv, Assets!CrashInv
<1> QED
  BY <1>1, <1>6, <1>8, <1>9, <1>10 DEF Assets!Inv, Assets!CountInv, Assets!KspInv

\* An interruption: nothing is passed yet, and the files that are there stay.
LEMMA RestartKeeps == ASSUME Assets!Inv, Assets!Restart PROVE Assets!Inv'
<1>1. /\ w2' = "extract" /\ w3' = 1 /\ w4' = <<>> /\ w7' = {} /\ w8' = 0
      /\ w10' = w10 + 1 /\ UNCHANGED <<w1, w5, w9>>
  BY DEF Assets!Restart
<1>2. /\ Assets!Members' = Assets!Members /\ \A p : Assets!Original(p)' = Assets!Original(p)
      /\ \A key : /\ Assets!Menus(key)' = Assets!Menus(key)
                  /\ Assets!KitOf(key)' = Assets!KitOf(key)
  BY <1>1, Frozen
<1>3. Len(Assets!Members) \in Nat /\ DOMAIN Assets!Members = 1..Len(Assets!Members)
  BY Layout DEF Assets!Inv
<1>4. \A i \in DOMAIN Assets!Members : ~(i < w3')
  BY <1>1, <1>3
<1>5. Assets!Types'
  BY <1>1, <1>2, <1>3 DEF Assets!Inv, Assets!Types, Assets!States
<1>6. Assets!FilesInv'
  BY <1>1, <1>2, <1>4 DEF Assets!Inv, Assets!FilesInv
<1>7. Assets!MenuInv'
  <2>1. DOMAIN w4' = {}
    BY <1>1
  <2>2. \A key : ~\E i \in Assets!Menus(key) : i < w3'
    BY <1>4 DEF Assets!Menus
  <2> QED
    BY <1>2, <2>1, <2>2 DEF Assets!MenuInv
<1>8. Assets!CrashInv'
  <2> DEFINE before == Assets!Damaged
  <2>1. IsFiniteSet(before) /\ Assets!CrashInv
    BY FilesFinite, FS_Subset DEF Assets!Inv, Assets!Damaged
  <2>2. Assets!Writing' = {}
    BY <1>1 DEF Assets!Writing
  <2>3. \/ Assets!Damaged' = before
        \/ \E p : p \notin before /\ Assets!Damaged' = before \cup {p}
    <3>1. Assets!Writing = {} \/ \E p : Assets!Writing = {p}
      BY DEF Assets!Writing
    <3>2. Assets!Damaged' = {p \in DOMAIN w5 : w5[p] # Assets!Original(p)}
      BY <1>1, <1>2, <2>2 DEF Assets!Damaged
    <3> QED
      BY <3>1, <3>2 DEF Assets!Damaged
  <2>4. Assets!Cardinality(before) \in Nat /\ Assets!Cardinality(before) <= w10 /\ w10 \in Nat
    BY <2>1, SameCardinality, FS_CardinalityType DEF Assets!CrashInv
  <2>5. Assets!Cardinality(Assets!Damaged') <= w10 + 1
    <3> HIDE DEF before
    <3>1. CASE Assets!Damaged' = before
      BY <2>4, <3>1
    <3>2. CASE \E p : p \notin before /\ Assets!Damaged' = before \cup {p}
      <4>1. PICK p : p \notin before /\ Assets!Damaged' = before \cup {p}
        BY <3>2
      <4>2. Cardinality(before \cup {p}) = Cardinality(before) + 1
        BY <2>1, <4>1, FS_AddElement
      <4> QED
        BY <2>4, <4>1, <4>2, SameCardinality
    <3> QED
      BY <2>3, <3>1, <3>2
  <2> QED
    BY <1>1, <2>4, <2>5 DEF Assets!CrashInv
<1> QED
  BY <1>1, <1>5, <1>6, <1>7, <1>8 DEF Assets!Inv, Assets!CountInv, Assets!KspInv

-----------------------------------------------------------------------------
\* The steps of a conversion, in which files and menu stay what they are.
LEMMA Settled ==
    ASSUME UNCHANGED <<w1, w4, w5, w3>>
    PROVE  /\ Assets!Songs' = Assets!Songs /\ Assets!Drivers' = Assets!Drivers
           /\ Assets!Members' = Assets!Members
           /\ \A song : /\ Assets!Alone(song)' = Assets!Alone(song)
                        /\ Assets!MadeOf(song)' = Assets!MadeOf(song)
           /\ Assets!MenuInv' = Assets!MenuInv
<1>1. /\ Assets!Members' = Assets!Members /\ \A p : Assets!Original(p)' = Assets!Original(p)
      /\ \A key : /\ Assets!Menus(key)' = Assets!Menus(key)
                  /\ Assets!KitOf(key)' = Assets!KitOf(key)
  BY Frozen
<1>2. Assets!Songs' = Assets!Songs /\ Assets!Drivers' = Assets!Drivers
  BY DEF Assets!Songs, Assets!Drivers
<1>3. \A song : Assets!Alone(song)' = Assets!Alone(song)
  BY <1>2 DEF Assets!Alone
<1>4. \A song : Assets!MadeOf(song)' = Assets!MadeOf(song)
  BY <1>2 DEF Assets!MadeOf, Assets!Driver, Assets!Samplepack, Assets!KitName,
              Assets!HeaderKit, Assets!Kits
<1> QED
  BY <1>1, <1>2, <1>3, <1>4 DEF Assets!MenuInv

LEMMA SongsFinite ==
    ASSUME Assets!Types
    PROVE  IsFiniteSet(Assets!Songs) /\ Assets!Songs \subseteq DOMAIN w5 /\ DOMAIN w5 \subseteq Nat
<1>1. Assets!Songs \subseteq DOMAIN w5
  BY DEF Assets!Songs
<1> QED
  BY <1>1, FilesFinite, FS_Subset

LEMMA ExtractedKeeps == ASSUME Assets!Inv, Assets!Extracted PROVE Assets!Inv'
<1>1. /\ w2 = "extract" /\ w3 > Len(Assets!Members)
      /\ \/ w2' = "error"
         \/ w2' = "create" /\ Assets!Songs # {} /\ Assets!Drivers # {} /\ w6' = Assets!Songs
      /\ UNCHANGED <<w1, w3, w4, w5, w7, w8, w9, w10>>
  BY DEF Assets!Extracted
<1>2. /\ Assets!Songs' = Assets!Songs /\ Assets!Drivers' = Assets!Drivers
      /\ Assets!Members' = Assets!Members
      /\ Assets!MenuInv' = Assets!MenuInv /\ \A p : Assets!Original(p)' = Assets!Original(p)
  BY <1>1, Settled, Frozen
<1>3. Assets!Types' /\ Assets!FilesInv' /\ Assets!MenuInv'
  BY <1>1, <1>2 DEF Assets!Inv, Assets!Types, Assets!States, Assets!FilesInv
<1>4. w7' = {} /\ w8' = 0
  BY <1>1 DEF Assets!Inv, Assets!CountInv
<1>5. Assets!CountInv'
  <2>1. Assets!Songs \ (Assets!Songs \cup {}) = {}
    OBVIOUS
  <2>2. Assets!Cardinality(Assets!Songs \ (Assets!Songs \cup {})) = 0
    BY <2>1, SameCardinality, FS_EmptySet
  <2>3. CASE w2' = "error"
    BY <2>3 DEF Assets!CountInv
  <2>4. CASE w2' = "create"
    BY <1>1, <1>2, <1>4, <2>2, <2>4 DEF Assets!CountInv
  <2> QED
    BY <1>1, <2>3, <2>4
<1>6. Assets!KspInv'
  BY <1>4 DEF Assets!KspInv
<1>7. Assets!CrashInv'
  BY <1>1, DamageStays DEF Assets!Inv
<1> QED
  BY <1>3, <1>5, <1>6, <1>7 DEF Assets!Inv

LEMMA CreateKeeps == ASSUME Assets!Inv, Assets!Create PROVE Assets!Inv'
<1> DEFINE song == Assets!Min(w6)
<1>1. /\ w2 = "create" /\ w6 # {} /\ w6' = w6 \ {song}
      /\ UNCHANGED <<w1, w2, w3, w4, w5, w10>>
  BY DEF Assets!Create
<1>2. \/ w8' = w8 + 1 /\ UNCHANGED <<w7, w9>>
      \/ /\ w9' = Assets!Put(w9, Assets!Output(song), Assets!MadeOf(song))
         /\ w7' = w7 \cup {song} /\ UNCHANGED w8
  BY DEF Assets!Create, Assets!MadeOf
<1>3. /\ Assets!Songs' = Assets!Songs /\ Assets!Drivers' = Assets!Drivers
      /\ Assets!Members' = Assets!Members
      /\ \A s : Assets!Alone(s)' = Assets!Alone(s) /\ Assets!MadeOf(s)' = Assets!MadeOf(s)
      /\ Assets!MenuInv' = Assets!MenuInv /\ \A p : Assets!Original(p)' = Assets!Original(p)
  BY <1>1, Settled, Frozen
<1>4. /\ w3 > Len(Assets!Members) /\ Assets!Drivers # {}
      /\ w6 \subseteq Assets!Songs /\ w7 \subseteq Assets!Songs /\ w6 \cap w7 = {}
      /\ w8 = Assets!Cardinality(Assets!Songs \ (w6 \cup w7))
  BY <1>1 DEF Assets!Inv, Assets!CountInv
<1>5. IsFiniteSet(Assets!Songs) /\ w6 \subseteq Nat
  BY <1>4, SongsFinite DEF Assets!Inv
<1>6. song \in w6
  BY <1>1, <1>5, MinIsLeast
<1> HIDE DEF song
<1>7. Assets!Types' /\ Assets!FilesInv' /\ Assets!MenuInv'
  BY <1>1, <1>3 DEF Assets!Inv, Assets!Types, Assets!FilesInv
<1>8. Assets!CrashInv'
  BY <1>1, DamageStays DEF Assets!Inv
<1>9. CASE w8' = w8 + 1 /\ UNCHANGED <<w7, w9>>
  <2>1. Assets!Songs \ (w6' \cup w7') = (Assets!Songs \ (w6 \cup w7)) \cup {song}
    BY <1>1, <1>4, <1>6, <1>9
  <2>2. song \notin Assets!Songs \ (w6 \cup w7) /\ IsFiniteSet(Assets!Songs \ (w6 \cup w7))
    BY <1>5, <1>6, FS_Subset
  <2>3. Assets!Cardinality(Assets!Songs \ (w6' \cup w7'))
          = Assets!Cardinality(Assets!Songs \ (w6 \cup w7)) + 1
    BY <2>1, <2>2, SameCardinality, FS_AddElement
  <2>4. Assets!CountInv'
    BY <1>1, <1>3, <1>4, <1>9, <2>3 DEF Assets!CountInv
  <2>5. Assets!KspInv'
    BY <1>1, <1>3, <1>9 DEF Assets!Inv, Assets!KspInv
  <2> QED
    BY <1>7, <1>8, <2>4, <2>5 DEF Assets!Inv
<1>10. CASE /\ w9' = Assets!Put(w9, Assets!Output(song), Assets!MadeOf(song))
           /\ w7' = w7 \cup {song} /\ UNCHANGED w8
  <2>1. Assets!Songs \ (w6' \cup w7') = Assets!Songs \ (w6 \cup w7)
    BY <1>1, <1>4, <1>6, <1>10
  <2>2. Assets!CountInv'
    BY <1>1, <1>3, <1>4, <1>6, <1>10, <2>1 DEF Assets!CountInv
  <2>3. ASSUME NEW s \in w7', Assets!Alone(s)
        PROVE  Assets!Output(s) \in DOMAIN w9' /\ w9'[Assets!Output(s)] = Assets!MadeOf(s)
    <3>1. CASE s = song
      BY <1>10, <3>1 DEF Assets!Put
    <3>2. CASE s \in w7 /\ s # song
      <4>1. Assets!Output(s) \in DOMAIN w9 /\ w9[Assets!Output(s)] = Assets!MadeOf(s)
        BY <1>1, <2>3, <3>2 DEF Assets!Inv, Assets!KspInv
      <4>2. Assets!Output(s) # Assets!Output(song)
        BY <1>4, <1>6, <2>3, <3>2 DEF Assets!Alone
      <4> QED
        BY <1>10, <4>1, <4>2 DEF Assets!Put
    <3> QED
      BY <1>10, <3>1, <3>2
  <2>4. Assets!KspInv'
    BY <1>1, <1>3, <2>3 DEF Assets!KspInv, Assets!Output, Assets!MenuKey
  <2> QED
    BY <1>7, <1>8, <2>2, <2>4 DEF Assets!Inv
<1> QED
  BY <1>2, <1>9, <1>10

LEMMA ReportKeeps ==
    ASSUME Assets!Inv, Assets!Report \/ UNCHANGED Assets!vars
    PROVE  Assets!Inv'
<1>1. /\ \/ w2 = "create" /\ w6 = {} /\ w2' = "done"
         \/ w2' = w2
      /\ UNCHANGED <<w1, w3, w4, w5, w6, w7, w8, w9, w10>>
  BY DEF Assets!Report, Assets!vars
<1>2. /\ Assets!Songs' = Assets!Songs /\ Assets!Drivers' = Assets!Drivers
      /\ Assets!Members' = Assets!Members
      /\ \A s : Assets!Alone(s)' = Assets!Alone(s) /\ Assets!MadeOf(s)' = Assets!MadeOf(s)
      /\ Assets!MenuInv' = Assets!MenuInv /\ \A p : Assets!Original(p)' = Assets!Original(p)
  BY <1>1, Settled, Frozen
<1>3. Assets!Types' /\ Assets!MenuInv' /\ Assets!CountInv' /\ Assets!KspInv'
  BY <1>1, <1>2 DEF Assets!Inv, Assets!Types, Assets!States, Assets!CountInv, Assets!KspInv
<1>4. Assets!FilesInv'
  BY <1>1, <1>2 DEF Assets!Inv, Assets!FilesInv
<1>5. Assets!CrashInv'
  <2>1. Assets!Damaged' = Assets!Damaged
    BY <1>1, <1>2 DEF Assets!Damaged, Assets!Writing
  <2> QED
    BY <1>1, <2>1 DEF Assets!Inv, Assets!CrashInv
<1> QED
  BY <1>3, <1>4, <1>5 DEF Assets!Inv

-----------------------------------------------------------------------------
LEMMA BatchStarts == ASSUME Assets!Init PROVE Assets!Inv
<1>1. Assets!Types
  <2>1. Len(Assets!Members) \in Nat
    BY AssetAssumption DEF Assets!Sane, Assets!Init, Assets!Members
  <2> QED
    BY <2>1 DEF Assets!Init, Assets!Types, Assets!States
<1>2. \A i \in DOMAIN Assets!Members : ~(i < 1)
  BY <1>1, Layout
<1>3. Assets!FilesInv
  BY <1>2 DEF Assets!Init, Assets!FilesInv
<1>4. Assets!MenuInv
  BY <1>2 DEF Assets!Init, Assets!MenuInv, Assets!Menus
<1>5. Assets!CrashInv
  <2>1. Assets!Damaged = {} /\ w10 = 0
    BY DEF Assets!Init, Assets!Damaged
  <2> QED
    BY <2>1, SameCardinality, FS_EmptySet DEF Assets!CrashInv
<1> QED
  BY <1>1, <1>3, <1>4, <1>5 DEF Assets!Init, Assets!Inv, Assets!CountInv, Assets!KspInv

LEMMA BatchGoesOn == ASSUME Assets!Inv, [Assets!Next]_(Assets!vars) PROVE Assets!Inv'
BY ReadMenuKeeps, KeepKeeps, OpenTargetKeeps, WriteTargetKeeps, ExtractedKeeps, CreateKeeps,
   ReportKeeps, RestartKeeps DEF Assets!Next, Assets!Stopped

\* When every member has been passed, a song's kit is the one first named.
LEMMA KitIsNamed ==
    ASSUME Assets!Inv, w2 = "done", NEW song \in w7, w5[song] = Assets!Original(song)
    PROVE  Assets!KitName(song) = Assets!NamedKit(song)
<1> DEFINE key == Assets!MenuKey(song)
<1>1. Assets!Listing(song) = Assets!Menus(key)
  BY DEF Assets!Listing, Assets!Menus, Assets!Listed, Assets!MenuKey
<1>2. \A i \in Assets!Menus(key) : i < w3
  <2>1. Assets!Types /\ w3 > Len(Assets!Members) /\ w3 \in 1..(Len(Assets!Members) + 1)
    BY DEF Assets!Inv, Assets!CountInv, Assets!Types
  <2>2. Len(Assets!Members) \in Nat /\ DOMAIN Assets!Members = 1..Len(Assets!Members)
    BY <2>1, Layout
  <2> QED
    BY <2>1, <2>2 DEF Assets!Menus
<1>3. key \in DOMAIN w4 <=> Assets!Menus(key) # {}
  BY <1>2 DEF Assets!Inv, Assets!MenuInv
<1>4. CASE Assets!Menus(key) # {}
  BY <1>1, <1>3, <1>4 DEF Assets!KitName, Assets!NamedKit, Assets!Inv, Assets!MenuInv,
                          Assets!KitOf, Assets!Naming, Assets!MenuKey
<1>5. CASE Assets!Menus(key) = {}
  BY <1>1, <1>3, <1>5 DEF Assets!KitName, Assets!NamedKit, Assets!HeaderKit
<1> QED
  BY <1>4, <1>5

LEMMA BatchDamageIsLocal == ASSUME Assets!Inv PROVE Assets!DamageIsLocal
<1> SUFFICES ASSUME w2 = "done" PROVE Assets!DamageIsLocal
  BY DEF Assets!DamageIsLocal
<1>1. /\ Assets!Drivers # {} /\ w7 \subseteq Assets!Songs
      /\ w8 = Assets!Cardinality(Assets!Songs \ w7)
  <2>1. w6 = {} /\ w6 \cup w7 = w7
    BY DEF Assets!Inv, Assets!CountInv
  <2> QED
    BY <2>1 DEF Assets!Inv, Assets!CountInv
<1>2. Assets!Songs \subseteq DOMAIN w5 /\ DOMAIN w5 \subseteq Nat
  BY SongsFinite DEF Assets!Inv
<1>3. \A p \in DOMAIN w5 : w5[p] \in {Assets!Cut, Assets!Original(p)}
  BY DEF Assets!Inv, Assets!FilesInv
<1>4. \A i \in DOMAIN Assets!Members :
        Assets!Members[i].type # "menu" => Assets!Target(Assets!Members[i]) \in DOMAIN w5
  <2>1. /\ Len(Assets!Members) \in Nat /\ DOMAIN Assets!Members = 1..Len(Assets!Members)
        /\ w3 > Len(Assets!Members) /\ w3 \in 1..(Len(Assets!Members) + 1)
    BY Layout DEF Assets!Inv, Assets!CountInv, Assets!Types
  <2>2. \A i \in DOMAIN Assets!Members : i < w3
    BY <2>1
  <2> QED
    BY <2>2 DEF Assets!Inv, Assets!FilesInv
<1>5. Assets!Cardinality({p \in DOMAIN w5 : w5[p] # Assets!Original(p)}) <= w10
  <2>1. Assets!Damaged = {p \in DOMAIN w5 : w5[p] # Assets!Original(p)}
    BY DEF Assets!Damaged, Assets!Writing
  <2> QED
    BY <2>1 DEF Assets!Inv, Assets!CrashInv
<1>6. ASSUME NEW song \in w7, Assets!Alone(song)
      PROVE  LET made1 == w9[Assets!Output(song)]
             IN /\ made1.song \in {Assets!Cut, Assets!Original(song)}
                /\ made1.driver \in {Assets!Cut, Assets!Original(Assets!Driver(song))}
                /\ made1.song # Assets!Cut =>
                     made1.pack = Assets!Samplepack(song, Assets!NamedKit(song))
  <2>1. w5[song] \in {Assets!Cut, Assets!Original(song)}
    BY <1>1, <1>2, <1>3
  <2>2. Assets!Driver(song) \in DOMAIN w5
    <3>1. /\ Assets!Drivers \subseteq DOMAIN w5
          /\ Assets!Beside(song, Assets!Drivers) \subseteq Assets!Drivers
      BY DEF Assets!Drivers, Assets!Beside
    <3>2. Assets!Drivers \subseteq Nat /\ Assets!Beside(song, Assets!Drivers) \subseteq Nat
      BY <1>2, <3>1
    <3>3. Assets!Min(Assets!Drivers) \in Assets!Drivers
      BY <1>1, <3>2, MinIsLeast
    <3>4. Assets!Beside(song, Assets!Drivers) # {} =>
            Assets!Min(Assets!Beside(song, Assets!Drivers)) \in Assets!Beside(song, Assets!Drivers)
      BY <3>2, MinIsLeast
    <3> QED
      BY <3>1, <3>3, <3>4 DEF Assets!Driver
  <2>3. w9[Assets!Output(song)] = Assets!MadeOf(song)
    BY <1>6 DEF Assets!Inv, Assets!KspInv
  <2>4. w5[song] = Assets!Original(song) => Assets!KitName(song) = Assets!NamedKit(song)
    BY KitIsNamed
  <2> QED
    BY <1>3, <2>1, <2>2, <2>3, <2>4 DEF Assets!MadeOf
<1> QED
  BY <1>1, <1>4, <1>5, <1>6 DEF Assets!DamageIsLocal, Assets!Alone

-----------------------------------------------------------------------------
\* The batch of songs, with AssetBatch's own invariant while it runs.
AssetsInv == tool = "assets" => Assets!Inv

\* Every state of a batch satisfies the batch's invariant.
LEMMA SpecAssetsInv == Spec => []AssetsInv
<1>1. Init => AssetsInv
  <2> SUFFICES ASSUME Init, tool = "assets" PROVE Assets!Inv
    BY DEF AssetsInv
  <2>1. Assets!Init
    BY DEF Init
  <2> QED
    BY <2>1, BatchStarts
<1>2. AssetsInv /\ [Next]_vars => AssetsInv'
  <2> SUFFICES ASSUME AssetsInv, [Next]_vars, tool' = "assets" PROVE Assets!Inv'
    BY DEF AssetsInv
  <2>1. tool = "assets"
    BY DEF Next, RunPages, RunSnatcher, RunKcp, RunMoved, RunAssets, RunMwk,
           RunHaunted, RunChunked, RunChip, vars
  <2>2. [Assets!Next]_(Assets!vars)
    BY <2>1 DEF Next, RunPages, RunSnatcher, RunKcp, RunMoved, RunAssets, RunMwk,
                RunHaunted, RunChunked, RunChip, vars, work, Assets!vars
  <2> QED
    BY <2>1, <2>2, BatchGoesOn DEF AssetsInv
<1> QED
  BY <1>1, <1>2, PTL DEF Spec

\* However often dmv_mwm_to_ksp.py was interrupted, a batch that ends has every
\* file, counted its failures and damaged at most one file an interruption; a
\* song has the content, the driver and the kit of the first archive that has
\* them, unless one of these is damaged.
THEOREM SpecDamageIsLocal == Spec => []DamageIsLocal
<1>1. AssetsInv => DamageIsLocal
  BY BatchDamageIsLocal DEF AssetsInv, DamageIsLocal
<1> QED
  BY <1>1, SpecAssetsInv, PTL

\* Where the batch and the analyzer find different samples for a song, the menu
\* names another kit than the song does.
THEOREM SpecToolsAgree == Spec => []ToolsAgree
<1>1. ToolsAgree
  BY KitsAgree DEF ToolsAgree
<1> QED
  BY <1>1, PTL

-----------------------------------------------------------------------------
\* Archives of complete pages.

ArchivesInv == tool = "kcp" => Kcp!ArchiveInv

\* Every state of a conversion satisfies the conversion's invariant.
LEMMA SpecArchivesInv == Spec => []ArchivesInv
<1>1. Init => ArchivesInv
  BY Kcp!ArchiveStarts DEF Init, ArchivesInv
<1>2. ArchivesInv /\ [Next]_vars => ArchivesInv'
  <2> SUFFICES ASSUME ArchivesInv, [Next]_vars, tool' = "kcp" PROVE Kcp!ArchiveInv'
    BY DEF ArchivesInv
  <2>1. tool = "kcp"
    BY DEF Next, RunPages, RunSnatcher, RunKcp, RunMoved, RunAssets, RunMwk,
           RunHaunted, RunChunked, RunChip, vars
  <2>2. [Kcp!Next]_(Kcp!vars)
    BY <2>1 DEF Next, RunPages, RunSnatcher, RunKcp, RunMoved, RunAssets, RunMwk,
                RunHaunted, RunChunked, RunChip, vars, work, Kcp!vars
  <2> QED
    BY <2>1, <2>2, KcpAssumption, Kcp!ArchiveGoesOn DEF ArchivesInv
<1> QED
  BY <1>1, <1>2, PTL DEF Spec

\* What a tool has written into an archive is what a player reads out of it,
\* and what is in the page while a track turns it (build_konami_complete_pages.py,
\* convert_specialized_complete_pages_to_kcp.py, convert_sccplus_kcpx_to_kcpz.py,
\* the bundle's kcp_page_gateway).
THEOREM SpecPagesSurvive == Spec => []PagesSurvive
<1>1. ArchivesInv => PagesSurvive
  BY KcpAssumption, Kcp!InvHolds DEF ArchivesInv, PagesSurvive
<1> QED
  BY <1>1, SpecArchivesInv, PTL

\* A staged stream that fits a segment of the file is in one
\* (append_staged of convert_specialized_complete_pages_to_kcp.py).
THEOREM SpecStagedWhole == Spec => []StagedWhole
<1>1. ArchivesInv => StagedWhole
  BY Kcp!InvStagedWhole DEF ArchivesInv, StagedWhole
<1> QED
  BY <1>1, SpecArchivesInv, PTL

-----------------------------------------------------------------------------
\* Tracks in chunks.

TracksInv == tool = "chunked" => Chunked!TrackInv

\* Every state of a replay satisfies the replay's invariant.
LEMMA SpecTracksInv == Spec => []TracksInv
<1>1. Init => TracksInv
  BY ChunkedAssumption, Chunked!TrackStarts DEF Init, TracksInv
<1>2. TracksInv /\ [Next]_vars => TracksInv'
  <2> SUFFICES ASSUME TracksInv, [Next]_vars, tool' = "chunked" PROVE Chunked!TrackInv'
    BY DEF TracksInv
  <2>1. tool = "chunked"
    BY DEF Next, RunPages, RunSnatcher, RunKcp, RunMoved, RunAssets, RunMwk,
           RunHaunted, RunChunked, RunChip, vars
  <2>2. [Chunked!Next]_(Chunked!vars)
    BY <2>1 DEF Next, RunPages, RunSnatcher, RunKcp, RunMoved, RunAssets, RunMwk,
                RunHaunted, RunChunked, RunChip, vars, work, Chunked!vars, Chunked!built,
                Chunked!engine
  <2> QED
    BY <2>1, <2>2, Chunked!TrackGoesOn DEF TracksInv
<1> QED
  BY <1>1, <1>2, PTL DEF Spec

\* At every tick, also after the track started again, the registers, the delay
\* and the end are those of the track played in one piece: pages are invisible
\* (make_chunk and split_track of build_bomberman94_chunked.py and what became
\* of them, and the engine's apply_event and stream_end).
THEOREM SpecMatchesReference == Spec => []MatchesReference
<1>1. TracksInv => MatchesReference
  BY Chunked!InvMatches DEF TracksInv, MatchesReference
<1> QED
  BY <1>1, SpecTracksInv, PTL

\* Up to the last change of a track what is heard in each tick is what the PC
\* Engine played in that frame (encode of bomberman94_convert.py, and the
\* engine's play).
THEOREM SpecFirstPassFaithful == Spec => []FirstPassFaithful
<1>1. TracksInv => FirstPassFaithful
  BY Chunked!InvMatches DEF TracksInv, FirstPassFaithful
<1> QED
  BY <1>1, SpecTracksInv, PTL
=============================================================================
