--------------------------- MODULE CompactKsp_proofs ---------------------------
(***************************************************************************)
(* Proofs about CompactKsp, for every set of files laid out as the writer  *)
(* lays them out: what plays is the selected song unless DOS failed during *)
(* the switch, whatever failed in earlier switches, and no key selects two *)
(* songs.                                                                  *)
(***************************************************************************)
EXTENDS CompactKsp, FiniteSetTheorems, TLAPS

-----------------------------------------------------------------------------
(* The inductive invariant. *)

\* A hit on the tag would read bytes of another segment.
Stale == tag # NoTag /\ line # tag

Parsing == {"trailer", "directory", "scan"}
Building == {"invalidate", "engine", "music", "install", "play"}

\* Where the player is in the file.  The directory is read at or behind its
\* start, the engine and the music before it, in ascending order.
Position ==
    /\ pc \in Parsing => file.directory[1] <= at
    /\ pc \in {"upload", "invalidate"} => at > to
    /\ pc = "engine" => IF file.packedEngine THEN to = file.engine[2]
                        ELSE at > to /\ tag = NoTag
    /\ pc = "music" => to = file.music[song][2]

\* A stale tag is harmless: it names a segment that is not read again before
\* the line is filled.
LineInv ==
    /\ pc \in Parsing /\ Stale => ~good \/ tag < file.directory[1]
    /\ pc = "engine" =>
         /\ tag # NoTag => tag < at
         /\ Stale => tag + 1 < at /\ tag < file.directory[1]
    /\ pc = "music" =>
         /\ tag # NoTag => tag <= at
         /\ Stale => tag < at /\ tag < file.directory[1]
    /\ pc \in {"install", "play"} /\ Stale => tag < file.directory[1]

\* Behind the directory the song is one of the file's, and a kit is looked
\* for only if it has one.
Found ==
    /\ pc \in {"scan", "upload"} \cup Building => song \in file.songs
    /\ pc \in {"scan", "upload"} => file.kit[song] # NoKit

\* What a switch has established.
Progress ==
    /\ ~failed => good
    /\ ~file.packedEngine => base
    /\ pc \in Building /\ ~failed /\ file.kit[song] # NoKit =>
         kit = file.kit[song]
    /\ pc \in {"music", "install", "play"} /\ ~failed => engine = "good"
    /\ pc \in {"install", "play"} /\ ~failed => music = song

\* A press is left over for the next switch while a key is down unlatched.
KeyInv ==
    /\ switches <= presses
    /\ pc = "play" /\ ~latch /\ down # {} => switches < presses

Inv == TypeOK /\ Found /\ Position /\ LineInv /\ Progress /\ RefusedForCause /\ KeyInv

-----------------------------------------------------------------------------
(* Files. *)

\* Intervals are pairs of segments in order.
LEMMA IntervalFacts ==
    ASSUME NEW i \in Interval
    PROVE  /\ i[1] \in Segments /\ i[2] \in Segments
           /\ i[1] \in Int /\ i[2] \in Int
           /\ 0 <= i[1] /\ i[1] <= i[2] /\ i[2] < 32
BY DEF Interval, Segments, MaxSegments

\* What is assumed of the numbers.
LEMMA Numbers ==
    ASSUME Sane
    PROVE  SongNumbers \subseteq 0..255 /\ NoKit \notin Kits /\ MaxPresses \in Nat
BY DEF Sane

\* The types of a file's fields.
LEMMA FileFields ==
    ASSUME Sane, NEW f \in Files
    PROVE  /\ f.songs \subseteq SongNumbers
           /\ f.tail \in Interval /\ f.directory \in Interval
           /\ f.engine \in Interval /\ f.packedEngine \in BOOLEAN
           /\ f.music \in [SongNumbers -> Interval]
           /\ f.kit \in [SongNumbers -> Kits \cup {NoKit}]
           /\ f.scan \in [SongNumbers -> Interval]
BY DEF File, Sane

\* The order of a file's parts.
LEMMA FileOrder ==
    ASSUME Sane, NEW f \in Files
    PROVE  /\ Cardinality(f.songs) <= 254
           /\ f.engine[1] = 0 /\ f.engine[2] <= f.directory[1]
           /\ f.directory[1] <= f.tail[1]
           /\ ~f.packedEngine /\ f.tail[2] = 0 =>
                \A s \in f.songs : f.kit[s] = NoKit
           /\ \A s \in f.songs :
                /\ f.engine[2] <= f.music[s][1]
                /\ f.music[s][2] <= f.directory[1]
                /\ f.directory[1] <= f.scan[s][1]
<1>1. Layout(f)
  BY DEF Sane
<1>2. /\ f.directory[1] \in Int /\ f.directory[2] \in Int /\ f.tail[1] \in Int
      /\ f.directory[1] <= f.directory[2]
  BY FileFields, IntervalFacts
<1> QED
  BY <1>1, <1>2 DEF Layout

-----------------------------------------------------------------------------
(* Type correctness. *)

PlaceType ==
    /\ file \in Files /\ song \in 0..255
    /\ pc \in Reading \cup {"upload", "invalidate", "install", "play"}
              \cup Ends

ReadType ==
    /\ at \in 0..(to + 1) /\ to \in Segments
    /\ good \in BOOLEAN /\ failed \in BOOLEAN

CacheType ==
    /\ tag \in Segments \cup {NoTag} /\ line \in Segments \cup {Junk}
    /\ base \in BOOLEAN

MemoryType ==
    /\ work \in {"uploader", "stream", "cleared"}
    /\ engine \in {"none", "good", "damaged"}
    /\ music \in SongNumbers \cup {Damaged}
    /\ kit \in Kits \cup {NoKit}

KeyType ==
    /\ latch \in BOOLEAN
    /\ down \subseteq Keys /\ presses \in 0..MaxPresses /\ switches \in Nat

\* The type invariant in parts, so that a step can be shown to keep each.
LEMMA TypeParts ==
    TypeOK <=> PlaceType /\ ReadType /\ CacheType /\ MemoryType /\ KeyType
BY DEF TypeOK, PlaceType, ReadType, CacheType, MemoryType, KeyType

LEMMA TypeInit == ASSUME Sane PROVE Init => TypeOK
<1> SUFFICES ASSUME Init PROVE TypeOK
  OBVIOUS
<1> USE DEF Init
<1>1. file.tail[1] \in Segments /\ file.tail[2] \in Segments
      /\ file.tail[1] <= file.tail[2]
  BY FileFields, IntervalFacts
<1>2. at \in 0..(to + 1) /\ to \in Segments
  BY <1>1 DEF Segments, MaxSegments
<1>3. song \in 0..255 /\ presses \in 0..MaxPresses
  BY Numbers
<1>4. line \in Segments \cup {Junk}
  BY DEF Segments, MaxSegments
<1> QED
  BY <1>2, <1>3, <1>4 DEF TypeOK, Reading

LEMMA ReadTyped ==
    ASSUME NEW phase, NEW interval \in Interval, Read(phase, interval)
    PROVE  pc' = phase /\ at' \in 0..(to' + 1) /\ to' \in Segments
BY IntervalFacts DEF Read, Segments, MaxSegments

\* The 8-bit song number of the next and the previous song.
LEMMA TargetIsByte ==
    ASSUME Sane, TypeOK, song \in file.songs
    PROVE  Target \in 0..255
<1>1. Tracks \in Nat /\ Tracks <= 254 /\ Tracks # 0
  <2>1. file.songs \subseteq 0..255
    BY FileFields, Numbers DEF TypeOK
  <2>2. IsFiniteSet(file.songs)
    BY <2>1, FS_Interval, FS_Subset, 0 \in Int, 255 \in Int
  <2> QED
    BY <2>2, FS_CardinalityType, FS_EmptySet, FileOrder DEF Tracks, TypeOK
<1> DEFINE t == Tracks
<1>2. t \in Nat /\ t <= 254 /\ t # 0 /\ song \in 0..255
  BY <1>1 DEF TypeOK
<1>3. Target = IF "next" \in down
               THEN IF song + 1 = t THEN 0 ELSE (song + 1) % 256
               ELSE (IF song = 0 THEN t ELSE song) - 1
  BY DEF Target
<1> HIDE DEF t
<1>4. (song + 1) % 256 \in 0..255
  BY <1>2
<1> QED
  BY <1>2, <1>3, <1>4

\* One fetch: a hit, or a miss that fills the line, leaves it or spoils it.
LEMMA FetchCases ==
    ASSUME Fetch
    PROVE  \/ tag = at /\ tag' = tag /\ line' = line /\ failed' = failed
           \/ tag # at /\ tag' = at /\ line' = at /\ failed' = failed
           \/ tag # at /\ tag' = at /\ line' = at /\ failed' = TRUE
           \/ tag # at /\ tag' = tag /\ line' = line /\ failed' = TRUE
           \/ tag # at /\ tag' = tag /\ line' = Junk /\ failed' = TRUE
<1>1. PICK f \in Fetched : tag' = f[1] /\ line' = f[2] /\ failed' = f[3]
  BY DEF Fetch
<1>2. CASE tag = at
  <2>1. f = <<tag, line, failed>>
    BY <1>2 DEF Fetched
  <2>2. f[1] = tag /\ f[2] = line
    BY <2>1
  <2>3. f[3] = failed
    BY <2>1
  <2>4. tag' = tag /\ line' = line
    BY <1>1, <2>2
  <2>5. failed' = failed
    BY <1>1, <2>3
  <2> QED
    BY <1>2, <2>4, <2>5
<1>3. CASE tag # at
  <2>1. \/ f = <<at, at, failed>> \/ f = <<at, at, TRUE>>
        \/ f = <<tag, line, TRUE>> \/ f = <<tag, Junk, TRUE>>
    BY <1>3, Zenon DEF Fetched
  <2>2. CASE f = <<at, at, failed>>
    <3>1. f[1] = at /\ f[2] = at
      BY <2>2
    <3>2. f[3] = failed
      BY <2>2
    <3>3. tag' = at /\ line' = at
      BY <1>1, <3>1
    <3>4. failed' = failed
      BY <1>1, <3>2
    <3> QED
      BY <1>3, <3>3, <3>4
  <2>3. CASE f = <<at, at, TRUE>>
    <3>1. f[1] = at /\ f[2] = at
      BY <2>3
    <3>2. f[3] = TRUE
      BY <2>3
    <3>3. tag' = at /\ line' = at
      BY <1>1, <3>1
    <3>4. failed' = TRUE
      BY <1>1, <3>2
    <3> QED
      BY <1>3, <3>3, <3>4
  <2>4. CASE f = <<tag, line, TRUE>>
    <3>1. f[1] = tag /\ f[2] = line
      BY <2>4
    <3>2. f[3] = TRUE
      BY <2>4
    <3>3. tag' = tag /\ line' = line
      BY <1>1, <3>1
    <3>4. failed' = TRUE
      BY <1>1, <3>2
    <3> QED
      BY <1>3, <3>3, <3>4
  <2>5. CASE f = <<tag, Junk, TRUE>>
    <3>1. f[1] = tag /\ f[2] = Junk
      BY <2>5
    <3>2. f[3] = TRUE
      BY <2>5
    <3>3. tag' = tag /\ line' = Junk
      BY <1>1, <3>1
    <3>4. failed' = TRUE
      BY <1>1, <3>2
    <3> QED
      BY <1>3, <3>3, <3>4
  <2> QED
    BY <2>1, <2>2, <2>3, <2>4, <2>5
<1> QED
  BY <1>2, <1>3

LEMMA PlacePreserved ==
    ASSUME Sane, TypeOK, Found, [Next]_vars
    PROVE  PlaceType'

<1> USE TypeParts DEF PlaceType, Reading, Ends
<1>1. CASE Fetch
  BY <1>1 DEF Fetch
<1>2. CASE Trailer
  BY <1>2 DEF Trailer, Read, Continue, Astray
<1>3. CASE Directory
  BY <1>3 DEF Directory, Read, Continue, Astray
<1>4. CASE Scan
  BY <1>4 DEF Scan, Read, Continue, Astray
<1>5. CASE Upload
  BY <1>5 DEF Upload, Read, Continue, Astray
<1>6. CASE Invalidate
  BY <1>6 DEF Invalidate, Read, Continue, Astray
<1>7. CASE Engine
  BY <1>7 DEF Engine, Read, Continue, Astray
<1>8. CASE Music
  BY <1>8 DEF Music, Read, Continue, Astray
<1>9. CASE Install
  BY <1>9 DEF Install, Read, Continue, Astray
<1>10. CASE EscapeKey
  BY <1>10 DEF EscapeKey, Read, Continue, Astray
<1>11. CASE NoKey
  BY <1>11 DEF NoKey
<1>12. CASE SelectSong
  BY <1>12, TargetIsByte DEF SelectSong, Read, Found, Building
<1>13. CASE User
  BY <1>13 DEF User, Press, Release
<1>14. CASE Stopped
  BY <1>14 DEF Stopped, vars
<1>15. CASE UNCHANGED vars
  BY <1>15 DEF vars
<1> QED
  BY <1>1, <1>2, <1>3, <1>4, <1>5, <1>6, <1>7, <1>8, <1>9, <1>10, <1>11, <1>12, <1>13, <1>14, <1>15
  DEF Next, Player

LEMMA ReadPreserved ==
    ASSUME Sane, TypeOK, Found, [Next]_vars
    PROVE  ReadType'

<1>a. ReadType /\ file \in Files
  BY TypeParts DEF PlaceType
<1>b. song \in file.songs => /\ file.scan[song] \in Interval
                              /\ file.music[song] \in Interval
  BY <1>a, FileFields
<1>c. /\ file.tail \in Interval /\ file.directory \in Interval
      /\ file.engine \in Interval
  BY <1>a, FileFields
<1>1. CASE Fetch
  <2>1. at' \in 0..(to' + 1) /\ to' \in Segments
    BY <1>1, <1>a DEF Fetch, NextSegment, ReadType, Segments, MaxSegments
  <2>2. failed' \in BOOLEAN
    BY <1>1, <1>a, FetchCases DEF ReadType
  <2>3. good' \in BOOLEAN
    BY <1>1 DEF Fetch
  <2> QED
    BY <2>1, <2>2, <2>3 DEF ReadType
<1>2. CASE Trailer
  BY <1>2, <1>a, <1>b, <1>c, ReadTyped DEF Trailer, HasRead, Astray, Continue, Found, Building, ReadType
<1>3. CASE Directory
  BY <1>3, <1>a, <1>b, <1>c, ReadTyped DEF Directory, HasRead, Astray, Continue, Found, Building, ReadType
<1>4. CASE Scan
  BY <1>4, <1>a, <1>b, <1>c, ReadTyped DEF Scan, HasRead, Astray, Continue, Found, Building, ReadType
<1>5. CASE Upload
  BY <1>5, <1>a DEF Upload, Continue, ReadType
<1>6. CASE Invalidate
  BY <1>6, <1>a, <1>b, <1>c, ReadTyped DEF Invalidate, HasRead, Astray, Continue, Found, Building, ReadType
<1>7. CASE Engine
  BY <1>7, <1>a, <1>b, <1>c, ReadTyped DEF Engine, HasRead, Astray, Continue, Found, Building, ReadType
<1>8. CASE Music
  BY <1>8, <1>a, <1>b, <1>c, ReadTyped DEF Music, HasRead, Astray, Continue, Found, Building, ReadType
<1>9. CASE Install
  BY <1>9, <1>a, <1>b, <1>c, ReadTyped DEF Install, HasRead, Astray, Continue, Found, Building, ReadType
<1>10. CASE EscapeKey
  BY <1>10, <1>a, <1>b, <1>c, ReadTyped DEF EscapeKey, HasRead, Astray, Continue, Found, Building, ReadType
<1>11. CASE NoKey
  BY <1>11, <1>a DEF NoKey, reading, ReadType
<1>12. CASE SelectSong
  BY <1>12, <1>c, ReadTyped DEF SelectSong, ReadType
<1>13. CASE User
  BY <1>13, <1>a DEF User, Press, Release, reading, ReadType
<1>14. CASE Stopped
  BY <1>14, <1>a DEF Stopped, vars, reading, ReadType
<1>15. CASE UNCHANGED vars
  BY <1>15, <1>a DEF vars, reading, ReadType
<1> QED
  BY <1>1, <1>2, <1>3, <1>4, <1>5, <1>6, <1>7, <1>8, <1>9, <1>10, <1>11, <1>12, <1>13, <1>14, <1>15
  DEF Next, Player

LEMMA CachePreserved ==
    ASSUME TypeOK, [Next]_vars
    PROVE  CacheType'

<1>a. CacheType
  BY TypeParts
<1>1. CASE Fetch
  <2>1. at \in Segments
    BY <1>1, TypeParts DEF Fetch, ReadType, Segments, MaxSegments
  <2> QED
    BY <1>1, <2>1, <1>a, FetchCases DEF Fetch, CacheType
<1>2. CASE Trailer
  BY <1>2, <1>a DEF Trailer, cache, CacheType
<1>3. CASE Directory
  BY <1>3, <1>a DEF Directory, cache, CacheType
<1>4. CASE Scan
  BY <1>4, <1>a DEF Scan, cache, CacheType
<1>5. CASE Upload
  BY <1>5, <1>a DEF Upload, cache, CacheType
<1>6. CASE Invalidate
  BY <1>6, <1>a DEF Invalidate, Invalidated, CacheType
<1>7. CASE Engine
  BY <1>7, <1>a DEF Engine, cache, CacheType
<1>8. CASE Music
  BY <1>8, <1>a DEF Music, cache, CacheType
<1>9. CASE Install
  BY <1>9, <1>a DEF Install, cache, CacheType
<1>10. CASE EscapeKey
  BY <1>10, <1>a DEF EscapeKey, cache, CacheType
<1>11. CASE NoKey
  BY <1>11, <1>a DEF NoKey, cache, CacheType
<1>12. CASE SelectSong
  BY <1>12, <1>a DEF SelectSong, cache, CacheType
<1>13. CASE User
  BY <1>13, <1>a DEF User, Press, Release, cache, CacheType
<1>14. CASE Stopped
  BY <1>14, <1>a DEF Stopped, vars, cache, CacheType
<1>15. CASE UNCHANGED vars
  BY <1>15, <1>a DEF vars, cache, CacheType
<1> QED
  BY <1>1, <1>2, <1>3, <1>4, <1>5, <1>6, <1>7, <1>8, <1>9, <1>10, <1>11, <1>12, <1>13, <1>14, <1>15
  DEF Next, Player

LEMMA MemoryPreserved ==
    ASSUME Sane, TypeOK, Found, [Next]_vars
    PROVE  MemoryType'

<1>a. MemoryType /\ file \in Files
  BY TypeParts DEF PlaceType
<1>b. song \in file.songs => /\ song \in SongNumbers
                              /\ file.kit[song] \in Kits \cup {NoKit}
  BY <1>a, FileFields
<1>1. CASE Fetch
  BY <1>1, <1>a DEF Fetch, memory, MemoryType
<1>2. CASE Trailer
  BY <1>2, <1>a DEF Trailer, memory, MemoryType
<1>3. CASE Directory
  BY <1>3, <1>a DEF Directory, memory, MemoryType
<1>4. CASE Scan
  BY <1>4, <1>a DEF Scan, memory, MemoryType
<1>5. CASE Upload
  BY <1>5, <1>a, <1>b DEF Upload, Found, MemoryType
<1>6. CASE Invalidate
  BY <1>6, <1>a DEF Invalidate, WorkFor, MemoryType
<1>7. CASE Engine
  BY <1>7, <1>a DEF Engine, WorkFor, MemoryType
<1>8. CASE Music
  BY <1>8, <1>a, <1>b DEF Music, HasRead, Found, Building, MemoryType
<1>9. CASE Install
  BY <1>9, <1>a DEF Install, memory, MemoryType
<1>10. CASE EscapeKey
  BY <1>10, <1>a DEF EscapeKey, memory, MemoryType
<1>11. CASE NoKey
  BY <1>11, <1>a DEF NoKey, memory, MemoryType
<1>12. CASE SelectSong
  BY <1>12, <1>a DEF SelectSong, memory, MemoryType
<1>13. CASE User
  BY <1>13, <1>a DEF User, Press, Release, memory, MemoryType
<1>14. CASE Stopped
  BY <1>14, <1>a DEF Stopped, vars, memory, MemoryType
<1>15. CASE UNCHANGED vars
  BY <1>15, <1>a DEF vars, memory, MemoryType
<1> QED
  BY <1>1, <1>2, <1>3, <1>4, <1>5, <1>6, <1>7, <1>8, <1>9, <1>10, <1>11, <1>12, <1>13, <1>14, <1>15
  DEF Next, Player

LEMMA KeyTypePreserved ==
    ASSUME Sane, TypeOK, [Next]_vars
    PROVE  KeyType'

<1>a. KeyType
  BY TypeParts
<1>1. CASE Fetch
  BY <1>1, <1>a DEF Fetch, keyboard, KeyType
<1>2. CASE Trailer
  BY <1>2, <1>a DEF Trailer, keyboard, KeyType
<1>3. CASE Directory
  BY <1>3, <1>a DEF Directory, keyboard, KeyType
<1>4. CASE Scan
  BY <1>4, <1>a DEF Scan, keyboard, KeyType
<1>5. CASE Upload
  BY <1>5, <1>a DEF Upload, keyboard, KeyType
<1>6. CASE Invalidate
  BY <1>6, <1>a DEF Invalidate, keyboard, KeyType
<1>7. CASE Engine
  BY <1>7, <1>a DEF Engine, keyboard, KeyType
<1>8. CASE Music
  BY <1>8, <1>a DEF Music, keyboard, KeyType
<1>9. CASE Install
  BY <1>9, <1>a DEF Install, FreshLatch, keyboard, KeyType
<1>10. CASE EscapeKey
  BY <1>10, <1>a DEF EscapeKey, keyboard, KeyType
<1>11. CASE NoKey
  BY <1>11, <1>a DEF NoKey, keyboard, KeyType
<1>12. CASE SelectSong
  BY <1>12, <1>a DEF SelectSong, keyboard, KeyType
<1>13. CASE User
  BY <1>13, <1>a, Numbers DEF User, Press, Release, KeyType
<1>14. CASE Stopped
  BY <1>14, <1>a DEF Stopped, vars, keyboard, KeyType
<1>15. CASE UNCHANGED vars
  BY <1>15, <1>a DEF vars, keyboard, KeyType
<1> QED
  BY <1>1, <1>2, <1>3, <1>4, <1>5, <1>6, <1>7, <1>8, <1>9, <1>10, <1>11, <1>12, <1>13, <1>14, <1>15
  DEF Next, Player

LEMMA TypePreserved == ASSUME Sane PROVE TypeOK /\ Found /\ [Next]_vars => TypeOK'
<1> SUFFICES ASSUME TypeOK, Found, [Next]_vars PROVE TypeOK'
  OBVIOUS
<1>1. PlaceType' /\ ReadType' /\ CacheType' /\ MemoryType' /\ KeyType'
  BY PlacePreserved, ReadPreserved, CachePreserved, MemoryPreserved,
     KeyTypePreserved
<1> QED
  BY <1>1 DEF TypeOK, PlaceType, ReadType, CacheType, MemoryType, KeyType

-----------------------------------------------------------------------------
(* The conjuncts of the invariant. *)

LEMMA FoundPreserved ==
    ASSUME TypeOK, Found, [Next]_vars
    PROVE  Found'

<1> USE DEF Found, Building
<1>1. CASE Fetch
  BY <1>1 DEF Fetch, Reading
<1>2. CASE Trailer
  BY <1>2 DEF Trailer, HasRead, Read, Continue, Astray
<1>3. CASE Directory
  BY <1>3 DEF Directory, HasRead, Read, Continue, Astray
<1>4. CASE Scan
  BY <1>4 DEF Scan, HasRead, Read, Continue, Astray
<1>5. CASE Upload
  BY <1>5 DEF Upload, HasRead, Read, Continue, Astray
<1>6. CASE Invalidate
  BY <1>6 DEF Invalidate, HasRead, Read, Continue, Astray
<1>7. CASE Engine
  BY <1>7 DEF Engine, HasRead, Read, Continue, Astray
<1>8. CASE Music
  BY <1>8 DEF Music, HasRead, Read, Continue, Astray
<1>9. CASE Install
  BY <1>9 DEF Install, HasRead, Read, Continue, Astray
<1>10. CASE EscapeKey
  BY <1>10 DEF EscapeKey, HasRead, Read, Continue, Astray
<1>11. CASE NoKey
  BY <1>11 DEF NoKey
<1>12. CASE SelectSong
  BY <1>12 DEF SelectSong, HasRead, Read, Continue, Astray
<1>13. CASE User
  BY <1>13 DEF User, Press, Release
<1>14. CASE Stopped
  BY <1>14 DEF Stopped, vars
<1>15. CASE UNCHANGED vars
  BY <1>15 DEF vars
<1> QED
  BY <1>1, <1>2, <1>3, <1>4, <1>5, <1>6, <1>7, <1>8, <1>9, <1>10, <1>11, <1>12, <1>13, <1>14, <1>15
  DEF Next, Player

LEMMA PositionPreserved ==
    ASSUME Sane, TypeOK, Found, Position, [Next]_vars
    PROVE  Position'

<1>a. /\ file \in Files
      /\ file.directory[1] \in Int /\ at \in Int /\ to \in Int
  BY FileFields, IntervalFacts DEF TypeOK, Segments, MaxSegments
<1>b. /\ file.directory[1] <= file.tail[1]
      /\ song \in file.songs => file.directory[1] <= file.scan[song][1]
  BY <1>a, FileOrder
<1> USE DEF Position, Parsing
<1>1. CASE Fetch
  <2>1. UNCHANGED <<file, pc, song, to>> /\ at' = at + 1 /\ at <= to
    BY <1>1 DEF Fetch, NextSegment
  <2>2. pc \in Parsing => file.directory[1] <= at + 1
    BY <1>a
  <2>3. pc \notin {"upload", "invalidate"}
    BY <1>1 DEF Fetch, Reading
  <2>4. pc = "engine" => file.packedEngine
    BY <2>1, <1>a
  <2> QED
    BY <2>1, <2>2, <2>3, <2>4
<1>2. CASE Trailer
  <2>1. file.directory[1] <= file.directory[1]
    BY <1>a
  <2> QED
    BY <1>2, <2>1 DEF Trailer, Read, Continue, Astray
<1>3. CASE Directory
  <2>1. at > to
    BY <1>3 DEF Directory, HasRead
  <2> QED
    BY <1>3, <2>1, <1>b DEF Directory, Read, Continue, Astray
<1>4. CASE Scan
  BY <1>4 DEF Scan, HasRead, Read, Continue, Astray
<1>5. CASE Upload
  BY <1>5 DEF Upload, Continue
<1>6. CASE Invalidate
  <2>1. at > to
    BY <1>6 DEF Invalidate
  <2> QED
    BY <1>6, <2>1 DEF Invalidate, Invalidated, Read, Continue
<1>7. CASE Engine
  BY <1>7 DEF Engine, HasRead, Read, Continue, Astray
<1>8. CASE Music
  BY <1>8 DEF Music, HasRead, Read, Continue, Astray
<1>9. CASE Install
  BY <1>9 DEF Install, HasRead, Read, Continue, Astray
<1>10. CASE EscapeKey
  BY <1>10 DEF EscapeKey, HasRead, Read, Continue, Astray
<1>11. CASE NoKey
  BY <1>11 DEF NoKey, reading, cache
<1>12. CASE SelectSong
  BY <1>12, <1>b DEF SelectSong, Read
<1>13. CASE User
  BY <1>13 DEF User, Press, Release, reading, cache
<1>14. CASE Stopped
  BY <1>14 DEF Stopped, vars, reading, cache
<1>15. CASE UNCHANGED vars
  BY <1>15 DEF vars, reading, cache
<1> QED
  BY <1>1, <1>2, <1>3, <1>4, <1>5, <1>6, <1>7, <1>8, <1>9, <1>10, <1>11, <1>12, <1>13, <1>14, <1>15
  DEF Next, Player

\* Segments compared as integers.
LEMMA Below ==
    ASSUME NEW t \in Int, NEW a \in Int, NEW b \in Int, NEW c \in Int,
           t < a, a <= b, b <= c
    PROVE  t < c /\ t < b
OBVIOUS

LEMMA NextAbove ==
    ASSUME NEW t \in Int, NEW a \in Int
    PROVE  /\ t <= a => t < a + 1 /\ t <= a + 1
           /\ t < a => t + 1 < a + 1
           /\ t <= a /\ t # a => t < a
           /\ a < a + 1 /\ a <= a + 1
           /\ t + 1 < a => t < a
           /\ t < a => t <= a
OBVIOUS

LEMMA LinePreserved ==
    ASSUME Sane, TypeOK, Found, Position, LineInv, Progress, [Next]_vars
    PROVE  LineInv'

<1>a. /\ file \in Files /\ at \in Int /\ to \in Int /\ tag \in Int
      /\ at <= to + 1
  BY DEF TypeOK, Segments, MaxSegments, NoTag
<1>b. /\ file.directory[1] \in Int /\ file.tail[1] \in Int
      /\ file.engine[2] \in Int
  BY <1>a, FileFields, IntervalFacts
<1>c. song \in file.songs => /\ file.music[song][1] \in Int
                              /\ file.music[song][2] \in Int
  BY <1>a, FileFields, IntervalFacts
<1>d. /\ file.directory[1] <= file.tail[1]
      /\ file.engine[2] <= file.directory[1]
      /\ song \in file.songs => /\ file.engine[2] <= file.music[song][1]
                                /\ file.music[song][2] <= file.directory[1]
  BY <1>a, FileOrder
<1> USE DEF LineInv, Stale, Parsing
<1>1. CASE Fetch
  <2>1. UNCHANGED <<file, pc, song, to>> /\ at' = at + 1 /\ at <= to
    BY <1>1 DEF Fetch, NextSegment
  <2>2. good' = (good /\ line' = at /\ (failed' => failed)) /\ at # Junk
    BY <1>1 DEF Fetch, TypeOK, Junk
  <2>3. \/ tag' = tag /\ line' = line
        \/ tag' = at /\ line' = at
        \/ tag # at /\ tag' = tag /\ line' = Junk
    BY <1>1, FetchCases
  <2>4. /\ tag <= at => tag < at + 1 /\ tag <= at + 1
        /\ tag < at => tag + 1 < at + 1 /\ tag < at + 1 /\ tag <= at
        /\ tag <= at /\ tag # at => tag < at
        /\ at < at + 1 /\ at <= at + 1
        /\ tag + 1 < at => tag < at /\ tag + 1 < at + 1
    BY <1>a, NextAbove
  <2>5. CASE tag' = tag /\ line' = line
    BY <2>1, <2>2, <2>4, <2>5
  <2>6. CASE tag' = at /\ line' = at
    BY <2>1, <2>4, <2>6
  <2>7. CASE tag # at /\ tag' = tag /\ line' = Junk
    <3>1. ~good'
      BY <2>2, <2>7
    <3>2. CASE pc = "engine" /\ tag # NoTag
      <4>1. tag < at /\ to = file.engine[2]
        BY <3>2 DEF Position
      <4>2. tag < file.directory[1]
        BY <4>1, <2>1, <1>a, <1>b, <1>d
      <4> QED
        BY <3>2, <4>1, <4>2, <2>1, <2>4, <2>7
    <3>3. CASE pc = "music" /\ tag # NoTag
      <4>1. tag < at /\ to = file.music[song][2] /\ song \in file.songs
        BY <3>3, <2>4, <2>7 DEF Position, Found, Building
      <4>2. tag < file.directory[1]
        BY <4>1, <2>1, <1>a, <1>b, <1>c, <1>d
      <4> QED
        BY <3>3, <4>1, <4>2, <2>1, <2>4, <2>7
    <3>4. CASE pc \notin {"engine", "music"} \/ tag = NoTag
      <4>1. pc \notin {"install", "play"}
        BY <1>1 DEF Fetch, Reading
      <4> QED
        BY <3>1, <3>4, <4>1, <2>1, <2>7
    <3> QED
      BY <3>2, <3>3, <3>4
  <2> QED
    BY <2>3, <2>5, <2>6, <2>7
<1>2. CASE Trailer
  BY <1>2 DEF Trailer, HasRead, Read, Continue, Astray, cache
<1>3. CASE Directory
  BY <1>3 DEF Directory, HasRead, Read, Continue, Astray, cache
<1>4. CASE Scan
  BY <1>4 DEF Scan, HasRead, Read, Continue, Astray, cache
<1>5. CASE Upload
  BY <1>5 DEF Upload, HasRead, Read, Continue, Astray, cache
<1>6. CASE Invalidate
  BY <1>6 DEF Invalidate, Invalidated, Read, Continue
<1>7. CASE Engine
  <2>1. UNCHANGED <<file, song, tag, line, good>> /\ at > to /\ pc = "engine"
    BY <1>7 DEF Engine, HasRead, cache
  <2>2. CASE pc' # "music"
    BY <1>7, <2>2 DEF Engine, Astray, Continue, Read
  <2>3. CASE pc' = "music" /\ tag # NoTag
    <3>1. /\ at' = file.music[song][1] /\ song \in file.songs
          /\ to = file.engine[2]
      BY <1>7, <2>3, <2>1 DEF Engine, Astray, Continue, Read, Found, Building, Position
    <3>2. tag < at /\ (Stale => tag + 1 < at /\ tag < file.directory[1])
      BY <2>1, <2>3
    <3>3. tag <= file.music[song][1]
      BY <3>1, <3>2, <1>a, <1>b, <1>c, <1>d
    <3>4. tag + 1 < at => tag < file.music[song][1]
      BY <3>1, <1>a, <1>b, <1>c, <1>d
    <3> QED
      BY <2>1, <2>3, <3>1, <3>2, <3>3, <3>4
  <2>4. CASE pc' = "music" /\ tag = NoTag
    BY <2>1, <2>4
  <2> QED
    BY <2>2, <2>3, <2>4
<1>8. CASE Music
  BY <1>8 DEF Music, HasRead, Read, Continue, Astray, cache
<1>9. CASE Install
  BY <1>9 DEF Install, HasRead, Read, Continue, Astray, cache
<1>10. CASE EscapeKey
  BY <1>10 DEF EscapeKey, HasRead, Read, Continue, Astray, cache
<1>11. CASE NoKey
  BY <1>11 DEF NoKey, reading, cache
<1>12. CASE SelectSong
  BY <1>12 DEF SelectSong, HasRead, Read, Continue, Astray, cache
<1>13. CASE User
  BY <1>13 DEF User, Press, Release, reading, cache
<1>14. CASE Stopped
  BY <1>14 DEF Stopped, vars, reading, cache
<1>15. CASE UNCHANGED vars
  BY <1>15 DEF vars, reading, cache
<1> QED
  BY <1>1, <1>2, <1>3, <1>4, <1>5, <1>6, <1>7, <1>8, <1>9, <1>10, <1>11, <1>12, <1>13, <1>14, <1>15
  DEF Next, Player

LEMMA ProgressPreserved ==
    ASSUME Sane, TypeOK, Found, Position, LineInv, Progress, [Next]_vars
    PROVE  Progress'

<1>a. /\ file \in Files /\ at \in Int /\ to \in Int /\ tag \in Int
      /\ failed \in BOOLEAN /\ good \in BOOLEAN
  BY DEF TypeOK, Segments, MaxSegments, NoTag
<1>b. ~file.packedEngine /\ file.tail[2] = 0 =>
        \A s \in file.songs : file.kit[s] = NoKit
  BY <1>a, FileOrder
<1> USE DEF Progress, Building
<1>1. CASE Fetch
  <2>1. /\ UNCHANGED <<file, pc, song, base, memory>>
        /\ good' = (good /\ line' = at /\ (failed' => failed))
        /\ at <= to /\ pc \in Reading
    BY <1>1 DEF Fetch
  <2>2. ASSUME ~failed' PROVE ~failed /\ line' = at
    <3>1. CASE tag = at /\ line' = line /\ failed' = failed
      <4>1. at # NoTag
        BY <2>1 DEF TypeOK, Segments, MaxSegments, NoTag
      <4>2. Stale => ~good \/ tag < at
        <5>1. CASE pc \in Parsing
          <6>1. file.directory[1] \in Int /\ file.directory[1] <= at
            BY <5>1, <1>a, FileFields, IntervalFacts DEF Position
          <6>2. Stale => ~good \/ tag < file.directory[1]
            BY <5>1 DEF LineInv
          <6> QED
            BY <6>1, <6>2, <1>a
        <5>2. CASE pc = "engine"
          BY <5>2, <1>a DEF LineInv, Stale
        <5>3. CASE pc = "music"
          BY <5>3 DEF LineInv
        <5> QED
          BY <2>1, <5>1, <5>2, <5>3 DEF Reading, Parsing
      <4>3. ~failed /\ good
        BY <3>1, <2>2
      <4>4. ~(tag < at)
        BY <3>1, <1>a
      <4> QED
        BY <3>1, <4>1, <4>2, <4>3, <4>4 DEF Stale
    <3>2. CASE line' = at /\ failed' = failed
      BY <3>2, <2>2
    <3> QED
      BY <1>1, <2>2, <3>1, <3>2, FetchCases
  <2>3. ~failed' => good'
    BY <2>1, <2>2
  <2>4. UNCHANGED <<work, engine, music, kit>> /\ (~failed' => ~failed)
    BY <2>1, <2>2 DEF memory
  <2> QED
    BY <2>1, <2>3, <2>4
<1>2. CASE Trailer
  BY <1>2 DEF Trailer, HasRead, Read, Continue, Astray, cache, memory
<1>3. CASE Directory
  BY <1>3 DEF Directory, HasRead, Read, Continue, Astray, cache, memory
<1>4. CASE Scan
  BY <1>4 DEF Scan, HasRead, Read, Continue, Astray, cache, memory
<1>5. CASE Upload
  <2>1. ~file.packedEngine => base'
    BY <1>5, <1>b DEF Upload, LastSegment, Found
  <2>2. ~failed' => ~failed /\ good'
    BY <1>5, <1>a DEF Upload
  <2>3. pc' \in {"runaway", "hang", "invalidate", "format_error"}
    BY <1>5 DEF Upload, Continue
  <2>4. pc' = "invalidate" => kit' = IF good THEN file.kit[song] ELSE NoKit
    BY <1>5 DEF Upload, Continue
  <2>5. UNCHANGED <<file, song, good>>
    BY <1>5 DEF Upload
  <2> QED
    BY <2>1, <2>2, <2>3, <2>4, <2>5
<1>6. CASE Invalidate
  BY <1>6 DEF Invalidate, Read, Continue
<1>7. CASE Engine
  BY <1>7 DEF Engine, HasRead, Read, Continue, Astray, cache, memory
<1>8. CASE Music
  BY <1>8 DEF Music, HasRead, Read, Continue, Astray, cache, memory
<1>9. CASE Install
  BY <1>9 DEF Install, HasRead, Read, Continue, Astray, cache, memory
<1>10. CASE EscapeKey
  BY <1>10 DEF EscapeKey, HasRead, Read, Continue, Astray, cache, memory
<1>11. CASE NoKey
  BY <1>11 DEF NoKey, reading, cache, memory
<1>12. CASE SelectSong
  BY <1>12 DEF SelectSong, HasRead, Read, Continue, Astray, cache, memory
<1>13. CASE User
  BY <1>13 DEF User, Press, Release, reading, cache, memory
<1>14. CASE Stopped
  BY <1>14 DEF Stopped, vars, reading, cache, memory
<1>15. CASE UNCHANGED vars
  BY <1>15 DEF vars, reading, cache, memory
<1> QED
  BY <1>1, <1>2, <1>3, <1>4, <1>5, <1>6, <1>7, <1>8, <1>9, <1>10, <1>11, <1>12, <1>13, <1>14, <1>15
  DEF Next, Player

LEMMA RefusedPreserved ==
    ASSUME Progress, RefusedForCause, [Next]_vars
    PROVE  RefusedForCause'

<1>a. ~failed => good
  BY DEF Progress
<1> USE DEF RefusedForCause
<1>1. CASE Fetch
  <2>1. pc' # "format_error"
    BY <1>1 DEF Fetch, Reading
  <2> QED
    BY <2>1
<1>2. CASE Trailer
  BY <1>2, <1>a DEF Trailer, HasRead, Read, Continue, Astray
<1>3. CASE Directory
  BY <1>3, <1>a DEF Directory, HasRead, Read, Continue, Astray
<1>4. CASE Scan
  BY <1>4, <1>a DEF Scan, HasRead, Read, Continue, Astray
<1>5. CASE Upload
  BY <1>5 DEF Upload, Continue
<1>6. CASE Invalidate
  BY <1>6, <1>a DEF Invalidate, HasRead, Read, Continue, Astray
<1>7. CASE Engine
  BY <1>7, <1>a DEF Engine, HasRead, Read, Continue, Astray
<1>8. CASE Music
  BY <1>8, <1>a DEF Music, HasRead, Read, Continue, Astray
<1>9. CASE Install
  BY <1>9, <1>a DEF Install, HasRead, Read, Continue, Astray
<1>10. CASE EscapeKey
  BY <1>10, <1>a DEF EscapeKey, HasRead, Read, Continue, Astray
<1>11. CASE NoKey
  BY <1>11 DEF NoKey, reading
<1>12. CASE SelectSong
  BY <1>12, <1>a DEF SelectSong, HasRead, Read, Continue, Astray
<1>13. CASE User
  BY <1>13 DEF User, Press, Release, reading
<1>14. CASE Stopped
  BY <1>14 DEF Stopped, vars, reading
<1>15. CASE UNCHANGED vars
  BY <1>15 DEF vars, reading
<1> QED
  BY <1>1, <1>2, <1>3, <1>4, <1>5, <1>6, <1>7, <1>8, <1>9, <1>10, <1>11, <1>12, <1>13, <1>14, <1>15
  DEF Next, Player

LEMMA KeyPreserved ==
    ASSUME TypeOK, KeyInv, [Next]_vars
    PROVE  KeyInv'

<1>a. switches \in Int /\ presses \in Int
  BY DEF TypeOK
<1> USE DEF KeyInv
<1>1. CASE Fetch
  BY <1>1 DEF Fetch, Reading, keyboard
<1>2. CASE Trailer
  BY <1>2 DEF Trailer, Read, Continue, Astray, keyboard
<1>3. CASE Directory
  BY <1>3 DEF Directory, Read, Continue, Astray, keyboard
<1>4. CASE Scan
  BY <1>4 DEF Scan, Read, Continue, Astray, keyboard
<1>5. CASE Upload
  BY <1>5 DEF Upload, Read, Continue, Astray, keyboard
<1>6. CASE Invalidate
  BY <1>6 DEF Invalidate, Read, Continue, Astray, keyboard
<1>7. CASE Engine
  BY <1>7 DEF Engine, Read, Continue, Astray, keyboard
<1>8. CASE Music
  BY <1>8 DEF Music, Read, Continue, Astray, keyboard
<1>9. CASE Install
  BY <1>9 DEF Install, FreshLatch, keyboard
<1>10. CASE EscapeKey
  BY <1>10 DEF EscapeKey, Read, Continue, Astray, keyboard
<1>11. CASE NoKey
  BY <1>11 DEF NoKey, Read, Continue, Astray, keyboard
<1>12. CASE SelectSong
  BY <1>12, <1>a DEF SelectSong, Read, keyboard
<1>13. CASE User
  <2>1. PICK k \in Keys : Press(k) \/ Release(k)
    BY <1>13 DEF User
  <2>2. CASE Press(k)
    BY <2>2, <1>a DEF Press
  <2>3. CASE Release(k)
    BY <2>3 DEF Release
  <2> QED
    BY <2>1, <2>2, <2>3
<1>14. CASE Stopped
  BY <1>14 DEF Stopped, vars, keyboard
<1>15. CASE UNCHANGED vars
  BY <1>15 DEF vars, keyboard
<1> QED
  BY <1>1, <1>2, <1>3, <1>4, <1>5, <1>6, <1>7, <1>8, <1>9, <1>10, <1>11, <1>12, <1>13, <1>14, <1>15
  DEF Next, Player

-----------------------------------------------------------------------------
(* Theorems. *)

LEMMA InvInit == ASSUME Sane PROVE Init => Inv
<1> SUFFICES ASSUME Init PROVE Inv
  OBVIOUS
<1>1. TypeOK
  BY TypeInit
<1>2. file.directory[1] <= file.tail[1]
  BY FileOrder DEF Init
<1>3. Found /\ Position
  BY <1>2 DEF Init, Found, Building, Position, Parsing
<1>4. LineInv
  BY DEF Init, LineInv, Stale
<1>5. Progress /\ RefusedForCause /\ KeyInv
  BY DEF Init, Progress, Building, RefusedForCause, KeyInv
<1> QED
  BY <1>1, <1>3, <1>4, <1>5 DEF Inv

LEMMA InvPreserved == ASSUME Sane PROVE Inv /\ [Next]_vars => Inv'
BY TypePreserved, FoundPreserved, PositionPreserved, LinePreserved,
   ProgressPreserved, RefusedPreserved, KeyPreserved DEF Inv

\* The inductive invariant holds in every reachable state.
THEOREM Invariance == Sane => (Spec => []Inv)
<1> SUFFICES ASSUME Sane PROVE Spec => []Inv
  OBVIOUS
<1>1. Init => Inv
  BY InvInit
<1>2. Inv /\ [Next]_vars => Inv'
  BY InvPreserved
<1> QED
  BY <1>1, <1>2, PTL DEF Spec

\* Every variable keeps its type: the 8-bit song number, the segments, the
\* presses.
THEOREM TypeCorrect == Sane => (Spec => []TypeOK)
<1>1. Inv => TypeOK
  BY DEF Inv
<1> QED
  BY <1>1, Invariance, PTL

\* What is proved of a state follows from the invariant.
LEMMA InvKeeps == Inv => PlayingIsRequested /\ RefusedForCause /\ OneSwitchPerPress
BY DEF Inv, Progress, Building, PlayingIsRequested, KeyInv, OneSwitchPerPress
=============================================================================
