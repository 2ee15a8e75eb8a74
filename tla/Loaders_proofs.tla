---------------------------- MODULE Loaders_proofs ----------------------------
(***************************************************************************)
(* The sparse loader's theorems: for every archive and both cache sizes,   *)
(* its types, the truth of its tags, and that the playing song is staged.  *)
(* Behind them the DOS loader's, carried from its own specification to the *)
(* instance that runs it beside the parts it shares no state with: what    *)
(* the loaders run checks on small instances holds there for all file      *)
(* sizes up to 4 MiB and all numbers of free segments; likewise those of   *)
(* the player on compact files.  Then those of the terminal's keys and of  *)
(* the command line.                                                       *)
(***************************************************************************)
EXTENDS MCLoaders, WellFoundedInduction, FiniteSetTheorems, TLAPS

-----------------------------------------------------------------------------
\* The loader's arithmetic on one stream.

\* A file offset is its high byte and its low word.
LEMMA Split ==
    ASSUME NEW o \in Int, 0 <= o, o <= 524288
    PROVE  /\ o \div 65536 \in Int /\ 0 <= o \div 65536 /\ o \div 65536 <= 8
           /\ o % 65536 \in Int /\ 0 <= o % 65536 /\ o % 65536 <= 65535
           /\ o = 65536 * (o \div 65536) + (o % 65536)
  OBVIOUS

\* Within the largest file, PointerSegment does not overflow its byte.
LEMMA Joined ==
    ASSUME NEW h \in Int, 0 <= h, h <= 9,
           NEW l \in Int, 0 <= l, l <= 65535
    PROVE  PointerSegment(h, l) = (65536 * h + l) \div 16384
<1>1. l \div 16384 \in Int /\ 0 <= l \div 16384 /\ l \div 16384 <= 3
  OBVIOUS
<1>2. h * 4 + (l \div 16384) \in Int /\ 0 <= h * 4 + (l \div 16384)
      /\ h * 4 + (l \div 16384) <= 255
  BY <1>1
<1>3. (h * 4 + (l \div 16384)) % 256 = h * 4 + (l \div 16384)
  BY <1>2
<1>4. (65536 * h + l) \div 16384 = h * 4 + (l \div 16384)
  OBVIOUS
<1> QED
  BY <1>3, <1>4 DEF PointerSegment, SegBytes

\* The 24-bit offset the loader takes for the last byte is right or one word
\* too high.
LEMMA LastByte ==
    ASSUME NEW h \in Int, NEW l \in Int, NEW z \in Int,
           0 <= h, h <= 8, 0 <= l, l <= 65535, 1 <= z, z <= 65535
    PROVE  LET sum == l + z
               high == h + (sum \div 65536)
               low == (sum - 1) % 65536
           IN /\ high \in Int /\ 0 <= high /\ high <= 9
              /\ low \in Int /\ 0 <= low /\ low <= 65535
              /\ high % 256 = high
              /\ \/ 65536 * high + low = 65536 * h + l + z - 1
                 \/ 65536 * high + low = 65536 * h + l + z - 1 + 65536
<1> DEFINE sum == l + z
           c == sum \div 65536
           low == (sum - 1) % 65536
<1>1. sum \in Int /\ 1 <= sum /\ sum <= 131070
  OBVIOUS
<1> HIDE DEF sum
<1>2. c \in Int /\ 0 <= c /\ c <= 1
  BY <1>1
<1>3. low \in Int /\ 0 <= low /\ low <= 65535
  BY <1>1
<1>4. 65536 * c + low = sum - 1 \/ 65536 * c + low = sum - 1 + 65536
  BY <1>1
<1> HIDE DEF c, low
<1>5. (h + c) \in Int /\ 0 <= h + c /\ h + c <= 9
  BY <1>2
<1>6. (h + c) % 256 = h + c
  BY <1>5
<1> QED
  BY <1>3, <1>4, <1>5, <1>6 DEF sum, c, low

LEMMA OneWordHigher ==
    ASSUME NEW n \in Int
    PROVE  (n + 65536) \div 16384 = (n \div 16384) + 4
  OBVIOUS

LEMMA SegmentRange ==
    ASSUME NEW o \in Int, NEW z \in Int,
           0 <= o, 1 <= z, o + z <= 524288
    PROVE  /\ o \div 16384 \in Int /\ 0 <= o \div 16384
           /\ (o + z - 1) \div 16384 \in Int
           /\ (o + z - 1) \div 16384 <= 31
           /\ o \div 16384 <= (o + z - 1) \div 16384
  OBVIOUS

\* The first segment is computed right; the end segment is right or, when the
\* stream ends on a 64 KiB boundary, four too high.
LEMMA StreamArithmetic ==
    ASSUME NEW a \in Archive, NEW s \in Tracks
    PROVE  /\ FirstSegment(a, s) = a.offset[s] \div SegBytes
           /\ FirstSegment(a, s) \in Segments
           /\ LastSegment(a, s) \in Segments
           /\ FirstSegment(a, s) <= LastSegment(a, s)
           /\ EndSegment(a, s) \in {LastSegment(a, s), LastSegment(a, s) + 4}
<1> DEFINE o == a.offset[s]
           z == a.size[s]
           h == o \div 65536
           l == o % 65536
           hi == h + ((l + z) \div 65536)
           lo == (l + z - 1) % 65536
<1>1. /\ o \in 0..(TableEntries * SegBytes)
      /\ z \in 1..(WordBytes - 1)
      /\ o + z <= TableEntries * SegBytes
  BY DEF Archive
<1>2. TableEntries * SegBytes = 524288 /\ WordBytes - 1 = 65535
  BY DEF TableEntries, SegBytes, WordBytes
<1>3. /\ o \in Int /\ 0 <= o /\ o <= 524288
      /\ z \in Int /\ 1 <= z /\ z <= 65535
      /\ o + z <= 524288
  BY <1>1, <1>2
<1>4. FirstSegment(a, s) = PointerSegment(h, l)
  BY DEF FirstSegment, WordBytes
<1>5. LastSegment(a, s) = (o + z - 1) \div 16384
  BY DEF LastSegment, SegBytes
<1>6. EndSegment(a, s) = PointerSegment(hi % 256, lo)
  BY <1>3 DEF EndSegment, WordBytes
<1> HIDE DEF o, z
<1>7. /\ h \in Int /\ 0 <= h /\ h <= 8 /\ l \in Int /\ 0 <= l /\ l <= 65535
      /\ o = 65536 * h + l
  BY <1>3, Split
<1> HIDE DEF h, l
<1>8. FirstSegment(a, s) = o \div 16384
  BY <1>4, <1>7, Joined
<1>9. /\ hi \in Int /\ 0 <= hi /\ hi <= 9
      /\ lo \in Int /\ 0 <= lo /\ lo <= 65535
      /\ hi % 256 = hi
      /\ \/ 65536 * hi + lo = o + z - 1
         \/ 65536 * hi + lo = o + z - 1 + 65536
  BY <1>3, <1>7, LastByte
<1> HIDE DEF hi, lo
<1>10. EndSegment(a, s) = (65536 * hi + lo) \div 16384
  <2>1. PointerSegment(hi, lo) = (65536 * hi + lo) \div 16384
    <3>1. hi \in Int /\ 0 <= hi /\ hi <= 9
      BY <1>9
    <3>2. lo \in Int /\ 0 <= lo /\ lo <= 65535
      BY <1>9
    <3> QED
      BY <3>1, <3>2, Joined
  <2> QED
    BY <1>6, <1>9, <2>1
<1>11. EndSegment(a, s) \in {LastSegment(a, s), LastSegment(a, s) + 4}
  <2>1. (o + z - 1 + 65536) \div 16384 = ((o + z - 1) \div 16384) + 4
    BY <1>3, OneWordHigher
  <2> QED
    BY <1>5, <1>9, <1>10, <2>1
<1>12. /\ o \div 16384 \in Int /\ 0 <= o \div 16384
       /\ (o + z - 1) \div 16384 \in Int /\ (o + z - 1) \div 16384 <= 31
       /\ o \div 16384 <= (o + z - 1) \div 16384
  BY <1>3, SegmentRange
<1>13. FirstSegment(a, s) = a.offset[s] \div SegBytes
  BY <1>8 DEF o, SegBytes
<1> QED
  BY <1>5, <1>8, <1>11, <1>12, <1>13 DEF Segments, TableEntries

-----------------------------------------------------------------------------
\* The inductive invariant.

\* What the tags promise.
TagsTrue ==
    /\ \A l \in Lines : tags[l] # NoTag => content[l + 1] = tags[l]
    /\ \A l, m \in Lines : tags[l] = tags[m] /\ tags[l] # NoTag => l = m

\* The variables of the cache have their types, segment 0 stays in slot 0 and
\* the tags are true.
CacheInv ==
    /\ content \in [Slots -> Segments \cup {Junk}]
    /\ table \in [Segments -> Slots]
    /\ tags \in [Lines -> (Segments \ {0}) \cup {NoTag}]
    /\ nextLine \in Lines
    /\ table[0] = 0
    /\ content[0] = 0
    /\ TagsTrue

\* A segment can be read through the table: it is segment 0, or a line is
\* tagged with it and the table leads to that line.
Cached(k) == k = 0 \/ \E l \in Lines : tags[l] = k /\ table[k] = l + 1

Staging == {"lookup", "first", "end", "second", "staged", "play", "exit"}

\* How far the staging of the selected song has come.
Progress ==
    /\ pc \in {"first", "end", "second"} =>
            protected = FirstSegment(archive, song)
    /\ pc \in {"end", "second", "staged", "play"} =>
            Cached(FirstSegment(archive, song))
    /\ pc = "second" =>
            EndSegment(archive, song) = FirstSegment(archive, song) + 1
    /\ pc \in {"staged", "play"} =>
            /\ Cached(EndSegment(archive, song))
            /\ EndSegment(archive, song) \in
                  {FirstSegment(archive, song), FirstSegment(archive, song) + 1}

Inv ==
    /\ TypeOK
    /\ pc \in Staging => initialized
    /\ initialized /\ pc \notin Errors => CacheInv
    /\ ~initialized /\ pc \notin Errors => TagsTrue
    /\ Progress

-----------------------------------------------------------------------------
\* Reading through the cache.

\* A cached segment is read from a slot that holds it.
LEMMA CachedIsRead ==
    ASSUME CacheInv, NEW k \in Segments, Cached(k)
    PROVE  content[table[k]] = k
<1>1. CASE k = 0
  BY <1>1 DEF CacheInv
<1>2. CASE k # 0
  <2>1. PICK l \in Lines : tags[l] = k /\ table[k] = l + 1
    BY <1>2 DEF Cached
  <2>2. tags[l] # NoTag
    BY <2>1 DEF Segments, TableEntries, NoTag
  <2> QED
    BY <2>1, <2>2 DEF CacheInv, TagsTrue
<1> QED
  BY <1>1, <1>2

\* Ensuring a segment leaves it cached, keeps the cache's invariant unless the
\* disk fails, and never evicts the protected segment.
LEMMA EnsureKeeps ==
    ASSUME lines \in {2, 3}, lines' = lines,
           CacheInv,
           NEW k \in Segments, NEW done, NEW failed, done # failed,
           Ensure(k, done, failed)
    PROVE  /\ pc' \in {done, failed}
           /\ content' \in [Slots' -> Segments \cup {Junk}]
           /\ table' \in [Segments -> Slots']
           /\ tags' \in [Lines' -> (Segments \ {0}) \cup {NoTag}]
           /\ nextLine' \in Lines'
           /\ pc' = done => CacheInv'
           /\ pc' = done => Cached(k)'
           /\ pc' = done /\ protected \in Segments /\ Cached(protected) =>
                 protected = 0 \/ \E l \in Lines' : tags'[l] = protected
                                        /\ table'[protected] = l + 1
<1> Lines' = Lines /\ Slots' = Slots
  BY DEF Lines, Slots
<1>1. CASE k = 0
  BY <1>1
     DEF Ensure, CacheInv, TagsTrue, Cached
<1>2. CASE k # 0 /\ Hit(k)
  <2>1. PICK l \in Lines : tags[l] = k /\ table' = [table EXCEPT ![k] = l + 1]
    BY <1>2 DEF Ensure
  <2>2. pc' = done /\ UNCHANGED <<content, tags, nextLine>>
    BY <1>2 DEF Ensure
  <2>3. l + 1 \in Slots
    BY DEF Lines, Slots
  <2>4. table' \in [Segments -> Slots] /\ table'[0] = 0 /\ table'[k] = l + 1
    BY <1>2, <2>1, <2>3 DEF CacheInv
  <2>5. CacheInv' /\ Cached(k)'
    BY <2>1, <2>2, <2>4 DEF CacheInv, TagsTrue, Cached
  <2>6. protected \in Segments /\ Cached(protected) /\ protected # 0 =>
          \E m \in Lines : tags'[m] = protected /\ table'[protected] = m + 1
    BY <2>1, <2>2, <2>4 DEF CacheInv, Cached
  <2> QED
    BY <2>2, <2>4, <2>5, <2>6 DEF CacheInv
<1>3. CASE k # 0 /\ ~Hit(k)
  <2>1. PICK l \in Lines, ok \in BOOLEAN :
          /\ Victim(l)
          /\ nextLine' = LineAfter(l)
          /\ ReadInto(k, l + 1, ok)
          /\ tags' = IF ok THEN Tagged(k, l) ELSE tags
          /\ pc' = IF ok THEN done ELSE failed
    BY <1>3 DEF Ensure
  <2>2. l + 1 \in Slots /\ l + 1 # 0 /\ nextLine' \in Lines
    BY <2>1 DEF Lines, Slots, LineAfter
  <2>3. /\ table' \in [Segments -> Slots] /\ table'[0] = 0
        /\ table'[k] = l + 1
        /\ \A j \in Segments \ {k} : table'[j] = table[j]
    BY <1>3, <2>1, <2>2 DEF CacheInv, ReadInto
  <2>4. /\ content' \in [Slots -> Segments \cup {Junk}]
        /\ content'[0] = 0
        /\ ok => content'[l + 1] = k
        /\ \A m \in Lines \ {l} : content'[m + 1] = content[m + 1]
    <3>1. content' = [content EXCEPT ![l + 1] = IF ok THEN k ELSE Junk]
      BY <2>1 DEF ReadInto
    <3>2. \A m \in Lines \ {l} : m + 1 \in Slots /\ m + 1 # l + 1
      BY DEF Lines, Slots
    <3>3. 0 \in Slots
      BY DEF Slots
    <3> QED
      BY <2>2, <3>1, <3>2, <3>3 DEF CacheInv
  <2>5. /\ tags' \in [Lines -> (Segments \ {0}) \cup {NoTag}]
        /\ ok => tags'[l] = k
        /\ \A m \in Lines \ {l} : tags'[m] = tags[m]
    BY <1>3, <2>1 DEF CacheInv, Tagged
  <2>6. \A m \in Lines : tags[m] # k
    BY <1>3 DEF Hit
  <2>7. pc' = done => ok
    BY <2>1
  <2>8. ok => TagsTrue'
    <3> SUFFICES ASSUME ok PROVE TagsTrue'
      OBVIOUS
    <3>1. \A m \in Lines : tags'[m] # NoTag => content'[m + 1] = tags'[m]
      BY <2>4, <2>5 DEF CacheInv, TagsTrue
    <3>2. \A m, n \in Lines : tags'[m] = tags'[n] /\ tags'[m] # NoTag => m = n
      BY <2>5, <2>6 DEF CacheInv, TagsTrue
    <3> QED
      BY <3>1, <3>2 DEF TagsTrue
  <2>9. ok => CacheInv' /\ Cached(k)'
    BY <2>2, <2>3, <2>4, <2>5, <2>8 DEF CacheInv, Cached
  <2>10. protected \in Segments /\ Cached(protected) /\ protected # 0 =>
           \E m \in Lines : tags'[m] = protected /\ table'[protected] = m + 1
    <3> SUFFICES ASSUME protected \in Segments, Cached(protected),
                        protected # 0
                 PROVE \E m \in Lines : /\ tags'[m] = protected
                                        /\ table'[protected] = m + 1
      OBVIOUS
    <3>1. PICK m \in Lines : tags[m] = protected /\ table[protected] = m + 1
      BY DEF Cached
    <3>2. m # l /\ protected # k
      BY <2>1, <2>6, <3>1 DEF Victim
    <3> QED
      BY <2>3, <2>5, <3>1, <3>2
  <2> QED
    BY <2>1, <2>2, <2>3, <2>4, <2>5, <2>7, <2>9, <2>10
<1> QED
  BY <1>1, <1>2, <1>3

-----------------------------------------------------------------------------
\* The theorems.

\* What the assumptions on the constants say of the never-changing variables.
LEMMA Constants ==
    ASSUME archive \in Archives, lines \in LineCounts
    PROVE  archive \in Archive /\ lines \in {2, 3}
  BY ArchiveAssumption, SizeAssumption

LEMMA InitInv == Init => Inv
<1> SUFFICES ASSUME Init PROVE Inv
  OBVIOUS
<1>1. lines \in {2, 3} /\ 0 \in Lines /\ 0 \in Slots
  BY Constants DEF Init, Lines, Slots
<1>2. TypeOK
  <2>1. /\ content \in [Slots -> Segments \cup {Junk}]
        /\ table \in [Segments -> Slots]
        /\ tags \in [Lines -> (Segments \ {0}) \cup {NoTag}]
    BY <1>1 DEF Init
  <2>2. protected \in 0..255
    BY DEF Init, NoTag
  <2> QED
    BY <1>1, <2>1, <2>2 DEF Init, TypeOK
<1>3. TagsTrue
  BY DEF Init, TagsTrue
<1> QED
  BY <1>2, <1>3 DEF Init, Inv, Progress, Staging

\* The first call of the loader empties the cache and reads segment 0.
LEMMA StageFirstKeeps == Inv /\ StageFirst => Inv'
<1> SUFFICES ASSUME Inv, StageFirst PROVE Inv'
  OBVIOUS
<1>1. lines \in {2, 3} /\ Lines' = Lines /\ Slots' = Slots /\ 0 \in Slots
      /\ 0 \in Lines
  BY Constants DEF Inv, TypeOK, StageFirst, file, Lines, Slots
<1>2. /\ table' \in [Segments -> Slots] /\ table'[0] = 0
      /\ tags' \in [Lines -> (Segments \ {0}) \cup {NoTag}]
      /\ nextLine' \in Lines
  BY <1>1 DEF StageFirst, ResetTable, Segments, TableEntries
<1>3. PICK ok \in BOOLEAN :
        /\ content' = [content EXCEPT ![0] = IF ok THEN 0 ELSE Junk]
        /\ initialized' = ok
        /\ pc' = IF ok THEN "lookup" ELSE "disk_error"
  BY DEF StageFirst
<1>4. /\ content' \in [Slots -> Segments \cup {Junk}]
      /\ ok => content'[0] = 0
  BY <1>1, <1>3 DEF Inv, TypeOK, Segments, TableEntries
<1>5. TagsTrue'
  BY <1>1 DEF StageFirst, TagsTrue
<1>6. TypeOK'
  BY <1>1, <1>2, <1>3, <1>4 DEF Inv, TypeOK, StageFirst, file, Errors
<1>7. ok => CacheInv'
  BY <1>1, <1>2, <1>4, <1>5 DEF CacheInv
<1> QED
  BY <1>3, <1>5, <1>6, <1>7 DEF Inv, Progress, Staging, Errors

\* A later call only forgets where the segments are; the tags still know.
LEMMA StageAgainKeeps == Inv /\ StageAgain => Inv'
<1> SUFFICES ASSUME Inv, StageAgain PROVE Inv'
  OBVIOUS
<1>1. lines \in {2, 3} /\ Lines' = Lines /\ Slots' = Slots /\ 0 \in Slots
  BY Constants DEF Inv, TypeOK, StageAgain, file, Lines, Slots
<1>2. table' \in [Segments -> Slots] /\ table'[0] = 0
  BY <1>1 DEF StageAgain, ResetTable, Segments, TableEntries
<1>3. TypeOK'
  BY <1>1, <1>2 DEF Inv, TypeOK, StageAgain, file
<1>4. CacheInv
  BY DEF Inv, StageAgain, Errors
<1>5. CacheInv'
  BY <1>1, <1>2, <1>4 DEF CacheInv, TagsTrue, StageAgain
<1> QED
  BY <1>3, <1>5 DEF Inv, StageAgain, Progress, Staging, Errors

\* The actions that leave the cache and the song alone.
LEMMA CacheUnchanged ==
    ASSUME Inv, UNCHANGED <<archive, lines, content, table, tags, nextLine>>
    PROVE  /\ CacheInv => CacheInv'
           /\ TagsTrue => TagsTrue'
           /\ \A k : Cached(k) => Cached(k)'
  BY DEF CacheInv, TagsTrue, Cached, Lines, Slots

LEMMA LookupKeeps == Inv /\ Lookup => Inv'
<1> SUFFICES ASSUME Inv, Lookup PROVE Inv'
  OBVIOUS
<1> USE DEF file, cache
<1>1. archive \in Archive /\ song \in Tracks
  BY Constants DEF Inv, TypeOK
<1>2. FirstSegment(archive, song) \in Segments
  BY <1>1, StreamArithmetic
<1>3. protected' \in 0..255
  BY <1>2 DEF Lookup, Protect, Inv, TypeOK, Segments, TableEntries
<1>4. TypeOK'
  BY <1>3 DEF Lookup, Inv, TypeOK, Lines, Slots, Errors
<1>5. CacheInv'
  BY CacheUnchanged DEF Lookup, Inv, Staging, Errors
<1>6. Progress'
  BY DEF Lookup, Progress, Protect
<1> QED
  BY <1>4, <1>5, <1>6 DEF Inv, Lookup, Staging

LEMMA EnsureFirstKeeps == Inv /\ EnsureFirst => Inv'
<1> SUFFICES ASSUME Inv, EnsureFirst PROVE Inv'
  OBVIOUS
<1> USE DEF file
<1>1. archive \in Archive /\ song \in Tracks /\ lines \in {2, 3}
  BY Constants DEF Inv, TypeOK
<1>2. PICK k \in Segments : k = FirstSegment(archive, song)
  BY <1>1, StreamArithmetic
<1>3. CacheInv /\ lines' = lines
  BY DEF Inv, EnsureFirst, Staging, Errors
<1>4. Ensure(k, "end", "disk_error")
  BY <1>2 DEF EnsureFirst
<1>5. /\ pc' \in {"end", "disk_error"}
      /\ content' \in [Slots' -> Segments \cup {Junk}]
      /\ table' \in [Segments -> Slots']
      /\ tags' \in [Lines' -> (Segments \ {0}) \cup {NoTag}]
      /\ nextLine' \in Lines'
      /\ pc' = "end" => CacheInv' /\ Cached(k)'
  BY <1>1, <1>3, <1>4, EnsureKeeps
<1>6. TypeOK'
  BY <1>5 DEF EnsureFirst, Inv, TypeOK, Errors
<1>7. k = FirstSegment(archive, song)'
  BY <1>2 DEF EnsureFirst
<1>8. protected' = FirstSegment(archive, song)'
  BY DEF EnsureFirst, Inv, Progress
<1>9. Progress'
  <2>1. CASE pc' = "end"
    <3>1. Cached(FirstSegment(archive, song))'
      BY <1>5, <1>7, <2>1 DEF Cached
    <3> QED
      BY <1>8, <2>1, <3>1 DEF Progress
  <2>2. CASE pc' = "disk_error"
    BY <2>2 DEF Progress
  <2> QED
    BY <1>5, <2>1, <2>2
<1> QED
  BY <1>5, <1>6, <1>9 DEF Inv, EnsureFirst, Staging, Errors

\* When the end segment the loader computes is the next one, it is right.
LEMMA FindEndKeeps == Inv /\ FindEnd => Inv'
<1> SUFFICES ASSUME Inv, FindEnd PROVE Inv'
  OBVIOUS
<1> USE DEF file, cache
<1>1. archive \in Archive /\ song \in Tracks
  BY Constants DEF Inv, TypeOK
<1>2. FirstSegment(archive, song) \in Segments
  BY <1>1, StreamArithmetic
<1>3. (FirstSegment(archive, song) + 1) % 256
         = FirstSegment(archive, song) + 1
  <2> SUFFICES ASSUME NEW n \in Int, 0 <= n, n <= 31
               PROVE (n + 1) % 256 = n + 1
    BY <1>2 DEF Segments, TableEntries
  <2> QED
    OBVIOUS
<1>4. TypeOK'
  BY DEF FindEnd, Inv, TypeOK, Lines, Slots, Errors
<1>5. CacheInv' /\ \A k : Cached(k) => Cached(k)'
  BY CacheUnchanged DEF FindEnd, Inv, Staging, Errors
<1>6. PICK f, e : f = FirstSegment(archive, song) /\ e = EndSegment(archive, song)
  OBVIOUS
<1>7. f = FirstSegment(archive, song)' /\ e = EndSegment(archive, song)'
  BY <1>6 DEF FindEnd
<1>8. Cached(f)'
  BY <1>5, <1>6 DEF FindEnd, Inv, Progress
<1>9. Cached(FirstSegment(archive, song))'
  BY <1>7, <1>8 DEF Cached
<1>10. \/ pc' = "staged" /\ e = f
       \/ pc' = "second" /\ e = f + 1
       \/ pc' = "too_wide"
  BY <1>3, <1>6 DEF FindEnd
<1>11. protected' = FirstSegment(archive, song)'
  BY DEF FindEnd, Inv, Progress
<1>12. Progress'
  BY <1>7, <1>9, <1>10, <1>11 DEF Progress
<1> QED
  BY <1>4, <1>5, <1>10, <1>12 DEF Inv, FindEnd, Staging, Errors

\* The second half never replaces the first: the first half is protected.
LEMMA EnsureSecondKeeps == Inv /\ EnsureSecond => Inv'
<1> SUFFICES ASSUME Inv, EnsureSecond PROVE Inv'
  OBVIOUS
<1> USE DEF file
<1>1. archive \in Archive /\ song \in Tracks /\ lines \in {2, 3}
  BY Constants DEF Inv, TypeOK
<1>2. PICK f, k : f = FirstSegment(archive, song)
                  /\ k = EndSegment(archive, song)
  OBVIOUS
<1>3. k = f + 1 /\ protected = f /\ Cached(f)
  BY <1>2 DEF EnsureSecond, Inv, Progress, Cached
<1>4. f \in Segments /\ k \in Segments
  <2>1. PICK l \in Segments : l = LastSegment(archive, song)
    BY <1>1, StreamArithmetic
  <2>2. f \in Segments /\ f <= l /\ (k = l \/ k = l + 4)
    BY <1>1, <1>2, <2>1, StreamArithmetic
  <2> QED
    BY <1>3, <2>1, <2>2 DEF Segments, TableEntries
<1>5. CacheInv /\ lines' = lines
  BY DEF Inv, EnsureSecond, Staging, Errors
<1>6. Ensure(k, "staged", "disk_error")
  BY <1>2 DEF EnsureSecond
<1>7. /\ pc' \in {"staged", "disk_error"}
      /\ content' \in [Slots' -> Segments \cup {Junk}]
      /\ table' \in [Segments -> Slots']
      /\ tags' \in [Lines' -> (Segments \ {0}) \cup {NoTag}]
      /\ nextLine' \in Lines'
      /\ pc' = "staged" => CacheInv' /\ Cached(k)'
      /\ pc' = "staged" =>
            f = 0 \/ \E l \in Lines' : tags'[l] = f /\ table'[f] = l + 1
  BY <1>1, <1>3, <1>4, <1>5, <1>6, EnsureKeeps
<1>8. TypeOK'
  BY <1>7 DEF EnsureSecond, Inv, TypeOK, Errors
<1>9. f = FirstSegment(archive, song)' /\ k = EndSegment(archive, song)'
  BY <1>2 DEF EnsureSecond
<1>10. Progress'
  <2>1. CASE pc' = "staged"
    <3>1. Cached(FirstSegment(archive, song))'
          /\ Cached(EndSegment(archive, song))'
      BY <1>7, <1>9, <2>1 DEF Cached
    <3> QED
      BY <1>3, <1>9, <2>1, <3>1 DEF Progress
  <2>2. CASE pc' = "disk_error"
    BY <2>2 DEF Progress
  <2> QED
    BY <1>7, <2>1, <2>2
<1> QED
  BY <1>7, <1>8, <1>10 DEF Inv, EnsureSecond, Staging, Errors

\* launch_player and the keys leave the staged song or choose another.
LEMMA PlayKeeps ==
    Inv /\ (Launch \/ SwitchSong \/ StageReadError \/ Quit \/ Stopped) => Inv'
<1> USE DEF file, cache
<1>1. ASSUME Inv, Launch PROVE Inv'
  <2>1. /\ TypeOK'
        /\ CacheInv' /\ \A k : Cached(k) => Cached(k)'
    BY <1>1, CacheUnchanged
       DEF Launch, Inv, TypeOK, Lines, Slots, Staging, Errors, NoTag
  <2>2. PICK f, e : f = FirstSegment(archive, song) /\ e = EndSegment(archive, song)
    OBVIOUS
  <2>3. f = FirstSegment(archive, song)' /\ e = EndSegment(archive, song)'
    BY <1>1, <2>2 DEF Launch
  <2>4. Cached(f)' /\ Cached(e)' /\ e \in {f, f + 1}
    BY <1>1, <2>1, <2>2 DEF Launch, Inv, Progress
  <2>5. Progress'
    BY <1>1, <2>3, <2>4 DEF Launch, Progress, Cached
  <2> QED
    BY <1>1, <2>1, <2>5 DEF Inv, Launch, Staging
<1>2. ASSUME Inv, SwitchSong PROVE Inv'
  <2>1. song' \in Tracks
    <3>1. TrackCount \in Int /\ 1 <= TrackCount
      BY SizeAssumption
    <3>2. song \in Int /\ 0 <= song /\ song < TrackCount
      BY <1>2, <3>1 DEF Inv, TypeOK, Tracks
    <3>3. ASSUME NEW n \in Int PROVE n % TrackCount \in Tracks
      BY <3>1 DEF Tracks
    <3> QED
      BY <1>2, <3>1, <3>2, <3>3 DEF SwitchSong, Inv, TypeOK
  <2>2. TypeOK' /\ CacheInv'
    BY <1>2, <2>1, CacheUnchanged
       DEF SwitchSong, Inv, TypeOK, Lines, Slots, Staging, Errors
  <2> QED
    BY <1>2, <2>2 DEF Inv, SwitchSong, Progress, Staging, Errors
<1>3. ASSUME Inv, Quit PROVE Inv'
  BY <1>3, CacheUnchanged
     DEF Quit, Inv, TypeOK, Lines, Slots, Progress, Staging, Errors
<1>4. ASSUME Inv, UNCHANGED vars PROVE Inv'
  BY <1>4, CacheUnchanged
     DEF vars, Inv, TypeOK, Lines, Slots, Progress, Cached, Staging, Errors
<1> QED
  BY <1>1, <1>2, <1>3, <1>4 DEF StageReadError, Stopped

LEMMA NextInv == Inv /\ [Next]_vars => Inv'
<1>1. Inv /\ UNCHANGED vars => Inv'
  BY CacheUnchanged
     DEF vars, file, cache, Inv, TypeOK, Lines, Slots, Progress, Cached,
         Staging, Errors
<1> QED
  BY <1>1, StageFirstKeeps, StageAgainKeeps, LookupKeeps, EnsureFirstKeeps,
     FindEndKeeps, EnsureSecondKeeps, PlayKeeps DEF Next

\* Inv holds for ever.
THEOREM Invariance == Spec => []Inv
<1> QED
  BY InitInv, NextInv, PTL DEF Spec

\* The types, and with them the loader's 8-bit table entries, are right for
\* every archive of at most 32 segments (stage_sparse_file and its callees).
THEOREM TypeCorrect == Spec => []TypeOK
<1>1. Inv => TypeOK
  BY DEF Inv
<1> QED
  BY <1>1, Invariance, PTL

\* A tag never claims a segment its line does not hold (the hit path of
\* stage_sparse_ensure_segment skips the disk).
THEOREM TagsNeverLie == Spec => []TagsTruthful
<1>1. Inv => TagsTruthful
  BY DEF Inv, TagsTruthful, CacheInv, TagsTrue
<1> QED
  BY <1>1, Invariance, PTL

\* While a song plays, each segment it needs is cached: the end segment the
\* loader computed cannot be four too high, for it is the first or the next.
LEMMA NeededCached ==
    ASSUME Inv, pc = "play", NEW k \in Needed(archive, song)
    PROVE  k \in Segments /\ Cached(k)
<1>1. archive \in Archive /\ song \in Tracks
  BY Constants DEF Inv, TypeOK
<1>2. PICK f, e : f = FirstSegment(archive, song) /\ e = EndSegment(archive, song)
  OBVIOUS
<1>3. Cached(f) /\ Cached(e) /\ e \in {f, f + 1}
  BY <1>2 DEF Inv, Progress
<1>4. PICK l \in Segments : l = LastSegment(archive, song)
  BY <1>1, StreamArithmetic
<1>5. /\ f = archive.offset[song] \div SegBytes
      /\ f \in Segments /\ f <= l /\ e \in {l, l + 4}
  BY <1>1, <1>2, <1>4, StreamArithmetic
<1>6. k \in {f, l} /\ e = l
  BY <1>3, <1>4, <1>5 DEF Needed, Segments, TableEntries
<1> QED
  BY <1>3, <1>4, <1>5, <1>6

\* While a song plays, every segment of its packed overlay and segment 0 are
\* read from slots that hold them (stage_sparse_file followed by
\* launch_player), for every archive, every cache size and every sequence of
\* track changes.
THEOREM AlwaysStaged == Spec => []PlayingSongStaged
<1>1. Inv => PlayingSongStaged
  <2> SUFFICES ASSUME Inv, pc = "play",
                      NEW k \in {0} \cup Needed(archive, song)
               PROVE content[table[k]] = k
    BY DEF PlayingSongStaged
  <2>1. CacheInv
    BY DEF Inv, Staging, Errors
  <2>2. k \in Segments /\ Cached(k)
    BY NeededCached DEF Cached, Segments, TableEntries
  <2> QED
    BY <2>1, <2>2, CachedIsRead
<1> QED
  BY <1>1, Invariance, PTL

\* The victim search of stage_sparse_choose_victim always ends: with true tags
\* and two or three lines, at most one line holds the protected segment.
THEOREM SearchAlwaysEnds == Spec => []SearchEnds
<1>1. Inv => SearchEnds
  <2> SUFFICES ASSUME Inv, pc \in {"first", "second"}
               PROVE \E l \in Lines : tags[l] # protected
    BY DEF SearchEnds
  <2>1. 0 \in Lines /\ 1 \in Lines
    BY Constants DEF Inv, TypeOK, Lines
  <2>2. archive \in Archive /\ song \in Tracks
    BY Constants DEF Inv, TypeOK
  <2>3. protected # NoTag
    <3>1. protected \in Segments
      BY <2>2, StreamArithmetic DEF Inv, Progress
    <3> QED
      BY <3>1 DEF Segments, TableEntries, NoTag
  <2>4. TagsTrue
    BY DEF Inv, CacheInv, Staging, Errors
  <2> QED
    BY <2>1, <2>3, <2>4 DEF TagsTrue
<1> QED
  BY <1>1, Invariance, PTL

\* The playing song's segments are cached, so that a replay reads no disk
\* (stage_sparse_ensure_segment finds their tags).
THEOREM ReplayAlwaysHits == Spec => []ReplayHits
<1>1. Inv => ReplayHits
  BY NeededCached DEF ReplayHits, Cached, Hit
<1> QED
  BY <1>1, Invariance, PTL

-----------------------------------------------------------------------------
\* The DOS loader.

\* The loader's inductive invariant, while the loader is what runs.
LoaderInv == program = "dos2" => Dos2!Inv

LEMMA LoadersStart == Dos2!Sane /\ LoadersInit => LoaderInv
BY Dos2!InitInv DEF LoadersInit, LoaderInv

\* A part is never left for another, and a step of the loader in this instance
\* is one of its own; what is not the loader's leaves its variables alone.
LEMMA LoadersStep == Dos2!Sane /\ LoaderInv /\ [LoadersNext]_all => LoaderInv'
<1> SUFFICES ASSUME Dos2!Sane, LoaderInv, [LoadersNext]_all, program' = "dos2"
             PROVE  Dos2!Inv'
  BY DEF LoaderInv
<1>1. program = "dos2" /\ Dos2!Inv
  BY DEF LoaderInv, LoadersNext, all, RunSparse, RunDos2, RunCommand, RunCompact, RunKeys
<1>2. CASE RunDos2
  BY <1>1, <1>2, Dos2!NextInv DEF RunDos2
<1>3. CASE UNCHANGED all
  <2>1. UNCHANGED Dos2!vars
    BY <1>3 DEF all, work, Dos2!vars, Dos2!plan, Dos2!memory
  <2> QED
    BY <2>1, <1>1, Dos2!NextInv
<1> QED
  BY <1>1, <1>2, <1>3 DEF LoadersNext, RunSparse, RunCommand, RunCompact, RunKeys

LEMMA LoadersInvariant == Dos2!Sane => (LoadersSpec => []LoaderInv)
<1> SUFFICES ASSUME Dos2!Sane PROVE LoadersSpec => []LoaderInv
  OBVIOUS
<1>1. LoadersInit => LoaderInv
  BY LoadersStart
<1>2. LoaderInv /\ [LoadersNext]_all => LoaderInv'
  BY LoadersStep
<1> QED
  BY <1>1, <1>2, PTL DEF LoadersSpec

-----------------------------------------------------------------------------
\* read_exact_range and load_staged_file never use a handle that close_staged_file
\* has closed.
THEOREM OpenWhenRead == Dos2!Sane => (LoadersSpec => []ReadsOpenFile)
<1>1. LoaderInv => ReadsOpenFile
  BY DEF LoaderInv, ReadsOpenFile, Dos2!Inv, Dos2!HandleInv, Dos2!ReadsOpenFile
<1> QED
  BY <1>1, LoadersInvariant, PTL

\* ALL_SEG never fails after choose_staging_mode has chosen, and no segment is
\* handed out twice, whatever the mapper has free.
THEOREM Granted == Dos2!Sane => (LoadersSpec => []AllocationGranted)
<1> SUFFICES ASSUME Dos2!Sane PROVE LoadersSpec => []AllocationGranted
  OBVIOUS
<1>1. LoaderInv => AllocationGranted
  BY Dos2!GrantedFromInv DEF LoaderInv, AllocationGranted
<1> QED
  BY <1>1, LoadersInvariant, PTL

\* What the chosen mode stages is there when the player starts, in segments of
\* the staging pool and where the table says (stage_file, stage_ksp_file): the
\* whole file, segment 0 of a sparse one, and of a compact KSP what SEEK reached.
THEOREM StagedBeforePlay == Dos2!Sane => (LoadersSpec => []PlayedIsStaged)
<1> SUFFICES ASSUME Dos2!Sane PROVE LoadersSpec => []PlayedIsStaged
  OBVIOUS
<1>1. LoaderInv => PlayedIsStaged
  BY Dos2!StagedFromInv DEF LoaderInv, PlayedIsStaged
<1> QED
  BY <1>1, LoadersInvariant, PTL

\* A file is refused for want of memory only if no mode of its kind fits, and
\* as too large only above 512 KiB (choose_staging_mode, calculate_stage_count).
THEOREM RefusedForSizeOnly == Dos2!Sane => (LoadersSpec => []RefusedForSize)
<1> SUFFICES ASSUME Dos2!Sane PROVE LoadersSpec => []RefusedForSize
  OBVIOUS
<1>1. LoaderInv => RefusedForSize
  BY Dos2!RefusedFromInv DEF LoaderInv, RefusedForSize
<1> QED
  BY <1>1, LoadersInvariant, PTL

-----------------------------------------------------------------------------
\* The player on a compact KSP.

\* Its inductive invariant, while it is what runs.
CompactInv == program = "compact" => Compact!Inv

LEMMA CompactInvariant == LoadersSpec => []CompactInv
<1>1. LoadersInit => CompactInv
  BY Compact!InvInit, CompactAssumption DEF LoadersInit, CompactInv
<1>2. CompactInv /\ [LoadersNext]_all => CompactInv'
  <2> SUFFICES ASSUME CompactInv, [LoadersNext]_all, program' = "compact" PROVE Compact!Inv'
    BY DEF CompactInv
  <2>1. program = "compact" /\ Compact!Inv
    BY DEF CompactInv, LoadersNext, all, RunSparse, RunDos2, RunCommand, RunCompact, RunKeys
  <2>2. CASE RunCompact
    BY <2>1, <2>2, Compact!InvPreserved, CompactAssumption DEF RunCompact
  <2>3. CASE UNCHANGED all
    <3>1. UNCHANGED Compact!vars
      BY <2>3 DEF all, work, Compact!vars, Compact!reading, Compact!cache, Compact!memory,
                  Compact!keyboard
    <3> QED
      BY <3>1, <2>1, Compact!InvPreserved, CompactAssumption
  <2> QED
    BY <2>1, <2>2, <2>3 DEF LoadersNext, RunSparse, RunDos2, RunCommand, RunKeys
<1> QED
  BY <1>1, <1>2, PTL DEF LoadersSpec

\* What plays after a switch without a DOS failure is the selected song with
\* its engine and kit, whatever failed in earlier switches: no stale cache
\* line survives into it.
THEOREM PlaysWhatWasSelected == LoadersSpec => []PlayingIsRequested
<1>1. CompactInv => PlayingIsRequested
  BY Compact!InvKeeps DEF CompactInv, PlayingIsRequested
<1> QED
  BY <1>1, CompactInvariant, PTL

\* A song the file holds and the player can play is refused only for a DOS
\* failure during its own switch.
THEOREM RefusesOnlyForCause == LoadersSpec => []RefusedForCause
<1>1. CompactInv => RefusedForCause
  BY Compact!InvKeeps DEF CompactInv, RefusedForCause
<1> QED
  BY <1>1, CompactInvariant, PTL

\* However long a key is held, it selects one song.
THEOREM OnePressSelectsOneSong == LoadersSpec => []OneSwitchPerPress
<1>1. CompactInv => OneSwitchPerPress
  BY Compact!InvKeeps DEF CompactInv, OneSwitchPerPress
<1> QED
  BY <1>1, CompactInvariant, PTL

-----------------------------------------------------------------------------
(***************************************************************************)
(* The terminal's keys.  The bytes under way form one stream, whichever    *)
(* queue they are in: an action of the parser takes a prefix of it, the    *)
(* terminal moves bytes within it, and the user puts a whole key behind.   *)
(***************************************************************************)
LEMMA JoinedTwo ==
    ASSUME NEW s \in Seq(Keys!Bytes), NEW t \in Seq(Keys!Bytes)
    PROVE  /\ s \o t \in Seq(Keys!Bytes) /\ Len(s \o t) = Len(s) + Len(t)
           /\ \A i \in 1..Len(s) : (s \o t)[i] = s[i]
           /\ \A i \in 1..Len(t) : (s \o t)[Len(s) + i] = t[i]
OBVIOUS

\* t is s without its first d bytes.
Left(t, s, d) ==
    /\ s \in Seq(Keys!Bytes) /\ t \in Seq(Keys!Bytes)
    /\ d \in 1..Len(s) /\ Len(s) = Len(t) + d
    /\ \A i \in 1..Len(t) : t[i] = s[i + d]

LEMMA LeftWithin ==
    ASSUME NEW s, NEW t, NEW d, Left(t, s, d)
    PROVE  \A i \in 1..Len(t) : \E j \in 1..Len(s) : t[i] = s[j]
<1> SUFFICES ASSUME NEW i \in 1..Len(t) PROVE \E j \in 1..Len(s) : t[i] = s[j]
  OBVIOUS
<1>1. i + d \in 1..Len(s) /\ t[i] = s[i + d]
  BY DEF Left
<1> QED
  BY <1>1

\* p is s, t and u, one behind the other.
InRow(p, s, t, u) ==
    /\ p \in Seq(Keys!Bytes) /\ Len(p) = Len(s) + Len(t) + Len(u)
    /\ \A i \in 1..Len(s) : p[i] = s[i]
    /\ \A i \in 1..Len(t) : p[Len(s) + i] = t[i]
    /\ \A i \in 1..Len(u) : p[Len(s) + Len(t) + i] = u[i]

LEMMA TextJoined ==
    ASSUME NEW s \in Seq(Keys!Bytes), NEW t \in Seq(Keys!Bytes), NEW u \in Seq(Keys!Bytes)
    PROVE  InRow((s \o t) \o u, s, t, u)
<1>1. PICK st \in Seq(Keys!Bytes) : st = s \o t
  BY JoinedTwo
<1>2. /\ Len(st) = Len(s) + Len(t)
      /\ \A i \in 1..Len(s) : st[i] = s[i]
      /\ \A i \in 1..Len(t) : st[Len(s) + i] = t[i]
  BY <1>1, JoinedTwo
<1>3. /\ st \o u \in Seq(Keys!Bytes) /\ Len(st \o u) = Len(st) + Len(u)
      /\ \A i \in 1..Len(st) : (st \o u)[i] = st[i]
      /\ \A i \in 1..Len(u) : (st \o u)[Len(st) + i] = u[i]
  BY <1>1, JoinedTwo
<1>4. \A i \in 1..Len(s) : i \in 1..Len(st)
  BY <1>2
<1>5. \A i \in 1..Len(t) : Len(s) + i \in 1..Len(st)
  BY <1>2
<1> QED
  BY <1>1, <1>2, <1>3, <1>4, <1>5 DEF InRow

\* Two sequences are the same when they are at every place.
LEMMA SameSequence ==
    ASSUME NEW s \in Seq(Keys!Bytes), NEW t \in Seq(Keys!Bytes), Len(s) = Len(t),
           \A i \in 1..Len(s) : s[i] = t[i]
    PROVE  s = t
OBVIOUS

\* What is left of an orderly stream is orderly.
LEMMA OrderlySuffix ==
    ASSUME NEW s, NEW t, NEW keys, NEW d, Left(t, s, d), Keys!Orderly(s, keys)
    PROVE  Keys!Orderly(t, keys)
<1> USE DEF Left
<1>1. \A i \in 1..Len(t) : i + d \in 1..Len(s)
  OBVIOUS
<1>2. \A i \in 1..Len(t) : t[i].key \in 1..Len(keys) /\ (keys[t[i].key] = "letter" => t[i].byte = "C")
  BY <1>1 DEF Keys!Orderly
<1>3. \A i, j \in 1..Len(t) :
        i < j => t[i].key <= t[j].key /\ (Keys!First(t[j], keys) => t[i].key < t[j].key)
  <2> SUFFICES ASSUME NEW i \in 1..Len(t), NEW j \in 1..Len(t), i < j
               PROVE  t[i].key <= t[j].key /\ (Keys!First(t[j], keys) => t[i].key < t[j].key)
    OBVIOUS
  <2>1. i + d < j + d
    OBVIOUS
  <2> QED
    BY <2>1, <1>1 DEF Keys!Orderly
<1>4. ASSUME NEW i \in 1..Len(t)
      PROVE  IF i = Len(t) THEN Keys!Last(t[i], keys) ELSE Keys!Follows(t[i], t[i + 1], keys)
  <2>1. CASE i = Len(t)
    BY <2>1, <1>1 DEF Keys!Orderly
  <2>2. CASE i # Len(t)
    <3>1. i + d # Len(s) /\ (i + d) + 1 = (i + 1) + d /\ i + 1 \in 1..Len(t)
      BY <2>2
    <3>2. Keys!Follows(s[i + d], s[(i + d) + 1], keys)
      BY <3>1, <1>1 DEF Keys!Orderly
    <3> QED
      BY <3>1, <3>2, <2>2
  <2> QED
    BY <2>1, <2>2
<1> QED
  BY <1>2, <1>3, <1>4 DEF Keys!Orderly

LEMMA NotEmpty == ASSUME NEW s, Len(s) # 0 PROVE s # <<>>
OBVIOUS

\* A poll looks at the first bytes and leaves the rest.
LEMMA Cut ==
    ASSUME NEW s \in Seq(Keys!Bytes), NEW c \in 1..Len(s)
    PROVE  /\ SubSeq(s, 1, c) \in Seq(Keys!Bytes) /\ SubSeq(s, 1, c) # <<>>
           /\ SubSeq(s, c + 1, Len(s)) \in Seq(Keys!Bytes)
           /\ SubSeq(s, 1, c) \o SubSeq(s, c + 1, Len(s)) = s
<1> PICK a : a = SubSeq(s, 1, c)
  OBVIOUS
<1> PICK b : b = SubSeq(s, c + 1, Len(s))
  OBVIOUS
<1>1. a \in Seq(Keys!Bytes)
  OBVIOUS
<1>2. Len(a) = c
  OBVIOUS
<1>3. \A i \in 1..c : a[i] = s[i]
  OBVIOUS
<1>4. b \in Seq(Keys!Bytes)
  OBVIOUS
<1>5. Len(b) = Len(s) - c
  OBVIOUS
<1>6. \A i \in 1..Len(b) : b[i] = s[c + i]
  BY <1>5
<1>7. a # <<>>
  <2>1. Len(a) # 0
    BY <1>2
  <2> QED
    BY <2>1, NotEmpty
<1>8. a \o b = s
  <2>1. /\ a \o b \in Seq(Keys!Bytes) /\ Len(a \o b) = Len(a) + Len(b)
        /\ \A i \in 1..Len(a) : (a \o b)[i] = a[i]
        /\ \A i \in 1..Len(b) : (a \o b)[Len(a) + i] = b[i]
    BY <1>1, <1>4, JoinedTwo
  <2>2. ASSUME NEW i \in 1..Len(s) PROVE (a \o b)[i] = s[i]
    <3>1. CASE i <= c
      BY <2>1, <1>2, <1>3, <3>1
    <3>2. CASE i > c
      <4>1. i - c \in 1..Len(b) /\ c + (i - c) = i
        BY <1>5, <3>2
      <4> QED
        BY <2>1, <4>1, <1>2, <1>6
    <3> QED
      BY <3>1, <3>2
  <2>3. Len(a \o b) = Len(s)
    BY <2>1, <1>2, <1>5
  <2> QED
    BY <2>1, <2>2, <2>3, SameSequence
<1> QED
  BY <1>1, <1>4, <1>7, <1>8

\* A byte that arrives moves from the end of what is on its way ...
LEMMA Moved ==
    ASSUME NEW s \in Seq(Keys!Bytes), NEW t \in Seq(Keys!Bytes), t # <<>>
    PROVE  /\ Append(s, Head(t)) \in Seq(Keys!Bytes) /\ Append(s, Head(t)) # <<>>
           /\ Tail(t) \in Seq(Keys!Bytes)
           /\ Len(Append(s, Head(t))) = Len(s) + 1 /\ Len(Tail(t)) = Len(t) - 1
           /\ \A i \in 1..Len(s) : Append(s, Head(t))[i] = s[i]
           /\ Append(s, Head(t))[Len(s) + 1] = t[1]
           /\ \A i \in 1..Len(t) - 1 : Tail(t)[i] = t[i + 1]
OBVIOUS

LEMMA KeysReadStream ==
    Keys!TypeInv /\ Keys!Read =>
        /\ Keys!Stream' = Keys!Stream
        /\ w10' \in Seq(Keys!Bytes) /\ w4' \in Seq(Keys!Bytes) /\ w10' # <<>>
<1> SUFFICES ASSUME Keys!TypeInv, Keys!Read
             PROVE  /\ Keys!Stream' = Keys!Stream
                    /\ w10' \in Seq(Keys!Bytes) /\ w4' \in Seq(Keys!Bytes) /\ w10' # <<>>
  OBVIOUS
<1>1. w10 = <<>> /\ w4 \in Seq(Keys!Bytes) /\ w5' = w5 /\ w4 # <<>>
  BY DEF Keys!Read, Keys!TypeInv, Keys!user
<1> DEFINE count == IF Len(w4) < KeyChunk THEN Len(w4) ELSE KeyChunk
<1>2. PICK c \in 1..Len(w4) : w10' = SubSeq(w4, 1, c) /\ w4' = SubSeq(w4, c + 1, Len(w4))
  <2>1. w10' = SubSeq(w4, 1, count) /\ w4' = SubSeq(w4, count + 1, Len(w4))
    BY DEF Keys!Read
  <2>2. Len(w4) \in Nat \ {0}
    BY <1>1
  <2>3. count \in 1..Len(w4)
    BY <2>2, KeyAssumption
  <2> QED
    BY <2>1, <2>3
<1>3. w10' \o w4' = w4 /\ w10' \in Seq(Keys!Bytes) /\ w4' \in Seq(Keys!Bytes) /\ w10' # <<>>
  BY <1>1, <1>2, Cut
<1>4. w10 \o w4 = w4
  BY <1>1
<1> QED
  BY <1>1, <1>3, <1>4 DEF Keys!Stream

LEMMA Handed ==
    ASSUME NEW s \in Seq(Keys!Bytes), NEW t \in Seq(Keys!Bytes), NEW u \in Seq(Keys!Bytes),
           NEW t2 \in Seq(Keys!Bytes), NEW u2 \in Seq(Keys!Bytes), NEW p, NEW q,
           Len(t2) = Len(t) + 1, Len(u) = Len(u2) + 1,
           \A i \in 1..Len(t) : t2[i] = t[i],
           t2[Len(t) + 1] = u[1],
           \A i \in 1..Len(u2) : u2[i] = u[i + 1],
           InRow(p, s, t, u), InRow(q, s, t2, u2)
    PROVE  p = q
<1>1. PICK a \in Nat : a = Len(s)
  BY SMTT(30)
<1>2. PICK b \in Nat : b = Len(t)
  BY SMTT(30)
<1>3. PICK c \in Nat : c = Len(u2)
  BY SMTT(30)
<1>4. /\ p \in Seq(Keys!Bytes) /\ Len(p) = a + b + (c + 1)
      /\ \A i \in 1..a : p[i] = s[i]
      /\ \A i \in 1..b : p[a + i] = t[i]
      /\ \A i \in 1..(c + 1) : p[a + b + i] = u[i]
  BY <1>1, <1>2, <1>3 DEF InRow
<1>5. /\ q \in Seq(Keys!Bytes) /\ Len(q) = a + (b + 1) + c
      /\ \A i \in 1..a : q[i] = s[i]
      /\ \A i \in 1..(b + 1) : q[a + i] = t2[i]
      /\ \A i \in 1..c : q[a + (b + 1) + i] = u2[i]
  BY <1>1, <1>2, <1>3 DEF InRow
<1>6. ASSUME NEW i \in 1..Len(p) PROVE p[i] = q[i]
  <2>1. CASE i <= a
    <3>1. i \in 1..a
      BY <2>1
    <3> QED
      BY <3>1, <1>4, <1>5
  <2>2. CASE i > a /\ i <= a + b
    <3>1. PICK j \in 1..b : i = a + j
      <4>1. i - a \in 1..b /\ i = a + (i - a)
        BY <2>2
      <4> QED
        BY <4>1
    <3>2. j \in 1..(b + 1)
      OBVIOUS
    <3>3. p[i] = t[j] /\ q[i] = t2[j]
      BY <3>1, <3>2, <1>4, <1>5
    <3> QED
      BY <3>3, <1>2
  <2>3. CASE i = a + b + 1
    <3>1. i = a + (b + 1) /\ b + 1 \in 1..(b + 1) /\ 1 \in 1..(c + 1)
      BY <2>3
    <3>2. p[i] = u[1] /\ q[i] = t2[b + 1]
      BY <2>3, <3>1, <1>4, <1>5
    <3> QED
      BY <3>2, <1>2
  <2>4. CASE i > a + b + 1
    <3>1. i <= a + b + (c + 1)
      BY <1>4
    <3>2. PICK j \in 1..c : i = a + (b + 1) + j
      <4>1. i - (a + b + 1) \in 1..c
        BY <2>4, <3>1
      <4>2. i = a + (b + 1) + (i - (a + b + 1))
        OBVIOUS
      <4> QED
        BY <4>1, <4>2
    <3>3. i = a + b + (j + 1) /\ j + 1 \in 1..(c + 1)
      BY <3>2
    <3>4. p[i] = u[j + 1] /\ q[i] = u2[j]
      BY <3>2, <3>3, <1>4, <1>5
    <3> QED
      BY <3>4, <1>3
  <2> QED
    BY <2>1, <2>2, <2>3, <2>4
<1>7. Len(p) = Len(q)
  BY <1>4, <1>5
<1> QED
  BY <1>4, <1>5, <1>6, <1>7, SameSequence

LEMMA KeysArriveStream ==
    Keys!TypeInv /\ Keys!Arrive =>
        /\ Keys!Stream' = Keys!Stream
        /\ w4' \in Seq(Keys!Bytes) /\ w5' \in Seq(Keys!Bytes) /\ w4' # <<>>
<1> SUFFICES ASSUME Keys!TypeInv, Keys!Arrive
             PROVE  /\ Keys!Stream' = Keys!Stream
                    /\ w4' \in Seq(Keys!Bytes) /\ w5' \in Seq(Keys!Bytes) /\ w4' # <<>>
  OBVIOUS
<1>1. /\ w10' = w10 /\ w10 \in Seq(Keys!Bytes) /\ w4 \in Seq(Keys!Bytes)
      /\ w5 \in Seq(Keys!Bytes) /\ w5 # <<>>
      /\ w4' = Append(w4, Head(w5)) /\ w5' = Tail(w5)
  BY DEF Keys!Arrive, Keys!TypeInv
<1>2. w4' \in Seq(Keys!Bytes) /\ w4' # <<>> /\ w5' \in Seq(Keys!Bytes)
  BY <1>1, Moved
<1>3. InRow((w10 \o w4) \o w5, w10, w4, w5) /\ InRow((w10 \o w4') \o w5', w10, w4', w5')
  BY <1>1, <1>2, TextJoined
<1>4. /\ Len(w4') = Len(w4) + 1 /\ Len(w5) = Len(w5') + 1
      /\ \A i \in 1..Len(w4) : w4'[i] = w4[i]
      /\ w4'[Len(w4) + 1] = w5[1]
      /\ \A i \in 1..Len(w5') : w5'[i] = w5[i + 1]
  <2>1. Len(w5) \in Nat
    BY <1>1
  <2> QED
    BY <2>1, <1>1, Moved
<1>5. (w10 \o w4) \o w5 = (w10 \o w4') \o w5'
  BY <1>1, <1>2, <1>3, <1>4, Handed
<1> QED
  BY <1>1, <1>2, <1>5 DEF Keys!Stream

\* What is taken from the first queue is taken from the stream.
LEMMA Taken ==
    ASSUME NEW s, NEW r, NEW t \in Seq(Keys!Bytes), NEW u \in Seq(Keys!Bytes), NEW e, NEW p, NEW q,
           Left(r, s, e), InRow(p, s, t, u), InRow(q, r, t, u)
    PROVE  Left(q, p, e) /\ p[1] = s[1]
<1>0. e \in Nat \ {0}
  BY DEF Left
<1>1. PICK z \in Nat : z = Len(r)
  BY DEF Left
<1>2. PICK b \in Nat : b = Len(t)
  OBVIOUS
<1>3. PICK c \in Nat : c = Len(u)
  OBVIOUS
<1>4. /\ p \in Seq(Keys!Bytes) /\ Len(p) = (z + e) + b + c
      /\ \A i \in 1..(z + e) : p[i] = s[i]
      /\ \A i \in 1..b : p[(z + e) + i] = t[i]
      /\ \A i \in 1..c : p[(z + e) + b + i] = u[i]
  BY <1>1, <1>2, <1>3 DEF InRow, Left
<1>5. /\ q \in Seq(Keys!Bytes) /\ Len(q) = z + b + c
      /\ \A i \in 1..z : q[i] = r[i]
      /\ \A i \in 1..b : q[z + i] = t[i]
      /\ \A i \in 1..c : q[z + b + i] = u[i]
  BY <1>1, <1>2, <1>3 DEF InRow
<1>6. ASSUME NEW i \in 1..Len(q) PROVE q[i] = p[i + e]
  <2>1. CASE i <= z
    <3>1. i \in 1..z /\ i + e \in 1..(z + e)
      BY <2>1, <1>0
    <3> QED
      BY <3>1, <1>1, <1>4, <1>5 DEF Left
  <2>2. CASE i > z /\ i <= z + b
    <3>1. PICK j \in 1..b : i = z + j /\ i + e = (z + e) + j
      <4>1. i - z \in 1..b
        BY <2>2
      <4>2. i = z + (i - z) /\ i + e = (z + e) + (i - z)
        BY <1>0
      <4> QED
        BY <4>1, <4>2
    <3> QED
      BY <3>1, <1>4, <1>5
  <2>3. CASE i > z + b
    <3>1. i <= z + b + c
      BY <1>5
    <3>2. PICK j \in 1..c : i = z + b + j /\ i + e = (z + e) + b + j
      <4>1. i - (z + b) \in 1..c
        BY <2>3, <3>1
      <4>2. i = z + b + (i - (z + b)) /\ i + e = (z + e) + b + (i - (z + b))
        BY <1>0
      <4> QED
        BY <4>1, <4>2
    <3> QED
      BY <3>2, <1>4, <1>5
  <2> QED
    BY <2>1, <2>2, <2>3
<1>7. e \in 1..Len(p) /\ Len(p) = Len(q) + e
  BY <1>0, <1>4, <1>5
<1>8. p[1] = s[1]
  <2>1. 1 \in 1..(z + e)
    BY <1>0
  <2> QED
    BY <2>1, <1>4
<1> QED
  BY <1>4, <1>5, <1>6, <1>7, <1>8 DEF Left

\* A step of the parser's loop takes the first byte of the stream, and whatever
\* else was read with it if it returns.
LEMMA KeysScanStream ==
    ASSUME Keys!TypeInv, Keys!Scan
    PROVE  /\ w10' \in Seq(Keys!Bytes) /\ Head(w10) = Keys!Stream[1]
           /\ \E d \in Nat :
                /\ Left(Keys!Stream', Keys!Stream, d)
                /\ Keys!AfterByte(w2, Head(w10).byte).act = "none" => d = 1
<1>1. /\ w4' = w4 /\ w5' = w5 /\ w10 \in Seq(Keys!Bytes) /\ w10 # <<>>
      /\ w4 \in Seq(Keys!Bytes) /\ w5 \in Seq(Keys!Bytes)
  BY DEF Keys!Scan, Keys!TypeInv, Keys!user
<1>2. PICK e \in Nat :
        /\ Left(w10', w10, e)
        /\ Keys!AfterByte(w2, Head(w10).byte).act = "none" => e = 1
  <2>1. CASE Keys!AfterByte(w2, Head(w10).byte).act = "none"
    <3>1. w10' = Tail(w10)
      BY <2>1 DEF Keys!Scan
    <3>2. Left(w10', w10, 1)
      BY <3>1, <1>1 DEF Left
    <3> QED
      BY <3>2
  <2>2. CASE Keys!AfterByte(w2, Head(w10).byte).act # "none"
    <3>1. w10' = <<>>
      BY <2>2 DEF Keys!Scan
    <3>2. Left(w10', w10, Len(w10)) /\ Len(w10) \in Nat
      BY <3>1, <1>1 DEF Left
    <3> QED
      BY <3>2, <2>2
  <2> QED
    BY <2>1, <2>2
<1>3. w10' \in Seq(Keys!Bytes)
  BY <1>2 DEF Left
<1>4. InRow(Keys!Stream, w10, w4, w5) /\ InRow(Keys!Stream', w10', w4, w5)
  BY <1>1, <1>3, TextJoined DEF Keys!Stream
<1>5. Left(Keys!Stream', Keys!Stream, e) /\ Keys!Stream[1] = w10[1]
  BY <1>1, <1>2, <1>4, Taken
<1>6. Head(w10) = w10[1]
  BY <1>1
<1> QED
  BY <1>2, <1>3, <1>5, <1>6

LEMMA KeysInitInv == Keys!Init => Keys!Inv
<1> SUFFICES ASSUME Keys!Init PROVE Keys!Inv
  OBVIOUS
<1>1. /\ w1 \in BOOLEAN /\ w2 = 0 /\ w3 = 0 /\ w10 = <<>> /\ w4 = <<>> /\ w5 = <<>> /\ w6 = 0
      /\ w7 = <<>> /\ w11 = 0 /\ w8 = <<>> /\ w9 = TRUE
  BY DEF Keys!Init
<1>2. Keys!TypeInv
  BY <1>1 DEF Keys!TypeInv
<1>3. Len(Keys!Stream) = 0 /\ Len(w8) = 0 /\ Len(w7) = 0
  BY <1>1 DEF Keys!Stream
<1>4. Keys!StreamInv
  BY <1>3 DEF Keys!StreamInv, Keys!Orderly
<1>5. Keys!ParserInv /\ Keys!WaitInv
  BY <1>1 DEF Keys!ParserInv, Keys!WaitInv
<1>6. Keys!ActedInv
  BY <1>3 DEF Keys!ActedInv
<1>7. Keys!PatienceInv
  <2>1. Keys!ShouldAct = {}
    BY <1>1 DEF Keys!ShouldAct
  <2> QED
    BY <2>1, <1>3 DEF Keys!PatienceInv
<1> QED
  BY <1>2, <1>4, <1>5, <1>6, <1>7 DEF Keys!Inv

\* What only moves bytes within the stream, or only counts polls, keeps all that
\* is said of the stream and of the keys.
LEMMA KeysSameStream ==
    ASSUME Keys!Inv, Keys!Stream' = Keys!Stream,
           w1' = w1, w2' = w2, w7' = w7, w8' = w8, w11' = w11,
           Keys!TypeInv', Keys!WaitInv'
    PROVE  Keys!Inv'
<1>1. Keys!StreamInv'
  BY DEF Keys!Inv, Keys!StreamInv
<1>2. Keys!ParserInv'
  BY DEF Keys!Inv, Keys!ParserInv, Keys!InKey
<1>3. Keys!ActedInv'
  BY DEF Keys!Inv, Keys!ActedInv
<1>4. Keys!PatienceInv'
  <2>1. Keys!ShouldAct' = Keys!ShouldAct
    BY DEF Keys!ShouldAct
  <2>2. \A k : Keys!Done(k)' = Keys!Done(k)
    BY DEF Keys!Done
  <2> QED
    BY <2>1, <2>2 DEF Keys!Inv, Keys!PatienceInv
<1> QED
  BY <1>1, <1>2, <1>3, <1>4 DEF Keys!Inv

LEMMA KeysReadInv == Keys!Inv /\ Keys!Read => Keys!Inv'
<1> SUFFICES ASSUME Keys!Inv, Keys!Read PROVE Keys!Inv'
  OBVIOUS
<1>1. Keys!TypeInv
  BY DEF Keys!Inv
<1>2. /\ Keys!Stream' = Keys!Stream
      /\ w10' \in Seq(Keys!Bytes) /\ w4' \in Seq(Keys!Bytes) /\ w10' # <<>>
  BY <1>1, KeysReadStream
<1>3. /\ w1' = w1 /\ w2' = w2 /\ w3' = w3 /\ w5' = w5 /\ w6' = w6
      /\ w7' = w7 /\ w8' = w8 /\ w9' = w9 /\ w11' = w11
  BY DEF Keys!Read, Keys!parser, Keys!user
<1>4. Keys!TypeInv'
  BY <1>1, <1>2, <1>3 DEF Keys!TypeInv
<1>5. Keys!WaitInv'
  BY <1>2 DEF Keys!WaitInv
<1> QED
  BY <1>2, <1>3, <1>4, <1>5, KeysSameStream

LEMMA KeysArriveInv == Keys!Inv /\ Keys!Arrive => Keys!Inv'
<1> SUFFICES ASSUME Keys!Inv, Keys!Arrive PROVE Keys!Inv'
  OBVIOUS
<1>1. Keys!TypeInv
  BY DEF Keys!Inv
<1>2. /\ Keys!Stream' = Keys!Stream
      /\ w4' \in Seq(Keys!Bytes) /\ w5' \in Seq(Keys!Bytes) /\ w4' # <<>>
  BY <1>1, KeysArriveStream
<1>3. /\ w1' = w1 /\ w2' = w2 /\ w3' = w3 /\ w10' = w10 /\ w6' = 0
      /\ w7' = w7 /\ w8' = w8 /\ w9' = w9 /\ w11' = w11
  BY DEF Keys!Arrive, Keys!parser
<1>4. Keys!TypeInv'
  BY <1>1, <1>2, <1>3 DEF Keys!TypeInv
<1>5. Keys!WaitInv'
  BY <1>2 DEF Keys!WaitInv
<1> QED
  BY <1>2, <1>3, <1>4, <1>5, KeysSameStream

\* An empty poll gives the parser up to the Escape key only when no byte of a
\* cursor key is missing: the second one in a row finds the first still counted.
LEMMA KeysWaiting ==
    ASSUME Keys!Inv, Keys!PollNothing, w2 = 1, w7[w11] \in Keys!Cursor
    PROVE  ~Keys!TimedOut /\ w6' = w6 + 1 /\ w3 = 0
<1>1. w10 = <<>> /\ w4 = <<>> /\ w5 \in Seq(Keys!Bytes) /\ w3 \in Nat /\ w6 \in Nat
  BY DEF Keys!PollNothing, Keys!Inv, Keys!TypeInv
<1>2. Keys!Stream # <<>>
  BY DEF Keys!Inv, Keys!ParserInv, Keys!InKey
<1>3. w5 # <<>>
  BY <1>1, <1>2 DEF Keys!Stream
<1>4. w6 < KeyLag /\ w6' = w6 + 1
  BY <1>3 DEF Keys!PollNothing
<1>5. w6 = 0
  BY <1>1, <1>4, KeyAssumption
<1>6. w3 <= w6
  BY <1>1 DEF Keys!Inv, Keys!WaitInv
<1> QED
  BY <1>1, <1>4, <1>5, <1>6 DEF Keys!TimedOut

\* What the parser has before it after a step was before it already.
LEMMA KeysLeft ==
    ASSUME Keys!Inv, NEW d, Left(Keys!Stream', Keys!Stream, d), w7' = w7, w11' = w11
    PROVE  Keys!StreamInv'
<1>1. Keys!Orderly(Keys!Stream', w7)
  BY OrderlySuffix DEF Keys!Inv, Keys!StreamInv
<1>2. ASSUME NEW i \in 1..Len(Keys!Stream'), Keys!First(Keys!Stream'[i], w7)
      PROVE  w11 < Keys!Stream'[i].key
  <2>1. i + d \in 1..Len(Keys!Stream) /\ Keys!Stream'[i] = Keys!Stream[i + d]
    BY DEF Left
  <2> QED
    BY <1>2, <2>1 DEF Keys!Inv, Keys!StreamInv
<1> QED
  BY <1>1, <1>2 DEF Keys!StreamInv

\* When the parser returns an action it is the one of the key it was in.  A key
\* that is lost with the rest of the bytes was not one that had to act: a
\* patient user has pressed none since, and behind an Escape none matters.
LEMMA KeysReturn ==
    ASSUME Keys!Inv, w2 # 0, Keys!Meaning(w7[w11]) # "none",
           w8' = Append(w8, [act |-> Keys!Meaning(w7[w11]), key |-> w11]),
           w2' = 0, w1' = w1, w7' = w7, w11' = w11, Keys!TypeInv', Keys!StreamInv',
           \A i \in 1..Len(Keys!Stream') : \E j \in 1..Len(Keys!Stream) : Keys!Stream'[i] = Keys!Stream[j]
    PROVE  Keys!Inv'
<1>1. /\ w8 \in Seq([act : {"quit", "next", "previous"}, key : Nat]) /\ w7 \in Seq(Keys!Keys)
      /\ w11 \in 1..Len(w7) /\ w7[w11] # "letter"
  BY DEF Keys!Inv, Keys!TypeInv, Keys!ParserInv, Keys!InKey
<1>2. /\ Len(w8') = Len(w8) + 1 /\ \A i \in 1..Len(w8) : w8'[i] = w8[i]
      /\ w8'[Len(w8) + 1] = [act |-> Keys!Meaning(w7[w11]), key |-> w11]
  BY <1>1
<1>3. Keys!ActedInv'
  <2>1. ASSUME NEW i \in 1..Len(w8')
        PROVE  w8'[i].key \in 1..w11 /\ w8'[i].act = Keys!Meaning(w7[w8'[i].key])
    <3>1. CASE i <= Len(w8)
      BY <1>1, <1>2, <3>1 DEF Keys!Inv, Keys!ActedInv
    <3>2. CASE i = Len(w8) + 1
      BY <1>1, <1>2, <3>2
    <3> QED
      BY <1>1, <1>2, <3>1, <3>2
  <2>2. ASSUME NEW i \in 1..Len(w8'), NEW j \in 1..Len(w8'), i < j
        PROVE  w8'[i].key < w8'[j].key
    <3>1. i \in 1..Len(w8)
      BY <1>1, <1>2, <2>2
    <3>2. CASE j <= Len(w8)
      BY <1>1, <1>2, <2>2, <3>1, <3>2 DEF Keys!Inv, Keys!ActedInv
    <3>3. CASE j = Len(w8) + 1
      BY <1>1, <1>2, <3>1, <3>3 DEF Keys!Inv, Keys!ActedInv
    <3> QED
      BY <1>1, <1>2, <3>2, <3>3
  <2> QED
    BY <2>1, <2>2 DEF Keys!ActedInv
<1>4. Keys!PatienceInv'
  <2> SUFFICES ASSUME w1 PROVE Keys!PatienceInv'
    BY DEF Keys!PatienceInv
  <2>1. \A i \in 1..Len(Keys!Stream) : Keys!Stream[i].key = Len(w7)
    BY DEF Keys!Inv, Keys!PatienceInv
  <2>2. \A i \in 1..Len(Keys!Stream') : Keys!Stream'[i].key = Len(w7)
    BY <2>1
  <2>3. ASSUME NEW k \in Keys!ShouldAct PROVE Keys!Done(k)'
    <3>1. CASE Keys!Done(k)
      <4>1. PICK i \in 1..Len(w8) : w8[i] = [act |-> Keys!Meaning(w7[k]), key |-> k]
        BY <3>1 DEF Keys!Done
      <4>2. i \in 1..Len(w8') /\ w8'[i] = [act |-> Keys!Meaning(w7[k]), key |-> k]
        BY <4>1, <1>1, <1>2
      <4> QED
        BY <4>2 DEF Keys!Done
    <3>2. CASE w11 = k
      <4>1. Len(w8) + 1 \in 1..Len(w8')
        BY <1>1, <1>2
      <4> QED
        BY <4>1, <1>2, <3>2 DEF Keys!Done
    <3>3. ASSUME NEW i \in 1..Len(Keys!Stream), Keys!First(Keys!Stream[i], w7), Keys!Stream[i].key = k
          PROVE  FALSE
      <4>1. w11 < k /\ k = Len(w7)
        BY <2>1, <3>3 DEF Keys!Inv, Keys!StreamInv
      <4>2. CASE w7[w11] \in Keys!Cursor
        <5>1. Keys!Stream # <<>> /\ Keys!Stream[1].key = w11
          BY <4>2 DEF Keys!Inv, Keys!ParserInv, Keys!InKey
        <5>2. 1 \in 1..Len(Keys!Stream)
          BY <3>3
        <5> QED
          BY <2>1, <4>1, <5>1, <5>2
      <4>3. CASE w7[w11] = "escape"
        <5>1. w11 \in 1..(k - 1)
          BY <1>1, <4>1
        <5> QED
          BY <4>3, <5>1 DEF Keys!ShouldAct
      <4> QED
        BY <1>1, <4>2, <4>3 DEF Keys!Meaning, Keys!Cursor
    <3> QED
      BY <3>1, <3>2, <3>3 DEF Keys!Inv, Keys!PatienceInv
  <2>4. Keys!ShouldAct' = Keys!ShouldAct
    BY DEF Keys!ShouldAct
  <2> QED
    BY <2>2, <2>3, <2>4 DEF Keys!PatienceInv
<1> QED
  BY <1>3, <1>4 DEF Keys!Inv, Keys!ParserInv, Keys!WaitInv

\* A step that returns nothing forgets no key either.
LEMMA KeysSilent ==
    ASSUME Keys!Inv, Left(Keys!Stream', Keys!Stream, 1), w1' = w1, w7' = w7, w8' = w8,
           \A k \in Keys!ShouldAct :
               \/ Keys!First(Keys!Stream[1], w7) /\ Keys!Stream[1].key = k
               \/ w2 # 0 /\ w11 = k
               => w2' # 0 /\ w11' = k
    PROVE  Keys!PatienceInv'
<1> SUFFICES ASSUME w1 PROVE Keys!PatienceInv'
  BY DEF Keys!PatienceInv
<1>1. \A i \in 1..Len(Keys!Stream') : i + 1 \in 1..Len(Keys!Stream) /\ Keys!Stream'[i] = Keys!Stream[i + 1]
  BY DEF Left
<1>2. \A i \in 1..Len(Keys!Stream') : Keys!Stream'[i].key = Len(w7)
  BY <1>1 DEF Keys!Inv, Keys!PatienceInv
<1>3. ASSUME NEW k \in Keys!ShouldAct
      PROVE  \/ Keys!Done(k)'
             \/ w2' # 0 /\ w11' = k
             \/ \E i \in 1..Len(Keys!Stream') : Keys!First(Keys!Stream'[i], w7) /\ Keys!Stream'[i].key = k
  <2>1. CASE Keys!Done(k)
    BY <2>1 DEF Keys!Done
  <2>2. CASE w2 # 0 /\ w11 = k
    BY <2>2
  <2>3. ASSUME NEW i \in 1..Len(Keys!Stream), Keys!First(Keys!Stream[i], w7), Keys!Stream[i].key = k
        PROVE  \/ w2' # 0 /\ w11' = k
               \/ \E j \in 1..Len(Keys!Stream') : Keys!First(Keys!Stream'[j], w7) /\ Keys!Stream'[j].key = k
    <3>1. CASE i = 1
      BY <2>3, <3>1
    <3>2. CASE i > 1
      <4>1. i - 1 \in 1..Len(Keys!Stream') /\ (i - 1) + 1 = i
        BY <3>2 DEF Left
      <4> QED
        BY <1>1, <2>3, <4>1
    <3> QED
      BY <3>1, <3>2
  <2> QED
    BY <2>1, <2>2, <2>3 DEF Keys!Inv, Keys!PatienceInv
<1>4. Keys!ShouldAct' = Keys!ShouldAct
  BY DEF Keys!ShouldAct
<1> QED
  BY <1>2, <1>3, <1>4 DEF Keys!PatienceInv

\* What a step of the parser's loop does in every state.
LEMMA KeysScanned ==
    ASSUME Keys!Inv, Keys!Scan
    PROVE  /\ w1' = w1 /\ w7' = w7 /\ w6' = w6 /\ w3' = 0
           /\ w2' = Keys!AfterByte(w2, Keys!Stream[1].byte).state
           /\ w11' = IF w2 = 0 /\ w2' = 1 THEN Keys!Stream[1].key ELSE w11
           /\ w8' = IF Keys!AfterByte(w2, Keys!Stream[1].byte).act = "none" THEN w8
                    ELSE Append(w8, [act |-> Keys!AfterByte(w2, Keys!Stream[1].byte).act, key |-> w11])
           /\ w10' \in Seq(Keys!Bytes) /\ w4' = w4 /\ w5' = w5 /\ w9' \in BOOLEAN
           /\ Keys!Stream[1] \in Keys!Bytes /\ 1 \in 1..Len(Keys!Stream)
           /\ \E d \in Nat :
                /\ Left(Keys!Stream', Keys!Stream, d)
                /\ Keys!AfterByte(w2, Keys!Stream[1].byte).act = "none" => d = 1
<1>1. Keys!TypeInv
  BY DEF Keys!Inv
<1>2. /\ w10' \in Seq(Keys!Bytes) /\ Head(w10) = Keys!Stream[1]
      /\ \E d \in Nat :
           /\ Left(Keys!Stream', Keys!Stream, d)
           /\ Keys!AfterByte(w2, Head(w10).byte).act = "none" => d = 1
  BY <1>1, KeysScanStream
<1>3. 1 \in 1..Len(Keys!Stream) /\ Keys!Stream \in Seq(Keys!Bytes)
  BY <1>2 DEF Left
<1>4. Keys!Stream[1] \in Keys!Bytes
  BY <1>3
<1>5. /\ w1' = w1 /\ w7' = w7 /\ w6' = w6 /\ w3' = 0 /\ w4' = w4 /\ w5' = w5 /\ w9' \in BOOLEAN
      /\ w2' = Keys!AfterByte(w2, Head(w10).byte).state
      /\ w11' = IF w2 = 0 /\ Keys!AfterByte(w2, Head(w10).byte).state = 1 THEN Head(w10).key ELSE w11
      /\ w8' = IF Keys!AfterByte(w2, Head(w10).byte).act = "none" THEN w8
               ELSE Append(w8, [act |-> Keys!AfterByte(w2, Head(w10).byte).act, key |-> w11])
  BY DEF Keys!Scan, Keys!Return, Keys!user
<1> QED
  BY <1>2, <1>3, <1>4, <1>5

LEMMA Recorded ==
    ASSUME NEW s \in Seq([act : {"quit", "next", "previous"}, key : Nat]),
           NEW act \in {"quit", "next", "previous"}, NEW key \in Nat
    PROVE  Append(s, [act |-> act, key |-> key]) \in Seq([act : {"quit", "next", "previous"}, key : Nat])
OBVIOUS

LEMMA KeysScanType ==
    ASSUME Keys!Inv, Keys!Scan PROVE Keys!TypeInv'
<1>1. Keys!TypeInv /\ Keys!StreamInv
  BY DEF Keys!Inv
<1>2. /\ w1' = w1 /\ w7' = w7 /\ w6' = w6 /\ w3' = 0 /\ w10' \in Seq(Keys!Bytes)
      /\ w4' = w4 /\ w5' = w5 /\ w9' \in BOOLEAN
  BY KeysScanned
<1>3. w2' \in 0..2 /\ Keys!AfterByte(w2, Keys!Stream[1].byte).act \in {"none", "quit", "next", "previous"}
  <2>1. w2 = 0 \/ w2 = 1 \/ w2 = 2
    BY <1>1 DEF Keys!TypeInv
  <2> QED
    BY <2>1, KeysScanned DEF Keys!AfterByte
<1>4. w11' \in 0..Len(w7)
  <2>1. Keys!Stream[1].key \in 0..Len(w7)
    BY <1>1, KeysScanned DEF Keys!StreamInv, Keys!Orderly
  <2> QED
    BY <1>1, <2>1, KeysScanned DEF Keys!TypeInv
<1>5. w8' \in Seq([act : {"quit", "next", "previous"}, key : Nat])
  <2>1. w8 \in Seq([act : {"quit", "next", "previous"}, key : Nat]) /\ w11 \in Nat
    BY <1>1 DEF Keys!TypeInv
  <2> QED
    BY <2>1, <1>3, Recorded, KeysScanned
<1> QED
  BY <1>1, <1>2, <1>3, <1>4, <1>5 DEF Keys!TypeInv

\* The byte at the head of the stream and the one behind it.
LEMMA KeysHead ==
    ASSUME Keys!Inv, Left(Keys!Stream', Keys!Stream, 1)
    PROVE  /\ Keys!Stream[1].key \in 1..Len(w7)
           /\ w7[Keys!Stream[1].key] = "letter" => Keys!Stream[1].byte = "C"
           /\ Keys!Stream' = <<>> => Keys!Last(Keys!Stream[1], w7)
           /\ Keys!Stream' # <<>> => Keys!Follows(Keys!Stream[1], Keys!Stream'[1], w7)
<1>1. Keys!Orderly(Keys!Stream, w7)
  BY DEF Keys!Inv, Keys!StreamInv
<1>2. 1 \in 1..Len(Keys!Stream) /\ Len(Keys!Stream) = Len(Keys!Stream') + 1 /\ Len(Keys!Stream') \in Nat
  BY DEF Left
<1>3. ASSUME Keys!Stream' = <<>> PROVE Keys!Last(Keys!Stream[1], w7)
  <2>1. 1 = Len(Keys!Stream)
    BY <1>2, <1>3
  <2> QED
    BY <1>1, <1>2, <2>1 DEF Keys!Orderly
<1>4. ASSUME Keys!Stream' # <<>> PROVE Keys!Follows(Keys!Stream[1], Keys!Stream'[1], w7)
  <2>1. 1 \in 1..Len(Keys!Stream')
    BY <1>4 DEF Left
  <2>2. 1 # Len(Keys!Stream)
    BY <1>2, <2>1
  <2>3. Keys!Follows(Keys!Stream[1], Keys!Stream[1 + 1], w7)
    BY <1>1, <1>2, <2>2 DEF Keys!Orderly
  <2>4. Keys!Stream'[1] = Keys!Stream[1 + 1]
    BY <2>1 DEF Left
  <2> QED
    BY <2>3, <2>4
<1> QED
  BY <1>1, <1>2, <1>3, <1>4 DEF Keys!Orderly

\* The byte of the Escape key begins a key that the parser has not seen.
LEMMA KeysBegin ==
    ASSUME Keys!Inv, Keys!Scan, w2 = 0, Keys!Stream[1].byte = "ESC" PROVE Keys!Inv'
<1>1. /\ w1' = w1 /\ w2' = 1 /\ w7' = w7 /\ w8' = w8 /\ w3' = 0 /\ w6' = w6 /\ w11' = Keys!Stream[1].key
      /\ Left(Keys!Stream', Keys!Stream, 1) /\ 1 \in 1..Len(Keys!Stream)
  BY KeysScanned DEF Keys!AfterByte
<1>2. Keys!TypeInv'
  BY KeysScanType
<1>3. Keys!First(Keys!Stream[1], w7)
  BY DEF Keys!First
<1>4. w11 < w11'
  BY <1>1, <1>3 DEF Keys!Inv, Keys!StreamInv
<1>5. Keys!StreamInv'
  <2>1. Keys!Orderly(Keys!Stream', w7)
    BY <1>1, OrderlySuffix DEF Keys!Inv, Keys!StreamInv
  <2>2. ASSUME NEW i \in 1..Len(Keys!Stream'), Keys!First(Keys!Stream'[i], w7)
        PROVE  w11' < Keys!Stream'[i].key
    <3>1. i + 1 \in 1..Len(Keys!Stream) /\ Keys!Stream'[i] = Keys!Stream[i + 1] /\ 1 < i + 1
      BY <1>1 DEF Left
    <3> QED
      BY <1>1, <2>2, <3>1 DEF Keys!Inv, Keys!StreamInv, Keys!Orderly
  <2> QED
    BY <1>1, <2>1, <2>2 DEF Keys!StreamInv
<1>6. Keys!ParserInv'
  <2>1. w11' \in 1..Len(w7) /\ w7[w11'] # "letter"
    BY <1>1, KeysHead
  <2>2. CASE w7[w11'] \in Keys!Cursor
    <3>1. ~Keys!Last(Keys!Stream[1], w7)
      BY <1>1, <2>2 DEF Keys!Last, Keys!Final, Keys!Cursor
    <3>2. Keys!Stream' # <<>> /\ Keys!Follows(Keys!Stream[1], Keys!Stream'[1], w7)
      BY <1>1, <3>1, KeysHead
    <3>3. Keys!Stream'[1].key = w11' /\ Keys!Stream'[1].byte \in {"[", "O"}
      BY <1>1, <3>1, <3>2 DEF Keys!Follows
    <3> QED
      BY <1>1, <2>1, <2>2, <3>2, <3>3 DEF Keys!ParserInv, Keys!InKey
  <2>3. CASE w7[w11'] \notin Keys!Cursor
    <3>1. Keys!Last(Keys!Stream[1], w7)
      BY <1>1, <2>3 DEF Keys!Last
    <3>2. Keys!Stream' # <<>> => Keys!First(Keys!Stream'[1], w7)
      BY <1>1, <3>1, KeysHead DEF Keys!Follows
    <3> QED
      BY <1>1, <2>1, <2>3, <3>2 DEF Keys!ParserInv, Keys!InKey
  <2> QED
    BY <2>2, <2>3
<1>7. Keys!WaitInv'
  <2>1. w6 \in Nat
    BY DEF Keys!Inv, Keys!TypeInv
  <2> QED
    BY <1>1, <2>1 DEF Keys!WaitInv
<1>8. Keys!ActedInv'
  <2>1. w11 \in Nat /\ w11' \in Nat
    BY <1>1, KeysHead DEF Keys!Inv, Keys!TypeInv
  <2>2. \A i \in 1..Len(w8) : w8[i].key \in 1..w11' /\ w8[i].key < w11'
    BY <1>4, <2>1 DEF Keys!Inv, Keys!ActedInv
  <2> QED
    BY <1>1, <2>2 DEF Keys!Inv, Keys!ActedInv
<1>9. Keys!PatienceInv'
  BY <1>1, KeysSilent
<1> QED
  BY <1>2, <1>5, <1>6, <1>7, <1>8, <1>9 DEF Keys!Inv

\* Any other byte means nothing to a parser at rest: it is a letter, or what is
\* left of a key whose beginning was forgotten.
LEMMA KeysIgnore ==
    ASSUME Keys!Inv, Keys!Scan, w2 = 0, Keys!Stream[1].byte # "ESC" PROVE Keys!Inv'
<1>1. /\ w1' = w1 /\ w2' = 0 /\ w7' = w7 /\ w8' = w8 /\ w11' = w11
      /\ Left(Keys!Stream', Keys!Stream, 1)
  BY KeysScanned DEF Keys!AfterByte
<1>2. Keys!TypeInv'
  BY KeysScanType
<1>3. Keys!StreamInv'
  BY <1>1, KeysLeft
<1>4. Keys!ParserInv' /\ Keys!WaitInv'
  BY <1>1 DEF Keys!ParserInv, Keys!WaitInv
<1>5. Keys!ActedInv'
  BY <1>1 DEF Keys!Inv, Keys!ActedInv
<1>6. Keys!PatienceInv'
  <2>1. Keys!First(Keys!Stream[1], w7) => Keys!Stream[1].key \notin Keys!ShouldAct
    BY DEF Keys!First, Keys!ShouldAct, Keys!Meaning
  <2> QED
    BY <1>1, <2>1, KeysSilent
<1> QED
  BY <1>2, <1>3, <1>4, <1>5, <1>6 DEF Keys!Inv

\* After ESC: the second byte of a cursor key, or the first of the next key,
\* which makes it the Escape key.
LEMMA KeysSecond ==
    ASSUME Keys!Inv, Keys!Scan, w2 = 1 PROVE Keys!Inv'
<1>1. w11 \in 1..Len(w7) /\ w7[w11] # "letter" /\ w7 \in Seq(Keys!Keys)
  BY DEF Keys!Inv, Keys!TypeInv, Keys!ParserInv, Keys!InKey
<1>2. Keys!TypeInv'
  BY KeysScanType
<1>3. CASE w7[w11] \in Keys!Cursor
  <2>1. Keys!Stream[1].key = w11 /\ Keys!Stream[1].byte \in {"[", "O"}
    BY <1>3 DEF Keys!Inv, Keys!ParserInv, Keys!InKey
  <2>2. /\ w1' = w1 /\ w2' = 2 /\ w7' = w7 /\ w8' = w8 /\ w11' = w11
        /\ Left(Keys!Stream', Keys!Stream, 1)
    BY <2>1, KeysScanned DEF Keys!AfterByte
  <2>3. Keys!StreamInv'
    BY <2>2, KeysLeft
  <2>4. Keys!ParserInv'
    <3>1. ~Keys!Last(Keys!Stream[1], w7)
      BY <1>3, <2>1 DEF Keys!Last, Keys!Final, Keys!Cursor
    <3>2. Keys!Stream' # <<>> /\ Keys!Follows(Keys!Stream[1], Keys!Stream'[1], w7)
      BY <2>2, <3>1, KeysHead
    <3>3. Keys!Stream'[1].key = w11 /\ Keys!Stream'[1].byte = Keys!Final[w7[w11]]
      BY <2>1, <3>1, <3>2 DEF Keys!Follows
    <3> QED
      BY <1>1, <1>3, <2>2, <3>2, <3>3 DEF Keys!ParserInv, Keys!InKey
  <2>5. Keys!WaitInv'
    BY <2>2 DEF Keys!WaitInv
  <2>6. Keys!ActedInv'
    BY <2>2 DEF Keys!Inv, Keys!ActedInv
  <2>7. Keys!PatienceInv'
    <3>1. ~Keys!First(Keys!Stream[1], w7)
      BY <1>1, <2>1 DEF Keys!First
    <3> QED
      BY <2>2, <3>1, KeysSilent
  <2> QED
    BY <1>2, <2>3, <2>4, <2>5, <2>6, <2>7 DEF Keys!Inv
<1>4. CASE w7[w11] \notin Keys!Cursor
  <2>1. w7[w11] = "escape" /\ Keys!Meaning(w7[w11]) = "quit"
    BY <1>1, <1>4 DEF Keys!Keys, Keys!Cursor, Keys!Meaning
  <2>2. Keys!Stream # <<>>
    BY KeysScanned
  <2>3. Keys!First(Keys!Stream[1], w7)
    BY <1>4, <2>2 DEF Keys!Inv, Keys!ParserInv, Keys!InKey
  <2>4. Keys!Stream[1].byte \notin {"[", "O"}
    BY <2>3, KeysScanned DEF Keys!First, Keys!Inv, Keys!StreamInv, Keys!Orderly
  <2>5. /\ w1' = w1 /\ w2' = 0 /\ w7' = w7 /\ w11' = w11
        /\ w8' = Append(w8, [act |-> "quit", key |-> w11])
    BY <2>4, KeysScanned DEF Keys!AfterByte
  <2>6. PICK d \in Nat : Left(Keys!Stream', Keys!Stream, d)
    BY KeysScanned
  <2>7. Keys!StreamInv'
    BY <2>5, <2>6, KeysLeft
  <2>8. \A i \in 1..Len(Keys!Stream') : \E j \in 1..Len(Keys!Stream) : Keys!Stream'[i] = Keys!Stream[j]
    BY <2>6, LeftWithin
  <2> QED
    BY <1>2, <2>1, <2>5, <2>7, <2>8, KeysReturn
<1> QED
  BY <1>3, <1>4

\* The last byte of a cursor key.
LEMMA KeysThird ==
    ASSUME Keys!Inv, Keys!Scan, w2 = 2 PROVE Keys!Inv'
<1>1. /\ w11 \in 1..Len(w7) /\ w7[w11] \in Keys!Cursor
      /\ Keys!Stream[1].key = w11 /\ Keys!Stream[1].byte = Keys!Final[w7[w11]]
  BY DEF Keys!Inv, Keys!ParserInv, Keys!InKey
<1>2. Keys!TypeInv'
  BY KeysScanType
<1>3. w2' = 0 /\ w1' = w1 /\ w7' = w7 /\ w11' = w11
  BY KeysScanned DEF Keys!AfterByte
<1>4. PICK d \in Nat :
        /\ Left(Keys!Stream', Keys!Stream, d)
        /\ Keys!AfterByte(w2, Keys!Stream[1].byte).act = "none" => d = 1
  BY KeysScanned
<1>5. Keys!StreamInv'
  BY <1>3, <1>4, KeysLeft
<1>6. Keys!AfterByte(w2, Keys!Stream[1].byte).act = Keys!Meaning(w7[w11])
  BY <1>1 DEF Keys!AfterByte, Keys!Meaning, Keys!Cursor, Keys!Final
<1>7. CASE Keys!Meaning(w7[w11]) = "none"
  <2>1. w8' = w8 /\ Left(Keys!Stream', Keys!Stream, 1)
    BY <1>4, <1>6, <1>7, KeysScanned
  <2>2. Keys!ParserInv' /\ Keys!WaitInv'
    BY <1>3 DEF Keys!ParserInv, Keys!WaitInv
  <2>3. Keys!ActedInv'
    BY <1>3, <2>1 DEF Keys!Inv, Keys!ActedInv
  <2>4. Keys!PatienceInv'
    <3>1. w11 \notin Keys!ShouldAct
      BY <1>7 DEF Keys!ShouldAct
    <3> QED
      BY <1>1, <1>3, <2>1, <3>1, KeysSilent
  <2> QED
    BY <1>2, <1>5, <2>2, <2>3, <2>4 DEF Keys!Inv
<1>8. CASE Keys!Meaning(w7[w11]) # "none"
  <2>1. w8' = Append(w8, [act |-> Keys!Meaning(w7[w11]), key |-> w11])
    BY <1>6, <1>8, KeysScanned
  <2>2. \A i \in 1..Len(Keys!Stream') : \E j \in 1..Len(Keys!Stream) : Keys!Stream'[i] = Keys!Stream[j]
    BY <1>4, LeftWithin
  <2> QED
    BY <1>2, <1>3, <1>5, <1>8, <2>1, <2>2, KeysReturn
<1> QED
  BY <1>7, <1>8

LEMMA KeysScanInv == Keys!Inv /\ Keys!Scan => Keys!Inv'
<1> SUFFICES ASSUME Keys!Inv, Keys!Scan PROVE Keys!Inv'
  OBVIOUS
<1>1. w2 = 0 \/ w2 = 1 \/ w2 = 2
  BY DEF Keys!Inv, Keys!TypeInv
<1> QED
  BY <1>1, KeysBegin, KeysIgnore, KeysSecond, KeysThird

LEMMA KeysPollNothingInv == Keys!Inv /\ Keys!PollNothing => Keys!Inv'
<1> SUFFICES ASSUME Keys!Inv, Keys!PollNothing PROVE Keys!Inv'
  OBVIOUS
<1>1. /\ w1' = w1 /\ w10' = w10 /\ w4' = w4 /\ w5' = w5 /\ w7' = w7 /\ w11' = w11 /\ w9' \in BOOLEAN
      /\ w6' = IF w5 # <<>> THEN w6 + 1 ELSE 0
  BY DEF Keys!PollNothing, Keys!Return, Keys!user
<1>2. Keys!Stream' = Keys!Stream
  BY <1>1 DEF Keys!Stream
<1>3. Keys!TypeInv /\ w6' \in Nat /\ w3 \in Nat
  BY <1>1 DEF Keys!Inv, Keys!TypeInv
<1>4. CASE w2 = 1 /\ Keys!TimedOut
  <2>1. w2' = 0 /\ w3' = 0 /\ w8' = Append(w8, [act |-> "quit", key |-> w11])
    BY <1>4 DEF Keys!PollNothing, Keys!Return
  <2>2. w7[w11] = "escape" /\ Keys!Meaning(w7[w11]) = "quit"
    <3>1. w7[w11] \notin Keys!Cursor
      BY <1>4, KeysWaiting
    <3>2. w11 \in 1..Len(w7) /\ w7[w11] # "letter" /\ w7 \in Seq(Keys!Keys)
      BY <1>4 DEF Keys!Inv, Keys!TypeInv, Keys!ParserInv, Keys!InKey
    <3> QED
      BY <3>1, <3>2 DEF Keys!Keys, Keys!Cursor, Keys!Meaning
  <2>3. Keys!TypeInv'
    BY <1>1, <1>3, <2>1 DEF Keys!TypeInv
  <2>4. Keys!StreamInv'
    BY <1>1, <1>2 DEF Keys!Inv, Keys!StreamInv
  <2>5. \A i \in 1..Len(Keys!Stream') : \E j \in 1..Len(Keys!Stream) : Keys!Stream'[i] = Keys!Stream[j]
    BY <1>2
  <2> QED
    BY <1>1, <1>4, <2>1, <2>2, <2>3, <2>4, <2>5, KeysReturn
<1>5. CASE ~(w2 = 1 /\ Keys!TimedOut)
  <2>1. /\ w2' = w2 /\ w8' = w8 /\ w3' \in Nat
        /\ w2 = 1 => w3' = w3 + 1
    BY <1>3, <1>5 DEF Keys!PollNothing, Keys!Return, Keys!parser
  <2>2. Keys!TypeInv'
    BY <1>1, <1>3, <2>1 DEF Keys!TypeInv
  <2>3. Keys!WaitInv'
    <3> SUFFICES ASSUME w2 = 1, w7[w11] \in Keys!Cursor PROVE w3' <= w6'
      BY <1>1, <2>1 DEF Keys!WaitInv
    <3>1. w6' = w6 + 1 /\ w3 = 0 /\ w6 \in Nat
      BY <1>3, KeysWaiting DEF Keys!TypeInv
    <3> QED
      BY <2>1, <3>1
  <2> QED
    BY <1>1, <1>2, <2>1, <2>2, <2>3, KeysSameStream
<1> QED
  BY <1>4, <1>5

\* What a key sends.
Shape(key, e) ==
    /\ e \in Seq({"ESC", "[", "O", "A", "C", "D"})
    /\ key \in Keys!Cursor =>
         Len(e) = 3 /\ e[1] = "ESC" /\ e[2] \in {"[", "O"} /\ e[3] = Keys!Final[key]
    /\ key \notin Keys!Cursor => Len(e) = 1
    /\ key = "letter" => e[1] = "C"
    /\ key = "escape" => e[1] = "ESC"

LEMMA OneByte ==
    ASSUME NEW B, NEW a \in B
    PROVE  <<a>> \in Seq(B) /\ Len(<<a>>) = 1 /\ <<a>>[1] = a
OBVIOUS

LEMMA ThreeBytes ==
    ASSUME NEW B, NEW a \in B, NEW b \in B, NEW c \in B
    PROVE  /\ <<a, b, c>> \in Seq(B) /\ Len(<<a, b, c>>) = 3
           /\ <<a, b, c>>[1] = a /\ <<a, b, c>>[2] = b /\ <<a, b, c>>[3] = c
OBVIOUS

LEMMA Encoded ==
    ASSUME NEW key \in Keys!Keys, NEW e \in Keys!Encodings(key)
    PROVE  Shape(key, e)
<1> PICK B : B = {"ESC", "[", "O", "A", "C", "D"}
  OBVIOUS
<1>1. ASSUME NEW b \in {"[", "O"}, NEW c \in {"A", "C", "D"}, e = <<"ESC", b, c>>
      PROVE  e \in Seq(B) /\ Len(e) = 3 /\ e[1] = "ESC" /\ e[2] = b /\ e[3] = c
  <2>1. "ESC" \in B /\ b \in B /\ c \in B
    OBVIOUS
  <2> QED
    BY <2>1, <1>1, ThreeBytes
<1>2. ASSUME NEW b \in {"ESC", "C"}, e = <<b>>
      PROVE  e \in Seq(B) /\ Len(e) = 1 /\ e[1] = b
  <2>1. b \in B
    OBVIOUS
  <2> QED
    BY <2>1, <1>2, OneByte
<1>3. CASE key = "escape"
  <2>1. e = <<"ESC">>
    BY <1>3 DEF Keys!Encodings
  <2>2. e \in Seq(B) /\ Len(e) = 1 /\ e[1] = "ESC"
    BY <2>1, <1>2
  <2> QED
    BY <1>3, <2>2 DEF Shape, Keys!Cursor
<1>4. CASE key = "letter"
  <2>1. e = <<"C">>
    BY <1>4 DEF Keys!Encodings
  <2>2. e \in Seq(B) /\ Len(e) = 1 /\ e[1] = "C"
    BY <2>1, <1>2
  <2> QED
    BY <1>4, <2>2 DEF Shape, Keys!Cursor
<1>5. CASE key \in Keys!Cursor
  <2>1. PICK b \in {"[", "O"} : e = <<"ESC", b, Keys!Final[key]>>
    <3>1. CASE key = "left"
      BY <3>1 DEF Keys!Encodings, Keys!Final, Keys!Cursor
    <3>2. CASE key = "right"
      BY <3>2 DEF Keys!Encodings, Keys!Final, Keys!Cursor
    <3>3. CASE key = "up"
      BY <3>3 DEF Keys!Encodings, Keys!Final, Keys!Cursor
    <3> QED
      BY <1>5, <3>1, <3>2, <3>3 DEF Keys!Cursor
  <2>2. Keys!Final[key] \in {"A", "C", "D"}
    BY <1>5 DEF Keys!Final, Keys!Cursor
  <2>3. e \in Seq(B) /\ Len(e) = 3 /\ e[1] = "ESC" /\ e[2] = b /\ e[3] = Keys!Final[key]
    BY <2>1, <2>2, <1>1
  <2> QED
    BY <1>5, <2>3 DEF Shape, Keys!Cursor
<1> QED
  BY <1>3, <1>4, <1>5 DEF Keys!Keys, Keys!Cursor

LEMMA SentBytes ==
    ASSUME NEW key, NEW e, NEW n \in Nat, Shape(key, e)
    PROVE  /\ Keys!Sent(e, n) \in Seq(Keys!Bytes) /\ Len(Keys!Sent(e, n)) = Len(e)
           /\ \A i \in 1..Len(e) : Keys!Sent(e, n)[i].byte = e[i] /\ Keys!Sent(e, n)[i].key = n
<1>1. e \in Seq({"ESC", "[", "O", "A", "C", "D"})
  BY DEF Shape
<1>2. Len(e) \in Nat /\ DOMAIN e = 1..Len(e) /\ \A i \in 1..Len(e) : e[i] \in {"ESC", "[", "O", "A", "C", "D"}
  BY <1>1
<1>3. \A i \in 1..Len(e) : [byte |-> e[i], key |-> n] \in Keys!Bytes
  BY <1>2 DEF Keys!Bytes
<1>4. PICK f : f = Keys!Sent(e, n)
  OBVIOUS
<1>5. f = [i \in 1..Len(e) |-> [byte |-> e[i], key |-> n]]
  BY <1>2, <1>4 DEF Keys!Sent
<1>6. f \in [1..Len(e) -> Keys!Bytes]
  BY <1>3, <1>5
<1>7. f \in Seq(Keys!Bytes)
  BY <1>2, <1>6
<1>8. Len(f) = Len(e)
  BY <1>2, <1>6, <1>7
<1>9. \A i \in 1..Len(e) : f[i].byte = e[i] /\ f[i].key = n
  BY <1>5
<1> QED
  BY <1>4, <1>7, <1>8, <1>9

\* p is s with the bytes e of key n behind it.
Behind(p, s, e, n) ==
    /\ s \in Seq(Keys!Bytes) /\ p \in Seq(Keys!Bytes) /\ Len(p) = Len(s) + Len(e)
    /\ \A i \in 1..Len(s) : p[i] = s[i]
    /\ \A i \in 1..Len(e) : p[Len(s) + i].byte = e[i] /\ p[Len(s) + i].key = n

\* One more key was pressed.
OneMore(ks, keys, key) ==
    /\ keys \in Seq(Keys!Keys) /\ ks \in Seq(Keys!Keys) /\ Len(ks) = Len(keys) + 1
    /\ ks[Len(keys) + 1] = key /\ \A k \in 1..Len(keys) : ks[k] = keys[k]

\* A key that is pressed when the last one has been sent comes after it, and
\* changes nothing about those before.
LEMMA PressedBefore ==
    ASSUME NEW keys, NEW key, NEW ks, NEW s, NEW p, NEW e, NEW n,
           Keys!Orderly(s, keys), OneMore(ks, keys, key), Behind(p, s, e, n)
    PROVE  \A i \in 1..Len(s) :
             /\ s[i].key \in 1..Len(keys) /\ ks[s[i].key] = keys[s[i].key]
             /\ Keys!First(p[i], ks) = Keys!First(s[i], keys)
             /\ Keys!Last(p[i], ks) = Keys!Last(s[i], keys)
<1> SUFFICES ASSUME NEW i \in 1..Len(s)
             PROVE  /\ s[i].key \in 1..Len(keys) /\ ks[s[i].key] = keys[s[i].key]
                    /\ Keys!First(p[i], ks) = Keys!First(s[i], keys)
                    /\ Keys!Last(p[i], ks) = Keys!Last(s[i], keys)
  OBVIOUS
<1>1. s[i].key \in 1..Len(keys)
  BY DEF Keys!Orderly
<1>2. ks[s[i].key] = keys[s[i].key]
  BY <1>1 DEF OneMore
<1>3. p[i] = s[i]
  BY DEF Behind
<1>4. Keys!First(p[i], ks) = Keys!First(s[i], keys)
  BY <1>2, <1>3 DEF Keys!First
<1>5. Keys!Last(p[i], ks) = Keys!Last(s[i], keys)
  BY <1>2, <1>3 DEF Keys!Last
<1> QED
  BY <1>1, <1>2, <1>4, <1>5

LEMMA PressedOrderly ==
    ASSUME NEW keys, NEW key \in Keys!Keys, NEW ks, NEW s, NEW p, NEW e, NEW n,
           Shape(key, e), Keys!Orderly(s, keys),
           OneMore(ks, keys, key), n = Len(keys) + 1, Behind(p, s, e, n)
    PROVE  Keys!Orderly(p, ks) /\ Keys!First(p[Len(s) + 1], ks)
<1>1. Len(keys) \in Nat /\ n \in Nat /\ ks[n] = key /\ Len(ks) = n
  BY DEF OneMore
<1>4. PICK l \in Nat : l = Len(s)
  BY DEF Behind
<1>5. PICK m \in {1, 3} : m = Len(e)
  BY DEF Shape
<1>6. Len(p) = l + m /\ \A i \in 1..l : p[i] = s[i]
  BY <1>4, <1>5 DEF Behind
<1>7. \A i \in 1..m : p[l + i].byte = e[i] /\ p[l + i].key = n
  BY <1>4, <1>5 DEF Behind
<1>8. \A i \in 1..l : s[i].key \in 1..Len(keys) /\ ks[s[i].key] = keys[s[i].key]
  BY <1>4, PressedBefore
<1>9. \A i \in 1..l : Keys!First(p[i], ks) = Keys!First(s[i], keys) /\ Keys!Last(p[i], ks) = Keys!Last(s[i], keys)
  BY <1>4, PressedBefore
<1>10. ks[n] = key
  BY <1>1
<1>11. Keys!First(p[l + 1], ks)
  <2>1. 1 \in 1..m
    OBVIOUS
  <2>2. p[l + 1].byte = e[1] /\ p[l + 1].key = n
    BY <2>1, <1>7
  <2>3. e[1] = "ESC" \/ key = "letter"
    BY DEF Shape, Keys!Keys, Keys!Cursor
  <2> QED
    BY <2>2, <2>3, <1>10 DEF Keys!First
<1>12. ASSUME NEW i \in 1..Len(p)
       PROVE  i \in 1..l \/ \E j \in 1..m : i = l + j
  <2>1. CASE i <= l
    BY <2>1
  <2>2. CASE i > l
    <3>1. i - l \in 1..m /\ i = l + (i - l)
      BY <2>2, <1>6
    <3> QED
      BY <3>1
  <2> QED
    BY <2>1, <2>2
<1>13. ASSUME NEW i \in 1..Len(p)
       PROVE  p[i].key \in 1..Len(ks) /\ (ks[p[i].key] = "letter" => p[i].byte = "C")
  <2>1. CASE i \in 1..l
    <3>1. s[i].key \in 1..Len(keys) /\ (keys[s[i].key] = "letter" => s[i].byte = "C")
      BY <2>1, <1>4 DEF Keys!Orderly
    <3> QED
      BY <2>1, <3>1, <1>1, <1>6, <1>8
  <2>2. ASSUME NEW j \in 1..m, i = l + j
        PROVE  p[i].key \in 1..Len(ks) /\ (ks[p[i].key] = "letter" => p[i].byte = "C")
    <3>1. p[i].key = n /\ p[i].byte = e[j] /\ n \in 1..Len(ks)
      BY <2>2, <1>1, <1>7
    <3>2. key = "letter" => e[j] = "C"
      <4>1. key = "letter" => Len(e) = 1 /\ e[1] = "C"
        BY DEF Shape, Keys!Cursor
      <4>2. key = "letter" => j = 1
        BY <4>1, <1>5
      <4> QED
        BY <4>1, <4>2
    <3> QED
      BY <3>1, <3>2, <1>10
  <2> QED
    BY <2>1, <2>2, <1>12
<1>14. ASSUME NEW i \in 1..Len(p), NEW j \in 1..Len(p), i < j
       PROVE  p[i].key <= p[j].key /\ (Keys!First(p[j], ks) => p[i].key < p[j].key)
  <2>1. CASE i \in 1..l /\ j \in 1..l
    <3>1. s[i].key <= s[j].key /\ (Keys!First(s[j], keys) => s[i].key < s[j].key)
      BY <2>1, <1>4, <1>14 DEF Keys!Orderly
    <3> QED
      BY <2>1, <3>1, <1>6, <1>9
  <2>2. ASSUME i \in 1..l, NEW b \in 1..m, j = l + b
        PROVE  p[i].key < p[j].key
    <3>1. p[i].key \in 1..Len(keys) /\ p[j].key = n
      BY <2>2, <1>6, <1>7, <1>8
    <3> QED
      BY <3>1, <1>1
  <2>3. ASSUME NEW a \in 1..m, i = l + a, NEW b \in 1..m, j = l + b
        PROVE  p[i].key = p[j].key /\ ~Keys!First(p[j], ks)
    <3>1. b > 1 /\ m = 3
      BY <1>14, <2>3
    <3>2. key \in Keys!Cursor /\ Len(e) = 3
      BY <3>1, <1>5 DEF Shape
    <3>3. e[b] # "ESC" /\ key # "letter"
      <4>1. e[2] # "ESC" /\ e[3] # "ESC"
        BY <3>2 DEF Shape, Keys!Final, Keys!Cursor
      <4>2. b = 2 \/ b = 3
        BY <3>1, <2>3
      <4> QED
        BY <3>2, <4>1, <4>2 DEF Keys!Cursor
    <3>4. p[i].key = n /\ p[j].key = n /\ p[j].byte = e[b]
      BY <2>3, <1>7
    <3> QED
      BY <3>3, <3>4, <1>10 DEF Keys!First
  <2>4. i \in 1..l => j \in 1..l \/ \E b \in 1..m : j = l + b
    BY <1>12
  <2>5. i \notin 1..l => (\E a \in 1..m : i = l + a) /\ (\E b \in 1..m : j = l + b)
    <3> SUFFICES ASSUME i \notin 1..l PROVE (\E a \in 1..m : i = l + a) /\ (\E b \in 1..m : j = l + b)
      OBVIOUS
    <3>1. j \notin 1..l
      BY <1>14
    <3> QED
      BY <3>1, <1>12
  <2>6. p[i].key \in Nat /\ p[j].key \in Nat
    BY <1>13
  <2>7. CASE i \in 1..l
    BY <2>1, <2>2, <2>4, <2>6, <2>7
  <2>8. CASE i \notin 1..l
    <3>1. PICK a \in 1..m : i = l + a
      BY <2>5, <2>8
    <3>2. PICK b \in 1..m : j = l + b
      BY <2>5, <2>8
    <3>3. p[i].key = p[j].key /\ ~Keys!First(p[j], ks)
      BY <2>3, <3>1, <3>2
    <3> QED
      BY <2>6, <3>3
  <2> QED
    BY <2>7, <2>8
<1>15. ASSUME NEW i \in 1..Len(p)
       PROVE  IF i = Len(p) THEN Keys!Last(p[i], ks) ELSE Keys!Follows(p[i], p[i + 1], ks)
  <2>1. CASE i \in 1..l /\ i # l
    <3>1. i + 1 \in 1..l /\ i # Len(s) /\ i # Len(p)
      BY <2>1, <1>4, <1>6
    <3>2. Keys!Follows(s[i], s[i + 1], keys)
      BY <2>1, <3>1, <1>4 DEF Keys!Orderly
    <3>3. p[i] = s[i] /\ p[i + 1] = s[i + 1] /\ ks[s[i + 1].key] = keys[s[i + 1].key]
      BY <2>1, <3>1, <1>6, <1>8
    <3>4. Keys!Follows(p[i], p[i + 1], ks)
      BY <2>1, <3>1, <3>2, <3>3, <1>9 DEF Keys!Follows
    <3> QED
      BY <3>1, <3>4
  <2>2. CASE i = l
    <3>1. Keys!Last(s[i], keys) /\ i # Len(p) /\ i \in 1..l
      BY <2>2, <1>4, <1>6 DEF Keys!Orderly
    <3>2. Keys!Follows(p[i], p[i + 1], ks)
      BY <2>2, <3>1, <1>9, <1>11 DEF Keys!Follows
    <3> QED
      BY <3>1, <3>2
  <2>3. ASSUME NEW a \in 1..m, i = l + a
        PROVE  IF i = Len(p) THEN Keys!Last(p[i], ks) ELSE Keys!Follows(p[i], p[i + 1], ks)
    <3>1. p[i].key = n /\ p[i].byte = e[a] /\ ks[p[i].key] = key
      BY <2>3, <1>7, <1>10
    <3>2. CASE a = m
      <4>1. i = Len(p)
        BY <2>3, <3>2, <1>6
      <4>2. key \in Keys!Cursor => e[a] = Keys!Final[key]
        <5>1. key \in Keys!Cursor => Len(e) = 3 /\ e[3] = Keys!Final[key]
          BY DEF Shape
        <5> QED
          BY <5>1, <3>2, <1>5
      <4> QED
        BY <3>1, <4>1, <4>2 DEF Keys!Last
    <3>3. CASE a # m
      <4>1. m = 3 /\ (a = 1 \/ a = 2) /\ a + 1 \in 1..m /\ i + 1 = l + (a + 1) /\ i # Len(p)
        BY <2>3, <3>3, <1>6
      <4>2. p[i + 1].key = n /\ p[i + 1].byte = e[a + 1]
        BY <4>1, <1>7
      <4>3. key \in Keys!Cursor /\ e[1] = "ESC" /\ e[2] \in {"[", "O"} /\ e[3] = Keys!Final[key]
        BY <4>1, <1>5 DEF Shape
      <4>4. Keys!Final[key] \in {"A", "C", "D"}
        BY <4>3 DEF Keys!Final, Keys!Cursor
      <4>5. ~Keys!Last(p[i], ks)
        BY <3>1, <4>1, <4>3, <4>4 DEF Keys!Last
      <4>6. Keys!Follows(p[i], p[i + 1], ks)
        <5>1. CASE a = 1
          <6>1. p[i].byte = "ESC" /\ p[i + 1].byte \in {"[", "O"} /\ p[i + 1].key = p[i].key
            BY <5>1, <3>1, <4>2, <4>3
          <6> QED
            BY <6>1, <4>5 DEF Keys!Follows
        <5>2. CASE a = 2
          <6>1. p[i].byte # "ESC" /\ p[i + 1].byte = Keys!Final[key] /\ p[i + 1].key = p[i].key
            BY <5>2, <3>1, <4>2, <4>3
          <6>2. ks[p[i + 1].key] = key
            BY <4>2, <1>10
          <6> QED
            BY <6>1, <6>2, <4>5 DEF Keys!Follows
        <5> QED
          BY <4>1, <5>1, <5>2
      <4> QED
        BY <4>1, <4>6
    <3> QED
      BY <3>2, <3>3
  <2> QED
    BY <2>1, <2>2, <2>3, <1>12
<1>16. Keys!Orderly(p, ks)
  BY <1>13, <1>14, <1>15 DEF Keys!Orderly
<1> QED
  BY <1>4, <1>11, <1>16

LEMMA KeysPressed ==
    ASSUME Keys!Inv, NEW key \in Keys!Keys, Keys!Press(key)
    PROVE  /\ w1' = w1 /\ w2' = w2 /\ w3' = w3 /\ w8' = w8 /\ w9' = w9 /\ w10' = w10 /\ w11' = w11
           /\ w4' = w4 /\ w6' = 0 /\ w5' \in Seq(Keys!Bytes)
           /\ OneMore(w7', w7, key)
           /\ w10 = <<>> /\ w4 = <<>> => Keys!Stream = <<>>
           /\ w1 => w10 = <<>> /\ w4 = <<>>
           /\ \E e \in Keys!Encodings(key) : Behind(Keys!Stream', Keys!Stream, e, Len(w7) + 1)
<1>1. /\ w10 \in Seq(Keys!Bytes) /\ w4 \in Seq(Keys!Bytes) /\ w7 \in Seq(Keys!Keys)
  BY DEF Keys!Inv, Keys!TypeInv
<1>2. /\ w1' = w1 /\ w2' = w2 /\ w3' = w3 /\ w8' = w8 /\ w9' = w9 /\ w10' = w10 /\ w11' = w11
      /\ w4' = w4 /\ w6' = 0 /\ w5 = <<>> /\ w7' = Append(w7, key)
      /\ w1 => w10 = <<>> /\ w4 = <<>>
  BY DEF Keys!Press, Keys!parser
<1>3. PICK e \in Keys!Encodings(key) : w5' = Keys!Sent(e, Len(w7) + 1)
  BY DEF Keys!Press
<1>4. OneMore(w7', w7, key)
  BY <1>1, <1>2 DEF OneMore
<1>5. /\ w5' \in Seq(Keys!Bytes) /\ Len(w5') = Len(e)
      /\ \A i \in 1..Len(e) : w5'[i].byte = e[i] /\ w5'[i].key = Len(w7) + 1
  <2>1. Shape(key, e) /\ Len(w7) + 1 \in Nat
    BY <1>1, Encoded
  <2> QED
    BY <2>1, <1>3, SentBytes
<1>6. PICK s \in Seq(Keys!Bytes) : s = w10 \o w4
  BY <1>1, JoinedTwo
<1>7. Keys!Stream = s
  BY <1>2, <1>6 DEF Keys!Stream
<1>8. Keys!Stream' = s \o w5'
  BY <1>2, <1>6 DEF Keys!Stream
<1>9. Behind(Keys!Stream', Keys!Stream, e, Len(w7) + 1)
  <2>1. PICK u \in Seq(Keys!Bytes) : u = w5'
    BY <1>5
  <2>2. PICK p : p = s \o u
    OBVIOUS
  <2>3. /\ p \in Seq(Keys!Bytes) /\ Len(p) = Len(s) + Len(u)
        /\ \A i \in 1..Len(s) : p[i] = s[i]
        /\ \A i \in 1..Len(u) : p[Len(s) + i] = u[i]
    BY <2>2, JoinedTwo
  <2>4. Behind(p, s, e, Len(w7) + 1)
    BY <2>1, <2>3, <1>5 DEF Behind
  <2> QED
    BY <2>1, <2>2, <2>4, <1>7, <1>8
<1>10. w10 = <<>> /\ w4 = <<>> => Keys!Stream = <<>>
  BY <1>6, <1>7
<1> QED
  BY <1>2, <1>4, <1>5, <1>9, <1>10

LEMMA KeysPressInv ==
    ASSUME Keys!Inv, NEW key \in Keys!Keys, Keys!Press(key) PROVE Keys!Inv'
<1>1. /\ w1' = w1 /\ w2' = w2 /\ w3' = w3 /\ w8' = w8 /\ w9' = w9 /\ w10' = w10 /\ w11' = w11
      /\ w4' = w4 /\ w6' = 0 /\ w5' \in Seq(Keys!Bytes)
      /\ w10 = <<>> /\ w4 = <<>> => Keys!Stream = <<>>
      /\ w1 => w10 = <<>> /\ w4 = <<>>
  BY KeysPressed
<1>2. PICK e \in Keys!Encodings(key) : Behind(Keys!Stream', Keys!Stream, e, Len(w7) + 1)
  BY KeysPressed
<1>3. OneMore(w7', w7, key)
  BY KeysPressed
<1>4. PICK n \in Nat : n = Len(w7) + 1
  BY <1>3 DEF OneMore
<1>5. /\ w7 \in Seq(Keys!Keys) /\ w7' \in Seq(Keys!Keys) /\ Len(w7') = n /\ w7'[n] = key
      /\ \A k \in 1..Len(w7) : w7'[k] = w7[k]
  BY <1>3, <1>4 DEF OneMore
<1>6. Shape(key, e)
  BY Encoded
<1>7. Keys!Orderly(Keys!Stream, w7) /\ w11 \in 0..Len(w7)
  BY DEF Keys!Inv, Keys!StreamInv, Keys!TypeInv
<1>8. PICK l \in Nat : l = Len(Keys!Stream)
  BY <1>2 DEF Behind
<1>9. Keys!Orderly(Keys!Stream', w7') /\ Keys!First(Keys!Stream'[l + 1], w7')
  BY <1>2, <1>3, <1>4, <1>6, <1>7, <1>8, PressedOrderly
<1>10. PICK m \in {1, 3} : m = Len(e)
  BY <1>6 DEF Shape
<1>11. /\ Len(Keys!Stream') = l + m
       /\ \A i \in 1..l : Keys!Stream'[i] = Keys!Stream[i]
       /\ \A i \in 1..m : Keys!Stream'[l + i].key = n
  BY <1>2, <1>4, <1>8, <1>10 DEF Behind
<1>12. \A i \in 1..l : Keys!First(Keys!Stream'[i], w7') = Keys!First(Keys!Stream[i], w7)
  BY <1>2, <1>3, <1>7, <1>8, PressedBefore
<1>13. ASSUME NEW i \in 1..Len(Keys!Stream'), i \notin 1..l PROVE Keys!Stream'[i].key = n
  <2>1. i - l \in 1..m /\ i = l + (i - l)
    BY <1>11, <1>13
  <2> QED
    BY <2>1, <1>11
<1>14. Keys!TypeInv'
  BY <1>1, <1>4, <1>5, <1>7 DEF Keys!Inv, Keys!TypeInv
<1>15. Keys!StreamInv'
  <2>1. ASSUME NEW i \in 1..Len(Keys!Stream'), Keys!First(Keys!Stream'[i], w7')
        PROVE  w11 < Keys!Stream'[i].key
    <3>1. CASE i \in 1..l
      BY <2>1, <3>1, <1>8, <1>11, <1>12 DEF Keys!Inv, Keys!StreamInv
    <3>2. CASE i \notin 1..l
      <4>1. Keys!Stream'[i].key = n
        BY <3>2, <1>13
      <4> QED
        BY <4>1, <1>4, <1>5, <1>7
    <3> QED
      BY <3>1, <3>2
  <2> QED
    BY <2>1, <1>1, <1>9 DEF Keys!StreamInv
<1>16. Keys!ParserInv'
  <2> SUFFICES ASSUME w2 # 0 PROVE Keys!InKey(Keys!Stream, w7)'
    BY <1>1 DEF Keys!ParserInv
  <2>1. Keys!InKey(Keys!Stream, w7)
    BY DEF Keys!Inv, Keys!ParserInv
  <2>2. w11 \in 1..Len(w7) /\ w11 \in 1..Len(w7') /\ w7'[w11] = w7[w11]
    BY <2>1, <1>4, <1>5 DEF Keys!InKey
  <2>3. CASE Keys!Stream # <<>>
    <3>1. 1 \in 1..l /\ Keys!Stream' # <<>>
      <4>1. l # 0
        BY <2>3, <1>2, <1>8 DEF Behind
      <4>2. Len(Keys!Stream') # 0
        BY <1>11
      <4> QED
        BY <4>1, <4>2, NotEmpty
    <3>2. Keys!Stream'[1] = Keys!Stream[1] /\ Keys!First(Keys!Stream'[1], w7') = Keys!First(Keys!Stream[1], w7)
      BY <3>1, <1>11, <1>12
    <3> QED
      BY <2>1, <2>2, <2>3, <3>1, <3>2, <1>1 DEF Keys!InKey
  <2>4. CASE Keys!Stream = <<>>
    <3>1. l + 1 = 1
      BY <2>4, <1>8
    <3>2. Keys!First(Keys!Stream'[1], w7')
      BY <3>1, <1>9
    <3> QED
      BY <2>1, <2>2, <2>4, <3>2, <1>1 DEF Keys!InKey
  <2> QED
    BY <2>3, <2>4
<1>17. Keys!WaitInv'
  <2> SUFFICES ASSUME w2 = 1, w7'[w11] \in Keys!Cursor, w10 = <<>>, w4 = <<>> PROVE FALSE
    BY <1>1 DEF Keys!WaitInv
  <2>1. w11 \in 1..Len(w7)
    BY DEF Keys!Inv, Keys!ParserInv, Keys!InKey
  <2>2. w7[w11] \in Keys!Cursor
    BY <2>1, <1>5
  <2>3. Keys!Stream # <<>>
    BY <2>2 DEF Keys!Inv, Keys!ParserInv, Keys!InKey
  <2> QED
    BY <2>3, <1>1
<1>18. Keys!ActedInv'
  <2>1. \A i \in 1..Len(w8) : w8[i].key \in 1..Len(w7)
    BY <1>5, <1>7 DEF Keys!Inv, Keys!ActedInv
  <2>2. \A i \in 1..Len(w8) : w7'[w8[i].key] = w7[w8[i].key]
    BY <2>1, <1>5
  <2> QED
    BY <2>2, <1>1 DEF Keys!Inv, Keys!ActedInv
<1>19. Keys!PatienceInv'
  <2> SUFFICES ASSUME w1 PROVE Keys!PatienceInv'
    BY <1>1 DEF Keys!PatienceInv
  <2>1. l = 0
    BY <1>1, <1>8
  <2>2. \A i \in 1..Len(Keys!Stream') : Keys!Stream'[i].key = Len(w7')
    BY <2>1, <1>5, <1>13
  <2>3. ASSUME NEW k \in Keys!ShouldAct'
        PROVE  \/ Keys!Done(k)'
               \/ w2' # 0 /\ w11' = k
               \/ \E i \in 1..Len(Keys!Stream') : Keys!First(Keys!Stream'[i], w7') /\ Keys!Stream'[i].key = k
    <3>0. /\ k \in 1..n /\ Keys!Meaning(w7'[k]) # "none"
          /\ \A j \in 1..(k - 1) : w7'[j] # "escape"
      BY <1>5 DEF Keys!ShouldAct
    <3>1. CASE k = n
      <4>1. 1 \in 1..Len(Keys!Stream') /\ Keys!First(Keys!Stream'[1], w7')
        BY <2>1, <1>9, <1>11
      <4> QED
        BY <4>1, <3>1, <2>2, <1>5
    <3>2. CASE k # n
      <4>1. k \in 1..Len(w7) /\ w7'[k] = w7[k] /\ \A j \in 1..(k - 1) : w7'[j] = w7[j]
        BY <3>0, <3>2, <1>4, <1>5
      <4>2. k \in Keys!ShouldAct
        BY <3>0, <4>1, <1>5 DEF Keys!ShouldAct
      <4>3. Keys!Done(k) \/ (w2 # 0 /\ w11 = k)
        BY <2>1, <4>2, <1>8 DEF Keys!Inv, Keys!PatienceInv
      <4>4. Keys!Done(k) => Keys!Done(k)'
        BY <1>1, <4>1 DEF Keys!Done
      <4> QED
        BY <4>3, <4>4, <1>1
    <3> QED
      BY <3>1, <3>2
  <2> QED
    BY <2>2, <2>3 DEF Keys!PatienceInv
<1> QED
  BY <1>14, <1>15, <1>16, <1>17, <1>18, <1>19 DEF Keys!Inv

LEMMA KeysNextInv == Keys!Inv /\ [Keys!Next]_(Keys!vars) => Keys!Inv'
<1> SUFFICES ASSUME Keys!Inv, [Keys!Next]_(Keys!vars) PROVE Keys!Inv'
  OBVIOUS
<1>1. ASSUME UNCHANGED Keys!vars PROVE Keys!Inv'
  <2>1. /\ w1' = w1 /\ w2' = w2 /\ w3' = w3 /\ w4' = w4 /\ w5' = w5 /\ w6' = w6
        /\ w7' = w7 /\ w8' = w8 /\ w9' = w9 /\ w10' = w10 /\ w11' = w11
    BY <1>1 DEF Keys!vars, Keys!parser, Keys!user
  <2>2. Keys!Stream' = Keys!Stream
    BY <2>1 DEF Keys!Stream
  <2>3. Keys!TypeInv'
    BY <2>1 DEF Keys!Inv, Keys!TypeInv
  <2>4. Keys!WaitInv'
    BY <2>1 DEF Keys!Inv, Keys!WaitInv
  <2> QED
    BY <2>1, <2>2, <2>3, <2>4, KeysSameStream
<1> QED
  BY <1>1, KeysReadInv, KeysScanInv, KeysPollNothingInv, KeysArriveInv, KeysPressInv
     DEF Keys!Next, Keys!Poll, Keys!Stopped

-----------------------------------------------------------------------------
\* The same for the instance that runs them beside the loaders.
KeysInv == program = "keys" => Keys!Inv

LEMMA KeysInvariant == LoadersSpec => []KeysInv
<1>1. LoadersInit => KeysInv
  BY KeysInitInv DEF LoadersInit, KeysInv
<1>2. KeysInv /\ [LoadersNext]_all => KeysInv'
  <2> SUFFICES ASSUME KeysInv, [LoadersNext]_all, program' = "keys" PROVE Keys!Inv'
    BY DEF KeysInv
  <2>1. program = "keys" /\ Keys!Inv
    BY DEF KeysInv, LoadersNext, all, RunSparse, RunDos2, RunCommand, RunCompact, RunKeys
  <2>2. CASE RunKeys
    BY <2>1, <2>2, KeysNextInv DEF RunKeys
  <2>3. CASE UNCHANGED all
    <3>1. UNCHANGED Keys!vars
      BY <2>3 DEF all, work, Keys!vars, Keys!parser, Keys!user
    <3> QED
      BY <3>1, <2>1, KeysNextInv
  <2> QED
    BY <2>1, <2>2, <2>3 DEF LoadersNext, RunSparse, RunDos2, RunCommand, RunCompact
<1> QED
  BY <1>1, <1>2, PTL DEF LoadersSpec

\* terminal_poll_action returns an action only for the key that means it, and in
\* the order the keys were pressed, however their bytes are split over reads and
\* however many keys are typed ahead.
THEOREM KeysInOrder == LoadersSpec => []ActionsWerePressed
<1>1. KeysInv => ActionsWerePressed
  <2> SUFFICES ASSUME program = "keys", Keys!Inv PROVE Keys!ActionsWerePressed
    BY DEF KeysInv, ActionsWerePressed
  <2>1. /\ DOMAIN w8 = 1..Len(w8) /\ DOMAIN w7 = 1..Len(w7)
        /\ w11 \in 0..Len(w7)
    BY DEF Keys!Inv, Keys!TypeInv
  <2>2. \A i \in 1..Len(w8) : w8[i].key \in 1..Len(w7) /\ w8[i].act = Keys!Meaning(w7[w8[i].key])
    BY <2>1 DEF Keys!Inv, Keys!ActedInv
  <2> QED
    BY <2>1, <2>2 DEF Keys!Inv, Keys!ActedInv, Keys!ActionsWerePressed
<1> QED
  BY <1>1, KeysInvariant, PTL

\* The bytes that terminal_poll_action forgets when it returns in the middle of
\* its buffer are never those of a key that should have acted, if the user waits
\* for each key to be taken in.
THEOREM KeysAllAct == LoadersSpec => []NothingLost
<1>1. KeysInv => NothingLost
  <2> SUFFICES ASSUME Keys!Inv, w1, w10 = <<>>, w4 = <<>>, w5 = <<>>, w2 = 0, NEW k \in Keys!ShouldAct
               PROVE  \E i \in DOMAIN w8 : w8[i] = [act |-> Keys!Meaning(w7[k]), key |-> k]
    BY DEF KeysInv, NothingLost, Keys!NothingLost
  <2>1. Len(Keys!Stream) = 0
    BY DEF Keys!Stream
  <2>2. Keys!Done(k)
    BY <2>1 DEF Keys!Inv, Keys!PatienceInv
  <2>3. DOMAIN w8 = 1..Len(w8)
    BY DEF Keys!Inv, Keys!TypeInv
  <2> QED
    BY <2>2, <2>3 DEF Keys!Done
<1> QED
  BY <1>1, KeysInvariant, PTL

-----------------------------------------------------------------------------
\* Induction and recursion on the natural numbers, from the library's theorem
\* that a well-founded set has a least element.
LEMMA LeastNumber ==
    ASSUME NEW T, T \subseteq Nat, T # {}
    PROVE  \E x \in T : \A y \in T : x <= y
<1>1. IsWellFoundedOn(OpToRel(<, Nat), Nat)
  BY Zenon, NatLessThanWellFounded
<1>2. PICK x \in T : \A y \in T : <<y, x>> \notin OpToRel(<, Nat)
  BY Zenon, <1>1, WFMin
<1>3. ASSUME NEW y \in T PROVE x <= y
  <2>1. y \in Nat /\ x \in Nat
    OBVIOUS
  <2>2. ~(y < x)
    BY Zenon, <1>2, <2>1 DEF OpToRel
  <2> QED
    BY <2>1, <2>2
<1> QED
  BY <1>2, <1>3

LEMMA Induction ==
    ASSUME NEW S, 0 \in S, \A n \in Nat : n \in S => n + 1 \in S
    PROVE  \A n \in Nat : n \in S
<1> SUFFICES ASSUME {n \in Nat : n \notin S} # {} PROVE FALSE
  OBVIOUS
<1>1. PICK x \in {n \in Nat : n \notin S} : \A y \in {n \in Nat : n \notin S} : x <= y
  BY LeastNumber
<1>2. x # 0 /\ x - 1 \in Nat /\ (x - 1) + 1 = x
  BY <1>1
<1>3. x - 1 \in S
  BY <1>1, <1>2
<1> QED
  BY <1>1, <1>2, <1>3

Iterates(g, first, F, last) ==
    g[0] = first /\ \A k \in 1..last : g[k] = F[<<k, g[k - 1]>>]

\* A function defined by its value at 0 and a step from each value to the next
\* exists.
LEMMA Recursion ==
    ASSUME NEW V, NEW first \in V, NEW F \in [Nat \X V -> V], NEW last \in Nat
    PROVE  \E g \in [0..last -> V] : Iterates(g, first, F, last)
<1> DEFINE Good(n, g) == g[0] = first /\ \A k \in 1..n : g[k] = F[<<k, g[k - 1]>>]
<1> DEFINE S == {n \in Nat : \E g \in [0..n -> V] : Good(n, g)}
<1>1. 0 \in S
  <2>1. [k \in 0..0 |-> first] \in [0..0 -> V] /\ Good(0, [k \in 0..0 |-> first])
    OBVIOUS
  <2> QED
    BY <2>1
<1>2. ASSUME NEW n \in Nat, n \in S PROVE n + 1 \in S
  <2>1. PICK g \in [0..n -> V] : Good(n, g)
    BY <1>2
  <2> DEFINE h == [k \in 0..(n + 1) |-> IF k = n + 1 THEN F[<<n + 1, g[n]>>] ELSE g[k]]
  <2>2. h \in [0..(n + 1) -> V]
    OBVIOUS
  <2>3. h[0] = first
    BY <2>1
  <2>4. ASSUME NEW k \in 1..(n + 1) PROVE h[k] = F[<<k, h[k - 1]>>]
    <3>0. k \in 0..(n + 1) /\ k - 1 \in 0..(n + 1) /\ k - 1 # n + 1
      OBVIOUS
    <3>1. h[k - 1] = g[k - 1]
      BY <3>0
    <3>2. CASE k = n + 1
      <4>1. h[k] = F[<<n + 1, g[n]>>] /\ k - 1 = n
        BY <3>0, <3>2
      <4> QED
        BY Zenon, <4>1, <3>1, <3>2
    <3>3. CASE k # n + 1
      <4>1. k \in 1..n
        BY <3>3
      <4>2. g[k] = F[<<k, g[k - 1]>>]
        BY <4>1, <2>1
      <4>3. h[k] = g[k]
        BY <3>0, <3>3
      <4> QED
        BY Zenon, <4>2, <4>3, <3>1
    <3> QED
      BY <3>2, <3>3
  <2>5. Good(n + 1, h)
    BY <2>3, <2>4
  <2> HIDE DEF h, Good
  <2> QED
    BY <2>2, <2>5
<1> HIDE DEF S
<1>3. \A n \in Nat : n \in S
  BY <1>1, <1>2, Induction
<1>4. last \in S
  BY <1>3
<1> QED
  BY <1>4 DEF S, Iterates

-----------------------------------------------------------------------------
(***************************************************************************)
(* The command line.  w1 is the tail, w2 the number of characters left, w3 *)
(* the loop that runs, w4 the name, w5 the song.  The invariant says what  *)
(* has been read in each loop; the reference grammar's words are then      *)
(* found where the loops found theirs, and a number's worth is unfolded    *)
(* one digit per step.                                                     *)
(***************************************************************************)
\* The position of Char.
Here == Len(w1) - w2 + 1

Spaces(m, n) == \A k \in m..(n - 1) : w1[k] = Command!Space

\* The first character that is no space stands at i, and the name read from
\* there ends before q.
Named(i, q) ==
    /\ i \in DOMAIN w1 /\ q \in i..(Len(w1) + 1)
    /\ Spaces(1, i) /\ w1[i] # Command!Space
    /\ Len(w4) = q - i
    /\ \A k \in i..(q - 1) : ~Command!EndsName(w1[k]) /\ w4[k - i + 1] = w1[k]

\* A blank ended it.
Closed(i, q) == Named(i, q) /\ q <= Len(w1) /\ Command!EndsName(w1[q])

\* After spaces the digits read so far stand at j.
Numbered(q, j) ==
    /\ j \in q..Here /\ j <= Len(w1)
    /\ Spaces(q, j) /\ w1[j] # Command!Space
    /\ \A k \in j..(Here - 1) : w1[k] \in DOMAIN Command!Digit
    /\ Command!Worth(j)[Here - 1] \in Nat
    /\ w5 = Command!Worth(j)[Here - 1] % 256

CommandType ==
    /\ w1 \in Seq(Command!Chars) /\ w2 \in 0..Len(w1)
    /\ w3 \in {"skip", "name", "song_skip", "song", "slot_skip", "good", "bad"}
    /\ w4 \in Seq(Command!Chars)

\* The name has room, with its closing zero, before the bytes others write.
Roomy == Len(w4) < Command!NameRoom

SkipInv == w3 = "skip" => Spaces(1, Here) /\ w4 = <<>> /\ w5 = 0
NameInv == w3 = "name" => (Roomy => w5 = 0) /\ \E i \in DOMAIN w1 : Named(i, Here)
GapInv ==
    w3 = "song_skip" =>
        (Roomy => w5 = 0) /\ \E i, q \in DOMAIN w1 : Closed(i, q) /\ q <= Here /\ Spaces(q, Here)
SongInv ==
    w3 \in {"song", "slot_skip"} =>
        \E i, q, j \in DOMAIN w1 : Closed(i, q) /\ Numbered(q, j)
EndInv == w3 = "slot_skip" => w2 = 0
SlotInv == Roomy => w6 = Command!DefaultSlot

CommandInv ==
    /\ CommandType /\ SkipInv /\ NameInv /\ GapInv /\ SongInv /\ EndInv /\ SlotInv
    /\ Command!AcceptedIsUnderstood /\ Command!PlainUsageAccepted

LEMMA DigitIsNumber == \A c \in DOMAIN Command!Digit : Command!Digit[c] \in Nat
<1>1. \A c \in Command!Range(Command!Digits) : \E d \in 0..9 : Command!Digits[d + 1] = c
  <2>1. ASSUME NEW c \in Command!Range(Command!Digits) PROVE \E d \in 0..9 : Command!Digits[d + 1] = c
    <3>1. PICK k \in DOMAIN Command!Digits : Command!Digits[k] = c
      BY DEF Command!Range
    <3>2. k \in 1..10
      BY DEF Command!Digits
    <3>3. k - 1 \in 0..9 /\ (k - 1) + 1 = k
      BY <3>2
    <3> QED
      BY <3>1, <3>3
  <2> QED
    BY <2>1
<1>2. ASSUME NEW c \in DOMAIN Command!Digit PROVE Command!Digit[c] \in 0..9
  BY <1>1 DEF Command!Digit
<1> QED
  BY <1>2

LEMMA DigitIsNoBlank == Command!Space # Command!Tab /\ \A c \in DOMAIN Command!Digit : c # Command!Space /\ c # Command!Tab
<1>1. ASSUME NEW c \in DOMAIN Command!Digit PROVE c # Command!Space /\ c # Command!Tab
  <2>1. c \in Command!Range(Command!Digits)
    BY <1>1 DEF Command!Digit
  <2>2. PICK k \in DOMAIN Command!Digits : Command!Digits[k] = c
    BY <2>1 DEF Command!Range
  <2>3. k \in 1..10
    BY DEF Command!Digits
  <2>4. Command!Digits[k] # " " /\ Command!Digits[k] # "TAB"
    <3>1. /\ Command!Digits[1] = "0" /\ Command!Digits[2] = "1" /\ Command!Digits[3] = "2" /\ Command!Digits[4] = "3"
          /\ Command!Digits[5] = "4" /\ Command!Digits[6] = "5" /\ Command!Digits[7] = "6" /\ Command!Digits[8] = "7"
          /\ Command!Digits[9] = "8" /\ Command!Digits[10] = "9"
      BY DEF Command!Digits
    <3>2. \/ k = 1 \/ k = 2 \/ k = 3 \/ k = 4 \/ k = 5
          \/ k = 6 \/ k = 7 \/ k = 8 \/ k = 9 \/ k = 10
      BY <2>3
    <3> QED
      BY <3>1, <3>2
  <2> QED
    BY <2>2, <2>4 DEF Command!Space, Command!Tab
<1> QED
  BY <1>1 DEF Command!Space, Command!Tab

\* The recursion of Worth has a solution, so Worth is one.
LEMMA WorthUnfolds ==
    ASSUME w1 \in Seq(Command!Chars), NEW i \in DOMAIN w1
    PROVE  /\ Command!Worth(i)[i - 1] = 0
           /\ \A k \in 1..Len(w1) :
                  k \in Command!Word(i) /\ w1[k] \in DOMAIN Command!Digit =>
                      Command!Worth(i)[k] = 10 * Command!Worth(i)[k - 1] + Command!Digit[w1[k]]
<1> DEFINE n == Len(w1)
<1> DEFINE F == [p \in Nat \X Nat |->
                   IF p[1] < i THEN 0
                   ELSE IF p[1] \in Command!Word(i) /\ w1[p[1]] \in DOMAIN Command!Digit THEN 10 * p[2] + Command!Digit[w1[p[1]]]
                   ELSE p[2]]
<1>0. n \in Nat /\ i \in Nat /\ i >= 1
  OBVIOUS
<1>1. F \in [Nat \X Nat -> Nat]
  <2>1. ASSUME NEW p \in Nat \X Nat, w1[p[1]] \in DOMAIN Command!Digit PROVE 10 * p[2] + Command!Digit[w1[p[1]]] \in Nat
    <3>1. Command!Digit[w1[p[1]]] \in Nat
      BY <2>1, DigitIsNumber
    <3> QED
      BY <3>1
  <2> HIDE DEF n
  <2> QED
    BY <2>1
<1> HIDE DEF n, F
<1>2. PICK g \in [0..n -> Nat] : Iterates(g, 0, F, n)
  <2>1. 0 \in Nat
    OBVIOUS
  <2> QED
    BY Zenon, <2>1, <1>0, <1>1, Recursion
<1>3. ASSUME NEW k \in 0..n
      PROVE  g[k] = IF k < i THEN 0
                    ELSE IF k \in Command!Word(i) /\ w1[k] \in DOMAIN Command!Digit THEN 10 * g[k - 1] + Command!Digit[w1[k]]
                    ELSE g[k - 1]
  <2>1. CASE k = 0
    BY <2>1, <1>0, <1>2 DEF Iterates
  <2>2. CASE k # 0
    <3>1. k \in 1..n /\ k \in Nat /\ k - 1 \in 0..n
      BY <2>2, <1>0
    <3>2. g[k - 1] \in Nat
      BY <3>1, <1>2
    <3>3. <<k, g[k - 1]>> \in Nat \X Nat
      BY <3>1, <3>2
    <3>4. F[<<k, g[k - 1]>>] = IF k < i THEN 0
                    ELSE IF k \in Command!Word(i) /\ w1[k] \in DOMAIN Command!Digit THEN 10 * g[k - 1] + Command!Digit[w1[k]]
                    ELSE g[k - 1]
      BY <3>3 DEF F
    <3> QED
      BY <3>1, <3>4, <1>2 DEF Iterates
  <2> QED
    BY <2>1, <2>2
<1>4. g = [k \in 0..n |-> IF k < i THEN 0
                    ELSE IF k \in Command!Word(i) /\ w1[k] \in DOMAIN Command!Digit THEN 10 * g[k - 1] + Command!Digit[w1[k]]
                    ELSE g[k - 1]]
  BY <1>2, <1>3
<1>5. Command!Worth(i) = [k \in 0..n |-> IF k < i THEN 0
                    ELSE IF k \in Command!Word(i) /\ w1[k] \in DOMAIN Command!Digit THEN 10 * Command!Worth(i)[k - 1] + Command!Digit[w1[k]]
                    ELSE Command!Worth(i)[k - 1]]
  BY Zenon, <1>4 DEF Command!Worth, n
<1>6. Command!Worth(i)[i - 1] = 0
  <2>1. i - 1 \in 0..n /\ i - 1 < i
    BY <1>0 DEF n
  <2> QED
    BY <2>1, <1>5
<1>7. ASSUME NEW k \in 1..n, k \in Command!Word(i) /\ w1[k] \in DOMAIN Command!Digit
      PROVE  Command!Worth(i)[k] = 10 * Command!Worth(i)[k - 1] + Command!Digit[w1[k]]
  <2>1. k \in 0..n /\ ~(k < i)
    BY <1>7, <1>0 DEF n, Command!Word
  <2> QED
    BY <2>1, <1>5, <1>7
<1> QED
  BY <1>6, <1>7 DEF n

-----------------------------------------------------------------------------
\* The grammar counts as this module does.
LEMMA CommandCounts == \A S : Command!Cardinality(S) = Cardinality(S)
  BY Zenon DEF Command!Cardinality, Cardinality

\* The name that was read is the first word of the tail.
LEMMA FirstWord ==
    ASSUME CommandType, NEW i, NEW q, Named(i, q), i < q,
           q = Len(w1) + 1 \/ Command!EndsName(w1[q])
    PROVE  /\ i \in Command!WordStarts /\ Command!Spells(w4, i) /\ Command!Starts(1, i)
           /\ {k \in Command!WordStarts : k < q} = {i}
<1> DEFINE n == Len(w1)
<1>0. n \in Nat /\ DOMAIN w1 = 1..n /\ w4 \in Seq(Command!Chars) /\ Len(w4) \in Nat
  BY DEF CommandType
<1> USE DEF Command!Blank, Command!EndsName
<1>1. i \in 1..n /\ q \in i..(n + 1) /\ Len(w4) = q - i
  BY <1>0 DEF Named
<1>2. \A k \in 1..(i - 1) : Command!Blank(k)
  BY DEF Named, Spaces
<1>3. \A k \in i..(q - 1) : ~Command!Blank(k) /\ w4[k - i + 1] = w1[k]
  BY DEF Named
<1>4. q = n + 1 \/ Command!Blank(q)
  OBVIOUS
<1> HIDE DEF n, Command!Blank, Command!EndsName
<1>5. i \in Command!WordStarts
  <2>1. i = 1 \/ Command!Blank(i - 1)
    BY <1>1, <1>2, <1>0
  <2> QED
    BY <2>1, <1>0, <1>1, <1>3 DEF Command!WordStarts
<1>6. Command!Word(i) = i..(q - 1)
  <2>1. ASSUME NEW k \in i..n, \A j \in i..k : ~Command!Blank(j) PROVE k \in i..(q - 1)
    <3>1. CASE k < q
      BY <3>1, <1>0, <1>1
    <3>2. CASE k >= q
      <4>1. q \in i..k /\ q # n + 1
        BY <3>2, <1>0, <1>1
      <4> QED
        BY <4>1, <2>1, <1>4
    <3> QED
      BY <3>1, <3>2, <1>0, <1>1
  <2>2. ASSUME NEW k \in i..(q - 1) PROVE k \in i..n /\ \A j \in i..k : ~Command!Blank(j)
    BY <1>0, <1>1, <1>3
  <2>3. Command!Word(i) = {k \in i..n : \A j \in i..k : ~Command!Blank(j)}
    BY DEF Command!Word, n
  <2> QED
    BY <2>1, <2>2, <2>3
<1>7. Command!Spells(w4, i)
  <2>1. i + Len(w4) - 1 = q - 1
    BY <1>0, <1>1
  <2>2. ASSUME NEW k \in DOMAIN w4 PROVE w4[k] = w1[i + k - 1]
    <3>1. k \in 1..Len(w4)
      BY <1>0
    <3>2. i + k - 1 \in i..(q - 1) /\ (i + k - 1) - i + 1 = k
      BY <3>1, <1>0, <1>1
    <3> QED
      BY <3>2, <1>3
  <2> QED
    BY <2>1, <2>2, <1>6 DEF Command!Spells
<1>8. {k \in Command!WordStarts : k < q} = {i}
  <2>1. ASSUME NEW k \in Command!WordStarts, k < q PROVE k = i
    <3>1. k \in 1..n /\ ~Command!Blank(k) /\ (k = 1 \/ Command!Blank(k - 1))
      BY <1>0 DEF Command!WordStarts
    <3>2. ~(k < i)
      BY <3>1, <1>2, <1>1, <1>0
    <3>3. ~(k > i)
      <4>1. ASSUME k > i PROVE FALSE
        <5>1. k - 1 \in i..(q - 1) /\ k # 1
          BY <4>1, <3>1, <2>1, <1>1, <1>0
        <5> QED
          BY <5>1, <3>1, <1>3
      <4> QED
        BY <4>1
    <3> QED
      BY <3>1, <3>2, <3>3, <1>1
  <2> QED
    BY <2>1, <1>5
<1>9. {k \in Command!WordStarts : k < i} = {}
  <2>1. ASSUME NEW k \in Command!WordStarts, k < i PROVE FALSE
    <3>1. k \in 1..n /\ ~Command!Blank(k)
      BY <1>0 DEF Command!WordStarts
    <3> QED
      BY <3>1, <2>1, <1>2, <1>1, <1>0
  <2> QED
    BY <2>1
<1>10. Command!Starts(1, i)
  <2>1. Command!Cardinality({k \in Command!WordStarts : k < i}) = 1 - 1
    <3>1. Command!Cardinality({k \in Command!WordStarts : k < i}) = 0
      BY <1>9, FS_EmptySet, CommandCounts, Zenon
    <3> QED
      BY <3>1
  <2> QED
    BY <2>1, <1>5 DEF Command!Starts
<1> QED
  BY <1>5, <1>7, <1>8, <1>10

\* What follows it after spaces is the second word.
LEMMA SecondWord ==
    ASSUME CommandType, NEW i, NEW q, Closed(i, q), i < q,
           NEW j \in DOMAIN w1, q < j, Spaces(q, j), ~Command!Blank(j)
    PROVE  j \in Command!WordStarts /\ Command!Starts(2, j)
<1> DEFINE n == Len(w1)
<1>0. n \in Nat /\ DOMAIN w1 = 1..n
  BY DEF CommandType
<1>1. i \in 1..n /\ q \in i..(n + 1) /\ j \in 1..n
  BY <1>0 DEF Closed, Named
<1>2. \A k \in q..(j - 1) : Command!Blank(k)
  BY DEF Spaces, Command!Blank
<1>3. {k \in Command!WordStarts : k < q} = {i}
  BY FirstWord DEF Closed
<1> HIDE DEF n
<1>4. j \in Command!WordStarts
  <2>1. j - 1 \in q..(j - 1)
    BY <1>0, <1>1
  <2> QED
    BY <2>1, <1>2 DEF Command!WordStarts
<1>5. {k \in Command!WordStarts : k < j} = {i}
  <2>1. ASSUME NEW k \in Command!WordStarts, k < j PROVE k < q
    <3>1. k \in 1..n /\ ~Command!Blank(k)
      BY <1>0 DEF Command!WordStarts
    <3> QED
      BY <3>1, <2>1, <1>0, <1>1, <1>2
  <2>2. ASSUME NEW k \in Command!WordStarts, k < q PROVE k < j
    <3>1. k \in 1..n
      BY <1>0 DEF Command!WordStarts
    <3> QED
      BY <3>1, <2>2, <1>0, <1>1
  <2> QED
    BY <2>1, <2>2, <1>3
<1>6. Command!Cardinality({k \in Command!WordStarts : k < j}) = 2 - 1
  BY <1>5, FS_Singleton, CommandCounts
<1> QED
  BY <1>4, <1>6 DEF Command!Starts

\* A name that ends where it began is a tab.
LEMMA NoName ==
    ASSUME CommandType, NEW i, NEW q, Closed(i, q), w1[q] # Command!Tab
    PROVE  i < q /\ w1[q] = Command!Space
<1>1. i \in Nat /\ q \in i..(Len(w1) + 1) /\ w1[i] # Command!Space /\ w1[q] \in {Command!Space, Command!Tab}
  BY DEF CommandType, Closed, Named, Command!EndsName
<1> QED
  BY <1>1

-----------------------------------------------------------------------------
\* What the tail alone decides stays.
LEMMA SameTail ==
    ASSUME w1' = w1
    PROVE  /\ Command!WordStarts' = Command!WordStarts
           /\ \A n, i : Command!Starts(n, i)' = Command!Starts(n, i)
           /\ \A i : Command!Word(i)' = Command!Word(i)
           /\ \A i : Command!IsNumber(i)' = Command!IsNumber(i)
           /\ \A i : Command!Worth(i)' = Command!Worth(i)
           /\ \A i : Command!Value(i)' = Command!Value(i)
<1>1. Command!WordStarts' = Command!WordStarts
  BY DEF Command!WordStarts, Command!Blank
<1>2. \A i : Command!Word(i)' = Command!Word(i)
  BY DEF Command!Word, Command!Blank
<1>3. ASSUME NEW i PROVE Command!Worth(i)' = Command!Worth(i)
  BY <1>2, Zenon DEF Command!Worth
<1>4. \A i : Command!Value(i)' = Command!Value(i)
  BY <1>3 DEF Command!Value
<1>5. \A i : Command!IsNumber(i)' = Command!IsNumber(i)
  BY <1>2 DEF Command!IsNumber
<1>6. \A n, i : Command!Starts(n, i)' = Command!Starts(n, i)
  BY <1>1 DEF Command!Starts
<1> QED
  BY <1>1, <1>2, <1>3, <1>4, <1>5, <1>6

Understood ==
    \E i \in Command!WordStarts :
        /\ Command!Starts(1, i) /\ Command!Spells(w4, i) /\ w6 = Command!DefaultSlot
        /\ \/ Command!WordStarts = {i} /\ w5 = 0
           \/ \E j \in Command!WordStarts :
                  Command!Starts(2, j) /\ Command!IsNumber(j) /\ w5 = Command!Value(j) % 256

Unusual ==
    \/ Command!WordStarts = {}
    \/ \E k \in DOMAIN w1 : w1[k] = Command!Tab
    \/ \E j \in Command!WordStarts : Command!Starts(2, j) /\ (~Command!IsNumber(j) \/ Len(w1) \notin Command!Word(j))

LEMMA SameMeaning ==
    ASSUME UNCHANGED <<w1, Command!text>>
    PROVE  (Understood => Understood') /\ (Unusual => Unusual')
<1>1. w1' = w1 /\ w4' = w4 /\ w5' = w5 /\ w6' = w6
  BY DEF Command!text
<1>2. \A w, i : Command!Spells(w, i)' = Command!Spells(w, i)
  BY <1>1, SameTail DEF Command!Spells
<1> QED
  BY <1>1, <1>2, SameTail DEF Understood, Unusual

\* The whole tail is the name and what the name's end left: nothing but it.
LEMMA OneWord ==
    ASSUME CommandType, NEW i, NEW q, Named(i, q), i < q,
           q = Len(w1) + 1 \/ Command!EndsName(w1[q]),
           Spaces(q, Len(w1) + 1), w5 = 0, w6 = Command!DefaultSlot
    PROVE  Understood
<1>1. i \in Command!WordStarts /\ Command!Spells(w4, i) /\ Command!Starts(1, i) /\ {k \in Command!WordStarts : k < q} = {i}
  BY FirstWord
<1>2. ASSUME NEW k \in Command!WordStarts PROVE k < q
  <2>1. k \in DOMAIN w1 /\ ~Command!Blank(k)
    BY DEF Command!WordStarts
  <2>2. k \in 1..Len(w1) /\ Len(w1) \in Nat /\ q \in Nat
    BY <2>1 DEF CommandType, Named
  <2>3. k >= q => k \in q..((Len(w1) + 1) - 1)
    BY <2>2
  <2> QED
    BY <2>1, <2>2, <2>3 DEF Spaces, Command!Blank
<1>3. Command!WordStarts = {i}
  BY <1>1, <1>2
<1> QED
  BY <1>1, <1>3 DEF Understood

\* The end of the tail after a number.
LEMMA TwoWords ==
    ASSUME CommandType, NEW i, NEW q, NEW j, Closed(i, q), Numbered(q, j), w2 = 0,
           w6 = Command!DefaultSlot
    PROVE  Understood
<1>0. Len(w1) \in Nat /\ DOMAIN w1 = 1..Len(w1) /\ Here = Len(w1) + 1
  BY DEF CommandType, Here
<1>1. j \in q..Len(w1) /\ i \in DOMAIN w1 /\ q \in Nat /\ i <= q /\ i >= 1
  BY <1>0 DEF Numbered, Closed, Named
<1>2. \A k \in j..Len(w1) : w1[k] \in DOMAIN Command!Digit /\ ~Command!Blank(k)
  <2> QED
    BY <1>0, DigitIsNoBlank DEF Numbered, Command!Blank
<1>3. q < j /\ w1[q] # Command!Tab
  <2>1. Command!Blank(q)
    BY DEF Closed, Command!EndsName, Command!Blank
  <2>2. ~Command!Blank(j)
    BY <1>1, <1>2
  <2>3. q # j
    BY <2>1, <2>2
  <2>4. q \in q..(j - 1)
    BY <2>3, <1>1
  <2>5. w1[q] = Command!Space
    BY <2>4 DEF Numbered, Spaces
  <2> QED
    BY <2>3, <2>5, <1>1, DigitIsNoBlank
<1>4. i < q
  BY <1>3, NoName
<1>5. j \in Command!WordStarts /\ Command!Starts(2, j)
  BY <1>1, <1>2, <1>3, <1>4, <1>0, SecondWord DEF Numbered
<1>6. Command!IsNumber(j)
  BY <1>2 DEF Command!IsNumber, Command!Word
<1>7. w5 = Command!Value(j) % 256
  BY <1>0 DEF Numbered, Command!Value
<1>8. i \in Command!WordStarts /\ Command!Starts(1, i) /\ Command!Spells(w4, i)
  BY <1>4, FirstWord DEF Closed
<1> QED
  BY <1>5, <1>6, <1>7, <1>8 DEF Understood

\* A character after the spaces, or after the digits, that is no digit.
LEMMA NotPlain ==
    ASSUME CommandType, NEW i, NEW q, NEW j, Closed(i, q), Numbered(q, j), w2 # 0,
           w1[Here] \notin DOMAIN Command!Digit
    PROVE  Unusual
<1>0. Len(w1) \in Nat /\ DOMAIN w1 = 1..Len(w1) /\ Here \in 1..Len(w1)
  BY DEF CommandType, Here
<1>1. j \in q..Here /\ j \in 1..Len(w1) /\ i \in DOMAIN w1 /\ q \in Nat /\ i <= q /\ i >= 1
  BY <1>0 DEF Numbered, Closed, Named
<1> SUFFICES ASSUME \A k \in DOMAIN w1 : w1[k] # Command!Tab PROVE Unusual
  BY DEF Unusual
<1>2. w1[j] # Command!Space /\ ~Command!Blank(j)
  BY <1>0, <1>1 DEF Numbered, Command!Blank
<1>3. q < j
  <2>1. q \in DOMAIN w1
    BY <1>0, <1>1
  <2>2. w1[q] = Command!Space
    BY <2>1 DEF Closed, Command!EndsName
  <2> QED
    BY <2>2, <1>1, <1>2
<1>4. i < q
  BY <1>0, <1>1, NoName DEF Closed
<1>5. j \in Command!WordStarts /\ Command!Starts(2, j)
  BY <1>0, <1>1, <1>2, <1>3, <1>4, SecondWord DEF Numbered
<1>6. CASE Command!Blank(Here)
  <2>1. ASSUME Len(w1) \in Command!Word(j) PROVE FALSE
    <3>1. Here \in j..Len(w1)
      BY <1>0, <1>1
    <3> QED
      BY <3>1, <2>1, <1>6 DEF Command!Word
  <2> QED
    BY <2>1, <1>5 DEF Unusual
<1>7. CASE ~Command!Blank(Here)
  <2>1. ASSUME NEW k \in j..Here PROVE ~Command!Blank(k)
    <3>1. CASE k = Here
      BY <3>1, <1>7
    <3>2. CASE k # Here
      <4>1. k \in j..(Here - 1)
        BY <3>2, <1>0, <1>1
      <4>2. w1[k] \in DOMAIN Command!Digit
        BY <4>1 DEF Numbered
      <4> QED
        BY <4>2, DigitIsNoBlank DEF Command!Blank
    <3> QED
      BY <3>1, <3>2
  <2>2. Here \in Command!Word(j)
    BY <2>1, <1>0, <1>1 DEF Command!Word
  <2>3. ~Command!IsNumber(j)
    BY <2>2 DEF Command!IsNumber
  <2> QED
    BY <2>3, <1>5 DEF Unusual
<1> QED
  BY <1>6, <1>7

-----------------------------------------------------------------------------
LEMMA SameName ==
    ASSUME w1' = w1, w4' = w4
    PROVE  /\ \A i, q : Named(i, q)' = Named(i, q)
           /\ \A i, q : Closed(i, q)' = Closed(i, q)
<1>1. \A i, q : Named(i, q)' = Named(i, q)
  BY DEF Named, Spaces, Command!EndsName
<1> QED
  BY <1>1 DEF Closed, Command!EndsName

LEMMA HereType ==
    ASSUME CommandType
    PROVE  /\ Len(w1) \in Nat /\ DOMAIN w1 = 1..Len(w1)
           /\ Here \in 1..(Len(w1) + 1)
           /\ w2 # 0 => Here \in 1..Len(w1)
           /\ w2 = 0 => Here = Len(w1) + 1
           /\ Command!Char = w1[Here]
BY DEF CommandType, Here, Command!Char

\* A character is taken: what stood before it is one longer.
LEMMA Eaten ==
    ASSUME CommandType, w2 # 0, Command!Eat, w1' = w1
    PROVE  w2' \in 0..Len(w1) /\ Here' = Here + 1
BY DEF CommandType, Command!Eat, Here

LEMMA OneMoreSpace ==
    ASSUME NEW m \in Int, NEW n \in Int, Spaces(m, n), w1[n] = Command!Space
    PROVE  Spaces(m, n + 1)
<1>1. ASSUME NEW k \in m..((n + 1) - 1) PROVE w1[k] = Command!Space
  <2>1. k = n \/ k \in m..(n - 1)
    OBVIOUS
  <2> QED
    BY <2>1 DEF Spaces
<1> QED
  BY <1>1 DEF Spaces

\* The ends of the reading are judged where they are reached; elsewhere only
\* the mode's own invariant says anything.
LEMMA Judged ==
    ASSUME w1' = w1, w4' = w4, Roomy => Command!text' = Command!text, w3' \in {"good", "bad"},
           w2' = w2, CommandType, SlotInv, w3' = "good" /\ Roomy => Understood, w3' = "bad" => Unusual
    PROVE  CommandInv'
<1>1. CommandType' /\ Roomy' = Roomy
  BY DEF CommandType, Roomy, Command!NameRoom
<1>2. (w3' = "good" /\ Roomy => Understood') /\ (w3' = "bad" => Unusual')
  <2>1. Unusual => Unusual'
    BY SameTail DEF Unusual
  <2> QED
    BY <2>1, SameMeaning
<1>3. Command!AcceptedIsUnderstood' /\ Command!PlainUsageAccepted'
  BY <1>1, <1>2 DEF Command!AcceptedIsUnderstood, Command!PlainUsageAccepted, Understood, Unusual, Roomy
<1>4. SlotInv'
  BY <1>1 DEF SlotInv, Command!text
<1> QED
  BY <1>1, <1>3, <1>4 DEF CommandInv, SkipInv, NameInv, GapInv, SongInv, EndInv

LEMMA SkipStep ==
    ASSUME CommandInv, w3 = "skip", Command!Name, w1' = w1
    PROVE  CommandInv'
<1>0. CommandType /\ Spaces(1, Here) /\ w4 = <<>> /\ w5 = 0 /\ SlotInv
  BY DEF CommandInv, SkipInv
<1>1. CASE w2 = 0
  <2>1. w3' = "bad" /\ w2' = w2 /\ Command!text' = Command!text /\ w4' = w4
    BY <1>1 DEF Command!Name, Command!Goto, Command!text
  <2>2. Command!WordStarts = {}
    <3>1. ASSUME NEW k \in Command!WordStarts PROVE FALSE
      <4>1. k \in DOMAIN w1 /\ ~Command!Blank(k)
        BY DEF Command!WordStarts
      <4>2. k \in 1..(Here - 1)
        BY <4>1, <1>0, <1>1, HereType
      <4> QED
        BY <4>1, <4>2, <1>0 DEF Spaces, Command!Blank
    <3> QED
      BY <3>1
  <2>3. Unusual
    BY <2>2 DEF Unusual
  <2> QED
    BY <2>1, <2>3, <1>0, Judged
<1>2. CASE w2 # 0 /\ Command!Char # Command!Space
  <2>1. w3' = "name" /\ w2' = w2 /\ Command!text' = Command!text /\ w4' = w4 /\ w5' = w5 /\ w6' = w6
    BY <1>2 DEF Command!Name, Command!Goto, Command!text
  <2>2. CommandType'
    BY <2>1, <1>0 DEF CommandType
  <2>3. Here \in DOMAIN w1 /\ w1[Here] # Command!Space /\ Here \in Nat
    BY <1>0, <1>2, HereType
  <2>4. Named(Here, Here)
    BY <2>3, <1>0, HereType DEF Named
  <2>5. Here' = Here
    BY <2>1 DEF Here
  <2>6. NameInv'
    BY <2>1, <2>3, <2>4, <2>5, <1>0, SameName DEF NameInv
  <2>7. SlotInv'
    BY <2>1, <1>0 DEF SlotInv, Roomy, Command!NameRoom
  <2> QED
    BY <2>1, <2>2, <2>6, <2>7 DEF CommandInv, SkipInv, GapInv, SongInv, EndInv, Command!AcceptedIsUnderstood,
                            Command!PlainUsageAccepted
<1>3. CASE w2 # 0 /\ Command!Char = Command!Space
  <2>1. w3' = "skip" /\ Command!Eat /\ w4' = w4 /\ w5' = w5 /\ w6' = w6
    BY <1>3 DEF Command!Name, Command!text
  <2> PICK h : h = Here
    OBVIOUS
  <2>2. w2' \in 0..Len(w1) /\ Here' = h + 1
    BY <2>1, <1>0, <1>3, Eaten
  <2>3. CommandType'
    BY <2>1, <2>2, <1>0 DEF CommandType
  <2>4. Spaces(1, h + 1)
    BY <1>0, <1>3, HereType, OneMoreSpace
  <2>5. Spaces(1, h + 1)'
    BY <2>4 DEF Spaces
  <2>6. SkipInv'
    BY <2>1, <2>2, <2>5, <1>0 DEF SkipInv
  <2>7. SlotInv'
    BY <2>1, <1>0 DEF SlotInv, Roomy, Command!NameRoom
  <2> QED
    BY <2>1, <2>3, <2>6, <2>7 DEF CommandInv, NameInv, GapInv, SongInv, EndInv, Command!AcceptedIsUnderstood,
                            Command!PlainUsageAccepted
<1> QED
  BY <1>1, <1>2, <1>3

LEMMA NameStep ==
    ASSUME CommandInv, w3 = "name", Command!Name, w1' = w1
    PROVE  CommandInv'
<1>0. CommandType /\ (Roomy => w5 = 0) /\ SlotInv
  BY DEF CommandInv, NameInv
<1>1. PICK i \in DOMAIN w1 : Named(i, Here)
  BY DEF CommandInv, NameInv
<1>s. CommandSong \in Nat /\ Command!NameRoom = CommandSong - 3 /\ Len(w4) \in Nat
  BY <1>0, TailAssumption DEF Command!NameRoom, CommandType
<1>t. Roomy => Len(w4) # CommandSong /\ Len(w4) # CommandSong + 1
  BY <1>s DEF Roomy
<1>2. CASE w2 = 0
  <2>1. w3' = "good" /\ w2' = w2 /\ w4' = w4 /\ (Roomy => Command!text' = Command!text)
    BY <1>2, <1>t DEF Command!Name, Command!Spill, Command!text
  <2>2. Here = Len(w1) + 1 /\ i < Here
    BY <1>0, <1>2, HereType
  <2>3. Spaces(Here, Len(w1) + 1)
    BY <2>2, <1>0, HereType DEF Spaces
  <2>4. Roomy => Understood
    BY <2>2, <2>3, <1>0, <1>1, OneWord DEF SlotInv
  <2> QED
    BY <2>1, <2>4, <1>0, Judged
<1>3. CASE w2 # 0 /\ Command!EndsName(Command!Char)
  <2>1. w3' = "song_skip" /\ w2' = w2 /\ w4' = w4 /\ (Roomy => w5' = w5 /\ w6' = w6)
    BY <1>3, <1>t DEF Command!Name, Command!Spill
  <2>a. Roomy' = Roomy
    BY <2>1 DEF Roomy, Command!NameRoom
  <2>2. CommandType'
    BY <2>1, <1>0 DEF CommandType
  <2>3. Here \in DOMAIN w1 /\ Here <= Len(w1) /\ Command!EndsName(w1[Here]) /\ Here <= Here
    BY <1>0, <1>3, HereType
  <2>4. Closed(i, Here)
    BY <2>3, <1>1 DEF Closed
  <2>5. Spaces(Here, Here)
    BY <1>0, HereType DEF Spaces
  <2>6. Here' = Here
    BY <2>1 DEF Here
  <2>7. Closed(i, Here)' /\ Spaces(Here, Here)'
    BY <2>1, <2>4, <2>5, <2>6, SameName DEF Spaces
  <2>8. GapInv'
    BY <2>1, <2>a, <2>3, <2>6, <2>7, <1>0 DEF GapInv
  <2>9. SlotInv'
    BY <2>1, <2>a, <1>0 DEF SlotInv
  <2> QED
    BY <2>1, <2>2, <2>8, <2>9 DEF CommandInv, SkipInv, NameInv, SongInv, EndInv, Command!AcceptedIsUnderstood,
                            Command!PlainUsageAccepted
<1>4. CASE w2 # 0 /\ ~Command!EndsName(Command!Char)
  <2>1. /\ w3' = "name" /\ Command!Eat /\ w4' = Append(w4, Command!Char)
        /\ Command!Spill(Len(w4), Command!Code(Command!Char))
    BY <1>4 DEF Command!Name
  <2> PICK h : h = Here
    OBVIOUS
  <2>2. w2' \in 0..Len(w1) /\ Here' = h + 1
    BY <2>1, <1>0, <1>4, Eaten
  <2>3. Command!Char = w1[Here] /\ Here \in 1..Len(w1) /\ Command!Char \in Command!Chars
    BY <1>0, <1>4, HereType DEF CommandType
  <2>4. CommandType'
    BY <2>1, <2>2, <2>3, <1>0 DEF CommandType
  <2>5. Named(i, h + 1)'
    <3>1. /\ w4 \in Seq(Command!Chars) /\ Len(w1) \in Nat /\ i \in 1..Len(w1) /\ i <= Here
          /\ Len(w4) = Here - i
      BY <1>0, <1>1, HereType DEF CommandType, Named
    <3>2. Len(w4') = (h + 1) - i
      BY <2>1, <2>3, <3>1
    <3>3. ASSUME NEW k \in i..((h + 1) - 1)
          PROVE  ~Command!EndsName(w1[k]) /\ w4'[k - i + 1] = w1[k]
      <4>1. CASE k = Here
        BY <4>1, <3>1, <2>1, <2>3, <1>4
      <4>2. CASE k # Here
        <5>1. k \in i..(Here - 1) /\ k - i + 1 \in 1..Len(w4)
          BY <4>2, <3>1, <2>3
        <5>2. w4'[k - i + 1] = w4[k - i + 1]
          BY <5>1, <3>1, <2>1, <2>3
        <5> QED
          BY <5>1, <5>2, <1>1 DEF Named
      <4> QED
        BY <4>1, <4>2
    <3>4. Spaces(1, i)' /\ w1[i] # Command!Space
      BY <1>1 DEF Named, Spaces
    <3>5. h + 1 \in i..(Len(w1) + 1)
      BY <2>3, <3>1
    <3> QED
      BY <3>2, <3>3, <3>4, <3>5 DEF Named, Command!EndsName
  <2>a. Roomy' => Roomy /\ w5' = w5 /\ w6' = w6
    <3>1. Len(w4') = Len(w4) + 1
      BY <2>1, <2>3, <1>0 DEF CommandType
    <3>2. Roomy' => Roomy
      BY <3>1, <1>s DEF Roomy, Command!NameRoom
    <3> QED
      BY <3>2, <2>1, <1>t DEF Command!Spill
  <2>6. NameInv'
    BY <2>1, <2>2, <2>5, <2>a, <1>0 DEF NameInv
  <2>7. SlotInv'
    BY <2>a, <1>0 DEF SlotInv
  <2> QED
    BY <2>1, <2>4, <2>6, <2>7 DEF CommandInv, SkipInv, GapInv, SongInv, EndInv, Command!AcceptedIsUnderstood,
                            Command!PlainUsageAccepted
<1> QED
  BY <1>2, <1>3, <1>4

LEMMA GapStep ==
    ASSUME CommandInv, w3 = "song_skip", Command!Song, w1' = w1
    PROVE  CommandInv'
<1>0. CommandType /\ (Roomy => w5 = 0) /\ SlotInv
  BY DEF CommandInv, GapInv
<1>1. PICK i \in DOMAIN w1 : \E q \in DOMAIN w1 : Closed(i, q) /\ q <= Here /\ Spaces(q, Here)
  BY DEF CommandInv, GapInv
<1>2. PICK q \in DOMAIN w1 : Closed(i, q) /\ q <= Here /\ Spaces(q, Here)
  BY <1>1
<1>3. CASE w2 = 0
  <2>1. w3' = "good" /\ w2' = w2 /\ Command!text' = Command!text /\ w4' = w4
    BY <1>3 DEF Command!Song, Command!Goto, Command!text, Command!AfterSkip
  <2>2. q \in 1..Len(w1) /\ Len(w1) \in Nat /\ Here = Len(w1) + 1
    BY <1>0, <1>3, HereType
  <2>3. w1[q] = Command!Space
    <3>1. q \in q..(Here - 1)
      BY <2>2
    <3> QED
      BY <3>1, <1>2 DEF Spaces
  <2>4. i < q
    BY <2>3, <1>0, <1>2, NoName, DigitIsNoBlank
  <2>5. Roomy => Understood
    BY <2>2, <2>4, <1>0, <1>2, OneWord DEF Closed, SlotInv
  <2> QED
    BY <2>1, <2>5, <1>0, Judged
<1>4. CASE w2 # 0 /\ Command!Char # Command!Space
  <2>1. w3' = "song" /\ w2' = w2 /\ w4' = w4 /\ w5' = 0 /\ w6' = w6
    BY <1>4 DEF Command!Song
  <2>2. CommandType'
    BY <2>1, <1>0 DEF CommandType
  <2> PICK h : h = Here
    OBVIOUS
  <2>3. h \in 1..Len(w1) /\ h \in DOMAIN w1 /\ Len(w1) \in Nat /\ w1[h] # Command!Space /\ q \in Nat
    BY <1>0, <1>4, HereType
  <2>4. Command!Worth(h)[h - 1] = 0
    BY <2>3, <1>0, WorthUnfolds DEF CommandType
  <2>5. Here' = h
    BY <2>1 DEF Here
  <2>6. Command!Worth(h)' = Command!Worth(h)
    BY SameTail
  <2>7. Spaces(q, h)'
    BY <1>2 DEF Spaces
  <2>8. w5' = Command!Worth(h)'[h - 1] % 256 /\ Command!Worth(h)'[h - 1] \in Nat
    BY <2>1, <2>4, <2>6, <1>0
  <2>9. Numbered(q, h)'
    <3>1. h \in q..h /\ h <= Len(w1)
      BY <2>3, <1>2
    <3>2. \A k \in h..(h - 1) : w1[k] \in DOMAIN Command!Digit
      BY <2>3
    <3> QED
      BY <3>1, <3>2, <2>3, <2>5, <2>7, <2>8 DEF Numbered
  <2>10. Closed(i, q)'
    BY <2>1, <1>2, SameName
  <2>11. SongInv'
    BY <2>3, <2>9, <2>10 DEF SongInv
  <2>12. SlotInv'
    BY <2>1, <1>0 DEF SlotInv, Roomy, Command!NameRoom
  <2> QED
    BY <2>1, <2>2, <2>11, <2>12 DEF CommandInv, SkipInv, NameInv, GapInv, EndInv, Command!AcceptedIsUnderstood,
                             Command!PlainUsageAccepted
<1>5. CASE w2 # 0 /\ Command!Char = Command!Space
  <2>1. w3' = "song_skip" /\ Command!Eat /\ w4' = w4 /\ w5' = w5 /\ w6' = w6
    BY <1>5 DEF Command!Song, Command!text
  <2> PICK h : h = Here
    OBVIOUS
  <2>2. w2' \in 0..Len(w1) /\ Here' = h + 1
    BY <2>1, <1>0, <1>5, Eaten
  <2>3. CommandType'
    BY <2>1, <2>2, <1>0 DEF CommandType
  <2>4. h \in Int /\ q \in Int /\ w1[h] = Command!Space /\ q <= h + 1
    BY <1>0, <1>2, <1>5, HereType
  <2>5. Spaces(q, h + 1)
    BY <2>4, <1>2, OneMoreSpace
  <2>6. Spaces(q, h + 1)'
    BY <2>5 DEF Spaces
  <2>7. Closed(i, q)'
    BY <2>1, <1>2, SameName
  <2>8. GapInv'
    BY <2>1, <2>2, <2>4, <2>6, <2>7, <1>0 DEF GapInv, Roomy, Command!NameRoom
  <2>9. SlotInv'
    BY <2>1, <1>0 DEF SlotInv, Roomy, Command!NameRoom
  <2> QED
    BY <2>1, <2>3, <2>8, <2>9 DEF CommandInv, SkipInv, NameInv, SongInv, EndInv, Command!AcceptedIsUnderstood,
                            Command!PlainUsageAccepted
<1> QED
  BY <1>3, <1>4, <1>5

\* One byte that takes a digit holds the number modulo 256.
LEMMA OneDigitMore ==
    ASSUME NEW v \in Nat, NEW d \in Nat
    PROVE  ((v % 256) * 10 + d) % 256 = (10 * v + d) % 256
<1> PICK m \in 0..255, t \in Nat : v = 256 * t + m
  <2>1. v % 256 \in 0..255 /\ (v \div 256) \in Nat /\ v = 256 * (v \div 256) + (v % 256)
    OBVIOUS
  <2> QED
    BY <2>1
<1>1. v % 256 = m
  OBVIOUS
<1>2. 10 * v + d = 256 * (10 * t) + (m * 10 + d)
  OBVIOUS
<1> PICK x \in Nat, y \in Nat : x = 10 * t /\ y = m * 10 + d
  OBVIOUS
<1>3. (256 * x + y) % 256 = y % 256
  OBVIOUS
<1> QED
  BY <1>1, <1>2, <1>3

LEMMA SongStep ==
    ASSUME CommandInv, w3 = "song", Command!Song, w1' = w1
    PROVE  CommandInv'
<1>0. CommandType /\ SlotInv
  BY DEF CommandInv
<1>1. PICK i \in DOMAIN w1 : \E q, j \in DOMAIN w1 : Closed(i, q) /\ Numbered(q, j)
  BY DEF CommandInv, SongInv
<1>2. PICK q \in DOMAIN w1 : \E j \in DOMAIN w1 : Closed(i, q) /\ Numbered(q, j)
  BY <1>1
<1>3. PICK j \in DOMAIN w1 : Closed(i, q) /\ Numbered(q, j)
  BY <1>2
<1>4. CASE w2 = 0
  <2>1. w3' = "slot_skip" /\ w2' = w2 /\ w4' = w4 /\ w5' = w5 /\ w6' = w6
    BY <1>4 DEF Command!Song, Command!Goto, Command!text
  <2>2. CommandType'
    BY <2>1, <1>0 DEF CommandType
  <2>3. Here' = Here /\ Command!Worth(j)' = Command!Worth(j)
    BY <2>1, SameTail DEF Here
  <2>4. Numbered(q, j)'
    BY <2>1, <2>3, <1>3 DEF Numbered, Spaces
  <2>5. Closed(i, q)'
    BY <2>1, <1>3, SameName
  <2>6. SongInv' /\ EndInv'
    BY <2>1, <2>4, <2>5, <1>4 DEF SongInv, EndInv
  <2>7. SlotInv'
    BY <2>1, <1>0 DEF SlotInv, Roomy, Command!NameRoom
  <2> QED
    BY <2>1, <2>2, <2>6, <2>7 DEF CommandInv, SkipInv, NameInv, GapInv, Command!AcceptedIsUnderstood,
                            Command!PlainUsageAccepted
<1>5. CASE w2 # 0 /\ Command!Char \notin DOMAIN Command!Digit
  <2>1. w3' = "bad" /\ w2' = w2 /\ Command!text' = Command!text /\ w4' = w4
    BY <1>5 DEF Command!Song, Command!Goto, Command!text
  <2>2. Unusual
    BY <1>0, <1>3, <1>5, HereType, NotPlain
  <2> QED
    BY <2>1, <2>2, <1>0, Judged
<1>6. CASE w2 # 0 /\ Command!Char \in DOMAIN Command!Digit
  <2>1. /\ w3' = "song" /\ Command!Eat /\ w4' = w4 /\ w6' = w6
        /\ w5' = (w5 * 10 + Command!Digit[Command!Char]) % 256
    BY <1>6 DEF Command!Song, Command!PlusDigit
  <2> PICK h : h = Here
    OBVIOUS
  <2>2. w2' \in 0..Len(w1) /\ Here' = h + 1
    BY <2>1, <1>0, <1>6, Eaten
  <2>3. CommandType'
    BY <2>1, <2>2, <1>0 DEF CommandType
  <2>4. /\ h \in 1..Len(w1) /\ Len(w1) \in Nat /\ j \in 1..Len(w1) /\ q \in Nat
        /\ w1[h] = Command!Char
    BY <1>0, <1>6, HereType
  <2>5. /\ j \in q..h /\ Spaces(q, j) /\ w1[j] # Command!Space
        /\ \A k \in j..(h - 1) : w1[k] \in DOMAIN Command!Digit
        /\ Command!Worth(j)[h - 1] \in Nat /\ w5 = Command!Worth(j)[h - 1] % 256
    BY <1>3 DEF Numbered
  <2>6. \A k \in j..h : w1[k] \in DOMAIN Command!Digit
    <3>1. ASSUME NEW k \in j..h PROVE w1[k] \in DOMAIN Command!Digit
      <4>1. k = h \/ k \in j..(h - 1)
        BY <2>4
      <4> QED
        BY <4>1, <2>4, <2>5, <1>6
    <3> QED
      BY <3>1
  <2>7. h \in Command!Word(j)
    BY <2>4, <2>5, <2>6, DigitIsNoBlank DEF Command!Word, Command!Blank
  <2>8. Command!Worth(j)[h] = 10 * Command!Worth(j)[h - 1] + Command!Digit[w1[h]]
    <3>1. w1[h] \in DOMAIN Command!Digit
      BY <2>4, <1>6
    <3>2. w1 \in Seq(Command!Chars)
      BY <1>0 DEF CommandType
    <3>3. \A k \in 1..Len(w1) :
              k \in Command!Word(j) /\ w1[k] \in DOMAIN Command!Digit =>
                  Command!Worth(j)[k] = 10 * Command!Worth(j)[k - 1] + Command!Digit[w1[k]]
      BY <3>2, WorthUnfolds
    <3> QED
      BY <3>1, <3>3, <2>4, <2>7
  <2>9. Command!Digit[w1[h]] \in Nat
    BY <2>4, <1>6, DigitIsNumber
  <2>10. Command!Worth(j)[h] \in Nat /\ w5' = Command!Worth(j)[h] % 256
    <3>1. PICK v \in Nat : v = Command!Worth(j)[h - 1]
      BY <2>5
    <3>2. PICK d \in Nat : d = Command!Digit[w1[h]]
      BY <2>9
    <3>3. Command!Worth(j)[h] = 10 * v + d
      BY <3>1, <3>2, <2>8
    <3>4. w5' = ((v % 256) * 10 + d) % 256
      BY <3>1, <3>2, <2>1, <2>4, <2>5
    <3> QED
      BY <3>3, <3>4, OneDigitMore
  <2>11. Command!Worth(j)' = Command!Worth(j)
    BY SameTail
  <2>12. Numbered(q, j)'
    <3>1. j \in q..(h + 1) /\ j <= Len(w1) /\ (h + 1) - 1 = h
      BY <2>4, <2>5
    <3>2. Spaces(q, j)'
      BY <2>5 DEF Spaces
    <3> QED
      BY <3>1, <3>2, <2>2, <2>5, <2>6, <2>10, <2>11 DEF Numbered
  <2>13. Closed(i, q)'
    BY <2>1, <1>3, SameName
  <2>14. SongInv'
    BY <2>12, <2>13 DEF SongInv
  <2>15. SlotInv'
    BY <2>1, <1>0 DEF SlotInv, Roomy, Command!NameRoom
  <2> QED
    BY <2>1, <2>3, <2>14, <2>15 DEF CommandInv, SkipInv, NameInv, GapInv, EndInv, Command!AcceptedIsUnderstood,
                             Command!PlainUsageAccepted
<1> QED
  BY <1>4, <1>5, <1>6

LEMMA SlotStep ==
    ASSUME CommandInv, Command!SccSlot
    PROVE  CommandInv'
<1>0. CommandType /\ SlotInv /\ w3 = "slot_skip" /\ w2 = 0
  BY DEF CommandInv, Command!SccSlot, CommandType, EndInv
<1>1. w3' = "good" /\ w2' = w2 /\ Command!text' = Command!text /\ w1' = w1 /\ w4' = w4
  BY <1>0 DEF Command!SccSlot, Command!Goto, Command!text
<1>2. PICK i \in DOMAIN w1 : \E q, j \in DOMAIN w1 : Closed(i, q) /\ Numbered(q, j)
  BY <1>0 DEF CommandInv, SongInv
<1>3. PICK q \in DOMAIN w1 : \E j \in DOMAIN w1 : Closed(i, q) /\ Numbered(q, j)
  BY <1>2
<1>4. PICK j \in DOMAIN w1 : Closed(i, q) /\ Numbered(q, j)
  BY <1>3
<1>5. Roomy => Understood
  BY <1>0, <1>4, TwoWords DEF SlotInv
<1> QED
  BY <1>0, <1>1, <1>5, Judged

LEMMA CommandStay == CommandInv /\ UNCHANGED Command!vars => CommandInv'
<1> SUFFICES ASSUME CommandInv, UNCHANGED Command!vars PROVE CommandInv'
  OBVIOUS
<1>1. w1' = w1 /\ w2' = w2 /\ w3' = w3 /\ Command!text' = Command!text /\ w4' = w4 /\ w5' = w5 /\ w6' = w6
  BY DEF Command!vars, Command!text
<1>2. Here' = Here /\ \A j : Command!Worth(j)' = Command!Worth(j)
  BY <1>1, SameTail DEF Here
<1>3. \A m, n : Spaces(m, n)' = Spaces(m, n)
  BY <1>1 DEF Spaces
<1>4. \A q, j : Numbered(q, j)' = Numbered(q, j)
  BY <1>1, <1>2, <1>3 DEF Numbered
<1>5. CommandType' /\ SkipInv' /\ NameInv' /\ GapInv' /\ SongInv' /\ EndInv' /\ SlotInv'
  BY <1>1, <1>2, <1>3, <1>4, SameName
     DEF CommandInv, CommandType, SkipInv, NameInv, GapInv, SongInv, EndInv, SlotInv, Roomy, Command!NameRoom
<1>6. (Understood => Understood') /\ (Unusual => Unusual')
  BY <1>1, SameMeaning
<1>7. Command!AcceptedIsUnderstood' /\ Command!PlainUsageAccepted'
  BY <1>1, <1>6 DEF CommandInv, Command!AcceptedIsUnderstood, Command!PlainUsageAccepted, Understood, Unusual,
                     Roomy, Command!NameRoom
<1> QED
  BY <1>5, <1>7 DEF CommandInv

LEMMA CommandInit == CommandTails \subseteq Seq(Command!Chars) /\ Command!Init => CommandInv
BY DEF Command!Init, CommandInv, CommandType, SkipInv, NameInv, GapInv, SongInv, EndInv, SlotInv, Spaces, Here,
       Command!AcceptedIsUnderstood, Command!PlainUsageAccepted

LEMMA CommandNext == CommandInv /\ [Command!Next]_(Command!vars) => CommandInv'
<1> SUFFICES ASSUME CommandInv, [Command!Next]_(Command!vars) PROVE CommandInv'
  OBVIOUS
<1>1. CASE Command!Name /\ w1' = w1
  BY <1>1, SkipStep, NameStep DEF Command!Name
<1>2. CASE Command!Song /\ w1' = w1
  BY <1>2, GapStep, SongStep DEF Command!Song
<1> QED
  BY <1>1, <1>2, SlotStep, CommandStay DEF Command!Next, Command!Parsed

-----------------------------------------------------------------------------
\* The same for the instance that runs it beside the loaders.
CommandReadInv == program = "command" => CommandInv

LEMMA CommandInvariant == LoadersSpec => []CommandReadInv
<1>1. LoadersInit => CommandReadInv
  BY CommandInit, TailAssumption DEF LoadersInit, CommandReadInv
<1>2. CommandReadInv /\ [LoadersNext]_all => CommandReadInv'
  <2> SUFFICES ASSUME CommandReadInv, [LoadersNext]_all, program' = "command" PROVE CommandInv'
    BY DEF CommandReadInv
  <2>1. program = "command" /\ CommandInv
    BY DEF CommandReadInv, LoadersNext, all, RunSparse, RunDos2, RunCommand, RunCompact, RunKeys
  <2>2. CASE RunCommand
    BY <2>1, <2>2, CommandNext DEF RunCommand
  <2>3. CASE UNCHANGED all
    <3>1. UNCHANGED Command!vars
      BY <2>3 DEF all, work, Command!vars, Command!text
    <3> QED
      BY <3>1, <2>1, CommandNext
  <2> QED
    BY <2>1, <2>2, <2>3 DEF LoadersNext, RunSparse, RunDos2, RunCompact, RunKeys
<1> QED
  BY <1>1, <1>2, PTL DEF LoadersSpec

\* Whatever tail parse_command_line accepts with a name that fits the bytes
\* nobody else writes (111 characters and a zero), filename is the first word,
\* song_number the second one's value modulo 256, or 0 without one, and scc_slot
\* keeps its default.
THEOREM AcceptedMeansTyped == LoadersSpec => []AcceptedIsUnderstood
<1>1. CommandReadInv => AcceptedIsUnderstood
  BY DEF CommandReadInv, CommandInv, AcceptedIsUnderstood
<1> QED
  BY <1>1, CommandInvariant, PTL

\* A file name alone, or one and a number after spaces that ends the tail, is
\* never refused, however long the tail.
THEOREM UsageIsAccepted == LoadersSpec => []PlainUsageAccepted
<1>1. CommandReadInv => PlainUsageAccepted
  BY DEF CommandReadInv, CommandInv, PlainUsageAccepted
<1> QED
  BY <1>1, CommandInvariant, PTL
=============================================================================
