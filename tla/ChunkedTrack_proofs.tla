-------------------------- MODULE ChunkedTrack_proofs --------------------------
(***************************************************************************)
(* A track cut into chunks plays like the track in one piece, and the      *)
(* track plays what its frames say, for frames of any number, any delays   *)
(* and pages of any size.                                                  *)
(***************************************************************************)
EXTENDS ChunkedTrack, FiniteSetTheorems, TLAPS

\* A track has frames, and voices have volumes.
Sane ==
    /\ MaxDelay \in Nat /\ Capacity \in Nat /\ Fillers \subseteq Nat
    /\ \A t \in Tracks :
          /\ t.frames \in Seq([Voices -> [tone : Nat, vol : Nat]]) \ {<<>>}
          /\ t.loop \in BOOLEAN

-----------------------------------------------------------------------------
\* A set of numbers has a least one.
LEMMA LeastNumber ==
    ASSUME NEW T, T \subseteq Nat, T # {}
    PROVE  \E x \in T : \A y \in T : x <= y
<1>1. IsWellFoundedOn(OpToRel(<, Nat), Nat)
  BY Zenon, NatLessThanWellFounded
<1>2. PICK x \in T : \A y \in T : <<y, x>> \notin OpToRel(<, Nat)
  BY Zenon, <1>1, WFMin
<1>3. ASSUME NEW y \in T PROVE x <= y
  <2>1. y \in Nat /\ x \in Nat
    OBVIOUS
  <2>2. ~(y < x)
    BY Zenon, <1>2, <2>1 DEF OpToRel
  <2> QED
    BY <2>1, <2>2
<1> QED
  BY <1>2, <1>3

\* Induction over the numbers of a set.
LEMMA Induction ==
    ASSUME NEW S, 0 \in S, \A n \in Nat : n \in S => n + 1 \in S
    PROVE  \A n \in Nat : n \in S
<1> SUFFICES ASSUME {n \in Nat : n \notin S} # {} PROVE FALSE
  OBVIOUS
<1>1. PICK x \in {n \in Nat : n \notin S} : \A y \in {n \in Nat : n \notin S} : x <= y
  BY LeastNumber
<1>2. x # 0 /\ x - 1 \in Nat /\ (x - 1) + 1 = x
  BY <1>1
<1>3. x - 1 \in S
  BY <1>1, <1>2
<1> QED
  BY <1>1, <1>2, <1>3

Iterates(g, base, F, last) ==
    g[0] = base /\ \A k \in 1..last : g[k] = F[<<k, g[k - 1]>>]

\* A function defined by its value at 0 and a step from each value to the next
\* exists.
LEMMA Recursion ==
    ASSUME NEW V, NEW base \in V, NEW F \in [Nat \X V -> V], NEW last \in Nat
    PROVE  \E g \in [0..last -> V] : Iterates(g, base, F, last)
<1> DEFINE Good(n, g) == g[0] = base /\ \A k \in 1..n : g[k] = F[<<k, g[k - 1]>>]
<1> DEFINE S == {n \in Nat : \E g \in [0..n -> V] : Good(n, g)}
<1>1. 0 \in S
  <2>1. [k \in 0..0 |-> base] \in [0..0 -> V] /\ Good(0, [k \in 0..0 |-> base])
    OBVIOUS
  <2> QED
    BY <2>1
<1>2. ASSUME NEW n \in Nat, n \in S PROVE n + 1 \in S
  <2>1. PICK g \in [0..n -> V] : Good(n, g)
    BY <1>2
  <2> DEFINE h == [k \in 0..(n + 1) |-> IF k = n + 1 THEN F[<<n + 1, g[n]>>] ELSE g[k]]
  <2>2. h \in [0..(n + 1) -> V]
    OBVIOUS
  <2>3. h[0] = base
    BY <2>1
  <2>4. ASSUME NEW k \in 1..(n + 1) PROVE h[k] = F[<<k, h[k - 1]>>]
    <3>0. k \in 0..(n + 1) /\ k - 1 \in 0..(n + 1) /\ k - 1 # n + 1
      OBVIOUS
    <3>1. h[k - 1] = g[k - 1]
      BY <3>0
    <3>2. CASE k = n + 1
      <4>1. h[k] = F[<<n + 1, g[n]>>] /\ k - 1 = n
        BY <3>0, <3>2
      <4> QED
        BY Zenon, <4>1, <3>1, <3>2
    <3>3. CASE k # n + 1
      <4>1. k \in 1..n
        BY <3>3
      <4>2. g[k] = F[<<k, g[k - 1]>>]
        BY <4>1, <2>1
      <4>3. h[k] = g[k]
        BY <3>0, <3>3
      <4> QED
        BY Zenon, <4>2, <4>3, <3>1
    <3> QED
      BY <3>2, <3>3
  <2>5. Good(n + 1, h)
    BY <2>3, <2>4
  <2> HIDE DEF h, Good
  <2> QED
    BY <2>2, <2>5
<1> HIDE DEF S
<1>3. \A n \in Nat : n \in S
  BY <1>1, <1>2, Induction
<1>4. last \in S
  BY <1>3
<1> QED
  BY <1>4 DEF S, Iterates

\* The greatest of some of the first n numbers is one of them.
LEMMA GreatestNumber ==
    ASSUME NEW n \in Nat, NEW T, T \subseteq 1..n, T # {}
    PROVE  Max(T) \in T /\ \A y \in T : y <= Max(T)
<1> DEFINE U == {n - x : x \in T}
<1>1. U \subseteq Nat /\ U # {}
  <2>1. \A x \in T : x \in Nat /\ n - x \in Nat
    OBVIOUS
  <2>2. PICK x : x \in T
    OBVIOUS
  <2>3. n - x \in U
    BY <2>2
  <2>4. U \subseteq Nat
    BY <2>1
  <2> QED
    BY <2>3, <2>4
<1>2. PICK u \in U : \A y \in U : u <= y
  BY <1>1, LeastNumber
<1>3. PICK x \in T : u = n - x
  BY <1>2
<1>4. \A y \in T : x >= y
  <2>1. ASSUME NEW y \in T PROVE x >= y
    <3>1. u <= n - y
      BY <1>2
    <3> QED
      BY <3>1, <1>3
  <2> QED
    BY <2>1
<1>5. Max(T) \in T /\ \A y \in T : Max(T) >= y
  BY <1>4, Zenon DEF Max
<1> QED
  BY <1>5

\* What a cell holds after blocks were laid over a page.
-----------------------------------------------------------------------------
\* Sequences of anything.
IsASeq(s) == s = [i \in DOMAIN s |-> s[i]]

\* The length of a sequence is that of its domain.
LEMMA LenIs ==
    ASSUME NEW s, NEW n \in Nat, DOMAIN s = 1..n, IsASeq(s)
    PROVE  Len(s) = n
<1>1. s = [i \in 1..n |-> s[i]]
  BY DEF IsASeq
<1>2. s \in Seq({s[i] : i \in 1..n})
  BY <1>1
<1> QED
  BY <1>2

-----------------------------------------------------------------------------
\* Which frames are stored.

Frames == track.frames \in Seq([Voices -> [tone : Nat, vol : Nat]]) /\ track.frames # <<>>

\* The events are frames of the track, the first of them among them.
LEMMA EventsAreFrames ==
    ASSUME Frames
    PROVE  /\ Len(track.frames) \in Nat
           /\ EventFrames \subseteq 1..Len(track.frames) /\ 1 \in EventFrames
           /\ LastEvent \in EventFrames /\ \A e \in EventFrames : e <= LastEvent
           /\ LastEvent \in Nat /\ \A e \in EventFrames : e \in Nat /\ e >= 1
<1>1. DOMAIN track.frames = 1..Len(track.frames) /\ Len(track.frames) \in Nat
      /\ Len(track.frames) >= 1
  BY DEF Frames
<1>2. EventFrames \subseteq 1..Len(track.frames) /\ 1 \in EventFrames
  BY <1>1 DEF EventFrames
<1>3. Max(EventFrames) \in EventFrames /\ \A e \in EventFrames : e <= Max(EventFrames)
  BY <1>1, <1>2, GreatestNumber
<1>4. \A e \in EventFrames : e \in Nat /\ e >= 1
  BY <1>2, <1>1
<1>5. LastEvent \in EventFrames /\ \A e \in EventFrames : e <= LastEvent
  BY <1>3 DEF LastEvent
<1> QED
  BY <1>1, <1>2, <1>4, <1>5

\* The last event up to a frame.
LEMMA EventUpTo ==
    ASSUME Frames, NEW f \in Nat, f >= 1
    PROVE  LET before == {e \in EventFrames : e <= f}
           IN Max(before) \in before /\ \A e \in before : e <= Max(before)
<1> DEFINE before == {e \in EventFrames : e <= f}
<1>1. before \subseteq 1..Len(track.frames) /\ 1 \in before
  BY EventsAreFrames
<1> HIDE DEF before
<1>2. Max(before) \in before /\ \A e \in before : e <= Max(before)
  BY <1>1, EventsAreFrames, GreatestNumber
<1> QED
  BY <1>2 DEF before

\* A multiple leaves no remainder.
LEMMA Division ==
    ASSUME NEW m \in Nat \ {0}, NEW a \in Nat, NEW q \in Int, a = m * q
    PROVE  a % m = 0
OBVIOUS

\* Nor does the next one.
LEMMA RoundAgain ==
    ASSUME NEW a \in Nat, NEW m \in Nat \ {0}, a % m = 0
    PROVE  (a + m) % m = 0
<1>1. a = m * (a \div m) + (a % m) /\ a \div m \in Int
  OBVIOUS
<1>2. \A q \in Int : a = m * q => a + m = m * (q + 1)
  OBVIOUS
<1>3. a = m * (a \div m)
  BY <1>1
<1>4. a + m = m * ((a \div m) + 1) /\ (a \div m) + 1 \in Int
  BY <1>1, <1>2, <1>3
<1> DEFINE b == a + m
<1>5. b \in Nat /\ b = m * ((a \div m) + 1)
  BY <1>4
<1> HIDE DEF b
<1>6. b % m = 0
  BY <1>4, <1>5, Division
<1> QED
  BY <1>6 DEF b

\* Every event is stored, and what is stored leaves no gap a delay could not
\* name.
LEMMA StoredWell ==
    ASSUME Frames, MaxDelay \in Nat
    PROVE  /\ StoredFrames \subseteq 1..LastEvent
           /\ EventFrames \subseteq StoredFrames
           /\ \A f \in StoredFrames : f < LastEvent =>
                \E g \in StoredFrames : f < g /\ g <= f + EndMark
<1>1. StoredFrames \subseteq 1..LastEvent
  BY DEF StoredFrames
<1>2. EndMark \in Nat \ {0}
  BY DEF EndMark
<1>3. ASSUME NEW f \in EventFrames PROVE f \in StoredFrames
  <2>1. f \in 1..LastEvent /\ f \in Nat /\ f >= 1
    BY EventsAreFrames
  <2> DEFINE before == {e \in EventFrames : e <= f}
  <2>2. Max(before) \in before /\ \A e \in before : e <= Max(before)
    BY <2>1, EventUpTo
  <2>3. f \in before
    BY <2>1
  <2>4. Max(before) = f
    <3>1. Max(before) \in Nat /\ Max(before) <= f
      BY <2>2, EventsAreFrames
    <3>2. f <= Max(before)
      BY <2>2, <2>3
    <3> HIDE DEF before
    <3> QED
      BY <3>1, <3>2, <2>1
  <2>5. (f - Max(before)) % EndMark = 0
    BY <2>1, <2>4, <1>2
  <2> QED
    BY <2>1, <2>5 DEF StoredFrames
<1>4. ASSUME NEW f \in StoredFrames, f < LastEvent
      PROVE  \E g \in StoredFrames : f < g /\ g <= f + EndMark
  <2>1. f \in Nat /\ f >= 1 /\ (f - Max({e \in EventFrames : e <= f})) % EndMark = 0
    BY <1>1, EventsAreFrames DEF StoredFrames
  <2>2. CASE \E e \in EventFrames : f < e /\ e <= f + EndMark
    BY <2>2, <1>3
  <2>3. CASE ~ \E e \in EventFrames : f < e /\ e <= f + EndMark
    <3>1. LastEvent > f + EndMark
      BY <2>3, <1>2, <1>4, <2>1, EventsAreFrames
    <3>2. {e \in EventFrames : e <= f + EndMark} = {e \in EventFrames : e <= f}
      BY <2>3, <2>1, <1>2, EventsAreFrames
    <3> DEFINE m == Max({e \in EventFrames : e <= f})
    <3>3. m \in Nat /\ m <= f
      BY <2>1, EventUpTo, EventsAreFrames
    <3> HIDE DEF m
    <3>4. (f - m) % EndMark = 0 /\ f - m \in Nat
      BY <2>1, <3>3 DEF m
    <3>5. ((f - m) + EndMark) % EndMark = 0
      BY <3>4, <1>2, RoundAgain
    <3>6. ((f + EndMark) - m) % EndMark = 0
      <4>1. (f - m) + EndMark = (f + EndMark) - m
        BY <3>3, <2>1, <1>2
      <4> QED
        BY <3>5, <4>1
    <3>7. f + EndMark \in 1..LastEvent
      BY <3>1, <2>1, <1>2, EventsAreFrames
    <3>8. f + EndMark \in StoredFrames
      BY <3>6, <3>7, <3>2 DEF StoredFrames, m
    <3> QED
      BY <3>8, <2>1, <1>2
  <2> QED
    BY <2>2, <2>3
<1> QED
  BY <1>1, <1>3, <1>4

-----------------------------------------------------------------------------
\* The records in their order.

UpTo(f) == {g \in StoredFrames : g <= f}
Count == Cardinality(StoredFrames)

\* The frames stored are finitely many, from the first frame to the last event.
LEMMA Counted ==
    ASSUME Frames, MaxDelay \in Nat
    PROVE  /\ IsFiniteSet(StoredFrames) /\ Count \in Nat \ {0}
           /\ \A f \in Nat : IsFiniteSet(UpTo(f)) /\ Cardinality(UpTo(f)) \in 0..Count
           /\ 1 \in StoredFrames /\ LastEvent \in StoredFrames
           /\ LastEvent \in Nat
           /\ \A f \in StoredFrames : f \in Nat /\ f >= 1 /\ f <= LastEvent
<1>1. StoredFrames \subseteq 1..LastEvent /\ LastEvent \in Nat
      /\ 1 \in StoredFrames /\ LastEvent \in StoredFrames
  BY StoredWell, EventsAreFrames
<1>2. IsFiniteSet(1..LastEvent)
  BY <1>1, FS_Interval
<1>3. IsFiniteSet(StoredFrames)
  BY <1>1, <1>2, FS_Subset
<1>4. Count \in Nat
  BY <1>3, FS_CardinalityType DEF Count
<1>5. Count # 0
  BY <1>3, <1>1, FS_EmptySet DEF Count
<1>6. ASSUME NEW f \in Nat PROVE IsFiniteSet(UpTo(f)) /\ Cardinality(UpTo(f)) \in 0..Count
  <2>1. UpTo(f) \in SUBSET StoredFrames
    BY DEF UpTo
  <2>2. IsFiniteSet(UpTo(f)) /\ Cardinality(UpTo(f)) <= Count
    BY <2>1, <1>3, FS_Subset DEF Count
  <2>3. Cardinality(UpTo(f)) \in Nat
    BY <2>2, FS_CardinalityType
  <2> QED
    BY <2>2, <2>3, <1>4
<1>7. \A f \in StoredFrames : f \in Nat /\ f >= 1 /\ f <= LastEvent
  BY <1>1
<1> QED
  BY <1>1, <1>3, <1>4, <1>5, <1>6, <1>7

\* A later frame has more frames up to it.
LEMMA MoreUpTo ==
    ASSUME Frames, MaxDelay \in Nat, NEW f \in StoredFrames, NEW g \in StoredFrames, f < g
    PROVE  Cardinality(UpTo(f)) < Cardinality(UpTo(g))
<1>1. f \in Nat /\ g \in Nat /\ f >= 1 /\ g >= 1 /\ \A h \in StoredFrames : h \in Nat
  BY Counted
<1>2. UpTo(f) \in SUBSET UpTo(g) /\ g \in UpTo(g) /\ g \notin UpTo(f)
  <2>1. ASSUME NEW h \in UpTo(f) PROVE h \in UpTo(g)
    <3>1. h \in StoredFrames /\ h <= f
      BY DEF UpTo
    <3>2. h \in Nat /\ h <= g
      BY <3>1, <1>1
    <3> QED
      BY <3>1, <3>2 DEF UpTo
  <2>2. g \in UpTo(g)
    BY <1>1 DEF UpTo
  <2>3. g \notin UpTo(f)
    BY <1>1 DEF UpTo
  <2> QED
    BY <2>1, <2>2, <2>3
<1>3. IsFiniteSet(UpTo(f)) /\ IsFiniteSet(UpTo(g))
      /\ Cardinality(UpTo(f)) \in Nat /\ Cardinality(UpTo(g)) \in Nat
  BY <1>1, Counted
<1>4. Cardinality(UpTo(f)) <= Cardinality(UpTo(g)) /\ Cardinality(UpTo(f)) # Cardinality(UpTo(g))
  BY <1>2, <1>3, FS_Subset
<1> QED
  BY <1>3, <1>4

\* The frame stored after one that is not the last.
LEMMA NextStored ==
    ASSUME Frames, MaxDelay \in Nat, NEW f \in StoredFrames, f # LastEvent
    PROVE  \E g \in StoredFrames :
              /\ f < g /\ g <= f + EndMark
              /\ \A h \in StoredFrames : h <= f \/ g <= h
              /\ Cardinality(UpTo(g)) = Cardinality(UpTo(f)) + 1
<1>1. f \in Nat /\ f < LastEvent /\ LastEvent \in Nat /\ \A h \in StoredFrames : h \in Nat
  BY Counted
<1>2. PICK n \in StoredFrames : f < n /\ n <= f + EndMark
  BY <1>1, StoredWell
<1> DEFINE Later == {h \in StoredFrames : f < h}
<1>3. Later \subseteq Nat /\ Later # {}
  BY <1>2, <1>1
<1>4. PICK g \in Later : \A h \in Later : g <= h
  BY <1>3, LeastNumber
<1>5. g \in StoredFrames /\ g \in Nat /\ f < g /\ g <= n /\ n \in Nat /\ EndMark \in Nat
  BY <1>4, <1>2, <1>1 DEF EndMark
<1>6. \A h \in StoredFrames : h <= f \/ g <= h
  BY <1>4, <1>5, <1>1
<1>7. UpTo(g) = UpTo(f) \cup {g} /\ g \notin UpTo(f)
  <2>1. ASSUME NEW h \in StoredFrames PROVE h <= g <=> h <= f \/ h = g
    <3>1. h \in Nat /\ (h <= f \/ g <= h)
      BY <1>1, <1>6
    <3> QED
      BY <3>1, <1>5, <1>1
  <2>2. ~(g <= f)
    BY <1>5, <1>1
  <2>3. g \in StoredFrames
    BY <1>5
  <2> QED
    BY <2>1, <2>2, <2>3 DEF UpTo
<1>8. Cardinality(UpTo(g)) = Cardinality(UpTo(f)) + 1
  BY <1>7, <1>1, Counted, FS_AddElement
<1> QED
  BY <1>5, <1>6, <1>8, <1>2, <1>1

\* Record n is that of the n-th frame stored.
LEMMA NthStored ==
    ASSUME Frames, MaxDelay \in Nat
    PROVE  /\ \A n \in 1..Count : Stored(n) \in StoredFrames /\ Cardinality(UpTo(Stored(n))) = n
           /\ \A f \in StoredFrames, n \in Nat : Cardinality(UpTo(f)) = n => Stored(n) = f
           /\ Stored(1) = 1 /\ Stored(Count) = LastEvent
<1>1. ASSUME NEW n \in Nat, NEW f \in StoredFrames, Cardinality(UpTo(f)) = n
      PROVE  Stored(n) \in StoredFrames /\ Cardinality(UpTo(Stored(n))) = n /\ Stored(n) = f
  <2>1. Stored(n) \in StoredFrames /\ Cardinality(UpTo(Stored(n))) = n
    BY <1>1 DEF Stored, UpTo
  <2>2. ~(f < Stored(n)) /\ ~(Stored(n) < f)
    <3>1. f < Stored(n) => Cardinality(UpTo(f)) < Cardinality(UpTo(Stored(n)))
      BY <2>1, MoreUpTo
    <3>2. Stored(n) < f => Cardinality(UpTo(Stored(n))) < Cardinality(UpTo(f))
      BY <2>1, MoreUpTo
    <3> QED
      BY <3>1, <3>2, <2>1, <1>1
  <2>3. f \in Nat /\ Stored(n) \in Nat
    BY <2>1, Counted
  <2> QED
    BY <2>1, <2>2, <2>3
<1>2. Cardinality(UpTo(1)) = 1
  <2>1. UpTo(1) = {1}
    BY Counted DEF UpTo
  <2> QED
    BY <2>1, FS_Singleton
<1>3. Cardinality(UpTo(LastEvent)) = Count
  <2>1. UpTo(LastEvent) = StoredFrames
    BY Counted DEF UpTo
  <2> QED
    BY <2>1 DEF Count
<1> DEFINE S == {n \in Nat : n + 1 \in 1..Count =>
                               \E f \in StoredFrames : Cardinality(UpTo(f)) = n + 1}
<1>4. 0 \in S
  BY <1>2, Counted
<1>5. ASSUME NEW n \in Nat, n \in S PROVE n + 1 \in S
  <2> SUFFICES ASSUME (n + 1) + 1 \in 1..Count
               PROVE  \E g \in StoredFrames : Cardinality(UpTo(g)) = (n + 1) + 1
    OBVIOUS
  <2>1. n + 1 \in 1..Count /\ n + 1 # Count
    BY Counted
  <2>2. PICK f \in StoredFrames : Cardinality(UpTo(f)) = n + 1
    BY <2>1, <1>5
  <2>3. f # LastEvent
    BY <2>1, <2>2, <1>3
  <2>4. PICK g \in StoredFrames : Cardinality(UpTo(g)) = Cardinality(UpTo(f)) + 1
    BY <2>3, NextStored
  <2> QED
    BY <2>4, <2>2
<1>6. \A n \in Nat : n \in S
  <2> HIDE DEF S
  <2> QED
    BY <1>4, <1>5, Induction
<1>7. ASSUME NEW n \in 1..Count PROVE \E f \in StoredFrames : Cardinality(UpTo(f)) = n
  <2>1. n - 1 \in Nat /\ (n - 1) + 1 = n
    BY Counted
  <2>2. n - 1 \in S
    BY <1>6, <2>1
  <2> QED
    BY <2>1, <2>2
<1>8. \A n \in 1..Count : Stored(n) \in StoredFrames /\ Cardinality(UpTo(Stored(n))) = n
  BY <1>7, <1>1, Counted
<1>9. Stored(1) = 1 /\ Stored(Count) = LastEvent
  BY <1>1, <1>2, <1>3, Counted
<1> QED
  BY <1>8, <1>9, <1>1

\* From record to record.
LEMMA StoredInOrder ==
    ASSUME Frames, MaxDelay \in Nat, NEW n \in 1..Count, n + 1 <= Count
    PROVE  /\ Stored(n) \in Nat /\ Stored(n + 1) \in Nat
           /\ Stored(n) < Stored(n + 1) /\ Stored(n + 1) <= Stored(n) + EndMark
           /\ Stored(n) < LastEvent /\ Stored(n + 1) <= LastEvent
           /\ \A h \in StoredFrames : h <= Stored(n) \/ Stored(n + 1) <= h
<1> DEFINE f == Stored(n)
<1>1. f \in StoredFrames /\ Cardinality(UpTo(f)) = n /\ n \in Nat /\ n + 1 \in Nat
  BY NthStored
<1>2. Count \in Nat /\ Cardinality(UpTo(LastEvent)) = Count
  BY Counted, NthStored
<1>3. f # LastEvent
  BY <1>1, <1>2
<1> HIDE DEF f
<1>4. PICK g \in StoredFrames :
              /\ f < g /\ g <= f + EndMark
              /\ \A h \in StoredFrames : h <= f \/ g <= h
              /\ Cardinality(UpTo(g)) = Cardinality(UpTo(f)) + 1
  BY <1>1, <1>3, NextStored
<1>5. Stored(n + 1) = g
  BY <1>4, <1>1, NthStored
<1>6. f \in Nat /\ g \in Nat /\ f <= LastEvent /\ g <= LastEvent /\ LastEvent \in Nat
  BY <1>1, <1>4, Counted
<1> QED
  BY <1>3, <1>4, <1>5, <1>6 DEF f

\* There is a record for every frame stored, and a delay is no end mark.
LEMMA RecordsAre ==
    ASSUME Frames, MaxDelay \in Nat
    PROVE  /\ Len(Records) = Count /\ DOMAIN Records = 1..Count /\ IsASeq(Records)
           /\ Records # <<>>
           /\ \A n \in 1..Count : /\ Records[n].delay \in Nat
                                   /\ Records[n].delay # EndMark
<1>1. Count \in Nat \ {0} /\ Count = Cardinality(StoredFrames)
  BY Counted DEF Count
<1>2. DOMAIN Records = 1..Count /\ IsASeq(Records)
  BY <1>1 DEF Records, IsASeq
<1>3. Len(Records) = Count
  BY <1>1, <1>2, LenIs
<1>4. ASSUME NEW n \in 1..Count
      PROVE  Records[n].delay \in Nat /\ Records[n].delay # EndMark
  <2>1. Records[n].delay = Stored(n) - (IF n = 1 THEN 0 ELSE Stored(n - 1)) - 1
    BY <1>1 DEF Records
  <2>2. CASE n = 1
    BY <2>1, <2>2, NthStored DEF EndMark
  <2>3. CASE n # 1
    <3>1. n - 1 \in 1..Count /\ (n - 1) + 1 = n /\ n <= Count
      BY <2>3, <1>1
    <3>2. /\ Stored(n - 1) \in Nat /\ Stored(n) \in Nat
          /\ Stored(n - 1) < Stored(n) /\ Stored(n) <= Stored(n - 1) + EndMark
      BY <3>1, StoredInOrder
    <3>3. Records[n].delay = Stored(n) - Stored(n - 1) - 1
      BY <2>1, <2>3
    <3> QED
      BY <3>2, <3>3 DEF EndMark
  <2> QED
    BY <2>2, <2>3
<1> QED
  BY <1>1, <1>2, <1>3, <1>4
-----------------------------------------------------------------------------
\* Chunks.

\* Numbers that go up in steps of one reach all between the first and the last.
LEMMA Stairs ==
    ASSUME NEW N \in Nat, N >= 1, NEW c \in [1..N -> Nat], c[1] = 1,
           \A n \in 1..N : n > 1 => c[n] = c[n - 1] \/ c[n] = c[n - 1] + 1
    PROVE  /\ \A i \in 1..N, j \in 1..N : i <= j => c[i] <= c[j]
           /\ c[N] >= 1 /\ \A k \in 1..c[N] : \E i \in 1..N : c[i] = k
<1> DEFINE S == {n \in Nat : n + 1 \in 1..N =>
                    /\ \A i \in 1..(n + 1) : c[i] <= c[n + 1]
                    /\ c[n + 1] >= 1 /\ \A k \in 1..c[n + 1] : \E i \in 1..(n + 1) : c[i] = k}
<1>1. 0 \in S
  OBVIOUS
<1>2. ASSUME NEW n \in Nat, n \in S PROVE n + 1 \in S
  <2> SUFFICES ASSUME (n + 1) + 1 \in 1..N
               PROVE  /\ \A i \in 1..((n + 1) + 1) : c[i] <= c[(n + 1) + 1]
                      /\ c[(n + 1) + 1] >= 1
                      /\ \A k \in 1..c[(n + 1) + 1] : \E i \in 1..((n + 1) + 1) : c[i] = k
    OBVIOUS
  <2>1. n + 1 \in 1..N /\ ((n + 1) + 1) - 1 = n + 1 /\ (n + 1) + 1 > 1
    OBVIOUS
  <2>2. /\ \A i \in 1..(n + 1) : c[i] <= c[n + 1] /\ c[i] \in Nat
        /\ c[n + 1] >= 1 /\ \A k \in 1..c[n + 1] : \E i \in 1..(n + 1) : c[i] = k
    BY <1>2, <2>1
  <2>3. c[(n + 1) + 1] = c[n + 1] \/ c[(n + 1) + 1] = c[n + 1] + 1
    BY <2>1
  <2>4. c[n + 1] \in Nat /\ c[(n + 1) + 1] \in Nat
    BY <2>1
  <2>5. ASSUME NEW i \in 1..((n + 1) + 1) PROVE c[i] <= c[(n + 1) + 1]
    <3>1. CASE i = (n + 1) + 1
      BY <3>1, <2>4
    <3>2. CASE i # (n + 1) + 1
      <4>1. i \in 1..(n + 1)
        BY <3>2
      <4> QED
        BY <4>1, <2>2, <2>3, <2>4
    <3> QED
      BY <3>1, <3>2
  <2>6. ASSUME NEW k \in 1..c[(n + 1) + 1] PROVE \E i \in 1..((n + 1) + 1) : c[i] = k
    <3>1. CASE k = c[(n + 1) + 1]
      BY <3>1
    <3>2. CASE k # c[(n + 1) + 1]
      <4>1. k \in 1..c[n + 1]
        BY <3>2, <2>3, <2>4
      <4>2. PICK i \in 1..(n + 1) : c[i] = k
        BY <4>1, <2>2
      <4>3. i \in 1..((n + 1) + 1)
        OBVIOUS
      <4> QED
        BY <4>2, <4>3
    <3> QED
      BY <3>1, <3>2
  <2>7. c[(n + 1) + 1] >= 1
    BY <2>2, <2>3, <2>4
  <2> QED
    BY <2>5, <2>6, <2>7
<1>3. \A n \in Nat : n \in S
  <2> HIDE DEF S
  <2> QED
    BY <1>1, <1>2, Induction
<1>4. ASSUME NEW j \in 1..N
      PROVE  /\ \A i \in 1..j : c[i] <= c[j]
             /\ c[j] >= 1 /\ \A k \in 1..c[j] : \E i \in 1..j : c[i] = k
  <2>1. j - 1 \in Nat /\ (j - 1) + 1 = j
    OBVIOUS
  <2>2. j - 1 \in S
    BY <1>3, <2>1
  <2> QED
    BY <2>1, <2>2
<1>5. \A i \in 1..N, j \in 1..N : i <= j => c[i] <= c[j]
  <2> SUFFICES ASSUME NEW i \in 1..N, NEW j \in 1..N, i <= j PROVE c[i] <= c[j]
    OBVIOUS
  <2>1. i \in 1..j
    OBVIOUS
  <2> QED
    BY <2>1, <1>4
<1> HIDE DEF S
<1>6. N \in 1..N
  OBVIOUS
<1> QED
  BY <1>4, <1>5, <1>6

\* Where the parts that share a number begin and end.
PartsFrom(N, c, from) ==
    /\ from \in [1..(c[N] + 1) -> 1..(N + 1)]
    /\ from[1] = 1 /\ from[c[N] + 1] = N + 1
    /\ \A k \in 1..c[N] :
         /\ from[k] < from[k + 1]
         /\ from[k] = Min({n \in 1..N : c[n] = k})
         /\ from[k + 1] = Max({n \in 1..N : c[n] = k}) + 1

\* What rises in steps of one cuts a sequence into parts that follow on one another.
LEMMA Parts ==
    ASSUME NEW N \in Nat, N >= 1, NEW c \in [1..N -> Nat], c[1] = 1,
           \A n \in 1..N : n > 1 => c[n] = c[n - 1] \/ c[n] = c[n - 1] + 1
    PROVE  \E from : PartsFrom(N, c, from)
<1> DEFINE In(k) == {n \in 1..N : c[n] = k}
<1> DEFINE from == [k \in 1..(c[N] + 1) |-> IF k = c[N] + 1 THEN N + 1 ELSE Min(In(k))]
<1>1. /\ \A i \in 1..N, j \in 1..N : i <= j => c[i] <= c[j]
      /\ c[N] >= 1 /\ \A k \in 1..c[N] : \E i \in 1..N : c[i] = k
  BY Stairs
<1>2. c[N] \in Nat
  OBVIOUS
<1>3. ASSUME NEW k \in 1..c[N]
      PROVE  /\ Min(In(k)) \in 1..N /\ c[Min(In(k))] = k
             /\ \A y \in 1..N : c[y] = k => Min(In(k)) <= y
             /\ Max(In(k)) \in 1..N /\ c[Max(In(k))] = k
             /\ \A y \in 1..N : c[y] = k => y <= Max(In(k))
  <2>1. In(k) \subseteq 1..N /\ In(k) # {}
    BY <1>1
  <2> DEFINE T == In(k)
  <2> HIDE DEF T
  <2>2. T \subseteq 1..N /\ T # {}
    BY <2>1 DEF T
  <2>3. Max(T) \in T /\ \A y \in T : y <= Max(T)
    BY <2>2, GreatestNumber
  <2>4. T \subseteq Nat
    BY <2>2
  <2>5. \E x \in T : \A y \in T : x <= y
    BY <2>2, <2>4, LeastNumber
  <2>6. Min(T) \in T /\ \A y \in T : Min(T) <= y
    BY <2>5 DEF Min
  <2> QED
    BY <2>3, <2>6 DEF T
<1>4. ASSUME NEW k \in 1..c[N], k + 1 <= c[N] PROVE Min(In(k + 1)) = Max(In(k)) + 1
  <2> DEFINE m == Max(In(k))
  <2> DEFINE l == Min(In(k + 1))
  <2>1. m \in 1..N /\ c[m] = k /\ \A y \in 1..N : c[y] = k => y <= m
    BY <1>3
  <2>2. k + 1 \in 1..c[N]
    BY <1>2, <1>4
  <2>3. l \in 1..N /\ c[l] = k + 1 /\ \A y \in 1..N : c[y] = k + 1 => l <= y
    BY <2>2, <1>3
  <2> HIDE DEF m, l
  <2>4. m # N
    BY <2>1, <2>2, <1>4
  <2>5. m + 1 \in 1..N /\ m + 1 > 1 /\ (m + 1) - 1 = m /\ ~(m + 1 <= m)
    BY <2>1, <2>4
  <2>6. c[m + 1] = k \/ c[m + 1] = k + 1
    BY <2>5, <2>1
  <2>7. c[m + 1] = k + 1
    BY <2>6, <2>5, <2>1
  <2>8. l <= m + 1
    BY <2>3, <2>7, <2>5
  <2>9. ~(l <= m)
    <3>1. l <= m => c[l] <= c[m]
      BY <1>1, <2>1, <2>3
    <3> QED
      BY <3>1, <2>1, <2>3
  <2>10. l = m + 1
    BY <2>8, <2>9, <2>1, <2>3
  <2> QED
    BY <2>10 DEF l, m
<1>5. Max(In(c[N])) = N
  <2>1. c[N] \in 1..c[N] /\ N \in 1..N
    BY <1>1, <1>2
  <2>2. Max(In(c[N])) \in 1..N /\ N <= Max(In(c[N]))
    BY <2>1, <1>3
  <2> QED
    BY <2>2
<1>6. Min(In(1)) = 1
  <2>1. 1 \in 1..c[N] /\ 1 \in 1..N
    BY <1>1, <1>2
  <2>2. Min(In(1)) \in 1..N /\ Min(In(1)) <= 1
    BY <2>1, <1>3
  <2> QED
    BY <2>2
<1>7. ASSUME NEW k \in 1..c[N]
      PROVE  /\ Min(In(k)) <= Max(In(k))
             /\ IF k + 1 = c[N] + 1 THEN N + 1 = Max(In(k)) + 1 ELSE Min(In(k + 1)) = Max(In(k)) + 1
  <2>1. Min(In(k)) <= Max(In(k))
    BY <1>3
  <2>2. CASE k = c[N]
    BY <2>1, <2>2, <1>5
  <2>3. CASE k # c[N]
    <3>1. k + 1 <= c[N] /\ k + 1 # c[N] + 1
      BY <2>3, <1>2
    <3> QED
      BY <3>1, <2>1, <1>4
  <2> QED
    BY <2>2, <2>3
<1> HIDE DEF In
<1>8. from \in [1..(c[N] + 1) -> 1..(N + 1)]
  <2>1. ASSUME NEW k \in 1..(c[N] + 1), k # c[N] + 1 PROVE Min(In(k)) \in 1..(N + 1)
    <3>1. k \in 1..c[N]
      BY <2>1, <1>2
    <3>2. Min(In(k)) \in 1..N
      BY <3>1, <1>3
    <3> QED
      BY <3>2
  <2> QED
    BY <2>1
<1>9. from[1] = 1 /\ from[c[N] + 1] = N + 1
  BY <1>6, <1>1, <1>2
<1>10. ASSUME NEW k \in 1..c[N]
       PROVE  /\ from[k] < from[k + 1] /\ from[k] = Min(In(k)) /\ from[k + 1] = Max(In(k)) + 1
  <2>1. k \in 1..(c[N] + 1) /\ k + 1 \in 1..(c[N] + 1) /\ k # c[N] + 1
    BY <1>2
  <2>2. from[k] = Min(In(k)) /\ from[k + 1] = (IF k + 1 = c[N] + 1 THEN N + 1 ELSE Min(In(k + 1)))
    BY <2>1
  <2>3. from[k + 1] = Max(In(k)) + 1
    BY <2>2, <1>7
  <2>4. Min(In(k)) \in 1..N /\ Max(In(k)) \in 1..N /\ Min(In(k)) <= Max(In(k))
    BY <1>3, <1>7
  <2> HIDE DEF from
  <2>5. from[k] < from[k + 1]
    BY <2>2, <2>3, <2>4
  <2> QED
    BY <2>2, <2>3, <2>5
<1> HIDE DEF from
<1> QED
  BY <1>8, <1>9, <1>10 DEF In, PartsFrom

\* Cut satisfies its equation.
Sized(records) == \A n \in DOMAIN records : Size(records[n]) \in Nat

Grown(s, size) ==
    IF s.bytes > 0 /\ s.bytes + size > Capacity
    THEN [chunk |-> s.chunk + 1, bytes |-> size]
    ELSE [s EXCEPT !.bytes = @ + size]

\* The chunk an event is in, by recursion over the events before it.
LEMMA CutFound ==
    ASSUME NEW records, NEW N \in Nat, Len(records) = N, DOMAIN records = 1..N, Sized(records)
    PROVE  /\ Cut(records) \in [0..N -> [chunk : Nat, bytes : Nat]]
           /\ Cut(records)[0] = [chunk |-> 1, bytes |-> 0]
           /\ \A n \in 1..N : Cut(records)[n] = Grown(Cut(records)[n - 1], Size(records[n]))
<1> DEFINE V == [chunk : Nat, bytes : Nat]
<1> DEFINE F == [x \in Nat \X V |->
                   IF x[1] \in 1..N THEN Grown(x[2], Size(records[x[1]])) ELSE x[2]]
<1> DEFINE Is(cut) ==
      cut = [n \in 0..Len(records) |->
               IF n = 0 THEN [chunk |-> 1, bytes |-> 0]
               ELSE LET size == Size(records[n])
                    IN IF cut[n - 1].bytes > 0 /\ cut[n - 1].bytes + size > Capacity
                       THEN [chunk |-> cut[n - 1].chunk + 1, bytes |-> size]
                       ELSE [cut[n - 1] EXCEPT !.bytes = @ + size]]
<1>1. ASSUME NEW s \in V, NEW size \in Nat PROVE Grown(s, size) \in V
  BY DEF Grown
<1>2. F \in [Nat \X V -> V]
  <2>1. ASSUME NEW x \in Nat \X V
        PROVE  (IF x[1] \in 1..N THEN Grown(x[2], Size(records[x[1]])) ELSE x[2]) \in V
    <3>1. x[2] \in V
      OBVIOUS
    <3>2. x[1] \in 1..N => Size(records[x[1]]) \in Nat
      BY DEF Sized
    <3> HIDE DEF V
    <3> QED
      BY <3>1, <3>2, <1>1
  <2> HIDE DEF V
  <2> QED
    BY <2>1
<1>3. [chunk |-> 1, bytes |-> 0] \in V
  OBVIOUS
<1> HIDE DEF V, F
<1>4. PICK g \in [0..N -> V] : Iterates(g, [chunk |-> 1, bytes |-> 0], F, N)
  BY <1>2, <1>3, Recursion
<1>5. g[0] = [chunk |-> 1, bytes |-> 0] /\ \A k \in 1..N : g[k] = F[<<k, g[k - 1]>>]
  BY <1>4 DEF Iterates
<1>6. ASSUME NEW k \in 1..N PROVE g[k] = Grown(g[k - 1], Size(records[k]))
  <2>1. k - 1 \in 0..N /\ k \in Nat
    OBVIOUS
  <2>2. g[k - 1] \in V
    BY <2>1, <1>4
  <2>3. F[<<k, g[k - 1]>>] = Grown(g[k - 1], Size(records[k]))
    BY <2>1, <2>2 DEF F
  <2> QED
    BY <2>3, <1>5
<1>7. ASSUME NEW k \in 0..N
      PROVE  g[k] = IF k = 0 THEN [chunk |-> 1, bytes |-> 0]
                    ELSE LET size == Size(records[k])
                         IN IF g[k - 1].bytes > 0 /\ g[k - 1].bytes + size > Capacity
                            THEN [chunk |-> g[k - 1].chunk + 1, bytes |-> size]
                            ELSE [g[k - 1] EXCEPT !.bytes = @ + size]
  <2>1. CASE k = 0
    BY <2>1, <1>5
  <2>2. CASE k # 0
    <3>1. k \in 1..N
      BY <2>2
    <3>2. g[k] = Grown(g[k - 1], Size(records[k]))
      BY <3>1, <1>6
    <3> QED
      BY <3>2, <2>2 DEF Grown
  <2> QED
    BY <2>1, <2>2
<1>8. Is(g)
  <2>1. g = [k \in 0..N |-> g[k]]
    BY <1>4
  <2> QED
    BY <2>1, <1>7
<1>9. Cut(records) = CHOOSE cut : Is(cut)
  BY DEF Cut
<1> DEFINE cut == Cut(records)
<1>10. Is(cut)
  <2> HIDE DEF Is
  <2> QED
    BY <1>8, <1>9
<1> HIDE DEF cut
<1>11. cut[0] = [chunk |-> 1, bytes |-> 0]
  BY <1>10
<1>12. ASSUME NEW k \in 1..N PROVE cut[k] = Grown(cut[k - 1], Size(records[k]))
  <2>1. k \in 0..N /\ k # 0
    OBVIOUS
  <2> QED
    BY <1>10, <2>1 DEF Grown
<1> HIDE DEF Is
<1> DEFINE S == {n \in Nat : n \in 0..N => cut[n] \in V}
<1>13. 0 \in S
  BY <1>3, <1>11
<1>14. ASSUME NEW n \in Nat, n \in S PROVE n + 1 \in S
  <2> SUFFICES ASSUME n + 1 \in 0..N PROVE cut[n + 1] \in V
    OBVIOUS
  <2>1. n + 1 \in 1..N /\ (n + 1) - 1 = n /\ n \in 0..N
    OBVIOUS
  <2>2. cut[n] \in V /\ Size(records[n + 1]) \in Nat
    BY <2>1, <1>14 DEF Sized
  <2>3. cut[n + 1] = Grown(cut[n], Size(records[n + 1]))
    BY <2>1, <1>12
  <2> QED
    BY <2>2, <2>3, <1>1
<1>15. \A n \in Nat : n \in S
  <2> HIDE DEF S
  <2> QED
    BY <1>13, <1>14, Induction
<1>16. cut \in [0..N -> V]
  <2>1. \A n \in 0..N : cut[n] \in V
    BY <1>15
  <2>2. cut = [n \in 0..N |-> cut[n]]
    BY <1>10 DEF Is
  <2> QED
    BY <2>1, <2>2
<1> QED
  BY <1>11, <1>12, <1>16 DEF cut, V

\* What the chunks are: consecutive parts of the records, none of them empty.
InParts(parts, records, count, from) ==
    /\ count \in Nat \ {0} /\ from \in [1..(count + 1) -> 1..(Len(records) + 1)]
    /\ from[1] = 1 /\ from[count + 1] = Len(records) + 1
    /\ Len(parts) = count
    /\ \A k \in 1..count :
         /\ from[k] < from[k + 1]
         /\ Len(parts[k]) = from[k + 1] - from[k]
         /\ \A i \in 1..(from[k + 1] - from[k]) : parts[k][i] = records[from[k] + i - 1]

\* The chunks are parts of the records, in their order, and leave nothing out.
LEMMA ChunksAreParts ==
    ASSUME NEW records, NEW N \in Nat \ {0}, Len(records) = N, DOMAIN records = 1..N,
           IsASeq(records), Sized(records)
    PROVE  \E count, from : InParts(Chunks(records), records, count, from)
<1>1. CASE game = "parodius"
  <2>1. Chunks(records) = <<records>>
    BY <1>1 DEF Chunks
  <2> DEFINE from == [k \in 1..(1 + 1) |-> IF k = 1 THEN 1 ELSE N + 1]
  <2>2. from \in [1..(1 + 1) -> 1..(N + 1)] /\ from[1] = 1 /\ from[2] = N + 1 /\ from[1] < from[2]
    OBVIOUS
  <2>3. Len(Chunks(records)) = 1 /\ Chunks(records)[1] = records
    BY <2>1
  <2> HIDE DEF from
  <2>4. InParts(Chunks(records), records, 1, from)
    <3>1. ASSUME NEW k \in 1..1
          PROVE  /\ from[k] < from[k + 1]
                 /\ Len(Chunks(records)[k]) = from[k + 1] - from[k]
                 /\ \A i \in 1..(from[k + 1] - from[k]) :
                      Chunks(records)[k][i] = records[from[k] + i - 1]
      <4>1. k = 1 /\ k + 1 = 2
        OBVIOUS
      <4>2. from[k] = 1 /\ from[k + 1] = N + 1 /\ Chunks(records)[k] = records
        BY <4>1, <2>2, <2>3
      <4>3. ASSUME NEW i \in 1..(from[k + 1] - from[k])
            PROVE  Chunks(records)[k][i] = records[from[k] + i - 1]
        <5>1. from[k] + i - 1 = i
          BY <4>2
        <5> QED
          BY <5>1, <4>2
      <4> QED
        BY <4>2, <4>3
    <3> QED
      BY <3>1, <2>2, <2>3 DEF InParts
  <2> QED
    BY <2>4
<1>2. CASE game # "parodius"
  <2> DEFINE cut == Cut(records)
  <2>1. /\ cut \in [0..N -> [chunk : Nat, bytes : Nat]]
        /\ cut[0] = [chunk |-> 1, bytes |-> 0]
        /\ \A n \in 1..N : cut[n] = Grown(cut[n - 1], Size(records[n]))
    BY CutFound
  <2> HIDE DEF cut
  <2> DEFINE c == [n \in 1..N |-> cut[n].chunk]
  <2>2. ASSUME NEW n \in 1..N
        PROVE  /\ cut[n].chunk \in Nat /\ cut[n - 1].chunk \in Nat
               /\ cut[n].chunk = cut[n - 1].chunk \/ cut[n].chunk = cut[n - 1].chunk + 1
               /\ n = 1 => cut[n].chunk = 1
    <3>1. n \in 0..N /\ n - 1 \in 0..N
      OBVIOUS
    <3>2. cut[n] \in [chunk : Nat, bytes : Nat] /\ cut[n - 1] \in [chunk : Nat, bytes : Nat]
      BY <3>1, <2>1
    <3>3. cut[n] = Grown(cut[n - 1], Size(records[n]))
      BY <2>1
    <3>4. cut[n].chunk = cut[n - 1].chunk \/ cut[n].chunk = cut[n - 1].chunk + 1
      BY <3>2, <3>3 DEF Grown
    <3>5. n = 1 => cut[n].chunk = 1
      <4>1. n = 1 => cut[n - 1] = [chunk |-> 1, bytes |-> 0]
        BY <2>1
      <4>2. n = 1 => cut[n] = [[chunk |-> 1, bytes |-> 0] EXCEPT !.bytes = @ + Size(records[n])]
        BY <3>3, <4>1 DEF Grown
      <4> QED
        BY <4>2
    <3> QED
      BY <3>2, <3>4, <3>5
  <2>3. c \in [1..N -> Nat] /\ c[1] = 1
    BY <2>2
  <2>4. \A n \in 1..N : n > 1 => c[n] = c[n - 1] \/ c[n] = c[n - 1] + 1
    <3>1. ASSUME NEW n \in 1..N, n > 1 PROVE c[n] = c[n - 1] \/ c[n] = c[n - 1] + 1
      <4>1. n - 1 \in 1..N
        BY <3>1
      <4> QED
        BY <4>1, <2>2
    <3> QED
      BY <3>1
  <2> DEFINE count == c[N]
  <2> HIDE DEF c
  <2>0. N \in Nat /\ N >= 1
    OBVIOUS
  <2>5. PICK from : PartsFrom(N, c, from)
    BY <2>0, <2>3, <2>4, Parts
  <2>6. /\ from \in [1..(count + 1) -> 1..(N + 1)]
        /\ from[1] = 1 /\ from[count + 1] = N + 1
        /\ \A k \in 1..count :
             /\ from[k] < from[k + 1]
             /\ from[k] = Min({n \in 1..N : c[n] = k})
             /\ from[k + 1] = Max({n \in 1..N : c[n] = k}) + 1
    BY <2>5 DEF PartsFrom
  <2>7. count \in Nat /\ count # 0
    <3>1. count \in Nat /\ count >= 1
      BY <2>0, <2>3, <2>4, Stairs
    <3> QED
      BY <3>1
  <2>8. Chunks(records) = [k \in 1..count |-> SubSeq(records, from[k], from[k + 1] - 1)]
    <3>1. count = cut[Len(records)].chunk
      BY DEF c
    <3>2. ASSUME NEW k \in 1..count
          PROVE  /\ Min({n \in DOMAIN records : cut[n].chunk = k}) = from[k]
                 /\ Max({n \in DOMAIN records : cut[n].chunk = k}) = from[k + 1] - 1
      <4>1. {n \in DOMAIN records : cut[n].chunk = k} = {n \in 1..N : c[n] = k}
        BY DEF c
      <4>2. from[k] = Min({n \in 1..N : c[n] = k})
            /\ from[k + 1] = Max({n \in 1..N : c[n] = k}) + 1
        BY <2>6
      <4>3. Max({n \in 1..N : c[n] = k}) = from[k + 1] - 1
        <5>1. from[k + 1] \in Nat
          BY <2>6, <2>7
        <5>2. {n \in 1..N : c[n] = k} \subseteq 1..N /\ {n \in 1..N : c[n] = k} # {}
          <6>1. \E n \in 1..N : c[n] = k
            BY <2>0, <2>3, <2>4, Stairs
          <6> QED
            BY <6>1
        <5>3. Max({n \in 1..N : c[n] = k}) \in 1..N
          <6> DEFINE T == {n \in 1..N : c[n] = k}
          <6>1. T \subseteq 1..N /\ T # {}
            BY <5>2
          <6> HIDE DEF T
          <6>2. Max(T) \in T
            BY <6>1, GreatestNumber
          <6> QED
            BY <6>1, <6>2 DEF T
        <5> QED
          BY <5>1, <5>3, <4>2
      <4> QED
        BY <4>1, <4>2, <4>3
    <3>3. Chunks(records) =
            [k \in 1..cut[Len(records)].chunk |->
               SubSeq(records, Min({n \in DOMAIN records : cut[n].chunk = k}),
                               Max({n \in DOMAIN records : cut[n].chunk = k}))]
      BY <1>2 DEF Chunks, cut
    <3> HIDE DEF count
    <3> QED
      BY <3>1, <3>2, <3>3
  <2> HIDE DEF count
  <2>9. records \in Seq({records[n] : n \in 1..N})
    <3>1. records = [i \in 1..N |-> records[i]]
      BY DEF IsASeq
    <3> QED
      BY <3>1
  <2>10. ASSUME NEW k \in 1..count
         PROVE  /\ from[k] < from[k + 1]
                /\ Len(Chunks(records)[k]) = from[k + 1] - from[k]
                /\ \A i \in 1..(from[k + 1] - from[k]) :
                     Chunks(records)[k][i] = records[from[k] + i - 1]
    <3>1. from[k] \in 1..(N + 1) /\ from[k + 1] \in 1..(N + 1) /\ from[k] < from[k + 1]
      <4>1. k \in 1..(count + 1) /\ k + 1 \in 1..(count + 1)
        BY <2>7
      <4> QED
        BY <4>1, <2>6
    <3> DEFINE a == from[k]
    <3> DEFINE b == from[k + 1] - 1
    <3>2. Chunks(records)[k] = SubSeq(records, a, b)
      BY <2>8
    <3>3. a \in 1..N /\ b \in 1..N /\ a <= b
      BY <3>1
    <3> HIDE DEF a, b
    <3>4. Len(SubSeq(records, a, b)) = b - a + 1
          /\ \A i \in 1..(b - a + 1) : SubSeq(records, a, b)[i] = records[a + i - 1]
      BY <3>3, <2>9
    <3>5. b - a + 1 = from[k + 1] - from[k]
      BY <3>1 DEF a, b
    <3> QED
      BY <3>1, <3>2, <3>4, <3>5 DEF a
  <2>11. Len(Chunks(records)) = count
    BY <2>7, <2>8
  <2>12. InParts(Chunks(records), records, count, from)
    BY <2>6, <2>7, <2>10, <2>11 DEF InParts
  <2> QED
    BY <2>12
<1> QED
  BY <1>1, <1>2

-----------------------------------------------------------------------------
\* The pages and the track in one piece.

R == whole.records

\* Page p holds the records from start[p] up to start[p + 1].
Linked(last, start) ==
    /\ first \in Nat /\ last \in Nat /\ first <= last /\ DOMAIN pages = first..last
    /\ Len(R) \in Nat \ {0} /\ start \in [first..(last + 1) -> 1..(Len(R) + 1)]
    /\ start[first] = 1 /\ start[last + 1] = Len(R) + 1
    /\ whole.loops = track.loop /\ track.loop \in BOOLEAN
    /\ \A n \in 1..Len(R) : R[n].delay \in Nat /\ R[n].delay # EndMark
    /\ \A p \in first..last :
         /\ start[p] < start[p + 1]
         /\ Len(pages[p].records) = start[p + 1] - start[p]
         /\ \A i \in 1..(start[p + 1] - start[p]) : pages[p].records[i] = R[start[p] + i - 1]
         /\ pages[p].more <=> p < last \/ (track.loop /\ first < last)
         /\ pages[p].restarts <=> track.loop /\ first < last /\ p = last
         /\ pages[p].loops <=> track.loop /\ first = last
         /\ pages[p].next = IF p < last THEN p + 1 ELSE first

\* Every record has a size.
LEMMA RecordsSized ==
    ASSUME Frames, MaxDelay \in Nat PROVE Sized(Records)
<1>1. IsFiniteSet(Voices)
  <2>1. IsFiniteSet({"scc"}) /\ Voices = {"scc"} \cup {"psg"}
    BY FS_Singleton DEF Voices
  <2> QED
    BY <2>1, FS_AddElement
<1>2. ASSUME NEW n \in 1..Count PROVE Size(Records[n]) \in Nat
  <2> DEFINE f == Stored(n)
  <2> DEFINE T == {u \in Voices : ToneChanged(f, u)}
  <2> DEFINE V == {u \in Voices : VolChanged(f, u)}
  <2>1. DOMAIN Records[n].tones = T /\ DOMAIN Records[n].vols = V
    BY DEF Records, Count
  <2>2. T \in SUBSET Voices /\ V \in SUBSET Voices
    OBVIOUS
  <2> HIDE DEF T, V
  <2>3. Cardinality(T) \in Nat /\ Cardinality(V) \in Nat
    BY <1>1, <2>2, FS_Subset, FS_CardinalityType
  <2>4. Size(Records[n]) = 1 + Cardinality(T) + Cardinality(V)
    BY <2>1 DEF Size
  <2> QED
    BY <2>3, <2>4
<1> QED
  BY <1>2, RecordsAre DEF Sized

\* The pages that are built are linked.
LEMMA PagesLinked ==
    ASSUME Sane, Init PROVE \E last, start : Linked(last, start)
<1>1. Frames /\ track.loop \in BOOLEAN /\ MaxDelay \in Nat /\ first \in Nat
  BY DEF Sane, Init, Frames
<1>2. whole = Block(Records, track.loop, FALSE, FALSE, 0) /\ pages = Pages(R)
  BY DEF Init, R
<1>3. R = Records /\ whole.loops = track.loop
  BY <1>2 DEF R, Block
<1>4. Count \in Nat \ {0}
  BY <1>1, Counted
<1>5. Len(R) = Count /\ DOMAIN R = 1..Count /\ IsASeq(R) /\ Sized(R)
      /\ \A n \in 1..Count : R[n].delay \in Nat /\ R[n].delay # EndMark
  BY <1>1, <1>3, RecordsAre, RecordsSized
<1>6. \E count, from : InParts(Chunks(R), R, count, from)
  BY <1>4, <1>5, ChunksAreParts
<1>7. PICK count, from : InParts(Chunks(R), R, count, from)
  BY <1>6
<1> DEFINE last == first + count - 1
<1> DEFINE start == [p \in first..(last + 1) |-> from[p - first + 1]]
<1>8. /\ count \in Nat \ {0} /\ from \in [1..(count + 1) -> 1..(Count + 1)]
      /\ from[1] = 1 /\ from[count + 1] = Count + 1 /\ Len(Chunks(R)) = count
  BY <1>7, <1>5 DEF InParts
<1>9. ASSUME NEW k \in 1..count
      PROVE  /\ from[k] < from[k + 1]
             /\ Len(Chunks(R)[k]) = from[k + 1] - from[k]
             /\ \A i \in 1..(from[k + 1] - from[k]) : Chunks(R)[k][i] = R[from[k] + i - 1]
  BY <1>7 DEF InParts
<1> DEFINE Follows(i) == count > 1 /\ (i < count \/ track.loop)
<1> DEFINE Page(i) == Block(Chunks(R)[i], count = 1 /\ track.loop, Follows(i),
                            Follows(i) /\ i = count, IF i < count THEN first + i ELSE first)
<1>10. pages = [p \in first..(first + count - 1) |-> Page(p - first + 1)]
  BY <1>2, <1>8 DEF Pages
<1>11. ASSUME NEW p \in first..last
       PROVE  /\ start[p] < start[p + 1]
              /\ Len(pages[p].records) = start[p + 1] - start[p]
              /\ \A i \in 1..(start[p + 1] - start[p]) : pages[p].records[i] = R[start[p] + i - 1]
              /\ pages[p].more <=> p < last \/ (track.loop /\ first < last)
              /\ pages[p].restarts <=> track.loop /\ first < last /\ p = last
              /\ pages[p].loops <=> track.loop /\ first = last
              /\ pages[p].next = IF p < last THEN p + 1 ELSE first
  <2> DEFINE k == p - first + 1
  <2>1. k \in 1..count /\ p \in first..(last + 1) /\ p + 1 \in first..(last + 1)
        /\ (p + 1) - first + 1 = k + 1
    BY <1>1, <1>8
  <2>2. start[p] = from[k] /\ start[p + 1] = from[k + 1]
    BY <2>1
  <2>3. pages[p] = Page(k)
    BY <1>10, <2>1
  <2>4. (k < count <=> p < last) /\ (k = count <=> p = last) /\ (count > 1 <=> first < last)
        /\ (count = 1 <=> first = last) /\ first + k = p + 1
    BY <1>1, <1>8
  <2> HIDE DEF start, last, k
  <2>5. pages[p].records = Chunks(R)[k]
    BY <2>3 DEF Block
  <2>6. (pages[p].more <=> Follows(k)) /\ (pages[p].restarts <=> Follows(k) /\ k = count)
        /\ (pages[p].loops <=> count = 1 /\ track.loop)
        /\ pages[p].next = IF k < count THEN first + k ELSE first
    <3> DEFINE only == count = 1 /\ track.loop
    <3> DEFINE more == Follows(k)
    <3> DEFINE turns == Follows(k) /\ k = count
    <3> DEFINE next == IF k < count THEN first + k ELSE first
    <3>1. pages[p] = [records |-> Chunks(R)[k], loops |-> only, more |-> more,
                      restarts |-> turns, next |-> next]
      BY <2>3 DEF Block
    <3> HIDE DEF only, more, turns, next
    <3>2. /\ pages[p].loops = only /\ pages[p].more = more
          /\ pages[p].restarts = turns /\ pages[p].next = next
      BY <3>1
    <3>3. /\ (pages[p].loops <=> only) /\ (pages[p].more <=> more)
          /\ (pages[p].restarts <=> turns) /\ pages[p].next = next
      BY Zenon, <3>2
    <3> QED
      BY Zenon, <3>3 DEF only, more, turns, next
  <2>7. (Follows(k) <=> p < last \/ (track.loop /\ first < last))
        /\ (Follows(k) /\ k = count <=> track.loop /\ first < last /\ p = last)
    <3>1. p < last => first < last
      BY <2>1, <2>4, <1>8
    <3>2. p = last => ~(p < last)
      BY <2>4, <2>1, <1>8
    <3> QED
      BY <2>4, <3>1, <3>2
  <2> QED
    BY <2>1, <2>2, <2>5, <2>6, <2>7, <2>4, <1>9
<1>12. /\ last \in Nat /\ first <= last /\ DOMAIN pages = first..last
       /\ start \in [first..(last + 1) -> 1..(Len(R) + 1)]
       /\ start[first] = 1 /\ start[last + 1] = Len(R) + 1
  <2>1. last \in Nat /\ first <= last /\ DOMAIN pages = first..last
    BY <1>1, <1>8, <1>10
  <2>2. ASSUME NEW p \in first..(last + 1) PROVE p - first + 1 \in 1..(count + 1)
    BY <1>1, <1>8
  <2>3. start \in [first..(last + 1) -> 1..(Len(R) + 1)]
    BY <2>2, <1>8, <1>5
  <2>4. first - first + 1 = 1 /\ (last + 1) - first + 1 = count + 1
        /\ first \in first..(last + 1) /\ last + 1 \in first..(last + 1)
    BY <1>1, <1>8
  <2>5. start[first] = from[first - first + 1] /\ start[last + 1] = from[(last + 1) - first + 1]
    BY <2>4
  <2> HIDE DEF start, last
  <2> QED
    BY <2>1, <2>3, <2>4, <2>5, <1>8, <1>5
<1> HIDE DEF start, last
<1>13. Linked(last, start)
  BY <1>1, <1>3, <1>4, <1>5, <1>11, <1>12 DEF Linked
<1> QED
  BY <1>13

\* What an engine at event i of page p has before it.
LEMMA OnTrack ==
    ASSUME NEW last, NEW start, Linked(last, start),
           NEW p \in first..last, NEW i \in 1..Len(pages[p].records)
    PROVE  LET here == start[p] + i - 1
           IN /\ here \in 1..Len(R) /\ here \in Nat /\ pages[p].records[i] = R[here]
              /\ i < Len(pages[p].records) =>
                   /\ here + 1 <= Len(R)
                   /\ DelayAt(pages[p].records, i + 1) = R[here + 1].delay
                   /\ DelayAt(R, here + 1) = R[here + 1].delay
                   /\ R[here + 1].delay \in Nat /\ R[here + 1].delay # EndMark
              /\ i = Len(pages[p].records) =>
                   DelayAt(pages[p].records, i + 1) = EndMark
              /\ i = Len(pages[p].records) /\ p < last =>
                   /\ p + 1 \in first..last /\ start[p + 1] = here + 1 /\ here + 1 <= Len(R)
                   /\ 1 \in 1..Len(pages[p + 1].records)
                   /\ DelayAt(pages[p + 1].records, 1) = R[here + 1].delay
                   /\ DelayAt(R, here + 1) = R[here + 1].delay
                   /\ R[here + 1].delay \in Nat /\ R[here + 1].delay # EndMark
              /\ i = Len(pages[p].records) /\ p = last =>
                   here = Len(R) /\ DelayAt(R, here + 1) = EndMark
<1> DEFINE here == start[p] + i - 1
<1> DEFINE N == Len(R)
<1>1. /\ first \in Nat /\ last \in Nat /\ N \in Nat \ {0}
      /\ start \in [first..(last + 1) -> 1..(N + 1)] /\ start[last + 1] = N + 1
      /\ \A n \in 1..N : R[n].delay \in Nat /\ R[n].delay # EndMark
  BY DEF Linked
<1>2. ASSUME NEW q \in first..last
      PROVE  /\ start[q] \in 1..N /\ start[q + 1] \in 1..(N + 1) /\ start[q] < start[q + 1]
             /\ Len(pages[q].records) = start[q + 1] - start[q]
             /\ \A j \in 1..(start[q + 1] - start[q]) : pages[q].records[j] = R[start[q] + j - 1]
  <2>1. q \in first..(last + 1) /\ q + 1 \in first..(last + 1)
    BY <1>1
  <2>2. start[q] \in 1..(N + 1) /\ start[q + 1] \in 1..(N + 1)
    BY <1>1, <2>1
  <2>3. /\ start[q] < start[q + 1]
        /\ Len(pages[q].records) = start[q + 1] - start[q]
        /\ \A j \in 1..(start[q + 1] - start[q]) : pages[q].records[j] = R[start[q] + j - 1]
    BY DEF Linked
  <2>4. start[q] \in 1..N
    BY <2>2, <2>3, <1>1
  <2> QED
    BY <2>2, <2>3, <2>4
<1> HIDE DEF N
<1> DEFINE L == Len(pages[p].records)
<1>3. L = start[p + 1] - start[p] /\ L \in Nat /\ L >= 1 /\ i \in 1..L
  BY <1>1, <1>2
<1>4. here \in 1..N /\ here \in Nat /\ pages[p].records[i] = R[here]
  BY <1>1, <1>2, <1>3
<1>5. ASSUME i < L
      PROVE  /\ here + 1 <= N /\ here + 1 \in 1..N
             /\ DelayAt(pages[p].records, i + 1) = R[here + 1].delay
             /\ DelayAt(R, here + 1) = R[here + 1].delay
  <2>1. i + 1 \in 1..L /\ start[p] + (i + 1) - 1 = here + 1 /\ ~(i + 1 > L)
    BY <1>2, <1>3, <1>5
  <2>2. pages[p].records[i + 1] = R[start[p] + (i + 1) - 1]
    BY <2>1, <1>2, <1>3
  <2>3. here + 1 <= N /\ here + 1 \in 1..N /\ ~(here + 1 > N)
    <3>1. start[p] \in 1..N /\ start[p + 1] \in 1..(N + 1) /\ N \in Nat
      BY <1>1, <1>2
    <3>2. L = start[p + 1] - start[p] /\ i \in 1..L /\ L \in Nat
      BY <1>3
    <3> HIDE DEF L
    <3>3. start[p] + i <= N /\ here + 1 = start[p] + i /\ start[p] + i \in Nat /\ i >= 1
      BY <3>1, <3>2, <1>5
    <3> QED
      BY <3>3, <3>1
  <2>4. DelayAt(pages[p].records, i + 1) = pages[p].records[i + 1].delay
    BY <2>1 DEF DelayAt
  <2>5. DelayAt(R, here + 1) = R[here + 1].delay
    BY <2>3 DEF DelayAt, N
  <2> HIDE DEF here, L
  <2> QED
    BY <2>1, <2>2, <2>3, <2>4, <2>5
<1>6. i = L => DelayAt(pages[p].records, i + 1) = EndMark
  BY <1>3 DEF DelayAt
<1>7. ASSUME i = L, p < last
      PROVE  /\ p + 1 \in first..last /\ start[p + 1] = here + 1 /\ here + 1 <= N
             /\ here + 1 \in 1..N /\ 1 \in 1..Len(pages[p + 1].records)
             /\ DelayAt(pages[p + 1].records, 1) = R[here + 1].delay
             /\ DelayAt(R, here + 1) = R[here + 1].delay
  <2>1. p + 1 \in first..last
    BY <1>1, <1>7
  <2>2. start[p + 1] = here + 1
    BY <1>2, <1>3, <1>7
  <2>3. start[p + 1] \in 1..N
    BY <2>1, <1>2
  <2> HIDE DEF here, L
  <2>4. /\ Len(pages[p + 1].records) = start[(p + 1) + 1] - start[p + 1]
        /\ start[p + 1] < start[(p + 1) + 1] /\ start[(p + 1) + 1] \in 1..(N + 1)
        /\ \A j \in 1..(start[(p + 1) + 1] - start[p + 1]) :
             pages[p + 1].records[j] = R[start[p + 1] + j - 1]
    BY <2>1, <1>2
  <2>5. 1 \in 1..Len(pages[p + 1].records) /\ start[p + 1] + 1 - 1 = start[p + 1]
        /\ ~(1 > Len(pages[p + 1].records)) /\ 1 \in 1..(start[(p + 1) + 1] - start[p + 1])
    BY <2>3, <2>4, <1>1
  <2>6. pages[p + 1].records[1] = R[here + 1]
    BY <2>2, <2>4, <2>5
  <2>7. DelayAt(pages[p + 1].records, 1) = R[here + 1].delay
    BY <2>5, <2>6 DEF DelayAt
  <2>8. here + 1 \in 1..N /\ ~(here + 1 > N) /\ here + 1 <= N
    BY <2>2, <2>3, <1>1
  <2>9. DelayAt(R, here + 1) = R[here + 1].delay
    BY <2>8 DEF DelayAt, N
  <2> QED
    BY <2>1, <2>2, <2>5, <2>7, <2>8, <2>9
<1>8. ASSUME i = L, p = last PROVE here = N /\ DelayAt(R, here + 1) = EndMark
  <2>1. here = N
    BY <1>1, <1>2, <1>3, <1>8
  <2> HIDE DEF here
  <2> QED
    BY <2>1, <1>1 DEF DelayAt, N
<1> HIDE DEF here, L
<1>9. here + 1 \in 1..N => R[here + 1].delay \in Nat /\ R[here + 1].delay # EndMark
  BY <1>1
<1> QED
  BY <1>4, <1>5, <1>6, <1>7, <1>8, <1>9 DEF here, L, N

\* From the last record of a page to the first of the next.
LEMMA NextOnTrack ==
    ASSUME NEW last, NEW start, Linked(last, start), NEW p \in first..last, p < last,
           NEW i \in 1..Len(pages[p].records), i = Len(pages[p].records),
           NEW here, here = start[p] + i - 1
    PROVE  /\ p + 1 \in first..last /\ start[p + 1] = here + 1 /\ here + 1 <= Len(R)
           /\ here \in Nat /\ 1 \in 1..Len(pages[p + 1].records)
           /\ DelayAt(pages[p + 1].records, 1) = R[here + 1].delay
           /\ DelayAt(R, here + 1) = R[here + 1].delay
           /\ R[here + 1].delay \in Nat /\ R[here + 1].delay # EndMark
BY SMTT(60), OnTrack

-----------------------------------------------------------------------------
\* The engine and the reference.

Here(start) == start[page] + ptr - 1

\* The reference behind an event that left that sound.
Behind(at, sound, on) ==
    IF DelayAt(R, at + 1) # EndMark THEN State(at + 1, DelayAt(R, at + 1), FALSE, sound, on)
    ELSE IF whole.loops THEN State(1, 0, FALSE, Silenced(sound), FALSE)
    ELSE State(at, 0, TRUE, Silenced(sound), FALSE)

\* The fields of a state, and the state that waits longer or shorter.
LEMMA StateFields ==
    ASSUME NEW s, NEW at, NEW delay, NEW over, NEW sound, NEW on,
           s = State(at, delay, over, sound, on)
    PROVE  s.ptr = at /\ s.wait = delay /\ s.ended = over /\ s.reg = sound /\ s.key = on
BY DEF State

LEMMA StateWaits ==
    ASSUME NEW at, NEW delay, NEW over, NEW sound, NEW on, NEW delay2
    PROVE  [State(at, delay, over, sound, on) EXCEPT !.wait = delay2]
             = State(at, delay2, over, sound, on)
BY DEF State

\* The reference at an event that is due.
LEMMA RefBehind ==
    ASSUME NEW at, NEW sound, NEW on
    PROVE  RefEvent(State(at, 0, FALSE, sound, on)) = Behind(at, Written(R[at], sound), on)
<1> DEFINE s == State(at, 0, FALSE, sound, on)
<1>1. s.ptr = at /\ s.wait = 0 /\ s.ended = FALSE /\ s.reg = sound /\ s.key = on
  <2> HIDE DEF s
  <2>1. \A over : s = State(at, 0, over, sound, on) => s.ended = over
    BY StateFields
  <2>2. s = State(at, 0, FALSE, sound, on)
    BY DEF s
  <2>3. s.ended = FALSE
    BY <2>1, <2>2
  <2>4. s.ptr = at /\ s.wait = 0
    BY <2>2 DEF State
  <2>5. s.reg = sound /\ s.key = on
    BY <2>2 DEF State
  <2> QED
    BY <2>3, <2>4, <2>5
<1> HIDE DEF s
<1>2. RefEvent(s) = Behind(at, Written(R[at], sound), on)
  BY Zenon, <1>1 DEF RefEvent, Behind, R
<1> QED
  BY <1>2 DEF s

\* The reference is one step ahead while the engine is at an event or at the
\* end of a page, and where the engine is between two ticks.
Agrees(start) ==
    /\ pc \in {"init", "compare", "ret", "apply", "stream_end"}
    /\ page \in DOMAIN pages /\ ptr \in 1..Len(pages[page].records)
    /\ pc = "init" => page = first /\ ref = RefInit
    /\ pc \in {"compare", "ret"} =>
         /\ ended \in BOOLEAN /\ wait \in Nat
         /\ ref = State(ref.ptr, wait, ended, reg, key)
         /\ ~ended => ref.ptr = Here(start)
    /\ pc = "apply" =>
         /\ ended = FALSE /\ wait = 0
         /\ ref = Behind(Here(start), Written(R[Here(start)], reg), key)
    /\ pc = "stream_end" =>
         /\ ended = FALSE /\ wait = 0 /\ ptr = Len(pages[page].records)
         /\ ref = Behind(Here(start), reg, key)

\* The pages do not change.
LEMMA LinkKept ==
    ASSUME NEW last, NEW start, Linked(last, start), UNCHANGED built
    PROVE  Linked(last, start)' /\ (EntersEarly <=> EntersEarly')
BY DEF Linked, built, R, EntersEarly, DelayAt

\* What an engine has before it that is initialised.
LEMMA FirstPage ==
    ASSUME NEW last, NEW start, Linked(last, start)
    PROVE  /\ first \in first..last /\ start[first] = 1
           /\ 1 \in 1..Len(pages[first].records)
           /\ start[first] + 1 - 1 = 1 /\ 1 \in 1..Len(R)
           /\ pages[first].records[1] = R[1]
           /\ DelayAt(pages[first].records, 1) = R[1].delay
           /\ DelayAt(R, 1) = R[1].delay /\ R[1].delay \in Nat /\ R[1].delay # EndMark
<1>1. /\ first \in first..last /\ first \in Nat /\ last \in Nat /\ start[first] = 1
      /\ first \in first..(last + 1) /\ first + 1 \in first..(last + 1)
      /\ start \in [first..(last + 1) -> 1..(Len(R) + 1)] /\ Len(R) \in Nat \ {0}
      /\ \A n \in 1..Len(R) : R[n].delay \in Nat /\ R[n].delay # EndMark
  BY DEF Linked
<1>2. /\ start[first] < start[first + 1]
      /\ Len(pages[first].records) = start[first + 1] - start[first]
      /\ \A i \in 1..(start[first + 1] - start[first]) :
           pages[first].records[i] = R[start[first] + i - 1]
  BY <1>1 DEF Linked
<1>3. start[first + 1] \in 1..(Len(R) + 1)
  BY <1>1
<1>4. 1 \in 1..Len(pages[first].records) /\ start[first] + 1 - 1 = 1 /\ 1 \in 1..Len(R)
      /\ 1 \in 1..(start[first + 1] - start[first])
      /\ ~(1 > Len(pages[first].records)) /\ ~(1 > Len(R))
  BY <1>1, <1>2, <1>3
<1>5. pages[first].records[1] = R[1]
  BY <1>2, <1>4
<1>6. DelayAt(pages[first].records, 1) = R[1].delay /\ DelayAt(R, 1) = R[1].delay
  BY <1>4, <1>5 DEF DelayAt
<1> QED
  BY <1>1, <1>4, <1>5, <1>6

\* Before the engine is called.
LEMMA AgreesAtFirst ==
    ASSUME NEW last, NEW start, Linked(last, start), Init
    PROVE  Agrees(start)
<1>1. pc = "init" /\ page = first /\ ptr = 1 /\ ref = RefInit
  BY DEF Init
<1>2. first \in DOMAIN pages /\ 1 \in 1..Len(pages[first].records)
  BY FirstPage DEF Linked
<1> QED
  BY <1>1, <1>2 DEF Agrees

\* A step of the engine, its pages and the reference where they were.
LEMMA Starting ==
    ASSUME NEW last, NEW start, Linked(last, start), Agrees(start), EngineInit
    PROVE  Agrees(start)'
<1>1. /\ pc = "init" /\ page = first /\ ref = RefInit
      /\ reg' = Silent /\ key' = TRUE /\ ended' = FALSE /\ ptr' = 1
      /\ wait' = DelayAt(pages[page].records, 1)
      /\ pc' = (IF wait' = 0 THEN "apply" ELSE "compare")
      /\ UNCHANGED <<built, page, ref>>
  BY DEF EngineInit, Agrees
<1>2. /\ first \in DOMAIN pages /\ start[first] = 1 /\ 1 \in 1..Len(pages[first].records)
      /\ start[first] + 1 - 1 = 1 /\ wait' = R[1].delay
      /\ DelayAt(R, 1) = R[1].delay /\ R[1].delay \in Nat
  BY <1>1, FirstPage DEF Linked
<1>3. page' = first /\ pages' = pages /\ first' = first /\ R' = R /\ whole' = whole
  BY <1>1 DEF built, R
<1>4. Here(start)' = 1
  BY <1>1, <1>2, <1>3 DEF Here
<1>5. RefInit = IF R[1].delay = 0 THEN RefEvent(State(1, R[1].delay, FALSE, Silent, TRUE))
                ELSE State(1, R[1].delay, FALSE, Silent, TRUE)
  BY <1>2 DEF RefInit, State, R
<1>6. CASE R[1].delay = 0
  <2>1. ref' = Behind(1, Written(R[1], Silent), TRUE)
    BY <1>1, <1>5, <1>6, RefBehind
  <2>2. Behind(1, Written(R[1], Silent), TRUE)' = Behind(1, Written(R[1], Silent), TRUE)
    BY <1>3 DEF Behind, DelayAt, Written, Silent, State, Silenced, R
  <2>3. (Behind(Here(start), Written(R[Here(start)], reg), key))'
          = (Behind(1, Written(R[1], Silent), TRUE))'
    BY <1>1, <1>3, <1>4 DEF Behind, DelayAt, Written, State, Silenced, R, Silent
  <2> QED
    BY <1>1, <1>2, <1>3, <1>6, <2>1, <2>2, <2>3 DEF Agrees
<1>7. CASE R[1].delay # 0
  <2>1. ref' = State(1, wait', ended', reg', key')
    BY <1>1, <1>2, <1>5, <1>7
  <2>2. ref'.ptr = 1
    BY <2>1 DEF State
  <2> QED
    BY <1>1, <1>2, <1>3, <1>4, <1>7, <2>1, <2>2 DEF Agrees, State
<1> QED
  BY <1>6, <1>7

\* Between two ticks the reference steps with the engine.
LEMMA Playing ==
    ASSUME NEW last, NEW start, Linked(last, start), Agrees(start), Play
    PROVE  Agrees(start)'
<1>1. /\ pc = "ret" /\ ref' = RefPlay(ref)
      /\ IF ended THEN pc' = "compare" /\ UNCHANGED wait
         ELSE IF wait = 0 THEN pc' = "apply" /\ UNCHANGED wait
         ELSE pc' = "compare" /\ wait' = wait - 1
      /\ page' = page /\ ptr' = ptr /\ ended' = ended /\ reg' = reg /\ key' = key
      /\ pages' = pages /\ whole' = whole /\ first' = first
  BY DEF Play, built
<1>2. /\ page \in DOMAIN pages /\ ptr \in 1..Len(pages[page].records)
      /\ ended \in BOOLEAN /\ wait \in Nat
      /\ ref = State(ref.ptr, wait, ended, reg, key)
      /\ ~ended => ref.ptr = Here(start)
  BY <1>1 DEF Agrees
<1>3. Here(start)' = Here(start) /\ R' = R
  BY <1>1 DEF Here, R
<1>4. ref.wait = wait /\ ref.ended = ended
  BY <1>2 DEF State
<1>5. CASE ended
  <2>1. ref' = ref
    BY <1>1, <1>4, <1>5 DEF RefPlay
  <2> QED
    BY <1>1, <1>2, <1>5, <2>1 DEF Agrees, State
<1>6. CASE ~ended /\ wait = 0
  <2>1. ref = State(Here(start), 0, FALSE, reg, key)
    BY <1>2, <1>6
  <2>2. ref' = RefEvent(ref)
    BY <1>1, <1>4, <1>6 DEF RefPlay
  <2>3. ref' = Behind(Here(start), Written(R[Here(start)], reg), key)
    BY <2>1, <2>2, RefBehind
  <2>4. (Behind(Here(start), Written(R[Here(start)], reg), key))'
          = Behind(Here(start), Written(R[Here(start)], reg), key)
    BY <1>1, <1>3 DEF Behind, DelayAt, Written, State, Silenced, R, EndMark
  <2>5. pc' = "apply" /\ ended' = FALSE /\ wait' = 0
    BY <1>1, <1>2, <1>6
  <2> QED
    BY <1>1, <1>2, <2>3, <2>4, <2>5 DEF Agrees
<1>7. CASE ~ended /\ wait # 0
  <2>1. ref' = [ref EXCEPT !.wait = @ - 1]
    BY <1>1, <1>2, <1>4, <1>7 DEF RefPlay
  <2>2. wait' = wait - 1 /\ wait' \in Nat /\ pc' = "compare"
    BY <1>1, <1>2, <1>7
  <2>5. ref.wait - 1 = wait'
    BY <1>4, <2>2
  <2>6. ref' = [State(ref.ptr, wait, ended, reg, key) EXCEPT !.wait = wait']
    BY <1>2, <2>1, <2>5
  <2>3. ref' = State(ref.ptr, wait', ended, reg, key) /\ ref'.ptr = ref.ptr
    BY <2>6, StateWaits, StateFields
  <2>4. (State(ref.ptr, wait, ended, reg, key))' = State(ref.ptr, wait', ended, reg, key)
    BY <1>1, <2>3 DEF State
  <2> QED
    BY <1>1, <1>2, <1>3, <1>7, <2>2, <2>3, <2>4 DEF Agrees
<1> QED
  BY <1>5, <1>6, <1>7

\* The event is played; the page ends behind its last.
LEMMA Applying ==
    ASSUME NEW last, NEW start, Linked(last, start), Agrees(start), ApplyEvent
    PROVE  Agrees(start)'
<1>1. /\ pc = "apply" /\ reg' = Written(pages[page].records[ptr], reg)
      /\ IF DelayAt(pages[page].records, ptr + 1) = EndMark
         THEN pc' = "stream_end" /\ wait' = wait /\ ptr' = ptr
         ELSE pc' = "compare" /\ wait' = DelayAt(pages[page].records, ptr + 1) /\ ptr' = ptr + 1
      /\ page' = page /\ ended' = ended /\ key' = key /\ ref' = ref
      /\ pages' = pages /\ whole' = whole /\ first' = first
  BY DEF ApplyEvent, built
<1>2. /\ page \in DOMAIN pages /\ ptr \in 1..Len(pages[page].records)
      /\ ended = FALSE /\ wait = 0
      /\ ref = Behind(Here(start), Written(R[Here(start)], reg), key)
  BY <1>1 DEF Agrees
<1> DEFINE h == Here(start)
<1> DEFINE L == Len(pages[page].records)
<1>3. page \in first..last
  BY <1>2 DEF Linked
<1>4. /\ h \in Nat /\ pages[page].records[ptr] = R[h]
      /\ ptr < L => /\ DelayAt(pages[page].records, ptr + 1) = R[h + 1].delay
                    /\ DelayAt(R, h + 1) = R[h + 1].delay
                    /\ R[h + 1].delay \in Nat /\ R[h + 1].delay # EndMark
      /\ ptr = L => DelayAt(pages[page].records, ptr + 1) = EndMark
  BY <1>2, <1>3, OnTrack DEF Here
<1>5. L \in Nat /\ ptr \in Nat /\ ptr <= L /\ start[page] \in Nat
  <2>1. page \in first..(last + 1) /\ page + 1 \in first..(last + 1)
    BY <1>3 DEF Linked
  <2>2. start[page] \in Nat /\ start[page + 1] \in Nat
    BY <2>1 DEF Linked
  <2>3. L = start[page + 1] - start[page] /\ start[page] < start[page + 1]
    BY <1>3 DEF Linked
  <2> QED
    BY <1>2, <2>2, <2>3
<1>6. ref' = Behind(h, reg', key)
  BY <1>1, <1>2, <1>4
<1> HIDE DEF h
<1>7. CASE ptr = L
  <2>1. pc' = "stream_end" /\ wait' = 0 /\ ptr' = ptr /\ ended' = FALSE
    BY <1>1, <1>2, <1>4, <1>7
  <2>2. Here(start)' = h
    BY <1>1, <2>1 DEF Here, h
  <2>3. (Behind(Here(start), reg, key))' = Behind(h, reg', key)
    BY <1>1, <2>2 DEF Behind, DelayAt, State, Silenced, R, EndMark
  <2> QED
    BY <1>1, <1>2, <1>6, <1>7, <2>1, <2>3 DEF Agrees
<1>8. CASE ptr < L
  <2>1. pc' = "compare" /\ wait' = R[h + 1].delay /\ wait' \in Nat /\ ptr' = ptr + 1
        /\ ended' = FALSE
    BY <1>1, <1>2, <1>4, <1>8
  <2>2. Here(start)' = h + 1
    <3>1. Here(start)' = start[page] + (ptr + 1) - 1
      BY <1>1, <2>1 DEF Here
    <3>2. h = start[page] + ptr - 1
      BY DEF Here, h
    <3> QED
      BY <1>5, <3>1, <3>2
  <2>3. ref' = State(h + 1, wait', FALSE, reg', key')
    BY <1>1, <1>4, <1>6, <1>8, <2>1 DEF Behind
  <2>4. ref'.ptr = h + 1
    BY <2>3 DEF State
  <2>5. ptr' \in 1..Len(pages'[page'].records) /\ page' \in DOMAIN pages'
    BY <1>1, <1>2, <1>5, <1>8, <2>1
  <2>6. (State(ref.ptr, wait, ended, reg, key))' = State(h + 1, wait', FALSE, reg', key')
    BY <2>1, <2>4 DEF State
  <2> QED
    BY <2>1, <2>2, <2>3, <2>4, <2>5, <2>6 DEF Agrees
<1> QED
  BY <1>5, <1>7, <1>8

\* The last page of a track that loops brings the first one back.
LEMMA Restarting ==
    ASSUME NEW last, NEW start, Linked(last, start), Agrees(start), Restart
    PROVE  Agrees(start)'
<1>1. /\ pc = "stream_end" /\ pages[page].more /\ pages[page].restarts
      /\ reg' = Silenced(reg) /\ key' = FALSE /\ page' = pages[page].next
      /\ ptr' = 1 /\ wait' = 0 /\ pc' = "compare" /\ ended' = ended /\ ref' = ref
      /\ pages' = pages /\ whole' = whole /\ first' = first
  BY DEF Restart, Silence, built
<1>2. /\ page \in first..last /\ ptr = Len(pages[page].records) /\ ended = FALSE
      /\ ptr \in 1..Len(pages[page].records) /\ ref = Behind(Here(start), reg, key)
  BY <1>1 DEF Agrees, Linked
<1>3. page = last /\ whole.loops /\ pages[page].next = first
  <2>1. /\ pages[page].restarts <=> track.loop /\ first < last /\ page = last
        /\ pages[page].next = IF page < last THEN page + 1 ELSE first
        /\ whole.loops = track.loop /\ last \in Nat
    BY <1>2 DEF Linked
  <2> QED
    BY <1>1, <2>1
<1>4. DelayAt(R, Here(start) + 1) = EndMark
  BY <1>2, <1>3, OnTrack DEF Here
<1>5. ref = State(1, 0, FALSE, Silenced(reg), FALSE)
  BY <1>2, <1>3, <1>4 DEF Behind
<1>6. /\ first \in DOMAIN pages /\ 1 \in 1..Len(pages[first].records)
      /\ start[first] + 1 - 1 = 1
  BY FirstPage DEF Linked
<1>7. Here(start)' = 1
  BY <1>1, <1>3, <1>6 DEF Here
<1>8. ref'.ptr = 1 /\ (State(ref.ptr, wait, ended, reg, key))' = ref'
  <2>1. ref' = State(1, 0, FALSE, Silenced(reg), FALSE)
    BY <1>1, <1>5
  <2>2. ref'.ptr = 1
    BY <2>1 DEF State
  <2>3. (State(ref.ptr, wait, ended, reg, key))' = State(ref'.ptr, wait', ended', reg', key')
    BY DEF State
  <2>4. ended' = FALSE
    BY <1>1, <1>2
  <2> QED
    BY <1>1, <2>1, <2>2, <2>3, <2>4
<1> QED
  BY <1>1, <1>2, <1>3, <1>6, <1>7, <1>8 DEF Agrees

\* The next page goes on where the one before it ended.
LEMMA Continuing ==
    ASSUME NEW last, NEW start, Linked(last, start), Agrees(start), Continue, ~EntersEarly
    PROVE  /\ Agrees(start)' /\ pc' = "compare" /\ Here(start)' = Here(start) + 1
           /\ wait' = R[Here(start) + 1].delay /\ Here(start) + 1 <= Len(R)
<1>1. /\ pc = "stream_end" /\ pages[page].more /\ ~pages[page].restarts
      /\ page' = pages[page].next
      /\ ptr' = 1 /\ wait' = DelayAt(pages[page'].records, 1)
      /\ pc' = (IF ContinuesAtOnce /\ wait' = 0 THEN "apply" ELSE "compare")
      /\ ended' = ended /\ reg' = reg /\ key' = key /\ ref' = ref
      /\ pages' = pages /\ whole' = whole /\ first' = first
  BY DEF Continue, built
<1>2. /\ page \in first..last /\ ptr = Len(pages[page].records) /\ ended = FALSE
      /\ ptr \in 1..Len(pages[page].records) /\ ref = Behind(Here(start), reg, key)
  BY <1>1 DEF Agrees, Linked
<1>3. page < last /\ page' = page + 1
  <2>1. /\ pages[page].more <=> page < last \/ (track.loop /\ first < last)
        /\ pages[page].restarts <=> track.loop /\ first < last /\ page = last
        /\ pages[page].next = IF page < last THEN page + 1 ELSE first
        /\ last \in Nat /\ first \in Nat
    BY <1>2 DEF Linked
  <2>2. page < last
    BY <1>1, <1>2, <2>1
  <2> QED
    BY <1>1, <2>1, <2>2
<1> DEFINE h == Here(start)
<1>4. /\ page + 1 \in first..last /\ start[page + 1] = h + 1 /\ h + 1 <= Len(R) /\ h \in Nat
      /\ 1 \in 1..Len(pages[page + 1].records)
      /\ DelayAt(pages[page + 1].records, 1) = R[h + 1].delay
      /\ DelayAt(R, h + 1) = R[h + 1].delay
      /\ R[h + 1].delay \in Nat /\ R[h + 1].delay # EndMark
  <2>1. ptr = Len(pages[page].records) /\ ptr \in 1..Len(pages[page].records)
        /\ page \in first..last /\ page < last
    BY Zenon, <1>2, <1>3
  <2>2. PICK here : here = start[page] + ptr - 1
    OBVIOUS
  <2>3. /\ page + 1 \in first..last /\ start[page + 1] = here + 1 /\ here + 1 <= Len(R)
        /\ here \in Nat /\ 1 \in 1..Len(pages[page + 1].records)
        /\ DelayAt(pages[page + 1].records, 1) = R[here + 1].delay
        /\ DelayAt(R, here + 1) = R[here + 1].delay
        /\ R[here + 1].delay \in Nat /\ R[here + 1].delay # EndMark
    BY SMTT(60), <2>1, <2>2, NextOnTrack
  <2>4. h = here
    BY <2>2 DEF Here
  <2> QED
    BY Zenon, <2>3, <2>4
<1>5. wait' = R[h + 1].delay /\ wait' \in Nat
  BY <1>1, <1>3, <1>4
<1>6. Here(start)' = h + 1
  <2>1. Here(start)' = start[page + 1] + 1 - 1
    BY <1>1, <1>3 DEF Here
  <2> HIDE DEF h
  <2> QED
    BY <2>1, <1>4
<1>7. page + 1 \in DOMAIN pages
  BY <1>4 DEF Linked
<1>8. pc' = "compare"
  <2>1. page + 1 # first
    BY <1>2 DEF Linked
  <2>2. ~(ContinuesAtOnce /\ wait' = 0)
    BY <1>1, <1>3, <1>7, <2>1 DEF EntersEarly, ContinuesAtOnce
  <2> QED
    BY <1>1, <2>2
<1> HIDE DEF h
<1>9. ref' = State(h + 1, wait', FALSE, reg', key')
  BY <1>1, <1>2, <1>4, <1>5 DEF Behind, h
<1>10. ref'.ptr = h + 1 /\ (State(ref.ptr, wait, ended, reg, key))' = ref'
  <2>1. ref'.ptr = h + 1
    BY <1>9 DEF State
  <2>2. (State(ref.ptr, wait, ended, reg, key))' = State(ref'.ptr, wait', ended', reg', key')
    BY DEF State
  <2>3. ended' = FALSE
    BY <1>1, <1>2
  <2> QED
    BY <1>9, <2>1, <2>2, <2>3
<1>11. Agrees(start)'
  BY <1>1, <1>2, <1>3, <1>4, <1>5, <1>6, <1>7, <1>8, <1>9, <1>10 DEF Agrees
<1> QED
  BY <1>4, <1>5, <1>6, <1>8, <1>11 DEF h

\* The end of the track, or of its only page.
LEMMA Ending ==
    ASSUME NEW last, NEW start, Linked(last, start), Agrees(start), LocalEnd
    PROVE  Agrees(start)' /\ page = last /\ Here(start) = Len(R)
<1>1. /\ pc = "stream_end" /\ ~pages[page].more
      /\ reg' = Silenced(reg) /\ key' = FALSE
      /\ IF pages[page].loops THEN ptr' = 1 /\ wait' = 0 /\ ended' = ended
         ELSE ended' = TRUE /\ ptr' = ptr /\ wait' = wait
      /\ page' = page /\ pc' = "compare" /\ ref' = ref
      /\ pages' = pages /\ whole' = whole /\ first' = first
  BY DEF LocalEnd, Silence, built
<1>2. /\ page \in first..last /\ ptr = Len(pages[page].records) /\ ended = FALSE /\ wait = 0
      /\ ptr \in 1..Len(pages[page].records) /\ ref = Behind(Here(start), reg, key)
      /\ page \in DOMAIN pages
  BY <1>1 DEF Agrees, Linked
<1>3. page = last /\ (pages[page].loops => first = last) /\ (pages[page].loops <=> whole.loops)
  <2>1. /\ pages[page].more <=> page < last \/ (track.loop /\ first < last)
        /\ pages[page].loops <=> track.loop /\ first = last
        /\ last \in Nat /\ first \in Nat /\ first <= last
        /\ whole.loops = track.loop
    BY <1>2 DEF Linked
  <2>2. page = last
    BY <1>1, <1>2, <2>1
  <2>3. ~(track.loop /\ first < last)
    BY <1>1, <2>1
  <2>4. track.loop => first = last
    BY <2>1, <2>3
  <2>5. pages[page].loops <=> track.loop
    BY <2>1, <2>4
  <2>6. pages[page].loops <=> whole.loops
    BY Zenon, <2>1, <2>5
  <2> QED
    BY <2>1, <2>2, <2>6
<1>4. Here(start) = Len(R) /\ DelayAt(R, Here(start) + 1) = EndMark
  BY <1>2, <1>3, OnTrack DEF Here
<1>5. CASE pages[page].loops
  <2>1. ref = State(1, 0, FALSE, Silenced(reg), FALSE)
    BY <1>2, <1>3, <1>4, <1>5 DEF Behind
  <2>2. page = first
    BY <1>3, <1>5
  <2>3. /\ 1 \in 1..Len(pages[first].records) /\ start[first] + 1 - 1 = 1
    BY FirstPage
  <2>4. Here(start)' = 1
    BY <1>1, <1>5, <2>2, <2>3 DEF Here
  <2>5. ref'.ptr = 1 /\ (State(ref.ptr, wait, ended, reg, key))' = ref'
    <3>1. ref' = State(1, 0, FALSE, Silenced(reg), FALSE)
      BY <1>1, <2>1
    <3>2. ref'.ptr = 1
      BY <3>1 DEF State
    <3>3. (State(ref.ptr, wait, ended, reg, key))' = State(ref'.ptr, wait', ended', reg', key')
      BY DEF State
    <3>4. ended' = FALSE /\ wait' = 0
      BY <1>1, <1>2, <1>5
    <3> QED
      BY <1>1, <3>1, <3>2, <3>3, <3>4
  <2>6. /\ pc' = "compare" /\ ended' \in BOOLEAN /\ wait' \in Nat
        /\ page' \in DOMAIN pages' /\ ptr' \in 1..Len(pages'[page'].records)
    <3>1. pc' = "compare" /\ ended' = FALSE /\ wait' = 0 /\ page' = page /\ ptr' = 1
          /\ pages' = pages
      BY <1>1, <1>2, <1>5
    <3> QED
      BY <3>1, <1>2, <2>2, <2>3
  <2>7. Agrees(start)'
    BY <2>4, <2>5, <2>6 DEF Agrees
  <2> QED
    BY <1>3, <1>4, <2>7
<1>6. CASE ~pages[page].loops
  <2>1. ref = State(Here(start), 0, TRUE, Silenced(reg), FALSE)
    BY <1>2, <1>3, <1>4, <1>6 DEF Behind
  <2>2. ref'.ptr = Here(start) /\ (State(ref.ptr, wait, ended, reg, key))' = ref'
    <3>1. ref' = State(Here(start), 0, TRUE, Silenced(reg), FALSE)
      BY <1>1, <2>1
    <3>2. ref'.ptr = Here(start)
      BY <3>1 DEF State
    <3>3. (State(ref.ptr, wait, ended, reg, key))' = State(ref'.ptr, wait', ended', reg', key')
      BY DEF State
    <3>4. ended' = TRUE /\ wait' = 0
      BY <1>1, <1>2, <1>6
    <3> QED
      BY <1>1, <3>1, <3>2, <3>3, <3>4
  <2>3. /\ pc' = "compare" /\ ended' = TRUE /\ wait' \in Nat
        /\ page' \in DOMAIN pages' /\ ptr' \in 1..Len(pages'[page'].records)
    BY <1>1, <1>2, <1>6
  <2>4. Agrees(start)'
    BY <2>2, <2>3 DEF Agrees
  <2> QED
    BY <1>3, <1>4, <2>4
<1> QED
  BY <1>5, <1>6

\* Between two ticks nothing moves.
LEMMA Comparing ==
    ASSUME NEW last, NEW start, Linked(last, start), Agrees(start),
           Compare \/ UNCHANGED vars
    PROVE  Agrees(start)'
<1>1. /\ pc \in {"compare", "ret"} <=> pc' \in {"compare", "ret"}
      /\ pc \notin {"compare", "ret"} => pc' = pc
      /\ pc' \in {"compare", "ret"} \/ pc' = pc
      /\ page' = page /\ ptr' = ptr /\ ended' = ended /\ wait' = wait
      /\ reg' = reg /\ key' = key /\ ref' = ref /\ pages' = pages /\ whole' = whole
      /\ first' = first
  BY DEF Compare, vars, built, engine
<1>2. Here(start)' = Here(start) /\ R' = R
  BY <1>1 DEF Here, R
<1>3. /\ (State(ref.ptr, wait, ended, reg, key))' = State(ref.ptr, wait, ended, reg, key)
      /\ (Behind(Here(start), Written(R[Here(start)], reg), key))'
            = Behind(Here(start), Written(R[Here(start)], reg), key)
      /\ (Behind(Here(start), reg, key))' = Behind(Here(start), reg, key)
      /\ RefInit' = RefInit
  <2>1. (State(ref.ptr, wait, ended, reg, key))' = State(ref.ptr, wait, ended, reg, key)
    BY <1>1 DEF State
  <2>2. (Behind(Here(start), Written(R[Here(start)], reg), key))'
            = Behind(Here(start), Written(R[Here(start)], reg), key)
    BY <1>1, <1>2 DEF Behind, DelayAt, Written, State, Silenced, R, EndMark
  <2>3. (Behind(Here(start), reg, key))' = Behind(Here(start), reg, key)
    BY <1>1, <1>2 DEF Behind, DelayAt, State, Silenced, R, EndMark
  <2>4. RefInit' = RefInit
    BY <1>1 DEF RefInit, RefEvent, DelayAt, Written, Silenced, EndMark, Silent
  <2> QED
    BY <2>1, <2>2, <2>3, <2>4
<1> QED
  BY <1>1, <1>2, <1>3 DEF Agrees

-----------------------------------------------------------------------------
\* The frames of the track and its records.

Sounding == [Voices -> [tone : Nat, vol : Nat]]

\* An event with what changed in frame f.
Carries(event, f) ==
    /\ event.tones = [v \in {u \in Voices : ToneChanged(f, u)} |-> Frame(f)[v].tone]
    /\ event.vols = [v \in {u \in Voices : VolChanged(f, u)} |-> Frame(f)[v].vol]

Quiet(f) == \A v \in Voices : ~ToneChanged(f, v) /\ ~VolChanged(f, v)

\* Record n is that of frame at[n]; nothing changes between two of them.
Timed(at) ==
    /\ LastEvent \in Nat /\ \A f \in 0..LastEvent : Frame(f) \in Sounding
    /\ at \in [1..Len(R) -> 1..LastEvent] /\ at[1] = 1 /\ at[Len(R)] = LastEvent
    /\ R[1].delay = 0
    /\ \A n \in 1..Len(R) : Carries(R[n], at[n])
    /\ \A n \in 1..Len(R) : n + 1 <= Len(R) =>
         /\ at[n] < at[n + 1] /\ R[n + 1].delay = at[n + 1] - at[n] - 1
         /\ \A f \in Nat : at[n] < f /\ f < at[n + 1] => Quiet(f)

\* encode gives every record the frame it is for.
LEMMA TimedAtFirst ==
    ASSUME Sane, Init
    PROVE  \E at : Timed(at)
<1>1. Frames /\ MaxDelay \in Nat /\ whole = Block(Records, track.loop, FALSE, FALSE, 0)
  BY DEF Sane, Init, Frames
<1>2. R = Records
  BY <1>1 DEF R, Block
<1>3. Count \in Nat \ {0} /\ Len(R) = Count /\ Count = Cardinality(StoredFrames)
  BY <1>1, <1>2, Counted, RecordsAre DEF Count
<1> DEFINE at == [n \in 1..Count |-> Stored(n)]
<1>4. LastEvent \in Nat /\ LastEvent <= Len(track.frames) /\ Len(track.frames) \in Nat
      /\ DOMAIN track.frames = 1..Len(track.frames)
      /\ EventFrames \subseteq StoredFrames
  BY <1>1, EventsAreFrames, StoredWell DEF Frames
<1>5. ASSUME NEW f \in 0..LastEvent PROVE Frame(f) \in Sounding
  <2>1. CASE f = 0
    BY <2>1 DEF Frame, Silent, Sounding
  <2>2. CASE f # 0
    <3>1. f \in 1..Len(track.frames)
      BY <1>4, <2>2
    <3>2. track.frames[f] \in Sounding
      BY <1>1, <3>1 DEF Frames, Sounding
    <3> QED
      BY <2>2, <3>2 DEF Frame
  <2> QED
    BY <2>1, <2>2
<1>6. ASSUME NEW n \in 1..Count PROVE Stored(n) \in 1..LastEvent
  BY <1>1, <1>4, NthStored, Counted
<1>7. at \in [1..Len(R) -> 1..LastEvent]
  BY <1>3, <1>6
<1>8. at[1] = 1 /\ at[Len(R)] = LastEvent
  BY <1>1, <1>3, NthStored
<1> DEFINE delay(n) == Stored(n) - (IF n = 1 THEN 0 ELSE Stored(n - 1)) - 1
<1> DEFINE tones(n) ==
             [v \in {u \in Voices : ToneChanged(Stored(n), u)} |-> Frame(Stored(n))[v].tone]
<1> DEFINE vols(n) ==
             [v \in {u \in Voices : VolChanged(Stored(n), u)} |-> Frame(Stored(n))[v].vol]
<1>9. ASSUME NEW n \in 1..Count
      PROVE  R[n].delay = delay(n) /\ R[n].tones = tones(n) /\ R[n].vols = vols(n)
  <2>1. R[n] = [delay |-> delay(n), tones |-> tones(n), vols |-> vols(n)]
    BY <1>2, <1>3, Zenon DEF Records
  <2> HIDE DEF delay, tones, vols
  <2> QED
    BY <2>1
<1>10. R[1].delay = 0
  <2>0. 1 \in 1..Count
    BY <1>3
  <2>1. R[1].delay = delay(1)
    <3> HIDE DEF delay, tones, vols
    <3> QED
      BY <1>9, <2>0
  <2>2. Stored(1) = 1
    BY <1>1, NthStored
  <2> QED
    BY <2>1, <2>2
<1>11. ASSUME NEW n \in 1..Count PROVE Carries(R[n], at[n])
  <2>1. R[n].tones = tones(n) /\ R[n].vols = vols(n)
    BY <1>9
  <2>2. at[n] = Stored(n)
    OBVIOUS
  <2> HIDE DEF at
  <2> QED
    BY Zenon, <2>1, <2>2 DEF Carries
<1>12. ASSUME NEW n \in 1..Count, n + 1 <= Count
       PROVE  /\ at[n] < at[n + 1] /\ R[n + 1].delay = at[n + 1] - at[n] - 1
              /\ \A f \in Nat : at[n] < f /\ f < at[n + 1] => Quiet(f)
  <2>1. n + 1 \in 1..Count /\ (n + 1) - 1 = n /\ n + 1 # 1
    BY <1>3, <1>12
  <2>2. at[n] = Stored(n) /\ at[n + 1] = Stored(n + 1)
    BY <2>1
  <2>3. /\ Stored(n) \in Nat /\ Stored(n + 1) \in Nat
        /\ Stored(n) < Stored(n + 1) /\ Stored(n + 1) <= LastEvent
        /\ \A h \in StoredFrames : h <= Stored(n) \/ Stored(n + 1) <= h
    BY <1>1, <1>12, StoredInOrder
  <2>4. R[n + 1].delay = Stored(n + 1) - Stored(n) - 1
    <3>1. R[n + 1].delay = delay(n + 1)
      BY <1>9, <2>1
    <3>2. delay(n + 1) = Stored(n + 1) - Stored(n) - 1
      BY Zenon, <2>1
    <3> QED
      BY <3>1, <3>2
  <2>5. ASSUME NEW f \in Nat, Stored(n) < f, f < Stored(n + 1) PROVE Quiet(f)
    <3>1. f \in 1..Len(track.frames)
      BY <1>4, <2>3, <2>5
    <3>2. f \notin EventFrames
      BY <1>4, <2>3, <2>5
    <3> QED
      BY <3>1, <3>2, <1>4 DEF EventFrames, Quiet
  <2> QED
    BY <2>2, <2>3, <2>4, <2>5
<1> HIDE DEF at
<1>13. Timed(at)
  BY <1>3, <1>4, <1>5, <1>7, <1>8, <1>10, <1>11, <1>12 DEF Timed
<1> QED
  BY <1>13

\* The track does not change.
LEMMA TimedKept ==
    ASSUME NEW at, Timed(at), UNCHANGED built
    PROVE  Timed(at)' /\ LastEvent' = LastEvent /\ \A f : Frame(f)' = Frame(f)
<1>1. track' = track /\ R' = R
  BY DEF built, R
<1>2. \A f : Frame(f)' = Frame(f)
  BY <1>1 DEF Frame, Silent
<1>3. \A f, v : /\ ToneChanged(f, v)' <=> ToneChanged(f, v)
                /\ VolChanged(f, v)' <=> VolChanged(f, v)
  BY <1>2 DEF ToneChanged, VolChanged, Active
<1>4. EventFrames' = EventFrames
  BY <1>1, <1>3 DEF EventFrames
<1>5. LastEvent' = LastEvent
  BY <1>4 DEF LastEvent
<1>7. \A f : Quiet(f) => Quiet(f)'
  BY <1>3 DEF Quiet
<1>8. Timed(at)'
  <2>1. /\ LastEvent' \in Nat /\ \A f \in 0..LastEvent' : Frame(f)' \in Sounding
        /\ at \in [1..Len(R') -> 1..LastEvent'] /\ at[1] = 1 /\ at[Len(R')] = LastEvent'
        /\ R'[1].delay = 0
    BY <1>1, <1>2, <1>5 DEF Timed
  <2>2. \A n \in 1..Len(R') : (Carries(R[n], at[n]))'
    <3> SUFFICES ASSUME NEW n \in 1..Len(R) PROVE (Carries(R[n], at[n]))'
      BY <1>1
    <3>1. Carries(R[n], at[n])
      BY DEF Timed
    <3> QED
      BY <3>1, <1>1, <1>2, <1>3 DEF Carries
  <2>3. \A n \in 1..Len(R') : n + 1 <= Len(R') =>
         /\ at[n] < at[n + 1] /\ R'[n + 1].delay = at[n + 1] - at[n] - 1
         /\ \A f \in Nat : at[n] < f /\ f < at[n + 1] => Quiet(f)'
    BY <1>1, <1>7 DEF Timed
  <2> QED
    BY <2>1, <2>2, <2>3 DEF Timed, Sounding
<1> QED
  BY <1>2, <1>5, <1>8

\* The registers sound like frame f.
SoundOf(sound, f) ==
    /\ sound \in Sounding
    /\ \A v \in Voices : /\ sound[v].vol = Frame(f)[v].vol
                         /\ sound[v].vol > 0 => sound[v] = Frame(f)[v]

\* An event makes its frame heard, and a quiet frame sounds like the one before.
LEMMA Hearing ==
    ASSUME NEW f \in Nat \ {0}, Frame(f) \in Sounding, Frame(f - 1) \in Sounding,
           NEW sound, SoundOf(sound, f - 1)
    PROVE  /\ Quiet(f) => SoundOf(sound, f)
           /\ \A event : Carries(event, f) => SoundOf(Written(event, sound), f)
<1>1. ASSUME NEW v \in Voices
      PROVE  /\ sound[v].tone \in Nat /\ sound[v].vol \in Nat
             /\ sound[v] = [tone |-> sound[v].tone, vol |-> sound[v].vol]
             /\ Frame(f)[v].tone \in Nat /\ Frame(f)[v].vol \in Nat
             /\ Frame(f)[v] = [tone |-> Frame(f)[v].tone, vol |-> Frame(f)[v].vol]
             /\ Frame(f - 1)[v].vol \in Nat
             /\ sound[v].vol = Frame(f - 1)[v].vol
             /\ sound[v].vol > 0 => sound[v].tone = Frame(f - 1)[v].tone
  BY DEF SoundOf, Sounding
<1>2. ASSUME Quiet(f) PROVE SoundOf(sound, f)
  <2>1. ASSUME NEW v \in Voices
        PROVE  sound[v].vol = Frame(f)[v].vol /\ (sound[v].vol > 0 => sound[v] = Frame(f)[v])
    <3>1. sound[v].vol = Frame(f)[v].vol
      BY <1>1, <1>2 DEF Quiet, VolChanged
    <3>2. sound[v].vol > 0 => sound[v].tone = Frame(f)[v].tone
      BY <1>1, <1>2, <3>1 DEF Quiet, ToneChanged, Active
    <3> QED
      BY <1>1, <3>1, <3>2
  <2> QED
    BY <2>1 DEF SoundOf
<1>3. ASSUME NEW event, Carries(event, f) PROVE SoundOf(Written(event, sound), f)
  <2> DEFINE new == Written(event, sound)
  <2>1. ASSUME NEW v \in Voices
        PROVE  /\ new[v].vol = Frame(f)[v].vol /\ (new[v].vol > 0 => new[v] = Frame(f)[v])
               /\ new[v] \in [tone : Nat, vol : Nat]
    <3> DEFINE t == IF v \in DOMAIN event.tones THEN event.tones[v] ELSE sound[v].tone
    <3> DEFINE l == IF v \in DOMAIN event.vols THEN event.vols[v] ELSE sound[v].vol
    <3>1. new[v] = [tone |-> t, vol |-> l]
      BY DEF Written
    <3>2. (v \in DOMAIN event.tones <=> ToneChanged(f, v))
          /\ (ToneChanged(f, v) => event.tones[v] = Frame(f)[v].tone)
      BY <1>3 DEF Carries
    <3>3. (v \in DOMAIN event.vols <=> VolChanged(f, v))
          /\ (VolChanged(f, v) => event.vols[v] = Frame(f)[v].vol)
      BY <1>3 DEF Carries
    <3>4. l = Frame(f)[v].vol
      BY <3>3, <1>1 DEF VolChanged
    <3>5. t \in Nat /\ (Frame(f)[v].vol > 0 => t = Frame(f)[v].tone)
      BY <3>2, <1>1 DEF ToneChanged, Active
    <3> HIDE DEF t, l, new
    <3>6. new[v].tone = t /\ new[v].vol = l
      BY <3>1
    <3>7. l \in Nat
      BY <3>4, <1>1
    <3>8. new[v] \in [tone : Nat, vol : Nat]
      BY <3>1, <3>5, <3>7
    <3>9. new[v].vol > 0 => new[v] = Frame(f)[v]
      <4>1. ASSUME new[v].vol > 0 PROVE new[v] = Frame(f)[v]
        <5>1. t = Frame(f)[v].tone /\ l = Frame(f)[v].vol
          BY <4>1, <3>4, <3>5, <3>6
        <5>2. Frame(f)[v] = [tone |-> Frame(f)[v].tone, vol |-> Frame(f)[v].vol]
          BY <1>1
        <5> QED
          BY Zenon, <3>1, <5>1, <5>2
      <4> QED
        BY <4>1
    <3> QED
      BY <3>4, <3>6, <3>8, <3>9
  <2>2. new \in Sounding
    <3>1. new = [v \in Voices |-> new[v]]
      BY DEF Written
    <3> HIDE DEF new
    <3> QED
      BY <3>1, <2>1 DEF Sounding
  <2> HIDE DEF new
  <2>3. SoundOf(new, f)
    BY <2>1, <2>2 DEF SoundOf
  <2> QED
    BY <2>3 DEF new
<1> QED
  BY <1>2, <1>3

-----------------------------------------------------------------------------
\* In the first pass the engine is where the frame played last left it.
Faithful(start, at) ==
    ~again =>
      /\ tick \in Nat
      /\ pc = "init" => tick = 0
      /\ pc = "apply" => at[Here(start)] = tick + 1 /\ SoundOf(reg, tick) /\ key
      /\ pc = "stream_end" =>
           at[Here(start)] = tick + 1 /\ SoundOf(reg, tick + 1) /\ key
      /\ pc \in {"compare", "ret"} =>
           IF ended THEN tick + 1 = LastEvent
           ELSE /\ key /\ SoundOf(reg, tick + 1)
                /\ Here(start) \in 2..Len(R) /\ wait = at[Here(start)] - tick - 2
                /\ at[Here(start) - 1] <= tick + 1

\* The pages are the track, the track is its frames, and the engine, its pages
\* and its reference agree where they are.
TrackInv ==
    \E last, start, at :
       /\ Linked(last, start) /\ Timed(at)
       /\ ~EntersEarly => Agrees(start) /\ Faithful(start, at)

\* What the engine hears between two ticks.
LEMMA FaithfulPlay ==
    ASSUME NEW last, NEW start, NEW at, Linked(last, start), Timed(at), Agrees(start),
           Faithful(start, at), Play
    PROVE  Faithful(start, at)'
<1> SUFFICES ASSUME ~again' PROVE Faithful(start, at)'
  BY DEF Faithful
<1>1. /\ pc = "ret" /\ tick' = (IF again \/ ended THEN tick ELSE tick + 1)
      /\ IF ended THEN pc' = "compare" /\ UNCHANGED wait
         ELSE IF wait = 0 THEN pc' = "apply" /\ UNCHANGED wait
         ELSE pc' = "compare" /\ wait' = wait - 1
      /\ page' = page /\ ptr' = ptr /\ ended' = ended /\ reg' = reg /\ key' = key
      /\ again' = again /\ UNCHANGED built /\ R' = R /\ ~again
  BY DEF Play, built, R
<1>2. Here(start)' = Here(start) /\ LastEvent' = LastEvent /\ \A f : Frame(f)' = Frame(f)
  BY <1>1, TimedKept DEF Here
<1>3. /\ tick \in Nat /\ ended \in BOOLEAN /\ wait \in Nat
      /\ IF ended THEN tick + 1 = LastEvent
         ELSE /\ key /\ SoundOf(reg, tick + 1)
              /\ Here(start) \in 2..Len(R) /\ wait = at[Here(start)] - tick - 2
              /\ at[Here(start) - 1] <= tick + 1
  BY <1>1 DEF Faithful, Agrees
<1>4. CASE ended
  BY <1>1, <1>2, <1>3, <1>4 DEF Faithful
<1>5. CASE ~ended
  <2> DEFINE h == Here(start)
  <2>1. /\ tick' = tick + 1 /\ key /\ SoundOf(reg, tick + 1) /\ h \in 2..Len(R)
        /\ wait = at[h] - tick - 2 /\ at[h - 1] <= tick + 1
    BY <1>1, <1>3, <1>5
  <2>2. Len(R) \in Nat /\ h \in 1..Len(R) /\ h - 1 \in 1..Len(R) /\ (h - 1) + 1 = h
        /\ h \in Nat
    BY <2>1 DEF Linked
  <2> HIDE DEF h
  <2>3. /\ LastEvent \in Nat /\ at[h] \in 1..LastEvent /\ at[h - 1] \in 1..LastEvent
        /\ \A f \in Nat : at[h - 1] < f /\ f < at[h] => Quiet(f)
        /\ \A f \in 0..LastEvent : Frame(f) \in Sounding
    <3> DEFINE g == h - 1
    <3>1. g \in 1..Len(R) /\ g + 1 = h /\ g + 1 <= Len(R) /\ h \in 1..Len(R)
      BY <2>2
    <3> HIDE DEF g
    <3>2. \A f \in Nat : at[g] < f /\ f < at[g + 1] => Quiet(f)
      BY <3>1 DEF Timed
    <3>3. /\ LastEvent \in Nat /\ at[h] \in 1..LastEvent /\ at[g] \in 1..LastEvent
          /\ \A f \in 0..LastEvent : Frame(f) \in Sounding
      BY <3>1 DEF Timed
    <3> QED
      BY <3>1, <3>2, <3>3 DEF g
  <2>4. \A sound, f : (SoundOf(sound, f))' <=> SoundOf(sound, f)
    BY <1>2 DEF SoundOf, Sounding
  <2>5. CASE wait = 0
    <3>1. at[h] = tick' + 1
      BY <2>1, <2>3, <2>5, <1>3
    <3>2. pc' = "apply" /\ tick' \in Nat
      BY <1>1, <1>3, <1>5, <2>1, <2>5
    <3>3. SoundOf(reg, tick)'
      BY <1>1, <1>2, <2>1 DEF SoundOf, Sounding
    <3> QED
      BY <1>1, <1>2, <2>1, <3>1, <3>2, <3>3 DEF Faithful, h
  <2>6. CASE wait # 0
    <3>1. tick + 2 \in Nat \ {0} /\ tick + 2 < at[h] /\ at[h - 1] < tick + 2
          /\ (tick + 2) - 1 = tick + 1 /\ tick + 2 \in 0..LastEvent /\ tick + 1 \in 0..LastEvent
      BY <2>1, <2>3, <2>6, <1>3
    <3>2. Quiet(tick + 2) /\ Frame(tick + 2) \in Sounding /\ Frame(tick + 1) \in Sounding
      BY <2>3, <3>1
    <3>3. SoundOf(reg, tick + 2)
      BY <2>1, <3>1, <3>2, Hearing
    <3>4. tick' + 1 = tick + 2 /\ tick' \in Nat /\ pc' = "compare" /\ ~ended'
          /\ wait' = at[h] - tick' - 2 /\ at[h - 1] <= tick' + 1
      <4>1. tick' = tick + 1 /\ pc' = "compare" /\ ended' = FALSE /\ wait' = wait - 1
        BY <1>1, <1>3, <1>5, <2>6
      <4>2. tick \in Nat /\ wait = at[h] - tick - 2 /\ at[h - 1] <= tick + 1
            /\ at[h] \in Nat /\ at[h - 1] \in Nat
        BY <1>3, <2>1, <2>3
      <4> QED
        BY <4>1, <4>2
    <3>5. SoundOf(reg, tick + 1)'
      BY <1>1, <1>2, <3>3, <3>4 DEF SoundOf, Sounding
    <3> QED
      BY <1>1, <1>2, <2>1, <3>4, <3>5 DEF Faithful, h
  <2> QED
    BY <2>5, <2>6
<1> QED
  BY <1>3, <1>4, <1>5

\* An event is applied in the tick of its frame.
LEMMA FaithfulEvent ==
    ASSUME NEW last, NEW start, NEW at, Linked(last, start), Timed(at), Agrees(start),
           Faithful(start, at), ApplyEvent
    PROVE  Faithful(start, at)'
<1> SUFFICES ASSUME ~again' PROVE Faithful(start, at)'
  BY DEF Faithful
<1>1. /\ pc = "apply" /\ reg' = Written(pages[page].records[ptr], reg)
      /\ IF DelayAt(pages[page].records, ptr + 1) = EndMark
         THEN pc' = "stream_end" /\ wait' = wait /\ ptr' = ptr
         ELSE pc' = "compare" /\ wait' = DelayAt(pages[page].records, ptr + 1) /\ ptr' = ptr + 1
      /\ page' = page /\ ended' = ended /\ key' = key /\ tick' = tick
      /\ again' = again /\ UNCHANGED built /\ R' = R /\ ~again
  BY DEF ApplyEvent, built, R
<1>2. LastEvent' = LastEvent /\ \A f : Frame(f)' = Frame(f)
  BY <1>1, TimedKept
<1> DEFINE h == Here(start)
<1>3. /\ tick \in Nat /\ at[h] = tick + 1 /\ SoundOf(reg, tick) /\ key /\ ended = FALSE
      /\ page \in first..last /\ ptr \in 1..Len(pages[page].records)
  BY <1>1 DEF Faithful, Agrees, Linked
<1>4. /\ h \in 1..Len(R) /\ h \in Nat /\ pages[page].records[ptr] = R[h]
      /\ ptr < Len(pages[page].records) =>
           /\ h + 1 <= Len(R)
           /\ DelayAt(pages[page].records, ptr + 1) = R[h + 1].delay
           /\ R[h + 1].delay # EndMark
      /\ ptr = Len(pages[page].records) =>
           DelayAt(pages[page].records, ptr + 1) = EndMark
  <2>1. h \in 1..Len(R) /\ h \in Nat /\ pages[page].records[ptr] = R[h]
    BY <1>3, OnTrack DEF Here
  <2>2. ptr < Len(pages[page].records) =>
           /\ h + 1 <= Len(R)
           /\ DelayAt(pages[page].records, ptr + 1) = R[h + 1].delay
           /\ R[h + 1].delay # EndMark
    BY <1>3, OnTrack DEF Here
  <2>3. ptr = Len(pages[page].records) =>
           DelayAt(pages[page].records, ptr + 1) = EndMark
    BY <1>3, OnTrack
  <2> HIDE DEF h
  <2> QED
    BY <2>1, <2>2, <2>3
<1>5. Len(R) \in Nat
  BY DEF Linked
<1>6. Len(pages[page].records) \in Nat /\ ptr \in Nat /\ start[page] \in Nat
      /\ ptr <= Len(pages[page].records) /\ h = start[page] + ptr - 1
  <2>1. page \in first..(last + 1) /\ page + 1 \in first..(last + 1)
    BY <1>3 DEF Linked
  <2>2. start[page] \in Nat /\ start[page + 1] \in Nat
    BY <2>1 DEF Linked
  <2>3. Len(pages[page].records) = start[page + 1] - start[page] /\ start[page] < start[page + 1]
    BY <1>3 DEF Linked
  <2> QED
    BY <1>3, <2>2, <2>3 DEF Here
<1> HIDE DEF h
<1>7. /\ LastEvent \in Nat /\ at[h] \in 1..LastEvent /\ Carries(R[h], at[h])
      /\ \A f \in 0..LastEvent : Frame(f) \in Sounding
      /\ h + 1 <= Len(R) => R[h + 1].delay = at[h + 1] - at[h] - 1
      /\ h + 1 <= Len(R) => h + 1 \in 1..Len(R) /\ at[h + 1] \in 1..LastEvent
  <2>1. h + 1 <= Len(R) => h + 1 \in 1..Len(R)
    BY <1>4, <1>5
  <2> QED
    BY <1>4, <2>1 DEF Timed
<1>8. SoundOf(reg', tick + 1)
  <2>1. tick + 1 \in Nat \ {0} /\ (tick + 1) - 1 = tick
        /\ Frame(tick + 1) \in Sounding /\ Frame(tick) \in Sounding
    <3>1. tick + 1 \in 0..LastEvent /\ tick \in 0..LastEvent
      BY <1>3, <1>7
    <3> QED
      BY <3>1, <1>7, <1>3
  <2>2. Carries(R[h], tick + 1)
    BY <1>7, <1>3
  <2>3. SoundOf(Written(R[h], reg), tick + 1)
    BY <1>3, <2>1, <2>2, Hearing
  <2> QED
    BY <2>3, <1>1, <1>4
<1>9. (SoundOf(reg, tick + 1))'
  BY <1>8, <1>1, <1>2 DEF SoundOf, Sounding
<1>10. CASE ptr = Len(pages[page].records)
  <2>1. pc' = "stream_end" /\ ptr' = ptr
    BY <1>1, <1>4, <1>10
  <2>2. Here(start)' = h
    BY <1>1, <2>1 DEF Here, h
  <2> QED
    BY <1>1, <1>3, <1>9, <2>1, <2>2 DEF Faithful
<1>11. CASE ptr < Len(pages[page].records)
  <2>1. pc' = "compare" /\ ptr' = ptr + 1 /\ wait' = R[h + 1].delay /\ ~ended'
    BY <1>1, <1>3, <1>4, <1>11
  <2>2. Here(start)' = h + 1
    <3>1. Here(start)' = start[page] + (ptr + 1) - 1
      BY <1>1, <2>1 DEF Here
    <3> QED
      BY <1>6, <3>1
  <2>3. /\ h + 1 \in 2..Len(R) /\ (h + 1) - 1 = h /\ at[h] <= tick + 1
        /\ wait' = at[h + 1] - tick - 2
    BY <1>3, <1>4, <1>5, <1>7, <1>11, <2>1
  <2> QED
    BY <1>1, <1>3, <1>9, <2>1, <2>2, <2>3 DEF Faithful
<1> QED
  BY <1>6, <1>10, <1>11

\* A page is continued in the tick of its predecessor's last event.
LEMMA FaithfulContinue ==
    ASSUME NEW last, NEW start, NEW at, Linked(last, start), Timed(at), Agrees(start),
           Faithful(start, at), Continue, ~EntersEarly
    PROVE  Faithful(start, at)'
<1> SUFFICES ASSUME ~again' PROVE Faithful(start, at)'
  BY DEF Faithful
<1>1. /\ pc = "stream_end" /\ ended' = ended /\ reg' = reg /\ key' = key /\ tick' = tick
      /\ again' = again /\ UNCHANGED built /\ R' = R /\ ~again
  BY DEF Continue, built, R
<1>2. LastEvent' = LastEvent /\ \A f : Frame(f)' = Frame(f)
  BY <1>1, TimedKept
<1> DEFINE h == Here(start)
<1>3. /\ pc' = "compare" /\ Here(start)' = h + 1
      /\ wait' = R[h + 1].delay /\ h + 1 <= Len(R)
  BY Continuing
<1>4. /\ tick \in Nat /\ at[h] = tick + 1 /\ SoundOf(reg, tick + 1) /\ key /\ ended = FALSE
      /\ page \in first..last /\ ptr \in 1..Len(pages[page].records)
  BY <1>1 DEF Faithful, Agrees, Linked
<1>5. h \in 1..Len(R) /\ h \in Nat /\ Len(R) \in Nat
  BY <1>4, OnTrack DEF Here, Linked
<1> HIDE DEF h
<1>6. h + 1 \in 2..Len(R) /\ (h + 1) - 1 = h /\ h + 1 \in 1..Len(R)
  BY <1>3, <1>5
<1>7. /\ LastEvent \in Nat /\ at[h] \in 1..LastEvent /\ at[h + 1] \in 1..LastEvent
      /\ R[h + 1].delay = at[h + 1] - at[h] - 1
  BY <1>3, <1>5, <1>6 DEF Timed
<1>8. wait' = at[h + 1] - tick - 2 /\ at[h] <= tick + 1
  BY <1>3, <1>4, <1>7
<1>9. (SoundOf(reg, tick + 1))'
  BY <1>4, <1>1, <1>2 DEF SoundOf, Sounding
<1> QED
  BY <1>1, <1>3, <1>4, <1>6, <1>8, <1>9 DEF Faithful

\* The other steps start the first pass, end it or leave it alone.
LEMMA FaithfulOthers ==
    ASSUME NEW last, NEW start, NEW at, Linked(last, start), Timed(at), Agrees(start),
           Faithful(start, at), EngineInit \/ Restart \/ LocalEnd \/ Compare \/ UNCHANGED vars
    PROVE  Faithful(start, at)'
<1> SUFFICES ASSUME ~again' PROVE Faithful(start, at)'
  BY DEF Faithful
<1>1. CASE EngineInit
  <2>1. /\ pc = "init" /\ page = first /\ reg' = Silent /\ key' = TRUE /\ ended' = FALSE
        /\ ptr' = 1 /\ wait' = DelayAt(pages[page].records, 1)
        /\ pc' = (IF wait' = 0 THEN "apply" ELSE "compare")
        /\ page' = page /\ tick' = tick /\ again' = again /\ UNCHANGED built /\ R' = R /\ ~again
    BY <1>1 DEF EngineInit, built, R, Agrees
  <2>2. LastEvent' = LastEvent /\ \A f : Frame(f)' = Frame(f)
    BY <2>1, TimedKept
  <2>3. start[first] + 1 - 1 = 1 /\ DelayAt(pages[first].records, 1) = R[1].delay
    BY FirstPage
  <2>4. Here(start)' = 1
    BY <2>1, <2>3 DEF Here
  <2>5. R[1].delay = 0 /\ at[1] = 1
    BY DEF Timed
  <2>6. tick' = 0 /\ pc' = "apply"
    BY <2>1, <2>3, <2>5 DEF Faithful
  <2>7. SoundOf(Silent, 0)
    BY DEF SoundOf, Silent, Frame, Sounding
  <2>8. (SoundOf(reg, tick))'
    BY <2>1, <2>2, <2>6, <2>7 DEF SoundOf, Sounding
  <2> QED
    BY <2>1, <2>4, <2>5, <2>6, <2>8 DEF Faithful
<1>2. CASE Restart
  BY <1>2 DEF Restart
<1>3. CASE LocalEnd
  <2>1. /\ pc = "stream_end" /\ pc' = "compare" /\ ended' = TRUE /\ tick' = tick
        /\ UNCHANGED built /\ ~again
    BY <1>3 DEF LocalEnd
  <2>2. LastEvent' = LastEvent
    BY <2>1, TimedKept
  <2>3. tick \in Nat /\ at[Here(start)] = tick + 1 /\ Here(start) = Len(R)
    BY <2>1, <1>3, Ending DEF Faithful
  <2>4. tick + 1 = LastEvent
    BY <2>3 DEF Timed
  <2> QED
    BY <2>1, <2>2, <2>3, <2>4 DEF Faithful
<1>4. CASE Compare \/ UNCHANGED vars
  <2>1. /\ pc' = pc \/ (pc = "compare" /\ pc' = "ret")
        /\ page' = page /\ ptr' = ptr /\ ended' = ended /\ wait' = wait /\ reg' = reg
        /\ key' = key /\ tick' = tick /\ again' = again /\ UNCHANGED built /\ R' = R
    BY <1>4 DEF Compare, vars, engine, built, R
  <2>2. LastEvent' = LastEvent /\ \A f : Frame(f)' = Frame(f)
    BY <2>1, TimedKept
  <2>3. Here(start)' = Here(start)
    BY <2>1 DEF Here
  <2>4. /\ (SoundOf(reg, tick))' <=> SoundOf(reg, tick)
        /\ (SoundOf(reg, tick + 1))' <=> SoundOf(reg, tick + 1)
    BY <2>1, <2>2 DEF SoundOf, Sounding
  <2> QED
    BY <2>1, <2>2, <2>3, <2>4 DEF Faithful
<1> QED
  BY <1>1, <1>2, <1>3, <1>4

\* The invariant, at first and from step to step.
LEMMA TrackStarts ==
    ASSUME Sane, Init
    PROVE  TrackInv
<1>1. PICK last, start : Linked(last, start)
  BY PagesLinked
<1>2. PICK at : Timed(at)
  BY TimedAtFirst
<1>3. Agrees(start)
  BY <1>1, AgreesAtFirst
<1>4. Faithful(start, at)
  BY DEF Faithful, Init
<1> QED
  BY <1>1, <1>2, <1>3, <1>4 DEF TrackInv

LEMMA TrackGoesOn ==
    ASSUME TrackInv, [Next]_vars
    PROVE  TrackInv'
<1>1. PICK last, start, at :
         /\ Linked(last, start) /\ Timed(at)
         /\ ~EntersEarly => Agrees(start) /\ Faithful(start, at)
  BY DEF TrackInv
<1>2. UNCHANGED built
  BY DEF Next, EngineInit, Play, ApplyEvent, Restart, Continue, LocalEnd, Compare, vars
<1>3. Linked(last, start)' /\ Timed(at)' /\ (EntersEarly <=> EntersEarly')
  BY <1>1, <1>2, LinkKept, TimedKept
<1>4. ASSUME ~EntersEarly PROVE Agrees(start)' /\ Faithful(start, at)'
  <2>1. Linked(last, start) /\ Timed(at) /\ Agrees(start) /\ Faithful(start, at)
    BY <1>1, <1>4
  <2>2. Agrees(start)'
    BY <2>1, <1>4, Starting, Playing, Applying, Restarting, Continuing, Ending, Comparing
       DEF Next
  <2>3. Faithful(start, at)'
    BY <2>1, <1>4, FaithfulPlay, FaithfulEvent, FaithfulContinue, FaithfulOthers DEF Next
  <2> QED
    BY <2>2, <2>3
<1> QED
  BY <1>3, <1>4 DEF TrackInv

\* The invariant has the two properties.
LEMMA InvMatches ==
    ASSUME TrackInv
    PROVE  MatchesReference /\ FirstPassFaithful
<1> SUFFICES ASSUME pc = "compare", ~EntersEarly
             PROVE  MatchesReference /\ FirstPassFaithful
  BY DEF MatchesReference, FirstPassFaithful
<1>1. PICK last, start, at :
         /\ Linked(last, start) /\ Timed(at)
         /\ ~EntersEarly => Agrees(start) /\ Faithful(start, at)
  BY DEF TrackInv
<1>2. Agrees(start) /\ Faithful(start, at)
  BY <1>1
<1>3. ref = State(ref.ptr, wait, ended, reg, key)
  BY <1>2 DEF Agrees
<1>4. MatchesReference
  <2>1. reg = ref.reg /\ key = ref.key /\ wait = ref.wait /\ ended = ref.ended
    BY <1>3 DEF State
  <2> QED
    BY <2>1 DEF MatchesReference
<1>5. FirstPassFaithful
  <2> SUFFICES ASSUME ~again, tick + 1 < LastEvent, NEW v \in Voices
               PROVE  /\ Sounds(v) <=> Active(tick + 1, v)
                      /\ Sounds(v) => reg[v] = Frame(tick + 1)[v]
    BY DEF FirstPassFaithful
  <2>1. tick \in Nat /\ (IF ended THEN tick + 1 = LastEvent ELSE key /\ SoundOf(reg, tick + 1))
    BY <1>2 DEF Faithful
  <2>2. LastEvent \in Nat
    BY <1>1 DEF Timed
  <2>3. key /\ SoundOf(reg, tick + 1)
    BY <2>1, <2>2
  <2> QED
    BY <2>3 DEF SoundOf, Sounds, Active
<1> QED
  BY <1>4, <1>5

\* Chunks play like the track in one piece, and in the first pass a track plays
\* what the PC Engine played, for any frames, delays and size of a page
\* (bomberman94_convert.py, build_bomberman94_chunked.py and the Z80 engine).
THEOREM ComponentTrackPlays ==
    Sane => (Spec => [](MatchesReference /\ FirstPassFaithful))
<1> SUFFICES ASSUME Sane PROVE Spec => [](MatchesReference /\ FirstPassFaithful)
  OBVIOUS
<1>1. Init => TrackInv
  BY TrackStarts
<1>2. TrackInv /\ [Next]_vars => TrackInv'
  BY TrackGoesOn
<1>3. TrackInv => MatchesReference /\ FirstPassFaithful
  BY InvMatches
<1> QED
  BY <1>1, <1>2, <1>3, PTL DEF Spec
=============================================================================
