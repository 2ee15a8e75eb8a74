--------------------------- MODULE KcpArchive_proofs ---------------------------
(***************************************************************************)
(* What one of the tools puts into an archive of complete pages is what a  *)
(* player gets out of it, and a staged stream lies in one segment, for     *)
(* pages and containers of any length, any sizes and any words.            *)
(*                                                                         *)
(* Overlays and offsets are recursive functions: that there is a function  *)
(* which satisfies the equation, and what its values are, is proved by     *)
(* induction, from the numbers' order being well-founded.                  *)
(***************************************************************************)
EXTENDS KcpArchive, WellFoundedInduction, TLAPS

\* Containers have their parser's form, a packed stream has a length.
Sane ==
    /\ WordLimit \in Nat /\ Segment \in Nat \ {0} /\ FixedSize \in Nat /\ PageCells \in Nat
    /\ DOMAIN Sources \subseteq {"complete", "specialized", "bundle"}
    /\ \A t \in DOMAIN Sources :
          AreSizes(t, PackedSizes[t]) /\ \A s \in Sources[t] : IsSource(t, s)

-----------------------------------------------------------------------------
\* Data of any length.

\* A set of numbers has a least one.
LEMMA LeastNumber ==
    ASSUME NEW T, T \subseteq Nat, T # {}
    PROVE  \E x \in T : \A y \in T : x <= y
<1>1. IsWellFoundedOn(OpToRel(<, Nat), Nat)
  BY Zenon, NatLessThanWellFounded
<1>2. PICK x \in T : \A y \in T : <<y, x>> \notin OpToRel(<, Nat)
  BY Zenon, <1>1, WFMin
<1>3. ASSUME NEW y \in T PROVE x <= y
  <2>1. y \in Nat /\ x \in Nat
    OBVIOUS
  <2>2. ~(y < x)
    BY Zenon, <1>2, <2>1 DEF OpToRel
  <2> QED
    BY <2>1, <2>2
<1> QED
  BY <1>2, <1>3

LEMMA Induction ==
    ASSUME NEW S, 0 \in S, \A n \in Nat : n \in S => n + 1 \in S
    PROVE  \A n \in Nat : n \in S
<1> SUFFICES ASSUME {n \in Nat : n \notin S} # {} PROVE FALSE
  OBVIOUS
<1>1. PICK x \in {n \in Nat : n \notin S} : \A y \in {n \in Nat : n \notin S} : x <= y
  BY LeastNumber
<1>2. x # 0 /\ x - 1 \in Nat /\ (x - 1) + 1 = x
  BY <1>1
<1>3. x - 1 \in S
  BY <1>1, <1>2
<1> QED
  BY <1>1, <1>2, <1>3

Iterates(g, first, F, last) ==
    g[0] = first /\ \A k \in 1..last : g[k] = F[<<k, g[k - 1]>>]

\* A function defined by its value at 0 and a step from each value to the next
\* exists.
LEMMA Recursion ==
    ASSUME NEW V, NEW first \in V, NEW F \in [Nat \X V -> V], NEW last \in Nat
    PROVE  \E g \in [0..last -> V] : Iterates(g, first, F, last)
<1> DEFINE Good(n, g) == g[0] = first /\ \A k \in 1..n : g[k] = F[<<k, g[k - 1]>>]
<1> DEFINE S == {n \in Nat : \E g \in [0..n -> V] : Good(n, g)}
<1>1. 0 \in S
  <2>1. [k \in 0..0 |-> first] \in [0..0 -> V] /\ Good(0, [k \in 0..0 |-> first])
    OBVIOUS
  <2> QED
    BY <2>1
<1>2. ASSUME NEW n \in Nat, n \in S PROVE n + 1 \in S
  <2>1. PICK g \in [0..n -> V] : Good(n, g)
    BY <1>2
  <2> DEFINE h == [k \in 0..(n + 1) |-> IF k = n + 1 THEN F[<<n + 1, g[n]>>] ELSE g[k]]
  <2>2. h \in [0..(n + 1) -> V]
    OBVIOUS
  <2>3. h[0] = first
    BY <2>1
  <2>4. ASSUME NEW k \in 1..(n + 1) PROVE h[k] = F[<<k, h[k - 1]>>]
    <3>0. k \in 0..(n + 1) /\ k - 1 \in 0..(n + 1) /\ k - 1 # n + 1
      OBVIOUS
    <3>1. h[k - 1] = g[k - 1]
      BY <3>0
    <3>2. CASE k = n + 1
      <4>1. h[k] = F[<<n + 1, g[n]>>] /\ k - 1 = n
        BY <3>0, <3>2
      <4> QED
        BY Zenon, <4>1, <3>1, <3>2
    <3>3. CASE k # n + 1
      <4>1. k \in 1..n
        BY <3>3
      <4>2. g[k] = F[<<k, g[k - 1]>>]
        BY <4>1, <2>1
      <4>3. h[k] = g[k]
        BY <3>0, <3>3
      <4> QED
        BY Zenon, <4>2, <4>3, <3>1
    <3> QED
      BY <3>2, <3>3
  <2>5. Good(n + 1, h)
    BY <2>3, <2>4
  <2> HIDE DEF h, Good
  <2> QED
    BY <2>2, <2>5
<1> HIDE DEF S
<1>3. \A n \in Nat : n \in S
  BY <1>1, <1>2, Induction
<1>4. last \in S
  BY <1>3
<1> QED
  BY <1>4 DEF S, Iterates


LEMMA GreatestNumber ==
    ASSUME NEW n \in Nat, NEW T, T \subseteq 1..n, T # {}
    PROVE  Max(T) \in T /\ \A y \in T : y <= Max(T)
<1> DEFINE U == {n - x : x \in T}
<1>1. U \subseteq Nat /\ U # {}
  <2>1. \A x \in T : x \in Nat /\ n - x \in Nat
    OBVIOUS
  <2>2. PICK x : x \in T
    OBVIOUS
  <2>3. n - x \in U
    BY <2>2
  <2>4. U \subseteq Nat
    BY <2>1
  <2> QED
    BY <2>3, <2>4
<1>2. PICK u \in U : \A y \in U : u <= y
  BY <1>1, LeastNumber
<1>3. PICK x \in T : u = n - x
  BY <1>2
<1>4. \A y \in T : x >= y
  <2>1. ASSUME NEW y \in T PROVE x >= y
    <3>1. u <= n - y
      BY <1>2
    <3> QED
      BY <3>1, <1>3
  <2> QED
    BY <2>1
<1>5. Max(T) \in T /\ \A y \in T : Max(T) >= y
  BY <1>4, Zenon DEF Max
<1> QED
  BY <1>5

\* What a cell holds after blocks were laid over a page.
LEMMA LaidCell ==
    ASSUME NEW n \in Nat, NEW blocks, DOMAIN blocks = 1..n, NEW page, NEW a \in Cells
    PROVE  /\ Setting(blocks, a) = {} => Over(page, blocks)[a] = page[a]
           /\ Setting(blocks, a) # {} =>
                 /\ \E i \in Setting(blocks, a) :
                       Over(page, blocks)[a] = blocks[i].cells[a - blocks[i].at + 1]
                 /\ \A other : Over(page, blocks)[a] = Over(other, blocks)[a]
<1>1. CASE Setting(blocks, a) = {}
  BY <1>1 DEF Over
<1>2. CASE Setting(blocks, a) # {}
  <2>1. Setting(blocks, a) \subseteq 1..n
    BY DEF Setting
  <2>2. PICK m : m = Max(Setting(blocks, a))
    OBVIOUS
  <2>3. m \in Setting(blocks, a)
    BY <2>1, <2>2, <1>2, GreatestNumber
  <2>4. \A p : Over(p, blocks)[a] = blocks[m].cells[a - blocks[m].at + 1]
    BY <2>2, <1>2 DEF Over
  <2> QED
    BY <1>2, <2>3, <2>4
<1> QED
  BY <1>1, <1>2

-----------------------------------------------------------------------------
Values(page) == {page[a] : a \in Cells}
Runs(page) == Seq([at : Nat, cells : Seq(Values(page))])

\* The block holds the page's cells, all of them before n.
Holds(page, b, n) ==
    /\ Behind(b) <= n
    /\ \A k \in 1..Len(b.cells) : b.cells[k] = page[b.at + k - 1]

\* The runs hold what differs before n.
Found(template, page, n, runs) ==
    /\ runs \in Runs(page)
    /\ \A i \in 1..Len(runs) : Holds(page, runs[i], n)
    /\ \A a \in 0..(n - 1) :
          page[a] # template[a] =>
              \E i \in 1..Len(runs) : runs[i].at <= a /\ a < Behind(runs[i])

\* A block with one value more.
IsLonger(longer, b, v) ==
    /\ longer.at = b.at
    /\ Len(longer.cells) = Len(b.cells) + 1
    /\ Behind(longer) = Behind(b) + 1
    /\ longer.cells[Len(b.cells) + 1] = v
    /\ \A k \in 1..Len(b.cells) : longer.cells[k] = b.cells[k]

LEMMA LengthenedBlock ==
    ASSUME NEW V, NEW R, R = [at : Nat, cells : Seq(V)], NEW b \in R, NEW v \in V
    PROVE  Lengthened(b, v) \in R /\ IsLonger(Lengthened(b, v), b, v)
BY DEF Lengthened, Block, Behind, IsLonger

LEMMA FreshBlock ==
    ASSUME NEW V, NEW R, R = [at : Nat, cells : Seq(V)], NEW a \in Nat, NEW v \in V
    PROVE  /\ Block(a, <<v>>) \in R
           /\ Block(a, <<v>>).at = a
           /\ Len(Block(a, <<v>>).cells) = 1
           /\ Behind(Block(a, <<v>>)) = a + 1
           /\ Block(a, <<v>>).cells[1] = v
BY DEF Block, Behind

\* The last of a sequence replaced, and one put behind it.
LEMMA LastReplaced ==
    ASSUME NEW S, NEW s \in Seq(S), s # <<>>, NEW x \in S
    PROVE  /\ Len(s) \in Nat \ {0}
           /\ [s EXCEPT ![Len(s)] = x] \in Seq(S)
           /\ Len([s EXCEPT ![Len(s)] = x]) = Len(s)
           /\ [s EXCEPT ![Len(s)] = x][Len(s)] = x
           /\ \A i \in 1..(Len(s) - 1) : [s EXCEPT ![Len(s)] = x][i] = s[i]
OBVIOUS

LEMMA OneBehind ==
    ASSUME NEW S, NEW s \in Seq(S), NEW x \in S
    PROVE  /\ Append(s, x) \in Seq(S) /\ Len(s) \in Nat
           /\ Len(Append(s, x)) = Len(s) + 1
           /\ Append(s, x)[Len(s) + 1] = x
           /\ \A i \in 1..Len(s) : Append(s, x)[i] = s[i]
OBVIOUS

LEMMA RunsGrow ==
    ASSUME Sane, NEW template, NEW page, NEW n \in Nat, n < PageCells, NEW runs,
           Found(template, page, n, runs)
    PROVE  Found(template, page, n + 1, RunsAfter(template, page, runs, n))
<1> DEFINE V == Values(page)
<1> DEFINE R == [at : Nat, cells : Seq(V)]
<1>0. page[n] \in V /\ PageCells \in Nat
  BY DEF Values, Cells, Sane
<1>1. runs \in Seq(R) /\ Len(runs) \in Nat /\ \A i \in 1..Len(runs) : runs[i] \in R
  <2>1. runs \in Runs(page) /\ Runs(page) = Seq(R)
    BY Zenon DEF Found, Runs
  <2> HIDE DEF V, R
  <2>2. runs \in Seq(R)
    BY Zenon, <2>1
  <2> QED
    BY <2>2
<1>2. \A b \in R : b.at \in Nat /\ Len(b.cells) \in Nat /\ Behind(b) \in Nat
  BY DEF Behind
<1>3. ASSUME NEW b \in R, Holds(page, b, n) PROVE Holds(page, b, n + 1)
  BY <1>2, <1>3 DEF Holds
<1>4. ASSUME NEW a \in 0..((n + 1) - 1) PROVE a = n \/ a \in 0..(n - 1)
  OBVIOUS
<1>8. R = [at : Nat, cells : Seq(V)]
  OBVIOUS
<1> HIDE DEF V, R
<1>5. CASE page[n] = template[n]
  <2>1. RunsAfter(template, page, runs, n) = runs
    BY <1>5 DEF RunsAfter
  <2>2. \A i \in 1..Len(runs) : Holds(page, runs[i], n + 1)
    BY <1>1, <1>3 DEF Found
  <2>3. \A a \in 0..((n + 1) - 1) :
          page[a] # template[a] =>
              \E i \in 1..Len(runs) : runs[i].at <= a /\ a < Behind(runs[i])
    BY <1>4, <1>5 DEF Found
  <2> QED
    BY <2>1, <2>2, <2>3 DEF Found
<1>6. CASE page[n] # template[n] /\ runs # <<>> /\ Behind(runs[Len(runs)]) = n
  <2>1. PICK m \in Nat \ {0} : m = Len(runs)
    BY <1>1, <1>6, LastReplaced
  <2>2. PICK last \in R : last = runs[m]
    BY <1>1, <2>1
  <2>3. PICK longer : longer = Lengthened(last, page[n])
    OBVIOUS
  <2>4. /\ longer \in R /\ longer.at = last.at /\ Len(longer.cells) = Len(last.cells) + 1
        /\ Behind(longer) = n + 1 /\ longer.cells[Len(last.cells) + 1] = page[n]
        /\ \A k \in 1..Len(last.cells) : longer.cells[k] = last.cells[k]
    <3>1. longer \in R /\ IsLonger(longer, last, page[n])
      <4>1. page[n] \in V /\ last \in R
        BY <1>0, <2>2
      <4> QED
        BY Zenon, <4>1, <1>8, <2>3, LengthenedBlock
    <3> QED
      BY <3>1, <1>6, <2>1, <2>2 DEF IsLonger
  <2>5. PICK s : s = [runs EXCEPT ![m] = longer]
    OBVIOUS
  <2>6. /\ s \in Seq(R) /\ Len(s) = m /\ s[m] = longer
        /\ \A i \in 1..(m - 1) : s[i] = runs[i]
    BY <1>1, <1>6, <2>1, <2>4, <2>5, LastReplaced
  <2>7. RunsAfter(template, page, runs, n) = s
    BY <1>6, <2>1, <2>2, <2>3, <2>5 DEF RunsAfter
  <2>8. Holds(page, last, n)
    BY <2>1, <2>2 DEF Found
  <2>9. Holds(page, longer, n + 1)
    <3>1. last.at \in Nat /\ Len(last.cells) \in Nat /\ last.at + Len(last.cells) = n
      BY <1>2, <1>6, <2>1, <2>2 DEF Behind
    <3>2. ASSUME NEW k \in 1..Len(longer.cells) PROVE longer.cells[k] = page[longer.at + k - 1]
      <4>1. CASE k = Len(last.cells) + 1
        BY <4>1, <3>1, <2>4
      <4>2. CASE k # Len(last.cells) + 1
        <5>1. k \in 1..Len(last.cells)
          BY <4>2, <3>1, <2>4
        <5> QED
          BY <5>1, <2>4, <2>8 DEF Holds
      <4> QED
        BY <4>1, <4>2
    <3> QED
      BY <3>2, <2>4 DEF Holds
  <2>10. ASSUME NEW i \in 1..Len(s) PROVE Holds(page, s[i], n + 1)
    <3>1. CASE i = m
      BY <3>1, <2>6, <2>9
    <3>2. CASE i # m
      <4>1. i \in 1..(m - 1) /\ i \in 1..Len(runs)
        BY <3>2, <2>1, <2>6
      <4>2. Holds(page, runs[i], n)
        BY <4>1 DEF Found
      <4> QED
        BY <4>1, <4>2, <2>6, <1>1, <1>3
    <3> QED
      BY <3>1, <3>2
  <2>11. ASSUME NEW a \in 0..((n + 1) - 1), page[a] # template[a]
         PROVE  \E i \in 1..Len(s) : s[i].at <= a /\ a < Behind(s[i])
    <3>0. /\ last.at \in Nat /\ Len(last.cells) \in Nat
          /\ Behind(last) = n /\ last.at + Len(last.cells) = n
      BY <1>2, <1>6, <2>1, <2>2 DEF Behind
    <3>1. CASE a = n
      <4>1. m \in 1..Len(s) /\ s[m].at <= a /\ a < Behind(s[m])
        BY <3>0, <3>1, <2>4, <2>6
      <4> QED
        BY <4>1
    <3>2. CASE a \in 0..(n - 1)
      <4>1. PICK i \in 1..Len(runs) : runs[i].at <= a /\ a < Behind(runs[i])
        BY <2>11, <3>2 DEF Found
      <4>2. CASE i = m
        <5>1. m \in 1..Len(s) /\ s[m].at <= a /\ a < Behind(s[m])
          BY <3>0, <3>2, <4>1, <4>2, <2>2, <2>4, <2>6
        <5> QED
          BY <5>1
      <4>3. CASE i # m
        <5>1. i \in 1..(m - 1) /\ i \in 1..Len(s)
          BY <4>3, <4>1, <2>1, <2>6
        <5> QED
          BY <5>1, <4>1, <2>6
      <4> QED
        BY <4>2, <4>3
    <3> QED
      BY <3>1, <3>2, <1>4
  <2>12. s \in Runs(page)
    BY <2>6 DEF Runs, R, V
  <2> QED
    BY <2>7, <2>10, <2>11, <2>12 DEF Found
<1>7. CASE page[n] # template[n] /\ ~(runs # <<>> /\ Behind(runs[Len(runs)]) = n)
  <2>1. PICK m \in Nat : m = Len(runs)
    BY <1>1
  <2>2. PICK fresh : fresh = Block(n, <<page[n]>>)
    OBVIOUS
  <2>3. /\ fresh \in R /\ fresh.at = n /\ Len(fresh.cells) = 1
        /\ Behind(fresh) = n + 1 /\ fresh.cells[1] = page[n]
    <3>1. PICK v \in V : v = page[n]
      BY <1>0
    <3>2. /\ Block(n, <<v>>) \in R /\ Block(n, <<v>>).at = n
          /\ Len(Block(n, <<v>>).cells) = 1 /\ Behind(Block(n, <<v>>)) = n + 1
          /\ Block(n, <<v>>).cells[1] = v
      BY ZenonT(60), <1>8, FreshBlock
    <3>3. fresh = Block(n, <<v>>)
      BY Zenon, <2>2, <3>1
    <3> QED
      BY Zenon, <3>1, <3>2, <3>3
  <2>4. PICK s : s = Append(runs, fresh)
    OBVIOUS
  <2>5. /\ s \in Seq(R) /\ Len(s) = m + 1 /\ s[m + 1] = fresh
        /\ \A i \in 1..m : s[i] = runs[i]
    BY <1>1, <2>1, <2>3, <2>4, OneBehind
  <2>6. RunsAfter(template, page, runs, n) = s
    BY <1>7, <2>2, <2>4 DEF RunsAfter
  <2>7. Holds(page, fresh, n + 1)
    <3>1. ASSUME NEW k \in 1..1 PROVE fresh.cells[k] = page[fresh.at + k - 1]
      <4>1. k = 1 /\ n + k - 1 = n
        OBVIOUS
      <4> QED
        BY <4>1, <2>3
    <3> QED
      BY <3>1, <2>3 DEF Holds
  <2>8. ASSUME NEW i \in 1..Len(s) PROVE Holds(page, s[i], n + 1)
    <3>1. CASE i = m + 1
      BY <3>1, <2>5, <2>7
    <3>2. CASE i # m + 1
      <4>1. i \in 1..m /\ i \in 1..Len(runs)
        BY <3>2, <2>1, <2>5
      <4>2. Holds(page, runs[i], n)
        BY <4>1 DEF Found
      <4> QED
        BY <4>1, <4>2, <2>5, <1>1, <1>3
    <3> QED
      BY <3>1, <3>2
  <2>9. ASSUME NEW a \in 0..((n + 1) - 1), page[a] # template[a]
        PROVE  \E i \in 1..Len(s) : s[i].at <= a /\ a < Behind(s[i])
    <3>1. CASE a = n
      <4>1. m + 1 \in 1..Len(s) /\ s[m + 1].at <= a /\ a < Behind(s[m + 1])
        BY <3>1, <2>3, <2>5
      <4> QED
        BY <4>1
    <3>2. CASE a \in 0..(n - 1)
      <4>1. PICK i \in 1..Len(runs) : runs[i].at <= a /\ a < Behind(runs[i])
        BY <2>9, <3>2 DEF Found
      <4>2. i \in 1..m /\ i \in 1..Len(s)
        BY <4>1, <2>1, <2>5
      <4> QED
        BY <4>1, <4>2, <2>5
    <3> QED
      BY <3>1, <3>2, <1>4
  <2>10. s \in Runs(page)
    BY <2>5 DEF Runs, R, V
  <2> QED
    BY <2>6, <2>8, <2>9, <2>10 DEF Found
<1> QED
  BY <1>5, <1>6, <1>7

\* What the recursion of Overlay demands of its function.
Collects(g, template, page) ==
    g = [n \in 0..PageCells |->
           IF n = 0 THEN <<>> ELSE RunsAfter(template, page, g[n - 1], n - 1)]

\* An overlay holds the page's cells, all that differ from the template among
\* them.
LEMMA OverlayFound ==
    ASSUME Sane, NEW template, NEW page
    PROVE  Found(template, page, PageCells, Overlay(template, page))
<1>0. PageCells \in Nat
  BY DEF Sane
<1>1. <<>> \in Runs(page) /\ Found(template, page, 0, <<>>)
  <2>1. <<>> \in Runs(page)
    BY DEF Runs
  <2> QED
    BY <2>1 DEF Found
<1>2. PICK F : F = [x \in Nat \X Runs(page) |->
                      IF RunsAfter(template, page, x[2], x[1] - 1) \in Runs(page)
                      THEN RunsAfter(template, page, x[2], x[1] - 1) ELSE x[2]]
  OBVIOUS
<1>3. F \in [Nat \X Runs(page) -> Runs(page)]
  BY <1>2
<1>4. PICK g \in [0..PageCells -> Runs(page)] : Iterates(g, <<>>, F, PageCells)
  BY Zenon, <1>0, <1>1, <1>3, Recursion
<1>5. ASSUME NEW n \in 0..PageCells, n # 0
      PROVE  /\ g[n - 1] \in Runs(page) /\ n - 1 \in Nat
             /\ RunsAfter(template, page, g[n - 1], n - 1) \in Runs(page)
                  => g[n] = RunsAfter(template, page, g[n - 1], n - 1)
  <2>1. n \in 1..PageCells /\ n \in Nat /\ n - 1 \in 0..PageCells /\ n - 1 \in Nat
    BY <1>0, <1>5
  <2>2. g[n - 1] \in Runs(page)
    BY <2>1, <1>4
  <2>3. g[n] = F[<<n, g[n - 1]>>]
    BY <2>1, <1>4 DEF Iterates
  <2>4. <<n, g[n - 1]>> \in Nat \X Runs(page)
    BY <2>1, <2>2
  <2> QED
    BY <1>2, <2>1, <2>2, <2>3, <2>4
<1> DEFINE S == {n \in Nat : n <= PageCells => Found(template, page, n, g[n])}
<1>6. 0 \in S
  BY <1>1, <1>4 DEF Iterates
<1>7. ASSUME NEW n \in Nat, n \in S PROVE n + 1 \in S
  <2> SUFFICES ASSUME n + 1 <= PageCells PROVE Found(template, page, n + 1, g[n + 1])
    OBVIOUS
  <2>1. n < PageCells /\ n + 1 \in 0..PageCells /\ n + 1 # 0 /\ (n + 1) - 1 = n
    BY <1>0
  <2>2. Found(template, page, n, g[n])
    BY <1>7, <2>1, <1>0
  <2>3. Found(template, page, n + 1, RunsAfter(template, page, g[n], n))
    BY <2>1, <2>2, RunsGrow
  <2>4. RunsAfter(template, page, g[n], n) \in Runs(page)
    BY <2>3 DEF Found
  <2>5. g[n + 1] = RunsAfter(template, page, g[n], n)
    BY <2>1, <2>4, <1>5
  <2> QED
    BY <2>3, <2>5
<1> HIDE DEF S
<1>8. \A n \in Nat : n \in S
  BY <1>6, <1>7, Induction
<1>9. \A n \in 0..PageCells : Found(template, page, n, g[n])
  BY <1>0, <1>8 DEF S
<1>10. Collects(g, template, page)
  <2>1. ASSUME NEW n \in 0..PageCells
        PROVE g[n] = IF n = 0 THEN <<>> ELSE RunsAfter(template, page, g[n - 1], n - 1)
    <3>1. CASE n = 0
      BY <3>1, <1>4 DEF Iterates
    <3>2. CASE n # 0
      <4>1. n - 1 \in 0..PageCells /\ n - 1 \in Nat /\ n - 1 < PageCells /\ (n - 1) + 1 = n
        BY <1>0, <3>2
      <4>2. Found(template, page, n - 1, g[n - 1])
        BY <4>1, <1>9
      <4>3. Found(template, page, n, RunsAfter(template, page, g[n - 1], n - 1))
        BY <4>1, <4>2, RunsGrow
      <4>4. RunsAfter(template, page, g[n - 1], n - 1) \in Runs(page)
        BY Zenon, <4>3 DEF Found
      <4> QED
        BY <4>4, <3>2, <1>5
    <3> QED
      BY <3>1, <3>2
  <2>2. g = [n \in 0..PageCells |-> g[n]]
    BY <1>4
  <2> QED
    BY <2>1, <2>2 DEF Collects
<1>11. PICK h : /\ Collects(h, template, page)
                /\ Overlay(template, page) = h[PageCells]
  <2>1. PICK h : h = CHOOSE runs : Collects(runs, template, page)
    OBVIOUS
  <2>2. Collects(h, template, page)
    BY Zenon, <1>10, <2>1
  <2>3. Overlay(template, page) = h[PageCells]
    BY Zenon, <2>1 DEF Overlay, Collects
  <2> QED
    BY <2>2, <2>3
<1> DEFINE T == {n \in Nat : n <= PageCells => Found(template, page, n, h[n])}
<1>12. 0 \in T
  <2>1. h[0] = <<>>
    BY <1>0, <1>11 DEF Collects
  <2> QED
    BY <1>1, <2>1
<1>13. ASSUME NEW n \in Nat, n \in T PROVE n + 1 \in T
  <2> SUFFICES ASSUME n + 1 <= PageCells PROVE Found(template, page, n + 1, h[n + 1])
    OBVIOUS
  <2>1. n < PageCells /\ n + 1 \in 0..PageCells /\ n + 1 # 0 /\ (n + 1) - 1 = n
    BY <1>0
  <2>2. Found(template, page, n, h[n])
    BY <1>13, <2>1, <1>0
  <2>3. Found(template, page, n + 1, RunsAfter(template, page, h[n], n))
    BY <2>1, <2>2, RunsGrow
  <2>4. h[n + 1] = RunsAfter(template, page, h[n], n)
    BY <2>1, <1>11 DEF Collects
  <2> QED
    BY <2>3, <2>4
<1> HIDE DEF T
<1>14. \A n \in Nat : n \in T
  BY <1>12, <1>13, Induction
<1>15. Found(template, page, PageCells, h[PageCells])
  BY <1>0, <1>14 DEF T
<1> QED
  BY <1>11, <1>15

\* An overlay over its template is the page.
LEMMA OverlayRestores ==
    ASSUME Sane, NEW template, NEW page, page = [a \in Cells |-> page[a]]
    PROVE  /\ \E n \in Nat : DOMAIN Overlay(template, page) = 1..n
           /\ Over(template, Overlay(template, page)) = page
<1> DEFINE V == Values(page)
<1> DEFINE R == [at : Nat, cells : Seq(V)]
<1>1. PICK runs : runs = Overlay(template, page)
  OBVIOUS
<1>2. Found(template, page, PageCells, runs)
  BY <1>1, OverlayFound
<1>3. runs \in Seq(R)
  BY Zenon, <1>2 DEF Found, Runs
<1>4. \A b \in R : /\ b.at \in Nat /\ Len(b.cells) \in Nat /\ Behind(b) = b.at + Len(b.cells)
                   /\ DOMAIN b.cells = 1..Len(b.cells)
  BY DEF Behind
<1> HIDE DEF R, V
<1>5. /\ Len(runs) \in Nat /\ DOMAIN runs = 1..Len(runs)
      /\ \A i \in 1..Len(runs) : runs[i] \in R
  BY <1>3
<1>6. \A a \in Cells : a \in Nat /\ a \in 0..(PageCells - 1)
  BY DEF Cells
<1>7. ASSUME NEW a \in Cells PROVE Over(template, runs)[a] = page[a]
  <2>1. CASE Setting(runs, a) = {}
    <3>1. Over(template, runs)[a] = template[a]
      BY <2>1, <1>5, LaidCell
    <3>2. ASSUME page[a] # template[a] PROVE FALSE
      <4>1. PICK i \in 1..Len(runs) : runs[i].at <= a /\ a < Behind(runs[i])
        BY <1>2, <1>6, <3>2 DEF Found
      <4>2. runs[i] \in R
        BY <1>5
      <4>3. i \in Setting(runs, a)
        BY <4>1, <4>2, <1>4, <1>5, <1>6 DEF Setting
      <4> QED
        BY <4>3, <2>1
    <3> QED
      BY <3>1, <3>2
  <2>2. CASE Setting(runs, a) # {}
    <3>1. PICK i \in Setting(runs, a) :
             Over(template, runs)[a] = runs[i].cells[a - runs[i].at + 1]
      BY <2>2, <1>5, LaidCell
    <3>2. i \in 1..Len(runs) /\ runs[i] \in R /\ a - runs[i].at + 1 \in DOMAIN runs[i].cells
      BY <1>5, <3>1 DEF Setting
    <3>3. Holds(page, runs[i], PageCells)
      BY <1>2, <3>2 DEF Found
    <3>4. PICK k : k = a - runs[i].at + 1
      OBVIOUS
    <3>5. k \in 1..Len(runs[i].cells) /\ runs[i].at + k - 1 = a
      <4>1. k \in DOMAIN runs[i].cells /\ DOMAIN runs[i].cells = 1..Len(runs[i].cells)
        BY <1>4, <3>2, <3>4
      <4>2. PICK at \in Nat : at = runs[i].at /\ k = a - at + 1
        BY <1>4, <3>2, <3>4
      <4>3. a \in Nat /\ at + k - 1 = a
        BY <1>6, <4>2
      <4> QED
        BY <4>1, <4>2, <4>3
    <3>6. runs[i].cells[k] = page[runs[i].at + k - 1]
      BY <3>3, <3>5 DEF Holds
    <3> QED
      BY <3>1, <3>4, <3>5, <3>6
  <2> QED
    BY <2>1, <2>2
<1>8. Over(template, runs) = [a \in Cells |-> Over(template, runs)[a]]
  BY DEF Over
<1>9. Over(template, runs) = page
  BY <1>7, <1>8
<1> QED
  BY <1>1, <1>5, <1>9

-----------------------------------------------------------------------------
\* What the recursion of Offsets demands of its function.
Follows(h, start) ==
    h = [i \in 1..Len(streams) |-> IF i = 1 THEN start ELSE h[i - 1] + streams[i - 1].size]

\* One stream behind the other: offsets rise.
LEMMA OffsetsRise ==
    ASSUME NEW m \in Nat \ {0}, Len(streams) = m, \A i \in 1..m : streams[i].size \in Nat \ {0},
           NEW start \in Nat
    PROVE  /\ Offsets(start) \in [1..m -> Nat] /\ Offsets(start)[1] = start
           /\ \A i, j \in 1..m : i < j => Offsets(start)[i] < Offsets(start)[j]
<1>1. PICK F : F = [x \in Nat \X Nat |->
                      IF x[1] \in 1..m THEN x[2] + streams[x[1]].size ELSE x[2]]
  OBVIOUS
<1>2. F \in [Nat \X Nat -> Nat]
  BY <1>1
<1>3. PICK g \in [0..(m - 1) -> Nat] : Iterates(g, start, F, m - 1)
  <2>1. m - 1 \in Nat
    OBVIOUS
  <2> QED
    BY Zenon, <1>2, <2>1, Recursion
<1>4. PICK k : k = [i \in 1..m |-> g[i - 1]]
  OBVIOUS
<1>5. Follows(k, start)
  <2>1. ASSUME NEW i \in 1..m
        PROVE k[i] = IF i = 1 THEN start ELSE k[i - 1] + streams[i - 1].size
    <3>1. CASE i = 1
      BY <3>1, <1>3, <1>4 DEF Iterates
    <3>2. CASE i # 1
      <4>1. i - 1 \in 1..(m - 1) /\ i - 1 \in 1..m /\ (i - 1) - 1 \in 0..(m - 1) /\ i - 1 \in Nat
        BY <3>2
      <4>2. k[i] = g[i - 1] /\ k[i - 1] = g[(i - 1) - 1] /\ g[(i - 1) - 1] \in Nat
        BY <4>1, <1>3, <1>4
      <4>3. g[i - 1] = F[<<i - 1, g[(i - 1) - 1]>>]
        BY <4>1, <1>3 DEF Iterates
      <4>4. <<i - 1, g[(i - 1) - 1]>> \in Nat \X Nat
        BY <4>1, <4>2
      <4>5. g[i - 1] = g[(i - 1) - 1] + streams[i - 1].size
        BY <4>1, <4>3, <4>4, <1>1
      <4> QED
        BY <3>2, <4>2, <4>5
    <3> QED
      BY <3>1, <3>2
  <2>2. k = [i \in 1..m |-> k[i]]
    BY <1>4
  <2> QED
    BY <2>1, <2>2 DEF Follows
<1>6. PICK h : Follows(h, start) /\ Offsets(start) = h
  <2>1. PICK h : h = CHOOSE at : Follows(at, start)
    OBVIOUS
  <2>2. Follows(h, start)
    BY Zenon, <1>5, <2>1
  <2>3. Offsets(start) = h
    BY Zenon, <2>1 DEF Offsets, Follows
  <2> QED
    BY <2>2, <2>3
<1>7. /\ DOMAIN h = 1..m /\ h = [i \in 1..m |-> h[i]] /\ h[1] = start
      /\ \A i \in 1..m : i # 1 => h[i] = h[i - 1] + streams[i - 1].size
  <2>1. h = [i \in 1..m |-> IF i = 1 THEN start ELSE h[i - 1] + streams[i - 1].size]
    BY <1>6 DEF Follows
  <2>2. DOMAIN h = 1..m
    BY Zenon, <2>1
  <2>3. \A i \in 1..m : h[i] = IF i = 1 THEN start ELSE h[i - 1] + streams[i - 1].size
    BY Zenon, <2>1
  <2>4. h = [i \in 1..m |-> h[i]]
    BY Zenon, <2>1, <2>3
  <2>5. h[1] = start /\ \A i \in 1..m : i # 1 => h[i] = h[i - 1] + streams[i - 1].size
    BY <2>3
  <2> QED
    BY Zenon, <2>2, <2>4, <2>5
<1> DEFINE S == {n \in Nat : n + 1 <= m => h[n + 1] \in Nat}
<1>8. 0 \in S
  BY <1>7
<1>9. ASSUME NEW n \in Nat, n \in S PROVE n + 1 \in S
  <2> SUFFICES ASSUME (n + 1) + 1 <= m PROVE h[(n + 1) + 1] \in Nat
    OBVIOUS
  <2>1. h[(n + 1) + 1] = h[n + 1] + streams[n + 1].size
    <3>1. PICK i \in 1..m : i = (n + 1) + 1 /\ i # 1 /\ i - 1 = n + 1
      OBVIOUS
    <3>2. h[i] = h[i - 1] + streams[i - 1].size
      BY <3>1, <1>7
    <3> QED
      BY <3>1, <3>2
  <2>2. h[n + 1] \in Nat /\ streams[n + 1].size \in Nat
    BY <1>9
  <2> QED
    BY <2>1, <2>2
<1> HIDE DEF S
<1>10. \A n \in Nat : n \in S
  BY <1>8, <1>9, Induction
<1>11. \A i \in 1..m : h[i] \in Nat
  <2>1. ASSUME NEW i \in 1..m PROVE h[i] \in Nat
    <3>1. i - 1 \in Nat /\ (i - 1) + 1 = i
      OBVIOUS
    <3>2. i - 1 \in S
      BY <3>1, <1>10
    <3> QED
      BY <3>1, <3>2 DEF S
  <2> QED
    BY <2>1
<1>12. ASSUME NEW i \in 1..m PROVE \A j \in 1..m : i < j => h[i] < h[j]
  <2> DEFINE T == {d \in Nat : i + d + 1 <= m => h[i] < h[i + d + 1]}
  <2>1. \A n \in 1..m : n # m => h[n] < h[n + 1]
    <3>1. ASSUME NEW n \in 1..m, n # m PROVE h[n] < h[n + 1]
      <4>1. n + 1 \in 1..m /\ n + 1 # 1 /\ (n + 1) - 1 = n
        BY <3>1
      <4>2. h[n + 1] = h[n] + streams[n].size /\ h[n] \in Nat /\ streams[n].size \in Nat \ {0}
        BY <4>1, <1>7, <1>11
      <4> QED
        BY <4>2
    <3> QED
      BY <3>1
  <2>2. 0 \in T
    BY <2>1
  <2>3. ASSUME NEW d \in Nat, d \in T PROVE d + 1 \in T
    <3> SUFFICES ASSUME i + (d + 1) + 1 <= m PROVE h[i] < h[i + (d + 1) + 1]
      OBVIOUS
    <3>1. PICK n \in 1..m : n = i + d + 1 /\ n # m /\ n + 1 = i + (d + 1) + 1 /\ n + 1 \in 1..m
      OBVIOUS
    <3>2. h[i] < h[n] /\ h[n] < h[n + 1]
      BY <3>1, <2>1, <2>3
    <3>3. h[i] \in Nat /\ h[n] \in Nat /\ h[n + 1] \in Nat
      BY <3>1, <1>11
    <3>4. h[i] < h[n + 1]
      BY <3>2, <3>3
    <3> QED
      BY <3>1, <3>4
  <2> HIDE DEF T
  <2>4. \A d \in Nat : d \in T
    BY <2>2, <2>3, Induction
  <2>5. ASSUME NEW j \in 1..m, i < j PROVE h[i] < h[j]
    <3>1. PICK d \in Nat : d = j - i - 1 /\ i + d + 1 = j /\ j <= m
      BY <2>5
    <3> QED
      BY <3>1, <2>4 DEF T
  <2> QED
    BY <2>5
<1> QED
  BY <1>6, <1>7, <1>11, <1>12

LEMMA SmallWord ==
    ASSUME Sane, NEW n \in Nat, n <= WordLimit
    PROVE  Word(n) = n
<1>1. PICK limit \in Nat : limit = WordLimit
  BY DEF Sane
<1>2. PICK m \in Nat \ {0} : m = limit + 1
  OBVIOUS
<1>3. n < m
  BY <1>1, <1>2
<1>4. n % m = n
  BY <1>3
<1> QED
  BY <1>1, <1>2, <1>4 DEF Word

\* What records say where it is is found.
LEMMA StreamsFound ==
    ASSUME NEW m \in Nat, DOMAIN streams = 1..m, NEW version, NEW offsets,
           \A i, j \in 1..m : i # j => offsets[i] # offsets[j],
           \A i \in 1..m : /\ Word(streams[i].size) = streams[i].size
                           /\ OffsetField(version, i, offsets[i]) = offsets[i]
    PROVE  \A i \in 1..m : Stream(Archive(version, offsets), i) = {streams[i].raw}
<1> SUFFICES ASSUME NEW i \in 1..m PROVE Stream(Archive(version, offsets), i) = {streams[i].raw}
  OBVIOUS
<1>1. PICK a : a = Archive(version, offsets)
  OBVIOUS
<1>2. PICK data : data = {[at |-> offsets[j], stream |-> streams[j]] : j \in DOMAIN streams}
  OBVIOUS
<1>3. a.data = data /\ a.records[i] = [size |-> streams[i].size, at |-> offsets[i]]
  BY <1>1, <1>2 DEF Archive
<1>4. PICK found : found = {d \in data : d.at = offsets[i] /\ d.stream.size = streams[i].size}
  OBVIOUS
<1>5. found = {[at |-> offsets[i], stream |-> streams[i]]}
  <2>1. [at |-> offsets[i], stream |-> streams[i]] \in found
    BY <1>2, <1>4
  <2>2. ASSUME NEW d \in found PROVE d = [at |-> offsets[i], stream |-> streams[i]]
    <3>1. PICK j \in 1..m : d = [at |-> offsets[j], stream |-> streams[j]]
      BY <1>2, <1>4
    <3>2. offsets[j] = offsets[i]
      BY <3>1, <1>4
    <3>3. j = i
      BY <3>2
    <3> QED
      BY <3>1, <3>3
  <2> QED
    BY <2>1, <2>2
<1>6. Stream(a, i) = IF found = {} THEN {} ELSE {(CHOOSE d \in found : TRUE).stream.raw}
  BY <1>3, <1>4 DEF Stream
<1>7. (CHOOSE d \in found : TRUE) \in found
  BY <1>5
<1> QED
  BY <1>1, <1>5, <1>6, <1>7

-----------------------------------------------------------------------------
\* A template and overlays that stand for the pages of the source.
Stand(n) ==
    /\ DOMAIN source.pages = 1..n /\ Len(source.pages) = n
    /\ DOMAIN RawStreams = 1..(n + 1)
    /\ \A i \in 1..n : Over(RawStreams[1], RawStreams[i + 1]) = PageOf(i)
    /\ source.kind = "KCPX" =>
          /\ RawStreams[1] = source.template
          /\ \A i \in 1..n : RawStreams[i + 1] = source.pages[i]

Given == tool \in DOMAIN Sources /\ source \in Sources[tool]

LEMMA PutBefore ==
    ASSUME NEW x, NEW s, NEW S, s \in Seq(S)
    PROVE  /\ Len(s) \in Nat /\ DOMAIN s = 1..Len(s)
           /\ DOMAIN (<<x>> \o s) = 1..(Len(s) + 1)
           /\ (<<x>> \o s)[1] = x
           /\ \A i \in 1..Len(s) : (<<x>> \o s)[i + 1] = s[i]
<1>1. PICK T : T = S \cup {x}
  OBVIOUS
<1>2. s \in Seq(T) /\ <<x>> \in Seq(T)
  BY <1>1
<1> QED
  BY <1>2

LEMMA GivenSource ==
    ASSUME Sane, Given
    PROVE  /\ tool \in {"complete", "specialized", "bundle"}
           /\ IsSource(tool, source) /\ AreSizes(tool, PackedSizes[tool])
BY DEF Given, Sane

LEMMA KindOfSource ==
    ASSUME Sane, Given
    PROVE  /\ source.kind \in {"QCPX", "SCPX", "KCPX", "pages"}
           /\ tool = "bundle" => source.kind = "KCPX"
           /\ source.kind = "pages" =>
                 \A i \in DOMAIN source.pages : source.pages[i] \in [Cells -> Int]
           /\ tool = "bundle" => \A i \in DOMAIN source.pages : source.pages[i] \in Seq(Blocks)
           /\ tool = "complete" => FixedSize + 4 + 8 * Len(source.pages) <= WordLimit
           /\ source.pages \in Seq({source.pages[i] : i \in DOMAIN source.pages})
BY GivenSource DEF IsSource

LEMMA PageIsPage ==
    ASSUME Sane, Given, NEW i \in DOMAIN source.pages
    PROVE  PageOf(i) = [a \in Cells |-> PageOf(i)[a]]
<1>1. CASE source.kind = "QCPX"
  <2>1. PageOf(i) = Over(Blank, QuarthBlocks(i))
    BY <1>1 DEF PageOf
  <2> QED
    BY <2>1 DEF Over
<1>2. CASE source.kind = "SCPX"
  <2>1. PageOf(i) = Over(source.template, SalamanderBlocks(i))
    BY <1>2 DEF PageOf
  <2> QED
    BY <2>1 DEF Over
<1>3. CASE source.kind = "KCPX"
  <2>1. PageOf(i) = Over(source.template, source.pages[i])
    BY <1>3 DEF PageOf
  <2> QED
    BY <2>1 DEF Over
<1>4. CASE source.kind = "pages"
  <2>1. PageOf(i) = source.pages[i]
    BY <1>4 DEF PageOf
  <2>2. source.pages[i] \in [Cells -> Int]
    BY <1>4, KindOfSource
  <2> QED
    BY <2>1, <2>2
<1> QED
  BY <1>1, <1>2, <1>3, <1>4, KindOfSource

LEMMA RawPages ==
    ASSUME Sane, Given
    PROVE  \E n \in Nat : Stand(n)
<1>1. source.pages \in Seq({source.pages[i] : i \in DOMAIN source.pages})
  BY KindOfSource
<1>2. PICK n \in Nat : Len(source.pages) = n /\ DOMAIN source.pages = 1..n
  BY <1>1
<1>3. PICK raw : raw = RawStreams
  OBVIOUS
<1>4. CASE source.kind = "KCPX"
  <2>1. raw = <<source.template>> \o source.pages
    BY <1>3, <1>4 DEF RawStreams
  <2>2. /\ DOMAIN raw = 1..(n + 1) /\ raw[1] = source.template
        /\ \A i \in 1..n : raw[i + 1] = source.pages[i]
    BY <1>1, <1>2, <2>1, PutBefore
  <2>3. \A i \in 1..n : PageOf(i) = Over(raw[1], raw[i + 1])
    BY <1>4, <2>2 DEF PageOf
  <2> QED
    BY <1>2, <1>3, <2>2, <2>3 DEF Stand
<1>5. CASE source.kind # "KCPX"
  <2>1. PICK overlays : overlays = [i \in DOMAIN source.pages |-> Overlay(Template, PageOf(i))]
    OBVIOUS
  <2>2. raw = <<Template>> \o overlays
    BY <1>3, <1>5, <2>1 DEF RawStreams
  <2>3. overlays \in Seq({overlays[i] : i \in 1..n}) /\ Len(overlays) = n
    BY <1>2, <2>1
  <2>4. /\ DOMAIN raw = 1..(n + 1) /\ raw[1] = Template
        /\ \A i \in 1..n : raw[i + 1] = overlays[i]
    BY <2>2, <2>3, PutBefore
  <2>5. ASSUME NEW i \in 1..n PROVE Over(raw[1], raw[i + 1]) = PageOf(i)
    <3>1. raw[1] = Template /\ raw[i + 1] = Overlay(Template, PageOf(i))
      BY <1>2, <2>1, <2>4
    <3>2. PageOf(i) = [a \in Cells |-> PageOf(i)[a]]
      BY Zenon, <1>2, PageIsPage
    <3>3. Over(Template, Overlay(Template, PageOf(i))) = PageOf(i)
      BY Zenon, <3>2, OverlayRestores
    <3> QED
      BY <3>1, <3>3
  <2> QED
    BY <1>2, <1>3, <1>5, <2>4, <2>5 DEF Stand
<1> QED
  BY <1>4, <1>5

-----------------------------------------------------------------------------
\* Every stream is packed from what it stands for.
PackedRaw ==
    /\ DOMAIN streams = DOMAIN RawStreams /\ Len(streams) = Len(source.pages) + 1
    /\ \A i \in DOMAIN streams :
          streams[i].raw = RawStreams[i] /\ streams[i].size \in PackedSizes[tool]

StreamWhole(i) ==
    streams[i].size \in 1..Segment => Whole(archive.at[i], streams[i].size)

\* What has been staged lies whole, before the end, and no two at one place.
StagedApart ==
    /\ \A i \in 1..Len(archive.at) : StreamWhole(i)
    /\ archive.end \in Nat /\ archive.at \in Seq(Nat) /\ Len(archive.at) <= Len(streams)
    /\ \A i \in 1..Len(archive.at) : archive.at[i] <= WordLimit /\ archive.at[i] < archive.end
    /\ \A i, j \in 1..Len(archive.at) : i < j => archive.at[i] < archive.at[j]

Readable == \A i \in DOMAIN streams : Stream(archive, i) = {RawStreams[i]}

Running ==
    /\ tool = "bundle" /\ running.page \in DOMAIN source.pages
    /\ DOMAIN running.cells = Cells /\ DOMAIN running.state = EngineCells
    /\ TurnedPage

ArchiveInv ==
    /\ Given
    /\ pc \notin {"parse", "refused"} => source.pages # <<>>
    /\ pc \in {"build", "stage", "validate", "written", "playing"} => PackedRaw
    /\ pc = "stage" => tool = "specialized" /\ StagedApart
    /\ pc = "validate" => tool # "specialized"
    /\ pc \in {"written", "playing"} => Readable
    /\ pc = "playing" => Running
    /\ StagedWhole

LEMMA SourceKept ==
    ASSUME UNCHANGED <<tool, source>>
    PROVE  /\ Given' = Given /\ RawStreams' = RawStreams /\ WellFormed' = WellFormed
           /\ Template' = Template
           /\ \A i : PageOf(i)' = PageOf(i)
BY DEF Given, RawStreams, Template, PageOf, QuarthBlocks, SalamanderBlocks, WellFormed

LEMMA PackedKept ==
    ASSUME UNCHANGED <<tool, source, streams>>, PackedRaw
    PROVE  PackedRaw'
BY SourceKept DEF PackedRaw

LEMMA Compressing ==
    ASSUME Sane, ArchiveInv, Compress
    PROVE  ArchiveInv'
<1>1. Given /\ UNCHANGED <<tool, source>> /\ source.pages # <<>> /\ pc' \in {"build", "refused"}
  BY DEF Compress, ArchiveInv
<1>2. Given' /\ source'.pages # <<>>
  BY <1>1, SourceKept
<1>3. CASE pc' = "refused"
  BY <1>2, <1>3 DEF ArchiveInv, StagedWhole
<1>4. CASE pc' = "build"
  <2>1. PICK n \in Nat : Stand(n)
    BY <1>1, RawPages
  <2>2. PICK raw : raw = RawStreams /\ DOMAIN raw = 1..(n + 1) /\ Len(source.pages) = n
    BY <2>1 DEF Stand
  <2>3. PICK sizes \in [DOMAIN raw -> PackedSizes[tool]] :
          streams' = [i \in DOMAIN raw |-> Packed(raw[i], sizes[i])]
    BY <1>4, <2>2 DEF Compress
  <2>4. PICK s : s = streams'
    OBVIOUS
  <2>5. s \in Seq({s[i] : i \in 1..(n + 1)}) /\ Len(s) = n + 1 /\ DOMAIN s = 1..(n + 1)
    BY <2>2, <2>3, <2>4
  <2>6. \A i \in 1..(n + 1) : s[i].raw = raw[i] /\ s[i].size \in PackedSizes[tool]
    BY <2>2, <2>3, <2>4 DEF Packed
  <2>7. PackedRaw'
    BY <1>1, <2>2, <2>4, <2>5, <2>6, SourceKept DEF PackedRaw
  <2> QED
    BY <1>2, <1>4, <2>7 DEF ArchiveInv, StagedWhole
<1> QED
  BY <1>1, <1>3, <1>4

\* The streams and their sizes, when they are packed.
LEMMA PackedSizesFit ==
    ASSUME Sane, Given, PackedRaw
    PROVE  \E n \in Nat :
              /\ Stand(n) /\ DOMAIN streams = 1..(n + 1) /\ Len(streams) = n + 1
              /\ \A i \in 1..(n + 1) :
                    /\ streams[i].raw = RawStreams[i] /\ streams[i].size \in Nat \ {0}
                    /\ tool # "bundle" => streams[i].size <= WordLimit
<1>1. PICK n \in Nat : Stand(n)
  BY RawPages
<1>2. DOMAIN streams = 1..(n + 1) /\ Len(streams) = n + 1
  BY <1>1 DEF Stand, PackedRaw
<1>3. AreSizes(tool, PackedSizes[tool])
  BY GivenSource
<1>4. ASSUME NEW i \in 1..(n + 1)
      PROVE  /\ streams[i].raw = RawStreams[i] /\ streams[i].size \in Nat \ {0}
             /\ tool # "bundle" => streams[i].size <= WordLimit
  <2>1. streams[i].raw = RawStreams[i] /\ streams[i].size \in PackedSizes[tool]
    BY <1>2 DEF PackedRaw
  <2> QED
    BY <2>1, <1>3 DEF AreSizes, Sane
<1> QED
  BY <1>1, <1>2, <1>4

\* A complete archive's offsets fit the fields of its records.
LEMMA FieldsFit ==
    ASSUME Sane, Given, PackedRaw, tool = "complete", source.pages # <<>>
    PROVE  \A i \in DOMAIN streams :
              /\ Word(streams[i].size) = streams[i].size
              /\ OffsetField(VersionUsed, i, At[i]) = At[i]
<1>1. PICK n \in Nat : /\ Stand(n) /\ DOMAIN streams = 1..(n + 1) /\ Len(streams) = n + 1
                       /\ \A i \in 1..(n + 1) : /\ streams[i].size \in Nat \ {0}
                                                /\ streams[i].size <= WordLimit
  BY PackedSizesFit
<1>2. n # 0 /\ Len(source.pages) = n
  <2>1. source.pages \in Seq({source.pages[i] : i \in DOMAIN source.pages})
    BY KindOfSource
  <2> QED
    BY <1>1, <2>1 DEF Stand
<1>3. ASSUME NEW i \in 1..(n + 1) PROVE Word(streams[i].size) = streams[i].size
  BY <1>1, SmallWord
<1>4. PICK fixed \in Nat : fixed = FixedSize /\ fixed + 4 + 8 * n <= WordLimit
  BY <1>2, KindOfSource DEF Sane
<1>5. DataStart(1) = fixed + 4 + n * 6 /\ DataStart(2) = fixed + 4 + n * 8
  BY <1>1, <1>4 DEF DataStart, RecordSize
<1>6. CASE VersionUsed = 1
  <2>1. PICK at : at = Offsets(DataStart(1))
    OBVIOUS
  <2>2. /\ at \in [1..(n + 1) -> Nat]
        /\ \A i, j \in 1..(n + 1) : i < j => at[i] < at[j]
    <3>1. fixed + 4 + n * 6 \in Nat /\ n + 1 \in Nat \ {0}
      OBVIOUS
    <3> QED
      BY <3>1, <1>1, <1>5, <2>1, OffsetsRise
  <2>3. \A i \in 1..n : ~(at[i + 1] > WordLimit)
    <3>1. PICK later : later = Tail(at)
      OBVIOUS
    <3>2. at \in Seq(Nat) /\ Len(at) = n + 1
      BY <2>2
    <3>3. DOMAIN later = 1..n /\ \A i \in 1..n : later[i] = at[i + 1]
      BY <3>1, <3>2, <1>2
    <3>4. ~\E i \in DOMAIN later : later[i] > WordLimit
      BY <1>6, <2>1, <3>1 DEF VersionUsed, Version
    <3> QED
      BY <3>3, <3>4
  <2>4. ASSUME NEW i \in 1..(n + 1) PROVE at[i] \in Nat /\ at[i] <= WordLimit
    <3>1. PICK limit \in Nat : limit = WordLimit
      BY DEF Sane
    <3>2. \A j \in 1..(n + 1) : j # 1 => at[j] <= limit
      <4>1. ASSUME NEW j \in 1..(n + 1), j # 1 PROVE at[j] <= limit
        <5>1. PICK k \in 1..n : k + 1 = j
          <6>1. j - 1 \in 1..n /\ (j - 1) + 1 = j
            BY <4>1
          <6> QED
            BY <6>1
        <5>2. ~(at[k + 1] > limit) /\ at[j] \in Nat
          BY <2>2, <2>3, <3>1
        <5> QED
          BY <5>1, <5>2
      <4> QED
        BY <4>1
    <3>3. 1 \in 1..(n + 1) /\ 2 \in 1..(n + 1)
      BY <1>2
    <3>4. at[1] < at[2] /\ at[1] \in Nat /\ at[2] \in Nat /\ at[2] <= limit
      BY <2>2, <3>2, <3>3
    <3>5. at[i] \in Nat
      BY <2>2
    <3>6. CASE i = 1
      BY <3>1, <3>4, <3>6
    <3>7. CASE i # 1
      BY <3>1, <3>2, <3>5, <3>7
    <3> QED
      BY <3>6, <3>7
  <2>5. At = at
    BY <1>6, <2>1 DEF At
  <2>6. ASSUME NEW i \in 1..(n + 1) PROVE OffsetField(VersionUsed, i, At[i]) = At[i]
    BY <1>6, <2>4, <2>5, SmallWord DEF OffsetField
  <2> QED
    BY <1>1, <1>3, <2>6
<1>7. CASE VersionUsed # 1
  <2>1. VersionUsed = 2
    BY <1>7 DEF VersionUsed, Version
  <2>2. At[1] = fixed + 4 + n * 8
    <3>1. fixed + 4 + n * 8 \in Nat /\ n + 1 \in Nat \ {0}
      OBVIOUS
    <3> QED
      BY <3>1, <1>1, <1>5, <2>1, OffsetsRise DEF At
  <2>3. Word(At[1]) = At[1]
    BY <1>4, <2>2, SmallWord
  <2>4. ASSUME NEW i \in 1..(n + 1) PROVE OffsetField(VersionUsed, i, At[i]) = At[i]
    BY <2>1, <2>3 DEF OffsetField
  <2> QED
    BY <1>1, <1>3, <2>4
<1> QED
  BY <1>6, <1>7

\* build_konami_complete_pages.py: what it writes is read back.
LEMMA CompleteIsReadable ==
    ASSUME Sane, Given, PackedRaw, tool = "complete", source.pages # <<>>
    PROVE  \A i \in DOMAIN streams : Stream(Archive(VersionUsed, At), i) = {RawStreams[i]}
<1>1. PICK n \in Nat : /\ Stand(n) /\ DOMAIN streams = 1..(n + 1) /\ Len(streams) = n + 1
                       /\ \A i \in 1..(n + 1) : /\ streams[i].raw = RawStreams[i]
                                                /\ streams[i].size \in Nat \ {0}
  BY PackedSizesFit
<1>2. DataStart(VersionUsed) \in Nat
  <2>1. VersionUsed \in {1, 2}
    BY DEF VersionUsed, Version
  <2> QED
    BY <1>1, <2>1 DEF DataStart, RecordSize, Sane
<1>3. At \in [1..(n + 1) -> Nat] /\ \A i, j \in 1..(n + 1) : i < j => At[i] < At[j]
  <2>1. n + 1 \in Nat \ {0}
    OBVIOUS
  <2> QED
    BY <1>1, <1>2, <2>1, OffsetsRise DEF At
<1>4. ASSUME NEW i \in 1..(n + 1), NEW j \in 1..(n + 1), i # j PROVE At[i] # At[j]
  <2>1. i < j \/ j < i
    BY <1>4
  <2>2. At[i] \in Nat /\ At[j] \in Nat
    BY <1>3
  <2> QED
    BY <2>1, <2>2, <1>3
<1>5. \A i \in 1..(n + 1) : /\ Word(streams[i].size) = streams[i].size
                            /\ OffsetField(VersionUsed, i, At[i]) = At[i]
  BY <1>1, FieldsFit
<1>6. n + 1 \in Nat
  OBVIOUS
<1>7. \A i \in 1..(n + 1) : Stream(Archive(VersionUsed, At), i) = {streams[i].raw}
  <2>1. PICK at, version : at = At /\ version = VersionUsed
    OBVIOUS
  <2>2. \A i, j \in 1..(n + 1) : i # j => at[i] # at[j]
    BY <1>4, <2>1
  <2>3. \A i \in 1..(n + 1) : /\ Word(streams[i].size) = streams[i].size
                              /\ OffsetField(version, i, at[i]) = at[i]
    BY <1>5, <2>1
  <2>4. DOMAIN streams = 1..(n + 1)
    BY <1>1
  <2>5. \A i \in 1..(n + 1) : Stream(Archive(version, at), i) = {streams[i].raw}
    BY <1>6, <2>2, <2>3, <2>4, StreamsFound
  <2> QED
    BY <2>1, <2>5
<1> QED
  BY <1>1, <1>7

LEMMA Building ==
    ASSUME Sane, ArchiveInv, Build
    PROVE  ArchiveInv'
<1>1. /\ Given /\ UNCHANGED <<tool, source, streams>> /\ source.pages # <<>> /\ PackedRaw
      /\ tool # "specialized" /\ pc' \in {"refused", "validate", "written"}
  BY DEF Build, ArchiveInv
<1>2. Given' /\ source'.pages # <<>> /\ PackedRaw'
  BY <1>1, SourceKept, PackedKept
<1>3. CASE pc' # "written"
  BY <1>1, <1>2, <1>3 DEF ArchiveInv, StagedWhole
<1>4. CASE pc' = "written"
  <2>1. tool = "complete" /\ archive' = Archive(VersionUsed, At)
    BY <1>1, <1>4, GivenSource DEF Build
  <2>2. \A i \in DOMAIN streams : Stream(archive', i) = {RawStreams[i]}
    BY <1>1, <2>1, CompleteIsReadable
  <2>3. Readable'
    BY <1>1, <2>2, SourceKept DEF Readable
  <2> QED
    BY <1>1, <1>2, <1>4, <2>1, <2>3 DEF ArchiveInv, StagedWhole
<1> QED
  BY <1>3, <1>4

LEMMA Validating ==
    ASSUME ArchiveInv, Validate
    PROVE  ArchiveInv'
<1>1. /\ Given /\ UNCHANGED <<tool, source, streams, archive>> /\ source.pages # <<>> /\ PackedRaw
      /\ pc' \in {"refused", "written"} /\ tool # "specialized"
  BY DEF Validate, ArchiveInv
<1>2. Given' /\ source'.pages # <<>> /\ PackedRaw'
  BY <1>1, SourceKept, PackedKept
<1>3. CASE pc' = "refused"
  BY <1>2, <1>3 DEF ArchiveInv, StagedWhole
<1>4. CASE pc' = "written"
  <2>1. \A i \in DOMAIN streams : Stream(archive, i) = {RawStreams[i]}
    BY <1>4 DEF Validate
  <2>2. Readable'
    BY <1>1, <2>1, SourceKept DEF Readable
  <2> QED
    BY <1>1, <1>2, <1>4, <2>2 DEF ArchiveInv, StagedWhole
<1> QED
  BY <1>1, <1>3, <1>4

\* Cells of a segment, from one that has room for them.
LEMMA SameSegment ==
    ASSUME NEW n \in Nat \ {0}, NEW a \in Int, NEW s \in 1..n, (a % n) + s <= n
    PROVE  a \div n = (a + s - 1) \div n
  OBVIOUS

\* The first cell of the next segment.
LEMMA NextSegment ==
    ASSUME NEW n \in Nat \ {0}, NEW a \in Int
    PROVE  a % n \in 0..(n - 1) /\ (a + n - (a % n)) % n = 0
<1>1. a % n \in 0..(n - 1)
  OBVIOUS
<1>2. (a + n - (a % n)) % n = 0
  OBVIOUS
<1> QED
  BY <1>1, <1>2

\* Where append_staged puts a stream, the rest of the segment has room for it
\* unless no segment has: either it had, or the stream opens the next one.
LEMMA AlignedWhole ==
    ASSUME Sane, NEW at \in Int, NEW size \in Nat
    PROVE  /\ Aligned(at, size) \in Int
           /\ size \in 1..Segment => Whole(Aligned(at, size), size)
<1>1. PICK n \in Nat \ {0} : n = Segment
  BY DEF Sane
<1>2. PICK a \in Int : a = at + 3
  OBVIOUS
<1>3. PICK within \in 0..(n - 1) : within = a % n /\ (a + n - within) % n = 0
  BY NextSegment
<1>4. CASE within + size > n
  <2>1. Aligned(at, size) = at + n - within
    BY <1>1, <1>2, <1>3, <1>4 DEF Aligned, TailOffset
  <2>2. PICK b \in Int : b = a + n - within
    OBVIOUS
  <2>3. size \in 1..n => b \div n = (b + size - 1) \div n
    BY <1>3, <2>2, SameSegment
  <2>4. PICK next \in Int : next = at + n - within
    BY <1>3
  <2>5. b = next + 3
    BY <1>2, <1>3, <2>2, <2>4
  <2> QED
    BY <1>1, <2>1, <2>3, <2>4, <2>5 DEF Whole, TailOffset
<1>5. CASE ~(within + size > n)
  <2>1. Aligned(at, size) = at
    BY <1>1, <1>2, <1>3, <1>5 DEF Aligned, TailOffset
  <2>2. within + size <= n
    BY <1>3, <1>5
  <2>3. size \in 1..n => a \div n = (a + size - 1) \div n
    BY <1>3, <2>2, SameSegment
  <2> QED
    BY <1>1, <1>2, <2>1, <2>3 DEF Whole, TailOffset
<1> QED
  BY <1>4, <1>5

LEMMA AlignedBehind ==
    ASSUME Sane, NEW at \in Nat, NEW size \in Nat
    PROVE  Aligned(at, size) \in Nat /\ Aligned(at, size) >= at
<1>1. PICK n \in Nat \ {0} : n = Segment
  BY DEF Sane
<1>2. PICK a \in Nat : a = at + 3
  OBVIOUS
<1>3. PICK within : within = a % n /\ within \in 0..(n - 1)
  OBVIOUS
<1>4. Aligned(at, size) = IF within + size > n THEN at + n - within ELSE at
  BY <1>1, <1>2, <1>3 DEF Aligned, TailOffset
<1>5. at + n - within \in Nat /\ at + n - within >= at
  BY <1>3
<1> QED
  BY <1>4, <1>5

LEMMA StagingBegins ==
    ASSUME Sane, ArchiveInv, StartStaging
    PROVE  ArchiveInv'
<1>1. /\ Given /\ UNCHANGED <<tool, source, streams>> /\ source.pages # <<>> /\ PackedRaw
      /\ tool = "specialized" /\ pc' = "stage"
  BY DEF StartStaging, ArchiveInv
<1>2. Given' /\ source'.pages # <<>> /\ PackedRaw'
  BY <1>1, SourceKept, PackedKept
<1>3. PICK n \in Nat : Len(streams) = n + 1
  BY <1>1, PackedSizesFit
<1>4. PICK start \in Nat : start = DataStart(1)
  BY <1>3 DEF DataStart, RecordSize, Sane
<1>5. archive' = [end |-> start, at |-> <<>>]
  BY <1>4 DEF StartStaging
<1>6. archive'.end = start /\ archive'.at = <<>>
  BY <1>5
<1>7. StagedApart'
  BY <1>1, <1>3, <1>6 DEF StagedApart, StreamWhole
<1> QED
  BY <1>1, <1>2, <1>7 DEF ArchiveInv, StagedWhole

LEMMA StagingGoesOn ==
    ASSUME Sane, ArchiveInv, AppendStaged
    PROVE  ArchiveInv'
<1>1. /\ Given /\ UNCHANGED <<tool, source, streams>> /\ source.pages # <<>> /\ PackedRaw
      /\ pc = "stage" /\ tool = "specialized" /\ StagedApart
  BY DEF AppendStaged, ArchiveInv
<1>2. Given' /\ source'.pages # <<>> /\ PackedRaw'
  BY <1>1, SourceKept, PackedKept
<1>3. PICK end \in Nat : end = archive.end
  BY <1>1 DEF StagedApart
<1>4. PICK placed \in Seq(Nat) : placed = archive.at
  BY <1>1 DEF StagedApart
<1>5. PICK n \in Nat : n = Len(placed)
  OBVIOUS
<1>6. n + 1 \in DOMAIN streams
  BY <1>4, <1>5 DEF AppendStaged
<1>7. PICK size \in Nat \ {0} : size = streams[n + 1].size
  BY <1>1, <1>6, PackedSizesFit
<1>8. PICK at \in Nat : at = Aligned(end, size) /\ at >= end
  BY AlignedBehind
<1>11. size \in 1..Segment => Whole(at, size)
  BY <1>8, AlignedWhole
<1>9. CASE at > WordLimit
  <2>1. pc' = "refused"
    BY <1>3, <1>4, <1>5, <1>7, <1>8, <1>9 DEF AppendStaged
  <2> QED
    BY <1>2, <2>1 DEF ArchiveInv, StagedWhole
<1>10. CASE ~(at > WordLimit)
  <2>1. pc' = pc /\ archive' = [end |-> at + size, at |-> Append(placed, at)]
    BY <1>3, <1>4, <1>5, <1>7, <1>8, <1>10 DEF AppendStaged
  <2>2. PICK now : now = Append(placed, at)
    OBVIOUS
  <2>3. /\ now \in Seq(Nat) /\ Len(now) = n + 1 /\ now[n + 1] = at
        /\ \A i \in 1..n : now[i] = placed[i] /\ placed[i] \in Nat
    BY <1>5, <2>2
  <2>4. archive'.end = at + size /\ archive'.at = now /\ streams' = streams
    BY <1>1, <2>1, <2>2
  <2>5. /\ \A i \in 1..n : placed[i] <= WordLimit /\ placed[i] < end
        /\ \A i, j \in 1..n : i < j => placed[i] < placed[j]
    BY <1>1, <1>3, <1>4, <1>5 DEF StagedApart
  <2>6. ASSUME NEW i \in 1..(n + 1) PROVE now[i] <= WordLimit /\ now[i] < at + size
    <3>1. CASE i = n + 1
      BY <3>1, <2>3, <1>10 DEF Sane
    <3>2. CASE i \in 1..n
      <4>1. now[i] \in Nat /\ now[i] <= WordLimit /\ now[i] < end
        BY <3>2, <2>3, <2>5
      <4> QED
        BY <4>1, <1>8
    <3> QED
      BY <3>1, <3>2
  <2>7. ASSUME NEW i \in 1..(n + 1), NEW j \in 1..(n + 1), i < j PROVE now[i] < now[j]
    <3>1. i \in 1..n
      BY <2>7
    <3>2. CASE j = n + 1
      <4>1. now[i] \in Nat /\ now[i] < end /\ now[j] = at
        BY <3>1, <3>2, <2>3, <2>5
      <4> QED
        BY <4>1, <1>8
    <3>3. CASE j \in 1..n
      BY <3>1, <3>3, <2>3, <2>5, <2>7
    <3> QED
      BY <3>2, <3>3
  <2>8. n + 1 <= Len(streams)
    BY <1>1, <1>6, PackedSizesFit
  <2>9. at + size \in Nat
    OBVIOUS
  <2>10. ASSUME NEW i \in 1..(n + 1) PROVE StreamWhole(i)'
    <3>1. streams'[i] = streams[i] /\ archive'.at[i] = now[i]
      BY <1>1, <2>4
    <3>2. CASE i = n + 1
      BY <1>7, <1>11, <2>3, <3>1, <3>2 DEF StreamWhole, Whole, TailOffset
    <3>3. CASE i \in 1..n
      <4>1. StreamWhole(i)
        BY <1>1, <1>4, <1>5, <3>3 DEF StagedApart
      <4>2. now[i] = archive.at[i]
        BY <1>4, <2>3, <3>3
      <4> QED
        BY <3>1, <4>1, <4>2 DEF StreamWhole, Whole, TailOffset
    <3> QED
      BY <3>2, <3>3
  <2>11. StagedApart'
    BY <2>3, <2>4, <2>6, <2>7, <2>8, <2>9, <2>10 DEF StagedApart
  <2> QED
    BY <1>1, <1>2, <2>1, <2>11 DEF ArchiveInv, StagedWhole
<1> QED
  BY <1>9, <1>10

LEMMA StagingEnds ==
    ASSUME Sane, ArchiveInv, WriteStaged
    PROVE  ArchiveInv'
<1>1. /\ Given /\ UNCHANGED <<tool, source, streams>> /\ source.pages # <<>> /\ PackedRaw
      /\ pc' = "written" /\ tool = "specialized" /\ StagedApart
      /\ archive' = Archive(1, archive.at) /\ Len(archive.at) + 1 \notin DOMAIN streams
  BY DEF WriteStaged, ArchiveInv
<1>2. Given' /\ source'.pages # <<>> /\ PackedRaw'
  BY <1>1, SourceKept, PackedKept
<1>3. PICK n \in Nat : /\ DOMAIN streams = 1..(n + 1) /\ Len(streams) = n + 1
                       /\ \A i \in 1..(n + 1) : /\ streams[i].raw = RawStreams[i]
                                                /\ streams[i].size \in Nat \ {0}
                                                /\ streams[i].size <= WordLimit
  BY <1>1, PackedSizesFit
<1>4. PICK at \in Seq(Nat) : at = archive.at
  BY <1>1 DEF StagedApart
<1>5. Len(at) = n + 1
  BY <1>1, <1>3, <1>4 DEF StagedApart
<1>6. /\ \A i \in 1..(n + 1) : at[i] \in Nat /\ at[i] <= WordLimit
      /\ \A i, j \in 1..(n + 1) : i < j => at[i] < at[j]
  BY <1>1, <1>4, <1>5 DEF StagedApart
<1>7. \A i, j \in 1..(n + 1) : i # j => at[i] # at[j]
  <2>1. ASSUME NEW i \in 1..(n + 1), NEW j \in 1..(n + 1), i # j PROVE at[i] # at[j]
    <3>1. i < j \/ j < i
      BY <2>1
    <3>2. at[i] \in Nat /\ at[j] \in Nat
      BY <1>6
    <3> QED
      BY <3>1, <3>2, <1>6
  <2> QED
    BY <2>1
<1>8. ASSUME NEW i \in 1..(n + 1)
      PROVE  Word(streams[i].size) = streams[i].size /\ OffsetField(1, i, at[i]) = at[i]
  <2>1. Word(at[i]) = at[i]
    BY <1>6, SmallWord
  <2>2. Word(streams[i].size) = streams[i].size
    BY <1>3, SmallWord
  <2> QED
    BY <2>1, <2>2 DEF OffsetField
<1>9. n + 1 \in Nat /\ DOMAIN streams = 1..(n + 1)
  BY <1>3
<1>10. \A i \in 1..(n + 1) : Stream(Archive(1, at), i) = {streams[i].raw}
  BY <1>7, <1>8, <1>9, StreamsFound
<1>11. \A i \in DOMAIN streams : Stream(archive', i) = {RawStreams[i]}
  BY <1>1, <1>3, <1>4, <1>10
<1>12. Readable'
  BY <1>1, <1>11, SourceKept DEF Readable
<1>13. PICK data : data = {[at |-> at[i], stream |-> streams[i]] : i \in DOMAIN streams}
  OBVIOUS
<1>14. archive'.data = data
  BY <1>1, <1>4, <1>13 DEF Archive
<1>15. ASSUME NEW d \in data
       PROVE  d.stream.size \in 1..Segment => Whole(d.at, d.stream.size)
  <2>1. PICK i \in 1..(n + 1) : d = [at |-> at[i], stream |-> streams[i]]
    BY <1>3, <1>13
  <2>2. StreamWhole(i)
    BY <1>1, <1>4, <1>5 DEF StagedApart
  <2> QED
    BY <1>4, <2>1, <2>2 DEF StreamWhole
<1>16. StagedWhole'
  BY <1>14, <1>15 DEF StagedWhole, Whole, TailOffset
<1> QED
  BY <1>1, <1>2, <1>12, <1>16 DEF ArchiveInv

-----------------------------------------------------------------------------
\* The bundle's pages are overlays over the container's template.
LEMMA BundlePages ==
    ASSUME Sane, Given, tool = "bundle", NEW i \in DOMAIN source.pages
    PROVE  /\ RawStreams[1] = source.template /\ RawStreams[i + 1] = source.pages[i]
           /\ PageOf(i) = Over(source.template, source.pages[i])
           /\ i + 1 \in DOMAIN RawStreams /\ 1 \in DOMAIN RawStreams
           /\ \E n \in Nat : DOMAIN source.pages[i] = 1..n
<1>1. PICK n \in Nat : Stand(n)
  BY RawPages
<1>2. source.kind = "KCPX" /\ source.pages[i] \in Seq(Blocks)
  BY KindOfSource
<1>3. DOMAIN source.pages[i] = 1..Len(source.pages[i]) /\ Len(source.pages[i]) \in Nat
  BY <1>2
<1>4. i \in 1..n /\ DOMAIN RawStreams = 1..(n + 1)
  BY <1>1 DEF Stand
<1>5. RawStreams[1] = source.template /\ RawStreams[i + 1] = source.pages[i]
  BY <1>1, <1>2, <1>4 DEF Stand
<1> QED
  BY <1>2, <1>3, <1>4, <1>5 DEF PageOf

LEMMA SetKept ==
    ASSUME UNCHANGED <<tool, source>>
    PROVE  EngineCells' = EngineCells /\ \A i : Covered(i)' = Covered(i)
BY DEF EngineCells, Covered

\* The overlay of a page over a page that has the engine's state.
LEMMA OverlayTurns ==
    ASSUME Sane, Given, tool = "bundle", NEW i \in DOMAIN source.pages, NEW cells
    PROVE  LET now == Over(cells, source.pages[i])
           IN /\ \A a \in Covered(i) : now[a] = PageOf(i)[a]
              /\ \A a \in EngineCells : now[a] = cells[a]
              /\ DOMAIN now = Cells
<1>1. PICK n \in Nat : DOMAIN source.pages[i] = 1..n
  BY BundlePages
<1>2. PICK now : now = Over(cells, source.pages[i])
  OBVIOUS
<1>3. ASSUME NEW a \in Covered(i) PROVE now[a] = PageOf(i)[a]
  <2>1. a \in Cells /\ Setting(source.pages[i], a) # {}
    BY DEF Covered
  <2>2. \A other : Over(cells, source.pages[i])[a] = Over(other, source.pages[i])[a]
    BY <1>1, <2>1, LaidCell
  <2> QED
    BY <1>2, <2>2, BundlePages
<1>4. ASSUME NEW a \in EngineCells PROVE now[a] = cells[a]
  <2>1. a \in Cells /\ a \notin Covered(i)
    BY DEF EngineCells
  <2>2. Setting(source.pages[i], a) = {}
    BY <2>1 DEF Covered
  <2> QED
    BY <1>1, <1>2, <2>1, <2>2, LaidCell
<1>5. DOMAIN now = Cells
  BY <1>2 DEF Over
<1> QED
  BY <1>2, <1>3, <1>4, <1>5

\* A player that reads either format reads the streams themselves.
LEMMA EitherFormat ==
    ASSUME Sane, Given, PackedRaw, Readable, tool = "bundle",
           NEW i \in DOMAIN source.pages, NEW format
    PROVE  /\ StreamFor(format, 1) = {source.template}
           /\ StreamFor(format, i + 1) = {source.pages[i]}
<1>1. 1 \in DOMAIN streams /\ i + 1 \in DOMAIN streams
  BY BundlePages DEF PackedRaw
<1> QED
  BY <1>1, BundlePages DEF StreamFor, Readable

LEMMA KeptWhilePlaying ==
    ASSUME UNCHANGED <<tool, source, streams, archive>>, Given, PackedRaw, Readable,
           source.pages # <<>>
    PROVE  Given' /\ PackedRaw' /\ Readable' /\ source'.pages # <<>>
<1>1. Readable'
  BY SourceKept DEF Readable
<1> QED
  BY <1>1, SourceKept, PackedKept

LEMMA Materializing ==
    ASSUME Sane, ArchiveInv, NEW i \in DOMAIN source.pages, NEW format, Materialize(format, i)
    PROVE  ArchiveInv'
<1>1. /\ Given /\ UNCHANGED <<tool, source, streams, archive>> /\ source.pages # <<>>
      /\ PackedRaw /\ Readable /\ tool = "bundle" /\ pc' = "playing"
  BY DEF Materialize, ArchiveInv
<1>2. running' = [format |-> format, page |-> i, cells |-> Over(source.template, source.pages[i]),
                  state |-> [a \in EngineCells |-> source.template[a]]]
  BY <1>1, EitherFormat DEF Materialize
<1>3. PICK now : now = Over(source.template, source.pages[i])
  OBVIOUS
<1>4. PICK state : state = [a \in EngineCells |-> source.template[a]]
  OBVIOUS
<1>5. running'.page = i /\ running'.cells = now /\ running'.state = state
  BY <1>2, <1>3, <1>4
<1>6. /\ \A a \in Covered(i) : now[a] = PageOf(i)[a]
      /\ \A a \in EngineCells : now[a] = state[a]
      /\ DOMAIN now = Cells /\ DOMAIN state = EngineCells
  BY <1>1, <1>3, <1>4, OverlayTurns
<1>7. Running'
  BY <1>1, <1>5, <1>6, SourceKept, SetKept DEF Running, TurnedPage
<1> QED
  BY <1>1, <1>7, KeptWhilePlaying DEF ArchiveInv, StagedWhole

LEMMA EngineWrites ==
    ASSUME ArchiveInv, EngineStep
    PROVE  ArchiveInv'
<1>1. /\ Given /\ UNCHANGED <<tool, source, pc, streams, archive>> /\ source.pages # <<>>
      /\ PackedRaw /\ Readable /\ pc = "playing" /\ Running
  BY DEF EngineStep, ArchiveInv
<1>2. PICK w \in EngineCells :
         running' = [format |-> running.format, page |-> running.page,
                     cells |-> [running.cells EXCEPT ![w] = EngineValue],
                     state |-> [running.state EXCEPT ![w] = EngineValue]]
  BY DEF EngineStep
<1>3. PICK cells, state : cells = running.cells /\ state = running.state
  OBVIOUS
<1>4. PICK now : now = [cells EXCEPT ![w] = EngineValue]
  OBVIOUS
<1>5. PICK then : then = [state EXCEPT ![w] = EngineValue]
  OBVIOUS
<1>6. running'.page = running.page /\ running'.cells = now /\ running'.state = then
  BY <1>2, <1>3, <1>4, <1>5
<1>7. DOMAIN cells = Cells /\ DOMAIN state = EngineCells /\ running.page \in DOMAIN source.pages
  BY <1>1, <1>3 DEF Running
<1>8. DOMAIN now = Cells /\ DOMAIN then = EngineCells
  BY <1>4, <1>5, <1>7
<1>9. /\ EngineCells \subseteq Cells
      /\ \A a \in Covered(running.page) : a \in Cells /\ a \notin EngineCells
  BY <1>7 DEF EngineCells, Covered
<1>10. ASSUME NEW a \in Covered(running.page) PROVE now[a] = PageOf(running.page)[a]
  <2>1. a \in Cells /\ a # w
    BY <1>2, <1>9
  <2>2. now[a] = cells[a]
    BY <1>4, <1>7, <2>1
  <2> QED
    BY <1>1, <1>3, <2>2 DEF Running, TurnedPage
<1>11. ASSUME NEW a \in EngineCells PROVE now[a] = then[a]
  <2>1. a \in Cells /\ cells[a] = state[a]
    BY <1>1, <1>3, <1>9 DEF Running, TurnedPage
  <2> QED
    BY <1>4, <1>5, <1>7, <2>1
<1>12. Running'
  BY <1>1, <1>6, <1>7, <1>8, <1>10, <1>11, SourceKept, SetKept DEF Running, TurnedPage
<1> QED
  BY <1>1, <1>12, KeptWhilePlaying DEF ArchiveInv, StagedWhole

LEMMA PageTurns ==
    ASSUME Sane, ArchiveInv, NEW i \in DOMAIN source.pages, KcpxGateway(i) \/ KcpPageGateway(i)
    PROVE  ArchiveInv'
<1>1. /\ Given /\ UNCHANGED <<tool, source, pc, streams, archive>> /\ source.pages # <<>>
      /\ PackedRaw /\ Readable /\ pc = "playing" /\ Running /\ tool = "bundle"
  BY DEF KcpxGateway, KcpPageGateway, Overlaid, ArchiveInv, Running
<1>2. Overlaid(i, source.pages[i])
  BY <1>1, EitherFormat, BundlePages DEF KcpxGateway, KcpPageGateway
<1>3. PICK cells, state : cells = running.cells /\ state = running.state
  OBVIOUS
<1>4. PICK now : now = Over(cells, source.pages[i])
  OBVIOUS
<1>5. running'.page = i /\ running'.cells = now /\ running'.state = state
  BY <1>2, <1>3, <1>4 DEF Overlaid
<1>6. /\ \A a \in Covered(i) : now[a] = PageOf(i)[a]
      /\ \A a \in EngineCells : now[a] = cells[a]
      /\ DOMAIN now = Cells
  BY <1>1, <1>4, OverlayTurns
<1>7. DOMAIN state = EngineCells /\ \A a \in EngineCells : cells[a] = state[a]
  BY <1>1, <1>3 DEF Running, TurnedPage
<1>8. Running'
  BY <1>1, <1>5, <1>6, <1>7, SourceKept, SetKept DEF Running, TurnedPage
<1> QED
  BY <1>1, <1>8, KeptWhilePlaying DEF ArchiveInv, StagedWhole

LEMMA InvHolds ==
    ASSUME Sane, ArchiveInv
    PROVE  PagesSurvive
<1>1. CASE pc \in {"written", "playing"}
  <2>1. Given /\ PackedRaw /\ Readable /\ (pc = "playing" => TurnedPage)
    BY <1>1 DEF ArchiveInv, Running
  <2>2. PICK n \in Nat : Stand(n)
    BY <2>1, RawPages
  <2>3. ASSUME NEW i \in DOMAIN source.pages PROVE PageSurvives(i)
    <3>1. i \in 1..n /\ 1 \in DOMAIN streams /\ i + 1 \in DOMAIN streams
      BY <2>1, <2>2 DEF Stand, PackedRaw
    <3>2. Stream(archive, 1) = {RawStreams[1]} /\ Stream(archive, i + 1) = {RawStreams[i + 1]}
      BY <2>1, <3>1 DEF Readable
    <3>3. Over(RawStreams[1], RawStreams[i + 1]) = PageOf(i)
      BY <2>2, <3>1 DEF Stand
    <3> QED
      BY <3>2, <3>3 DEF PageSurvives
  <2> QED
    BY <2>1, <2>3 DEF PagesSurvive
<1>2. CASE pc \notin {"written", "playing"}
  BY <1>2 DEF PagesSurvive
<1> QED
  BY <1>1, <1>2

LEMMA InvStagedWhole == ArchiveInv => StagedWhole
BY DEF ArchiveInv

LEMMA ArchiveStarts ==
    ASSUME Init
    PROVE  ArchiveInv
BY DEF Init, ArchiveInv, Given, Tools, StagedWhole

LEMMA ArchiveGoesOn ==
    ASSUME Sane, ArchiveInv, [Next]_vars
    PROVE  ArchiveInv'
<1>1. CASE Parse
  <2>1. Given /\ UNCHANGED <<tool, source, streams, archive, running>>
    BY <1>1 DEF ArchiveInv, Parse
  <2>2. (pc' = "compress" /\ source.pages # <<>>) \/ pc' = "refused"
    BY <1>1 DEF Parse, WellFormed
  <2> QED
    BY <2>1, <2>2, SourceKept DEF ArchiveInv, StagedWhole
<1>2. CASE Stopped \/ UNCHANGED vars
  <2>1. UNCHANGED <<tool, source, pc, streams, archive, running>>
    BY <1>2 DEF Stopped, vars
  <2>2. PackedRaw => PackedRaw'
    BY <2>1, PackedKept
  <2>3. Readable' = Readable
    BY <2>1, SourceKept DEF Readable
  <2>4. StagedApart' = StagedApart /\ StagedWhole' = StagedWhole
    BY <2>1 DEF StagedApart, StreamWhole, StagedWhole, Whole, TailOffset
  <2>5. Running' = Running
    BY <2>1, SourceKept, SetKept DEF Running, TurnedPage
  <2> QED
    BY <2>1, <2>2, <2>3, <2>4, <2>5, SourceKept DEF ArchiveInv
<1>3. CASE \E i \in DOMAIN source.pages :
             KcpxGateway(i) \/ KcpPageGateway(i) \/ \E f \in Formats : Materialize(f, i)
  BY <1>3, PageTurns, Materializing
<1> QED
  BY <1>1, <1>2, <1>3, Compressing, Building, StagingBegins, StagingGoesOn, StagingEnds, Validating,
     EngineWrites DEF Next

\* What a tool has written into an archive is what a player reads out of it,
\* and what is in the page while a track turns it (build_konami_complete_pages.py,
\* convert_specialized_complete_pages_to_kcp.py, convert_sccplus_kcpx_to_kcpz.py,
\* the bundle's kcp_page_gateway).
THEOREM ComponentPagesSurvive == Sane => (Spec => []PagesSurvive)
<1> SUFFICES ASSUME Sane PROVE Spec => []PagesSurvive
  OBVIOUS
<1>1. Init => ArchiveInv
  BY ArchiveStarts
<1>2. ArchiveInv /\ [Next]_vars => ArchiveInv'
  BY ArchiveGoesOn
<1>3. ArchiveInv => PagesSurvive
  BY InvHolds
<1> QED
  BY <1>1, <1>2, <1>3, PTL DEF Spec
=============================================================================
