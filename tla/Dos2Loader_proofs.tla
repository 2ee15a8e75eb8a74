--------------------------- MODULE Dos2Loader_proofs ---------------------------
(***************************************************************************)
(* Proofs about Dos2Loader, for every file size up to 4 MiB and every      *)
(* mapper: what the player finds staged, what is allocated and refused,    *)
(* and the file handle.                                                    *)
(***************************************************************************)
EXTENDS Dos2Loader, SequenceTheorems, FiniteSetTheorems, TLAPS

\* The sizes the model is about, and numbers of free segments.
Sane ==
    /\ \A size \in Sizes : size \in Int /\ 1 <= size /\ size <= SizeLimit
    /\ FreeCounts \subseteq Nat

-----------------------------------------------------------------------------
\* The inductive invariant, by what it is about.

Early == {"open", "measure", "inspect", "count", "choose", "allocate"}
Late == {"rewind", "full", "ksp", "sparse", "staged", "close", "play"}

Types ==
    /\ file \in [kind : Kinds, size : Sizes] /\ mapper_free \in FreeCounts
    /\ pc \in Early \cup Late \cup Errors \cup {"exit"}
    /\ banks \in 0..3 /\ stage_count \in Nat /\ sparse_mode \in 0..2
    /\ alloc_count \in Nat /\ cache_count \in Nat
    /\ index \in Nat

Arrays == table \in [0..31 -> Int] /\ content \in [1..mapper_free -> Int]

\* The file is closed only when nothing will be read from it.
HandleInv ==
    /\ pc \in {"measure", "inspect", "count", "choose", "allocate", "rewind",
               "full", "ksp", "sparse", "staged"} => handle = "open"
    /\ pc = "play" /\ sparse_mode # 0 => handle = "open"
    /\ pc = "close" => sparse_mode = 0

\* The 8-bit count is the file's once it was accepted.
Known ==
    \/ file.kind = "kcpx" /\ banks = 1
    \/ file.kind = "kcpz" /\ banks = 2
    \/ file.kind = "ksp" /\ banks = 3
Counted == stage_count = LastSegment + 1 /\ stage_count \in 1..32
SizeInv ==
    /\ pc \in {"count", "choose", "allocate"} \cup Late => Known
    /\ pc \in {"choose", "allocate"} \cup Late => Counted

\* A mode was chosen whose segments the mapper has.
Chosen ==
    /\ banks + alloc_count <= mapper_free
    /\ \/ sparse_mode = 0 /\ Kcp /\ alloc_count = stage_count
       \/ /\ sparse_mode = 1 /\ file.kind = "kcpz"
          /\ alloc_count \in {3, 4} /\ cache_count = alloc_count - 1
       \/ sparse_mode = 2 /\ file.kind = "ksp" /\ alloc_count = 3

Pools ==
    /\ pool = [i \in 1..alloc_count |-> i]
    /\ runtime = [i \in 1..banks |-> alloc_count + i]

PoolInv ==
    /\ pc \in {"allocate"} \cup Late => Chosen
    /\ pc \in Late => Pools
    /\ pool = <<>> \/ (Pools /\ Chosen /\ pc \notin Early \cup {"mapper_error"})

\* What has been read so far is found through the table.
KspPlaced(j) ==
    /\ table[KspSegment(j)] = j + 1
    /\ KspSegment(j) < 4 => content[j + 1] = KspSegment(j)

Delivered ==
    \/ /\ sparse_mode = 0
       /\ \A k \in 0..(stage_count - 1) : content[k + 1] = k
    \/ sparse_mode = 1 /\ table[0] = 1 /\ content[1] = 0
    \/ /\ sparse_mode = 2
       /\ \A k \in {0, 1, stage_count - 1} \cap 0..(stage_count - 1) :
             \E s \in 1..3 : table[k] = s /\ (k < 4 => content[s] = k)

StagedInv ==
    /\ pc \in Early \cup {"rewind"} => index = 0
    /\ pc \in Late /\ sparse_mode = 0 =>
         \A k \in 0..(stage_count - 1) : table[k] = k + 1
    /\ pc = "full" => /\ sparse_mode = 0 /\ index < stage_count
                      /\ \A k \in 0..(index - 1) : content[k + 1] = k
    /\ pc = "ksp" => /\ sparse_mode = 2 /\ index \in 0..2 /\ index < stage_count
                     /\ \A j \in 0..(index - 1) : KspPlaced(j)
    /\ pc = "sparse" => sparse_mode = 1
    /\ pc \in {"staged", "close", "play"} => Delivered

\* What is refused does not fit.
RefusedInv ==
    /\ pc = "mapper_error" =>
         /\ Counted
         /\ file.kind = "ksp" => 6 > mapper_free
         /\ file.kind = "kcpx" => 1 + stage_count > mapper_free
         /\ file.kind = "kcpz" => 2 + stage_count > mapper_free /\ 5 > mapper_free
    /\ pc = "file_too_large" => file.size > StageLimit * SegBytes

Inv ==
    Types /\ Arrays /\ HandleInv /\ SizeInv /\ PoolInv /\ StagedInv /\ RefusedInv

-----------------------------------------------------------------------------
(* Sizes. *)

\* The byte holds the number of file segments whenever it is accepted, and a
\* size that is not accepted is above 512 KiB.
LEMMA SegmentCount ==
    ASSUME NEW size \in Int, 1 <= size, size <= SizeLimit
    PROVE  /\ TooMany(SegmentsOf(size)) => size > StageLimit * SegBytes
           /\ ~TooMany(SegmentsOf(size)) =>
                /\ SegmentsOf(size) = (size - 1) \div SegBytes + 1
                /\ SegmentsOf(size) \in 1..StageLimit
<1> DEFINE q == (size - 1) \div SegBytes
<1>1. size <= 4194304
  BY SMT DEF SizeLimit, SegBytes
<1>2. q \in 0..255
  BY <1>1, SMT DEF SegBytes
<1>3. (size + SegBytes - 1) \div SegBytes = q + 1
  BY <1>1, SMT DEF SegBytes
<1>4. SegmentsOf(size) = (q + 1) % 256
  BY <1>3 DEF SegmentsOf
<1>5. 32 <= q => size > StageLimit * SegBytes
  BY <1>1, SMT DEF SegBytes, StageLimit
<1> HIDE DEF q
<1>6. SegmentsOf(size) = IF q = 255 THEN 0 ELSE q + 1
  BY <1>2, <1>4, SMT
<1>7. q = (size - 1) \div SegBytes
  BY DEF q
<1> QED
  BY <1>2, <1>5, <1>6, <1>7, SMT DEF TooMany, StageLimit

-----------------------------------------------------------------------------
(* The invariant is inductive. *)

LEMMA InitInv == Sane /\ Init => Inv
<1> SUFFICES ASSUME Sane, Init PROVE Inv
  OBVIOUS
<1>1. mapper_free \in Nat
  BY DEF Sane, Init
<1>2. Types
  BY <1>1 DEF Init, Types, Early, Late, Errors
<1>3. Arrays
  <2>1. table \in [0..31 -> Int]
    BY DEF Init, TableEntries, NoSeg
  <2>2. content \in [1..mapper_free -> Int]
    BY DEF Init, Junk
  <2> QED
    BY <2>1, <2>2 DEF Arrays
<1> QED
  BY <1>2, <1>3 DEF Init, Inv, HandleInv, SizeInv, PoolInv, StagedInv, RefusedInv,
              Early, Late

\* The part of the types that concerns a step's own variables.
LEMMA Plain ==
    Sane /\ Inv =>
      /\ mapper_free \in Nat /\ banks \in Nat /\ alloc_count \in Nat
      /\ stage_count \in Nat
      /\ file.size \in Int /\ 1 <= file.size /\ file.size <= SizeLimit
<1> SUFFICES ASSUME Sane, Inv
             PROVE  /\ mapper_free \in Nat /\ banks \in Nat /\ alloc_count \in Nat
                    /\ stage_count \in Nat
                    /\ file.size \in Int /\ 1 <= file.size
                    /\ file.size <= SizeLimit
  OBVIOUS
<1>1. Types
  BY DEF Inv
<1>2. file.size \in Sizes
  BY <1>1 DEF Types
<1> QED
  BY <1>1, <1>2 DEF Types, Sane

\* Writing one entry of an array.
LEMMA ArrayWrite ==
    ASSUME NEW S, NEW f \in [S -> Int], NEW i \in S, NEW v \in Int
    PROVE  /\ [f EXCEPT ![i] = v] \in [S -> Int]
           /\ [f EXCEPT ![i] = v][i] = v
           /\ \A j \in S : j # i => [f EXCEPT ![i] = v][j] = f[j]
OBVIOUS

LEMMA NextInv == Sane /\ Inv /\ [Next]_vars => Inv'
<1> SUFFICES ASSUME Sane, Inv, [Next]_vars PROVE Inv'
  OBVIOUS
<1>0. /\ mapper_free \in Nat /\ banks \in Nat /\ alloc_count \in Nat
      /\ stage_count \in Nat
  BY Plain
<1> USE <1>0 DEF Early, Late, Errors, plan, memory
<1>a. Arrays /\ (UNCHANGED <<mapper_free, table, content>> => Arrays')
  BY DEF Inv, Arrays
<1>1. CASE Open
  BY <1>a, <1>1 DEF Open, Inv, Types, HandleInv, SizeInv, PoolInv, StagedInv,
              RefusedInv, Known, Counted, Chosen, Pools, Delivered
<1>2. CASE Measure
  BY <1>a, <1>2 DEF Measure, Inv, Types, HandleInv, SizeInv, PoolInv, StagedInv,
              RefusedInv, Known, Counted, Chosen, Pools, Delivered
<1>3. CASE Inspect
  <2>1. Types'
    <3>1. banks' \in 0..3 /\ pc' \in {"count", "format_error"}
      BY <1>3 DEF Inspect, Inv, Types, Kinds
    <3> QED
      BY <1>3, <3>1 DEF Inspect, Inv, Types
  <2>2. SizeInv'
    BY <1>3 DEF Inspect, Kcp, Inv, Types, SizeInv, Known
  <2>3. PoolInv'
    BY <1>3 DEF Inspect, Kcp, Inv, PoolInv
  <2> QED
    BY <1>a, <1>3, <2>1, <2>2, <2>3 DEF Inspect, Kcp, Inv, HandleInv, StagedInv,
                                  RefusedInv
<1>4. CASE CountStage
  <2> DEFINE count == SegmentsOf(file.size)
  <2>1. CASE TooMany(count)
    <3>1. file.size > StageLimit * SegBytes
      BY <2>1, Plain, SegmentCount
    <3> QED
      BY <1>a, <1>4, <2>1, <3>1 DEF CountStage, Inv, Types, HandleInv, SizeInv,
                              PoolInv, StagedInv, RefusedInv
  <2>2. CASE ~TooMany(count)
    <3>1. count = LastSegment + 1 /\ count \in 1..32
      BY <2>2, Plain, SegmentCount DEF LastSegment, StageLimit
    <3>2. pc = "count" /\ pc' = "choose" /\ stage_count' = count
          /\ UNCHANGED <<file, mapper_free, handle, banks, sparse_mode,
                         alloc_count, cache_count, memory>>
      BY <1>4, <2>2 DEF CountStage
    <3>3. Counted'
      BY <3>1, <3>2 DEF Counted, LastSegment
    <3>4. Known'
      BY <3>2 DEF Inv, SizeInv, Known
    <3>5. Types'
      BY <3>1, <3>2 DEF Inv, Types
    <3>6. PoolInv'
      BY <3>2 DEF Inv, PoolInv
    <3> HIDE DEF count
    <3> QED
      BY <1>a, <3>2, <3>3, <3>4, <3>5, <3>6 DEF Inv, HandleInv, SizeInv, StagedInv,
                                          RefusedInv
  <2> QED
    BY <2>1, <2>2
<1>5. CASE ChooseMode
  <2> USE <1>5
  <2>1. pc = "choose" /\ Known /\ Counted /\ pool = <<>>
    BY DEF ChooseMode, Inv, SizeInv, PoolInv
  <2>2. UNCHANGED <<file, mapper_free, handle, banks, stage_count, memory>>
    BY DEF ChooseMode
  <2>3. Known' /\ Counted'
    BY <2>1, <2>2 DEF Known, Counted, LastSegment
  <2>4. CASE pc' = "allocate"
    <3>1. Chosen' /\ sparse_mode' \in 0..2 /\ alloc_count' \in Nat
          /\ cache_count' \in Nat
      BY <2>1, <2>2, <2>4 DEF ChooseMode, Plan, Fits, SparseLines, Kcp, Known,
                              Counted, Chosen, Inv, Types
    <3>2. Types'
      BY <2>2, <2>4, <3>1 DEF Inv, Types
    <3> QED
      BY <1>a, <2>1, <2>2, <2>3, <2>4, <3>1, <3>2 DEF Inv, HandleInv, SizeInv, PoolInv,
                                          StagedInv, RefusedInv
  <2>5. CASE pc' = "mapper_error"
    <3>1. UNCHANGED <<sparse_mode, alloc_count, cache_count>>
          /\ IF file.kind = "ksp" THEN ~Fits(3)
             ELSE ~Fits(stage_count) /\ (file.kind = "kcpz" => ~Fits(3))
      BY <2>5 DEF ChooseMode, Plan
    <3>2. RefusedInv'
      BY <2>1, <2>2, <2>3, <2>5, <3>1 DEF RefusedInv, Fits, Known
    <3>3. Types'
      BY <2>2, <2>5, <3>1 DEF Inv, Types
    <3> QED
      BY <1>a, <2>1, <2>2, <2>5, <3>1, <3>2, <3>3 DEF Inv, HandleInv, SizeInv, PoolInv,
                                          StagedInv
  <2> QED
    BY <2>4, <2>5 DEF ChooseMode, Plan
<1>6. CASE Allocate
  <2> USE <1>6
  <2>1. pc = "allocate" /\ Known /\ Counted /\ Chosen /\ index = 0
    BY DEF Allocate, Inv, SizeInv, PoolInv, StagedInv
  <2>2. UNCHANGED <<file, mapper_free, handle, plan, content, index>>
    BY DEF Allocate
  <2>3. pc' = "rewind"
    BY <2>1 DEF Allocate, Chosen
  <2>4. Chosen' /\ Known' /\ Counted'
    BY <2>1, <2>2 DEF Chosen, Known, Counted, LastSegment, Kcp
  <2>5. Pools'
    BY <2>2 DEF Allocate, Pools
  <2>6. sparse_mode = 0 => \A k \in 0..(stage_count - 1) : table'[k] = k + 1
    <3> SUFFICES ASSUME sparse_mode = 0, NEW k \in 0..(stage_count - 1)
                 PROVE  table'[k] = k + 1
      OBVIOUS
    <3>1. DOMAIN table = 0..31
      BY <1>a DEF Arrays
    <3>2. k \in 0..31 /\ k < alloc_count
      BY <2>1 DEF Chosen, Counted
    <3> QED
      BY <3>1, <3>2 DEF Allocate
  <2>8. Arrays'
    <3>1. table' \in [0..31 -> Int]
      BY <1>a DEF Allocate, Arrays
    <3> QED
      BY <1>a, <2>2, <3>1 DEF Arrays
  <2>7. Types'
    BY <2>2, <2>3 DEF Inv, Types
  <2> QED
    BY <2>1, <2>2, <2>3, <2>4, <2>5, <2>6, <2>7, <2>8 DEF Inv, HandleInv, SizeInv,
                                          PoolInv, StagedInv, RefusedInv
<1>7. CASE Rewind
  <2> USE <1>7
  <2>1. pc = "rewind" /\ Known /\ Counted /\ Chosen /\ Pools /\ index = 0
    BY DEF Rewind, Inv, SizeInv, PoolInv, StagedInv
  <2>2. UNCHANGED <<file, mapper_free, handle, plan, pool, runtime, content, index>>
    BY DEF Rewind
  <2>3. /\ sparse_mode \in 0..2
        /\ sparse_mode = 0 => pc' = "full" /\ table' = table
        /\ sparse_mode = 1 => pc' = "sparse" /\ table' = table
        /\ sparse_mode = 2 => pc' = "ksp"
    BY DEF Rewind, Inv, Types
  <2>4. Arrays'
    <3>1. CASE sparse_mode = 2
      <4>1. pool[1] = 1
        BY <2>1, <3>1 DEF Chosen, Pools
      <4>2. table' \in [0..31 -> Int]
        BY <1>a, <3>1, <4>1 DEF Rewind, Arrays
      <4> QED
        BY <1>a, <2>2, <4>2 DEF Arrays
    <3> QED
      BY <1>a, <2>2, <2>3, <3>1
  <2>5. Types'
    BY <2>2, <2>3 DEF Inv, Types
  <2>6. SizeInv' /\ PoolInv'
    BY <2>1, <2>2, <2>3 DEF SizeInv, PoolInv, Known, Counted, Chosen, Pools,
                            LastSegment, Kcp
  <2>7. StagedInv'
    BY <2>1, <2>2, <2>3 DEF Inv, StagedInv, Counted
  <2> QED
    BY <2>1, <2>2, <2>3, <2>4, <2>5, <2>6, <2>7 DEF Inv, HandleInv, RefusedInv
<1>8. CASE StageFull
  <2> USE <1>8
  <2>1. PICK ok \in BOOLEAN :
          /\ ReadInto(index, table[index], ok)
          /\ index' = IF ok THEN NextIndex ELSE index
          /\ pc' = CASE ~ok -> "stage_read_error"
                     [] ok /\ index' = stage_count -> "staged"
                     [] ok /\ index' # stage_count -> "full"
    BY DEF StageFull
  <2>2. /\ pc = "full" /\ Known /\ Counted /\ Chosen /\ Pools
        /\ sparse_mode = 0 /\ index \in Nat /\ index < stage_count
        /\ \A k \in 0..(stage_count - 1) : table[k] = k + 1
        /\ \A k \in 0..(index - 1) : content[k + 1] = k
    BY DEF StageFull, Inv, Types, SizeInv, PoolInv, StagedInv
  <2>3. UNCHANGED <<file, mapper_free, handle, plan, pool, runtime, table>>
    BY DEF StageFull
  <2>4. table[index] = index + 1 /\ index + 1 \in 1..mapper_free
    BY <2>2 DEF Chosen
  <2> DEFINE v == IF ok THEN index ELSE Junk
  <2>a. v \in Int /\ content' = [content EXCEPT ![index + 1] = v]
    BY <2>1, <2>2, <2>4 DEF ReadInto, Junk
  <2>b. /\ content' \in [1..mapper_free -> Int] /\ content'[index + 1] = v
        /\ \A i \in 1..mapper_free : i # index + 1 => content'[i] = content[i]
    <3> HIDE DEF v
    <3> QED
      BY <1>a, <2>a, <2>4, ArrayWrite DEF Arrays
  <2>5. Arrays'
    BY <1>a, <2>3, <2>b DEF Arrays
  <2>6. Types'
    BY <2>1, <2>2, <2>3 DEF Inv, Types, NextIndex
  <2>7. SizeInv' /\ PoolInv'
    BY <2>1, <2>2, <2>3 DEF SizeInv, PoolInv, Known, Counted, Chosen, Pools,
                            LastSegment, Kcp
  <2>8. ok => \A k \in 0..(index' - 1) : content'[k + 1] = k
    <3> SUFFICES ASSUME ok, NEW k \in 0..(index' - 1)
                 PROVE  content'[k + 1] = k
      OBVIOUS
    <3>1. index' = index + 1
      BY <2>1 DEF NextIndex
    <3>2. CASE k = index
      BY <2>b, <3>2
    <3>3. CASE k # index
      <4>1. k \in 0..(index - 1) /\ k + 1 \in 1..mapper_free /\ k + 1 # index + 1
        BY <2>2, <2>4, <3>1, <3>3
      <4> QED
        BY <2>2, <2>b, <4>1
    <3> QED
      BY <3>2, <3>3
  <2>9. StagedInv'
    BY <2>1, <2>2, <2>3, <2>8 DEF StagedInv, NextIndex, Delivered
  <2> QED
    BY <2>1, <2>2, <2>3, <2>5, <2>6, <2>7, <2>9 DEF Inv, HandleInv, RefusedInv
<1>9. CASE StageKsp
  <2> USE <1>9
  <2> DEFINE here == KspSegment(index)
             slot == pool[index + 1]
             ok == index' = index + 1
  <2>1. PICK v : /\ v = Junk \/ (ok /\ v \in Landed(here))
                 /\ table' = [table EXCEPT ![here] = slot]
                 /\ content' = [content EXCEPT ![slot] = v]
                 /\ \/ index' = index /\ pc' = "stage_read_error"
                    \/ /\ ok /\ v \in Landed(here)
                       /\ pc' = IF index' = 3 \/ stage_count <= index' THEN "staged" ELSE "ksp"
    <3>1. CASE pc' = "stage_read_error" /\ ReadInto(here, slot, FALSE) /\ UNCHANGED index
      BY <3>1 DEF StageKsp, ReadInto
    <3>2. CASE /\ \E found \in Landed(here) : content' = [content EXCEPT ![slot] = found]
               /\ index' = index + 1
               /\ pc' = IF index' = 3 \/ stage_count <= index' THEN "staged" ELSE "ksp"
      BY <3>2 DEF StageKsp
    <3> QED
      BY <3>1, <3>2 DEF StageKsp
  <2>2. /\ pc = "ksp" /\ Known /\ Counted /\ Chosen /\ Pools
        /\ sparse_mode = 2 /\ index \in 0..2 /\ index < stage_count
        /\ \A j \in 0..(index - 1) : KspPlaced(j)
    BY DEF StageKsp, Inv, SizeInv, PoolInv, StagedInv
  <2>3. UNCHANGED <<file, mapper_free, handle, plan, pool, runtime>>
    BY DEF StageKsp
  <2>4. /\ pool[index + 1] = index + 1 /\ index + 1 \in 1..mapper_free
        /\ alloc_count = 3 /\ stage_count \in 1..32
    BY <2>2 DEF Chosen, Pools, Counted
  <2>5. KspSegment(index) \in 0..31
    BY <2>2, <2>4 DEF KspSegment
  <2>a. /\ v \in Int /\ (ok /\ here < 4 => v = here)
        /\ table' = [table EXCEPT ![here] = index + 1]
        /\ content' = [content EXCEPT ![index + 1] = v]
    <3>1. here < 4 => SeekMethod(here) = 0
      BY <2>5 DEF SeekMethod
    <3>2. Landed(here) \subseteq {here, Junk} /\ (here < 4 => Landed(here) = {here})
      BY <3>1 DEF Landed
    <3>3. ok => index' # index
      BY <2>2
    <3>4. ok => v \in Landed(here)
      BY <2>1, <3>3
    <3> QED
      BY <2>1, <2>4, <2>5, <3>2, <3>4 DEF Junk
  <2>b. /\ table' \in [0..31 -> Int] /\ table'[here] = index + 1
        /\ \A k \in 0..31 : k # here => table'[k] = table[k]
    <3> HIDE DEF here
    <3>1. here \in 0..31 /\ index + 1 \in Int
      BY <2>2, <2>5 DEF here
    <3>2. table \in [0..31 -> Int]
      BY <1>a DEF Arrays
    <3>3. table' = [table EXCEPT ![here] = index + 1]
      BY <2>a
    <3> QED
      BY <3>1, <3>2, <3>3, ArrayWrite
  <2>c. /\ content' \in [1..mapper_free -> Int] /\ content'[index + 1] = v
        /\ \A i \in 1..mapper_free : i # index + 1 => content'[i] = content[i]
    <3> HIDE DEF here
    <3> QED
      BY <1>a, <2>a, <2>4, ArrayWrite DEF Arrays
  <2>6. Arrays'
    BY <2>3, <2>b, <2>c DEF Arrays
  <2>7. Types'
    BY <2>1, <2>2, <2>3 DEF Inv, Types
  <2>8. SizeInv' /\ PoolInv'
    BY <2>1, <2>2, <2>3 DEF SizeInv, PoolInv, Known, Counted, Chosen, Pools,
                            LastSegment, Kcp
  <2>9. ok => \A j \in 0..index :
                /\ table'[KspSegment(j)] = j + 1
                /\ KspSegment(j) < 4 => content'[j + 1] = KspSegment(j)
    <3> SUFFICES ASSUME ok, NEW j \in 0..index
                 PROVE  /\ table'[KspSegment(j)] = j + 1
                        /\ KspSegment(j) < 4 => content'[j + 1] = KspSegment(j)
      OBVIOUS
    <3>1. CASE j = index
      BY <2>a, <2>b, <2>c, <3>1
    <3>2. CASE j # index
      <4>1. j \in 0..(index - 1) /\ KspPlaced(j)
        BY <2>2, <3>2
      <4>2. KspSegment(j) # KspSegment(index) /\ KspSegment(j) \in 0..31
        BY <2>2, <2>4, <4>1 DEF KspSegment
      <4> QED
        <5>1. j + 1 \in 1..mapper_free /\ j + 1 # index + 1
          BY <2>2, <2>4, <4>1
        <5> QED
          BY <2>b, <2>c, <4>1, <4>2, <5>1 DEF KspPlaced
    <3> QED
      BY <3>1, <3>2
  <2>10. ok => \A j \in 0..(index' - 1) : KspPlaced(j)'
    BY <2>1, <2>2, <2>3, <2>9 DEF KspPlaced, KspSegment
  <2>11. pc' = "staged" => Delivered'
    <3> SUFFICES ASSUME pc' = "staged",
                        NEW k \in {0, 1, stage_count - 1} \cap 0..(stage_count - 1)
                 PROVE  \E t \in 1..3 : table'[k] = t /\ (k < 4 => content'[t] = k)
      BY <2>2, <2>3 DEF Delivered
    <3>1. ok /\ index' = index + 1 /\ (index' = 3 \/ stage_count <= index')
      BY <1>0, <2>1, <2>2
    <3>2. PICK j \in 0..index : KspSegment(j) = k
      <4>1. CASE k = 0
        BY <2>2, <4>1 DEF KspSegment
      <4>2. CASE k = 1
        BY <2>2, <2>4, <3>1, <4>2 DEF KspSegment
      <4>3. CASE k # 0 /\ k # 1
        BY <2>2, <2>4, <3>1, <4>3 DEF KspSegment
      <4> QED
        BY <4>1, <4>2, <4>3
    <3>3. j + 1 \in 1..3
      BY <2>2
    <3> QED
      BY <2>9, <3>1, <3>2, <3>3
  <2>12. StagedInv'
    BY <2>1, <2>2, <2>3, <2>10, <2>11 DEF StagedInv
  <2> QED
    BY <2>1, <2>2, <2>3, <2>6, <2>7, <2>8, <2>12 DEF Inv, HandleInv, RefusedInv
<1>10. CASE StageSparse
  <2> USE <1>10
  <2>1. /\ pc = "sparse" /\ Known /\ Counted /\ Chosen /\ Pools
        /\ sparse_mode = 1
    BY DEF StageSparse, Inv, SizeInv, PoolInv, StagedInv
  <2>2. /\ UNCHANGED <<file, mapper_free, handle, plan, pool, runtime, index>>
        /\ pc' = "staged"
    BY DEF StageSparse
  <2>3. pool[1] = 1 /\ 1 \in 1..mapper_free
    BY <2>1 DEF Chosen, Pools
  <2>4. table'[0] = 1 /\ content'[1] = 0
    BY <1>a, <2>3 DEF StageSparse, Arrays
  <2>7. Arrays'
    <3>1. table' \in [0..31 -> Int]
      BY <1>a, <2>3 DEF StageSparse, Arrays
    <3>2. content' \in [1..mapper_free -> Int]
      BY <1>a, <2>3 DEF StageSparse, Arrays
    <3> QED
      BY <2>2, <3>1, <3>2 DEF Arrays
  <2>5. Types'
    BY <2>2 DEF Inv, Types
  <2>6. SizeInv' /\ PoolInv'
    BY <2>1, <2>2 DEF SizeInv, PoolInv, Known, Counted, Chosen, Pools,
                      LastSegment, Kcp
  <2> QED
    BY <2>1, <2>2, <2>4, <2>5, <2>6, <2>7 DEF Inv, HandleInv, StagedInv, RefusedInv,
                                        Delivered
<1>11. CASE Staged
  <2>1. /\ pc = "staged" /\ pc' \in {"play", "close"}
        /\ pc' = "play" <=> sparse_mode # 0
        /\ UNCHANGED <<file, mapper_free, handle, plan, memory>>
    BY <1>11 DEF Staged, KeepsFile
  <2> QED
    BY <1>a, <2>1 DEF Inv, Types, HandleInv, SizeInv, PoolInv, StagedInv, RefusedInv,
                Known, Counted, Chosen, Pools, Delivered, LastSegment, Kcp
<1>12. CASE Close
  BY <1>a, <1>12 DEF Close, Inv, Types, HandleInv, SizeInv, PoolInv, StagedInv,
               RefusedInv, Known, Counted, Chosen, Pools, Delivered,
               LastSegment, Kcp
<1>13. CASE Reload
  <2>1. /\ pc = "play" /\ pc' \in {"play", "sparse"} /\ sparse_mode # 2
        /\ pc' = "play" <=> sparse_mode = 0
        /\ UNCHANGED <<file, mapper_free, handle, plan, memory>>
    BY <1>13 DEF Reload, Kcp, Inv, PoolInv, Chosen
  <2>2. sparse_mode \in 0..2
    BY DEF Inv, Types
  <2> QED
    BY <1>a, <2>1, <2>2 DEF Inv, Types, HandleInv, SizeInv, PoolInv, StagedInv,
                      RefusedInv, Known, Counted, Chosen, Pools, Delivered,
                      LastSegment, Kcp
<1>b. pool = <<>> \/ (Pools /\ Chosen)
  BY DEF Inv, PoolInv
<1>c. UNCHANGED <<file, mapper_free, plan, memory>> =>
        (pool = <<>> \/ (Pools /\ Chosen))'
  <2> HAVE UNCHANGED <<file, mapper_free, plan, memory>>
  <2>1. Pools => Pools'
    BY DEF Pools
  <2>2. Chosen => Chosen'
    BY DEF Chosen, Kcp
  <2>3. pool' = pool
    OBVIOUS
  <2> QED
    BY <1>b, <2>1, <2>2, <2>3
<1>14. CASE Quit
  BY <1>a, <1>c, <1>14 DEF Quit, Inv, Types, HandleInv, SizeInv, PoolInv,
                           StagedInv, RefusedInv
<1>15. CASE DosFails
  <2>1. /\ pc' \in {"dos_error", "stage_seek_error", "stage_read_error"}
        /\ UNCHANGED <<file, mapper_free, handle, plan, memory>>
    BY <1>15 DEF DosFails, Fails
  <2> QED
    BY <1>a, <1>c, <2>1 DEF Inv, Types, HandleInv, SizeInv, PoolInv, StagedInv,
                            RefusedInv
<1>16. CASE UNCHANGED vars
  BY <1>a, <1>16 DEF vars, Inv, Types, HandleInv, SizeInv, PoolInv, StagedInv,
               RefusedInv, Known, Counted, Chosen, Pools, Delivered, KspPlaced,
               KspSegment, LastSegment, Kcp
<1> QED
  BY <1>1, <1>2, <1>3, <1>4, <1>5, <1>6, <1>7, <1>8, <1>9, <1>10, <1>11, <1>12,
     <1>13, <1>14, <1>15, <1>16 DEF Next, Step, Stopped

-----------------------------------------------------------------------------
(* What the invariant says of the loader's promises. *)

\* The pools are the segments the chosen mode asked for, in the mapper's order.
LEMMA GrantedFromInv == Sane /\ Inv => AllocationGranted
<1> SUFFICES ASSUME Sane, Inv, pool # <<>> PROVE AllocationGranted
  BY DEF AllocationGranted
<1>1. Pools /\ Chosen /\ pc # "mapper_error"
  BY DEF Inv, PoolInv
<1>2. mapper_free \in Nat /\ banks \in Nat /\ alloc_count \in Nat
  BY Plain
<1>3. Range(pool) = 1..alloc_count
  BY <1>1 DEF Pools, Range
<1>4. Range(runtime) = (alloc_count + 1)..(alloc_count + banks)
  <2>1. ASSUME NEW x \in (alloc_count + 1)..(alloc_count + banks)
        PROVE  x \in Range(runtime)
    <3>1. x - alloc_count \in 1..banks
      BY <1>2
    <3>2. runtime[x - alloc_count] = x
      BY <1>1, <1>2, <3>1 DEF Pools
    <3> QED
      BY <1>1, <3>1, <3>2 DEF Pools, Range
  <2>2. ASSUME NEW x \in Range(runtime)
        PROVE  x \in (alloc_count + 1)..(alloc_count + banks)
    BY <1>1, <1>2 DEF Pools, Range
  <2> QED
    BY <2>1, <2>2
<1>5. Range(pool) \cap Range(runtime) = {}
  BY <1>2, <1>3, <1>4
<1>6. Range(pool) \cup Range(runtime) \subseteq 1..mapper_free
  BY <1>1, <1>2, <1>3, <1>4 DEF Chosen
<1>7. Len(pool) = alloc_count
  BY <1>1, <1>2 DEF Pools
<1>8. sparse_mode = 1 => cache_count \in {2, 3} /\ Len(pool) = cache_count + 1
  BY <1>1, <1>2, <1>7 DEF Chosen
<1> QED
  BY <1>1, <1>5, <1>6, <1>8 DEF AllocationGranted

\* What each staging mode delivers is what it promises.
LEMMA StagedFromInv == Sane /\ Inv => PlayedIsStaged
<1> SUFFICES ASSUME Sane, Inv, pc = "play", NEW k \in Promised
             PROVE  /\ k \in DOMAIN table /\ table[k] \in Range(pool)
                    /\ content[table[k]] = k
  BY DEF PlayedIsStaged
<1>1. /\ Known /\ Counted /\ Chosen /\ Pools /\ Delivered
      /\ sparse_mode = 0 => \A i \in 0..(stage_count - 1) : table[i] = i + 1
  BY DEF Inv, SizeInv, PoolInv, StagedInv, Late
<1>2. DOMAIN table = 0..31 /\ DOMAIN pool = 1..alloc_count
      /\ \A i \in 1..alloc_count : pool[i] = i
  BY <1>1, Plain DEF Pools, Inv, Arrays
<1>3. FileSegments = 0..(stage_count - 1) /\ LastSegment = stage_count - 1
      /\ stage_count \in 1..32
  <2>1. LastSegment \in Int
    BY Plain, SMT DEF LastSegment, SegBytes, SizeLimit
  <2> QED
    BY <1>1, <2>1 DEF Counted, FileSegments
<1>4. ASSUME NEW i \in 1..alloc_count PROVE i \in Range(pool)
  BY <1>2 DEF Range
<1>5. CASE sparse_mode = 0
  <2>1. k \in 0..(stage_count - 1) /\ stage_count = alloc_count
    BY <1>1, <1>3, <1>5 DEF Promised, Chosen
  <2>2. table[k] = k + 1 /\ content[k + 1] = k
    BY <1>1, <1>5, <2>1 DEF Delivered
  <2>3. k + 1 \in 1..alloc_count /\ k \in 0..31
    BY <1>3, <2>1
  <2> QED
    BY <1>2, <1>4, <2>2, <2>3
<1>6. CASE sparse_mode = 1
  <2>1. k = 0 /\ table[0] = 1 /\ content[1] = 0
    BY <1>1, <1>6 DEF Promised, Delivered
  <2>2. 1 \in 1..alloc_count /\ 0 \in 0..31
    BY <1>1, <1>6 DEF Chosen
  <2> QED
    BY <1>2, <1>4, <2>1, <2>2
<1>7. CASE sparse_mode = 2
  <2>1. k \in {0, 1, stage_count - 1} \cap 0..(stage_count - 1)
    BY <1>3, <1>7 DEF Promised, KspStaged
  <2>2. PICK t \in 1..3 : table[k] = t /\ content[t] = k
    BY <1>1, <1>3, <1>7, <2>1 DEF Delivered, Promised, KspStaged
  <2>3. t \in 1..alloc_count /\ k \in 0..31
    BY <1>1, <1>3, <1>7, <2>1 DEF Chosen
  <2> QED
    BY <1>2, <1>4, <2>2, <2>3
<1> QED
  BY <1>1, <1>5, <1>6, <1>7 DEF Chosen

\* The counts the loader compares are those of the whole file.
LEMMA RefusedFromInv == Sane /\ Inv => RefusedForSize
<1> SUFFICES ASSUME Sane, Inv, pc = "mapper_error"
             PROVE  /\ file.kind = "ksp" => 6 > mapper_free
                    /\ file.kind = "kcpx" =>
                         1 + Cardinality(FileSegments) > mapper_free
                    /\ file.kind = "kcpz" =>
                         2 + Min({3, Cardinality(FileSegments)}) > mapper_free
  BY DEF RefusedForSize, Inv, RefusedInv
<1>1. /\ Counted
      /\ file.kind = "ksp" => 6 > mapper_free
      /\ file.kind = "kcpx" => 1 + stage_count > mapper_free
      /\ file.kind = "kcpz" => 2 + stage_count > mapper_free /\ 5 > mapper_free
  BY DEF Inv, RefusedInv
<1>2. Cardinality(FileSegments) = stage_count
  <2>1. LastSegment \in Int
    BY Plain, SMT DEF LastSegment, SegBytes, SizeLimit
  <2>2. FileSegments = 0..(stage_count - 1) /\ stage_count \in 1..32
    BY <1>1, <2>1 DEF Counted, FileSegments
  <2>3. 0 \in Int /\ stage_count - 1 \in Int
    BY <2>2
  <2>4. Cardinality(0..(stage_count - 1)) =
          IF 0 > stage_count - 1 THEN 0 ELSE stage_count - 1 - 0 + 1
    BY <2>3, FS_Interval
  <2> QED
    BY <2>2, <2>4
<1>3. Min({3, stage_count}) = IF stage_count < 3 THEN stage_count ELSE 3
  <2>1. stage_count \in Int
    BY Plain
  <2> DEFINE m == IF stage_count < 3 THEN stage_count ELSE 3
  <2>2. m \in {3, stage_count} /\ \A y \in {3, stage_count} : m <= y
    BY <2>1
  <2>3. ASSUME NEW x \in {3, stage_count}, \A y \in {3, stage_count} : x <= y
        PROVE  x = m
    BY <2>1, <2>3
  <2> HIDE DEF m
  <2>4. Min({3, stage_count}) = m
    BY <2>2, <2>3 DEF Min
  <2> QED
    BY <2>4 DEF m
<1> QED
  BY <1>1, <1>2, <1>3, Plain

-----------------------------------------------------------------------------
(* The theorems. *)

LEMMA LoaderInvariant == Sane => (Spec => []Inv)
<1> SUFFICES ASSUME Sane PROVE Spec => []Inv
  OBVIOUS
<1>1. Init => Inv
  BY InitInv
<1>2. Inv /\ [Next]_vars => Inv'
  BY NextInv
<1> QED
  BY <1>1, <1>2, PTL DEF Spec

\* DOS is never asked to read from a file that is not open, also when the
\* player comes back for another track (KSPDOS2.asm closes the handle only of
\* a file it staged whole).
THEOREM AlwaysOpenWhenRead == Sane => (Spec => []ReadsOpenFile)
<1>1. Inv => ReadsOpenFile
  BY DEF Inv, HandleInv, ReadsOpenFile
<1> QED
  BY <1>1, LoaderInvariant, PTL

\* ALL_SEG never fails after choose_staging_mode has chosen, and no segment is
\* handed out twice, whatever the mapper has free.
THEOREM AlwaysGranted == Sane => (Spec => []AllocationGranted)
<1> SUFFICES ASSUME Sane PROVE Spec => []AllocationGranted
  OBVIOUS
<1>1. Inv => AllocationGranted
  BY GrantedFromInv
<1> QED
  BY <1>1, LoaderInvariant, PTL

\* What was promised to the player is staged when it starts, in segments of
\* the staging pool and where the table says (stage_file, stage_ksp_file).
THEOREM AlwaysStagedBeforePlay == Sane => (Spec => []PlayedIsStaged)
<1> SUFFICES ASSUME Sane PROVE Spec => []PlayedIsStaged
  OBVIOUS
<1>1. Inv => PlayedIsStaged
  BY StagedFromInv
<1> QED
  BY <1>1, LoaderInvariant, PTL

\* A file is refused for want of memory only if no mode of its kind fits, and
\* as too large only above 512 KiB (choose_staging_mode,
\* calculate_stage_count).
THEOREM RefusedOnlyForSize == Sane => (Spec => []RefusedForSize)
<1> SUFFICES ASSUME Sane PROVE Spec => []RefusedForSize
  OBVIOUS
<1>1. Inv => RefusedForSize
  BY RefusedFromInv
<1> QED
  BY <1>1, LoaderInvariant, PTL
=============================================================================
