----------------------------- MODULE RamProofs -----------------------------
(***************************************************************************)
(* Proofs about Ramulator's controller: every command it issues is as far  *)
(* from the ones before as the tables of the standard want it, for every   *)
(* workload, every length of the queues, and every tree of up to four      *)
(* banks or subarrays to a node.  The facts about the tables of the        *)
(* standards are the assumptions of RamDevice, which TLC evaluates.        *)
(***************************************************************************)
EXTENDS RamController, FiniteSetTheorems, SequenceTheorems, TLAPS

\* The loops of this model, see FoldProofs: here a product.
Times(x, y) == x * y
Positive(base, seq, i, x) == x \in Nat \ {0}
P == INSTANCE FoldProofs WITH Op <- Times, Good <- Positive

-----------------------------------------------------------------------------
(* The standard simulated.                                                 *)

\* The standard is one of the tables and stays the same.
Known == standard.name \in Standards /\ standard = TheStandard(standard.name)

\* A standard keeps what its table says, and adds names and sizes.
LEMMA StandardFields ==
  ASSUME NEW n \in Standards
  PROVE  LET s == TheStandard(n)
         IN  /\ s.name = n /\ s.levels = Levels(n) /\ s.ranks = Specs[n].ranks
             /\ s.issued = Specs[n].issued /\ s.translate = Specs[n].translate
             /\ s.prereq = Specs[n].prereq /\ s.nREFI = Specs[n].nREFI
             /\ s.sizes = LevelSizes(n)
             /\ s.read_latency = Specs[n].read_latency
BY DEF TheStandard, Levels

\* The levels below the channel have one to four children, and the first of
\* them is the ranks.
LEMMA LevelFacts ==
  ASSUME NEW n \in Standards
  PROVE  /\ Len(Levels(n)) \in {3, 4}
         /\ LevelSizes(n) \in Seq(1 .. 4) /\ Len(LevelSizes(n)) = Len(Levels(n)) - 1
         /\ LevelSizes(n)[1] = Specs[n].ranks
         /\ Levels(n) = Nested => /\ Len(Levels(n)) = 4
                                  /\ LevelSizes(n)[2] = SubArrayCount
                                  /\ LevelSizes(n)[3] = SubArrayCount
<1>1. Specs[n].ranks \in 1 .. 4 /\ Levels(n) \in {Flat, Grouped, Nested}
  BY CommandsKnown
<1>2. PICK r \in 1 .. 4 : r = Specs[n].ranks
  BY <1>1
<1>3. Flat # Grouped /\ Flat # Nested /\ Grouped # Nested
  BY DEF Flat, Grouped, Nested
<1>4. CASE Levels(n) = Flat
  <2>1. LevelSizes(n) = <<r>> \o <<BankCount>>
    BY <1>2, <1>3, <1>4 DEF LevelSizes
  <2> QED BY <1>2, <1>3, <1>4, <2>1, RamDeviceAssumption DEF Flat
<1>5. CASE Levels(n) = Grouped
  <2>1. LevelSizes(n) = <<r>> \o <<2, BankCount>>
    BY <1>2, <1>3, <1>5 DEF LevelSizes
  <2> QED BY <1>2, <1>3, <1>5, <2>1, RamDeviceAssumption DEF Grouped
<1>6. CASE Levels(n) = Nested
  <2>1. LevelSizes(n) = <<r>> \o <<SubArrayCount, SubArrayCount>>
    BY <1>2, <1>3, <1>6 DEF LevelSizes
  <2> QED BY <1>2, <1>3, <1>6, <2>1, RamDeviceAssumption DEF Nested
<1> QED BY <1>1, <1>4, <1>5, <1>6

-----------------------------------------------------------------------------
(* The greatest of a set of integers, and the least of one of numbers.     *)

\* A set of integers that is bounded has a greatest element.
LEMMA MaxOf ==
  ASSUME NEW B \in Int, NEW S \in SUBSET Int, S # {}, \A x \in S : x <= B
  PROVE  Max(S) \in S /\ \A y \in S : y <= Max(S)
<1> DEFINE T == {B - x : x \in S}
<1>1. T \in SUBSET Nat /\ T # {}
  <2>1. \A x \in S : x \in Int /\ x <= B
    OBVIOUS
  <2>2. \A x \in S : B - x \in Nat
    BY <2>1
  <2> QED BY <2>2
<1>2. PICK t \in T : \A y \in T : t <= y
  <2> HIDE DEF T
  <2> QED BY <1>1, P!Least
<1>3. PICK x \in S : t = B - x
  OBVIOUS
<1>4. \A y \in S : y <= x
  <2> TAKE y \in S
  <2>1. t <= B - y
    BY <1>2
  <2>2. x \in Int /\ y \in Int
    OBVIOUS
  <2> QED BY <1>3, <2>1, <2>2
<1>5. \E m \in S : \A y \in S : m >= y
  <2>1. \A y \in S : x >= y
    BY <1>4
  <2> QED BY <2>1
<1>6. Max(S) \in S /\ \A y \in S : Max(S) >= y
  BY <1>5 DEF Max
<1> QED BY <1>6

\* A set of numbers has a least element.
LEMMA MinOf ==
  ASSUME NEW S \in SUBSET Nat, S # {}
  PROVE  Min(S) \in S
<1>1. PICK x \in S : \A y \in S : x <= y
  BY P!Least
<1>2. \E m \in S : \A y \in S : m <= y
  BY <1>1
<1> QED BY <1>2 DEF Min

-----------------------------------------------------------------------------
(* The tree, and where address vectors lead in it.                         *)

D == Len(standard.levels)
Digits(k) == 0 .. standard.sizes[k] - 1
Tree == {SubSeq(b, 1, k) : b \in LeafNodes(standard.sizes), k \in 1 .. D}

\* An address down to a leaf, and one of a whole rank.
OnTree(v) ==
  /\ v \in Seq(Int) /\ Len(v) >= D
  /\ v[1] = 0 /\ \A k \in 1 .. D - 1 : v[k + 1] \in Digits(k)
OfRank(v) ==
  /\ v \in Seq(Int) /\ Len(v) = 6
  /\ v[1] = 0 /\ v[2] \in Digits(1) /\ v[3] = -1

\* The sizes of the levels of the standard simulated.
LEMMA SizeFacts ==
  ASSUME Known
  PROVE  /\ D \in {3, 4} /\ standard.sizes \in Seq(1 .. 4) /\ Len(standard.sizes) = D - 1
         /\ DOMAIN standard.sizes = 1 .. D - 1
         /\ \A k \in 1 .. D - 1 : standard.sizes[k] \in 1 .. 4 /\ 0 \in Digits(k)
         /\ standard.sizes[1] = standard.ranks /\ standard.ranks \in 1 .. 4
         /\ Levels(standard.name) = Nested =>
              D = 4 /\ standard.sizes[2] = SubArrayCount /\ standard.sizes[3] = SubArrayCount
<1>1. /\ standard.levels = Levels(standard.name) /\ standard.sizes = LevelSizes(standard.name)
      /\ standard.ranks = Specs[standard.name].ranks
  BY StandardFields DEF Known
<1>2. /\ D \in {3, 4} /\ standard.sizes \in Seq(1 .. 4) /\ Len(standard.sizes) = D - 1
      /\ standard.sizes[1] = standard.ranks
      /\ Levels(standard.name) = Nested =>
           D = 4 /\ standard.sizes[2] = SubArrayCount /\ standard.sizes[3] = SubArrayCount
  BY <1>1, LevelFacts DEF Known, D
<1>3. DOMAIN standard.sizes = 1 .. D - 1 /\ \A k \in 1 .. D - 1 : standard.sizes[k] \in 1 .. 4
  BY <1>2, LenProperties
<1>4. \A k \in 1 .. D - 1 : 0 \in Digits(k)
  BY <1>3 DEF Digits
<1>5. 1 \in 1 .. D - 1
  BY <1>2
<1> QED BY <1>2, <1>3, <1>4, <1>5

\* The parts of an address.
LEMMA Prefix ==
  ASSUME NEW v \in Seq(Int), NEW k \in 1 .. Len(v)
  PROVE  /\ SubSeq(v, 1, k) \in Seq(Int) /\ Len(SubSeq(v, 1, k)) = k
         /\ \A i \in 1 .. k : SubSeq(v, 1, k)[i] = v[i]
<1>1. Len(v) \in Nat /\ \A i \in 1 .. k : v[i] \in Int
  BY LenProperties
<1>2. /\ SubSeq(v, 1, k) \in Seq(Int)
      /\ Len(SubSeq(v, 1, k)) = IF 1 <= k THEN k - 1 + 1 ELSE 0
      /\ \A i \in 1 .. k - 1 + 1 : SubSeq(v, 1, k)[i] = v[1 + i - 1]
  BY <1>1, SubSeqProperties
<1>3. k \in Int /\ 1 <= k /\ k - 1 + 1 = k /\ \A i \in 1 .. k : 1 + i - 1 = i
  BY <1>1
<1> QED BY <1>2, <1>3

\* The parts of a part are parts of the whole.
LEMMA PrefixOfPrefix ==
  ASSUME NEW v \in Seq(Int), NEW m \in 1 .. Len(v), NEW k \in 1 .. m
  PROVE  SubSeq(SubSeq(v, 1, m), 1, k) = SubSeq(v, 1, k)
<1>1. Len(v) \in Nat /\ k \in 1 .. Len(v)
  BY LenProperties
<1>2. /\ SubSeq(v, 1, m) \in Seq(Int) /\ Len(SubSeq(v, 1, m)) = m
      /\ \A i \in 1 .. m : SubSeq(v, 1, m)[i] = v[i]
  BY Prefix
<1>3. /\ SubSeq(v, 1, k) \in Seq(Int) /\ Len(SubSeq(v, 1, k)) = k
      /\ \A i \in 1 .. k : SubSeq(v, 1, k)[i] = v[i]
  BY <1>1, Prefix
<1>4. k \in 1 .. Len(SubSeq(v, 1, m))
  BY <1>2
<1> DEFINE w == SubSeq(v, 1, m)
<1>5. /\ SubSeq(w, 1, k) \in Seq(Int) /\ Len(SubSeq(w, 1, k)) = k
      /\ \A i \in 1 .. k : SubSeq(w, 1, k)[i] = w[i]
  <2> w \in Seq(Int) /\ k \in 1 .. Len(w)
    BY <1>2, <1>4
  <2> HIDE DEF w
  <2> QED BY Prefix
<1>6. \A i \in 1 .. k : i \in 1 .. m
  BY <1>1
<1>7. \A i \in 1 .. k : SubSeq(w, 1, k)[i] = SubSeq(v, 1, k)[i]
  BY <1>2, <1>3, <1>5, <1>6
<1> HIDE DEF w
<1> QED BY <1>3, <1>5, <1>7, SeqEqual DEF w

\* An address down to a leaf has its leaf in the tree.
LEMMA LeafInTree ==
  ASSUME Known, NEW v, OnTree(v)
  PROVE  SubSeq(v, 1, D) \in LeafNodes(standard.sizes)
<1>1. D \in {3, 4} /\ DOMAIN standard.sizes = 1 .. D - 1
      /\ \A k \in 1 .. D - 1 : standard.sizes[k] \in 1 .. 4
  BY SizeFacts
<1> DEFINE d == [k \in 1 .. D - 1 |-> v[k + 1]]
<1>2. \A k \in 1 .. D - 1 : v[k + 1] \in 0 .. 3 /\ v[k + 1] < standard.sizes[k]
  <2> TAKE k \in 1 .. D - 1
  <2>1. v[k + 1] \in Digits(k) /\ standard.sizes[k] \in 1 .. 4
    BY <1>1 DEF OnTree
  <2> QED BY <2>1 DEF Digits
<1>3. d \in [DOMAIN standard.sizes -> 0 .. 3]
      /\ \A k \in DOMAIN standard.sizes : d[k] < standard.sizes[k]
  BY <1>1, <1>2
<1>4. <<0>> \o d \in LeafNodes(standard.sizes)
  <2> HIDE DEF d
  <2> QED BY <1>3 DEF LeafNodes
<1>5. d \in Seq(Int) /\ Len(d) = D - 1
  BY <1>1, <1>2
<1>6. /\ <<0>> \o d \in Seq(Int) /\ Len(<<0>> \o d) = D
      /\ \A i \in 1 .. D : (<<0>> \o d)[i] = IF i <= 1 THEN 0 ELSE d[i - 1]
  <2>1. <<0>> \in Seq(Int) /\ Len(<<0>>) = 1 /\ <<0>>[1] = 0
    OBVIOUS
  <2> HIDE DEF d
  <2>2. /\ <<0>> \o d \in Seq(Int) /\ Len(<<0>> \o d) = 1 + (D - 1)
        /\ \A i \in 1 .. 1 + (D - 1) : (<<0>> \o d)[i] = IF i <= 1 THEN <<0>>[i] ELSE d[i - 1]
    BY <1>5, <2>1, ConcatProperties
  <2>3. 1 + (D - 1) = D /\ \A i \in 1 .. D : i <= 1 => i = 1
    BY <1>1
  <2> QED BY <2>1, <2>2, <2>3
<1>7. /\ SubSeq(v, 1, D) \in Seq(Int) /\ Len(SubSeq(v, 1, D)) = D
      /\ \A i \in 1 .. D : SubSeq(v, 1, D)[i] = v[i]
  <2> v \in Seq(Int) /\ D \in 1 .. Len(v)
    BY <1>1, LenProperties DEF OnTree
  <2> QED BY Prefix
<1>8. \A i \in 1 .. D : v[i] = (<<0>> \o d)[i]
  <2> TAKE i \in 1 .. D
  <2>1. CASE i = 1
    BY <1>6, <2>1, <1>1 DEF OnTree
  <2>2. CASE i # 1
    <3>1. i - 1 \in 1 .. D - 1 /\ (i - 1) + 1 = i /\ ~(i <= 1)
      BY <1>1, <2>2
    <3>2. d[i - 1] = v[i]
      BY <3>1
    <3> HIDE DEF d
    <3> QED BY <1>6, <3>1, <3>2
  <2> QED BY <2>1, <2>2
<1> HIDE DEF d
<1>9. SubSeq(v, 1, D) = <<0>> \o d
  BY <1>6, <1>7, <1>8, SeqEqual
<1> QED BY <1>4, <1>9

\* An address down to a leaf goes through a node of every level.
LEMMA TreePath ==
  ASSUME Known, NEW v, OnTree(v), NEW k \in 1 .. D
  PROVE  SubSeq(v, 1, k) \in Tree /\ SubSeq(v, 1, k) \in PathOf(v) /\ Len(SubSeq(v, 1, k)) = k
<1>1. D \in {3, 4}
  BY SizeFacts
<1>2. v \in Seq(Int) /\ D \in 1 .. Len(v) /\ k \in 1 .. Len(v)
  BY <1>1, LenProperties DEF OnTree
<1>3. SubSeq(v, 1, k) \in Tree
  <2>1. SubSeq(v, 1, k) = SubSeq(SubSeq(v, 1, D), 1, k)
    BY <1>2, PrefixOfPrefix
  <2>2. SubSeq(v, 1, D) \in LeafNodes(standard.sizes)
    BY LeafInTree
  <2>3. PICK b : b = SubSeq(v, 1, D)
    OBVIOUS
  <2>4. SubSeq(v, 1, k) = SubSeq(b, 1, k) /\ b \in LeafNodes(standard.sizes)
    BY <2>1, <2>2, <2>3
  <2>5. SubSeq(b, 1, k) \in Tree
    BY <2>4 DEF Tree
  <2> QED BY <2>4, <2>5
<1>4. \A i \in 1 .. k : v[i] >= 0
  <2> TAKE i \in 1 .. k
  <2>1. CASE i = 1
    BY <2>1 DEF OnTree
  <2>2. CASE i # 1
    <3>1. i - 1 \in 1 .. D - 1 /\ (i - 1) + 1 = i
      BY <1>1, <2>2
    <3>2. v[i] \in Digits(i - 1)
      BY <3>1 DEF OnTree
    <3>3. standard.sizes[i - 1] \in Int
      BY <3>1, SizeFacts
    <3> QED BY <3>2, <3>3 DEF Digits
  <2> QED BY <2>1, <2>2
<1>5. SubSeq(v, 1, k) \in PathOf(v)
  BY <1>4 DEF PathOf, D
<1> QED BY <1>2, <1>3, <1>5, Prefix

\* A whole rank is an inner node.
LEMMA RankPath ==
  ASSUME Known, NEW v, OfRank(v), NEW k \in 1 .. 2
  PROVE  SubSeq(v, 1, k) \in Tree /\ SubSeq(v, 1, k) \in PathOf(v) /\ Len(SubSeq(v, 1, k)) = k
<1> DEFINE w == <<0, v[2], 0, 0>>
<1>1. D \in {3, 4} /\ (\A j \in 1 .. D - 1 : standard.sizes[j] \in 1 .. 4 /\ 0 \in Digits(j))
  BY SizeFacts
<1>2. v \in Seq(Int) /\ Len(v) = 6 /\ v[1] = 0 /\ v[2] \in Digits(1) /\ v[2] \in Int
  <2>1. v \in Seq(Int) /\ Len(v) = 6 /\ v[1] = 0 /\ v[2] \in Digits(1)
    BY DEF OfRank
  <2>2. 2 \in 1 .. Len(v)
    BY <2>1
  <2>3. v[2] \in Int
    BY <2>1, <2>2, ElementOfSeq
  <2> QED BY <2>1, <2>3
<1>3. OnTree(w)
  <2>1. w \in Seq(Int) /\ Len(w) = 4 /\ w[1] = 0
    BY <1>2
  <2>2. ASSUME NEW j \in 1 .. D - 1 PROVE w[j + 1] \in Digits(j)
    <3>1. j \in {1, 2, 3}
      BY <1>1
    <3>2. w[2] = v[2] /\ w[3] = 0 /\ w[4] = 0
      OBVIOUS
    <3>3. w[j + 1] = IF j = 1 THEN v[2] ELSE 0
      BY <3>1, <3>2
    <3> HIDE DEF w
    <3> QED BY <1>1, <1>2, <3>3
  <2> HIDE DEF w
  <2> QED BY <1>1, <2>1, <2>2 DEF OnTree
<1>4. k \in 1 .. D
  BY <1>1
<1>5. SubSeq(w, 1, k) \in Tree /\ Len(SubSeq(w, 1, k)) = k
  <2> HIDE DEF w
  <2> QED BY <1>3, <1>4, TreePath
<1>6. SubSeq(v, 1, k) = SubSeq(w, 1, k)
  <2>1. w \in Seq(Int) /\ Len(w) = 4 /\ w[1] = 0 /\ w[2] = v[2]
    BY <1>2
  <2> HIDE DEF w
  <2>2. k \in 1 .. Len(w) /\ k \in 1 .. Len(v)
    BY <1>2, <2>1
  <2>3. \A i \in 1 .. k : v[i] = w[i]
    <3> TAKE i \in 1 .. k
    <3>1. i \in {1, 2}
      OBVIOUS
    <3> QED BY <3>1, <1>2, <2>1
  <2> QED BY <1>2, <2>1, <2>2, <2>3, Prefix, SeqEqual
<1>7. SubSeq(v, 1, k) \in PathOf(v)
  <2>1. \A i \in 1 .. k : v[i] >= 0
    <3> TAKE i \in 1 .. k
    <3>1. v[2] >= 0
      BY <1>1, <1>2 DEF Digits
    <3>2. i \in {1, 2}
      OBVIOUS
    <3> QED BY <1>2, <3>1, <3>2
  <2> QED BY <1>4, <2>1 DEF PathOf, D
<1> QED BY <1>5, <1>6, <1>7

\* The nodes on the way of an address are in the tree.
Shaped(v) == OnTree(v) \/ OfRank(v)

\* Every node on the way of an address is one of the tree.
LEMMA PathInTree ==
  ASSUME Known, NEW v, Shaped(v), NEW node \in PathOf(v)
  PROVE  \E k \in 1 .. D : /\ node = SubSeq(v, 1, k) /\ node \in Tree /\ Len(node) = k
                           /\ OfRank(v) => k <= 2
<1>1. D \in {3, 4}
  BY SizeFacts
<1>2. PICK k \in 1 .. D : node = SubSeq(v, 1, k) /\ \A i \in 1 .. k : v[i] >= 0
  BY DEF PathOf, D
<1>3. CASE OfRank(v)
  <2>1. ~(3 \in 1 .. k)
    BY <1>2, <1>3 DEF OfRank
  <2>2. k \in 1 .. 2
    BY <1>1, <2>1
  <2> QED BY <1>2, <1>3, <2>2, RankPath
<1>4. CASE ~OfRank(v)
  BY <1>2, <1>4, TreePath DEF Shaped
<1> QED BY <1>3, <1>4

\* An address is long enough to have a part for every level.
LEMMA ShapedLength ==
  ASSUME Known, NEW v, Shaped(v)
  PROVE  v \in Seq(Int) /\ Len(v) \in Nat /\ \A k \in 1 .. D : k \in 1 .. Len(v)
<1>1. D \in {3, 4}
  BY SizeFacts
<1>2. CASE OnTree(v)
  <2>1. v \in Seq(Int) /\ Len(v) >= D
    BY <1>2 DEF OnTree
  <2>2. Len(v) \in Nat
    BY <2>1, LenProperties
  <2> QED BY <1>1, <2>1, <2>2
<1>3. CASE OfRank(v)
  <2>1. v \in Seq(Int) /\ Len(v) = 6
    BY <1>3 DEF OfRank
  <2> QED BY <1>1, <2>1
<1> QED BY <1>2, <1>3 DEF Shaped

\* Where two addresses agree, both go that far down, or only to the rank.
LEMMA CommonPath ==
  ASSUME Known, NEW v, NEW w, Shaped(v), Shaped(w), NEW k \in 1 .. D,
         SubSeq(v, 1, k) = SubSeq(w, 1, k)
  PROVE  \/ SubSeq(v, 1, k) \in PathOf(v) /\ (k <= 2 \/ (OnTree(v) /\ OnTree(w)))
         \/ k > 2 /\ OfRank(v) /\ OfRank(w)
<1>1. D \in {3, 4}
  BY SizeFacts
<1>2. ASSUME k > 2, OnTree(v) \/ OnTree(w), OfRank(v) \/ OfRank(w) PROVE FALSE
  <2>1. v \in Seq(Int) /\ w \in Seq(Int) /\ k \in 1 .. Len(v) /\ k \in 1 .. Len(w)
    <3>1. ASSUME NEW u, Shaped(u) PROVE u \in Seq(Int) /\ k \in 1 .. Len(u)
      <4>1. CASE OnTree(u)
        BY <1>1, <4>1, LenProperties DEF OnTree
      <4>2. CASE OfRank(u)
        BY <1>1, <4>2 DEF OfRank
      <4> QED BY <3>1, <4>1, <4>2 DEF Shaped
    <3> QED BY <3>1
  <2>2. 3 \in 1 .. k
    BY <1>1, <1>2
  <2>3. v[3] = w[3]
    BY <2>1, <2>2, Prefix
  <2>4. \A u : OnTree(u) => u[3] \in Digits(2)
    <3>1. 2 \in 1 .. D - 1 /\ 2 + 1 = 3
      BY <1>1
    <3> QED BY <3>1 DEF OnTree
  <2>5. -1 \notin Digits(2)
    BY DEF Digits
  <2> QED BY <1>2, <2>3, <2>4, <2>5 DEF OfRank
<1>3. CASE k <= 2
  BY <1>1, <1>3, TreePath, RankPath DEF Shaped
<1>4. CASE k > 2
  BY <1>2, <1>4, TreePath DEF Shaped
<1> QED BY <1>3, <1>4

-----------------------------------------------------------------------------
(* Requests, and the addresses Memory::send gives them.                    *)

\* The product of the sizes of some levels is positive.
LEMMA ProductPositive ==
  ASSUME NEW seq \in Seq(1 .. 4)
  PROVE  FoldLeft(LAMBDA x, y : x * y, 2, seq) \in Nat \ {0}
<1>1. Positive(2, seq, 0, 2)
  BY DEF Positive
<1>2. ASSUME NEW i \in 1 .. Len(seq), NEW x, Positive(2, seq, i - 1, x)
      PROVE  Positive(2, seq, i, Times(x, seq[i]))
  <2>1. PICK y \in {1, 2, 3, 4} : y = seq[i]
    <3>1. seq[i] \in 1 .. 4
      BY ElementOfSeq
    <3> QED BY <3>1
  <2>2. x * y \in Nat \ {0}
    BY <1>2, <2>1 DEF Positive
  <2> QED BY <2>1, <2>2 DEF Positive, Times
<1>3. Positive(2, seq, Len(seq), P!FoldLeft(Times, 2, seq))
  BY <1>1, <1>2, P!FoldKeeps
<1>4. FoldLeft(LAMBDA x, y : x * y, 2, seq) = P!FoldLeft(Times, 2, seq)
  BY DEF FoldLeft, P!FoldLeft, MapThenFoldSet, P!MapThenFoldSet, Max, P!Max, Times
<1> QED BY <1>3, <1>4 DEF Positive

\* Memory::send takes every address down to a leaf.
LEMMA AddressOnTree ==
  ASSUME Known, NEW addr \in Nat
  PROVE  OnTree(AddrVec(standard.sizes, addr))
<1> DEFINE sizes == standard.sizes
           below(k) == FoldLeft(LAMBDA x, y : x * y, 2, SubSeq(sizes, 1, k - 1))
           digit(k) == (addr \div below(k)) % sizes[k]
           middle == [k \in DOMAIN sizes |-> digit(k)]
           end == <<addr \div below(Len(sizes) + 1), addr % 2>>
<1>1. /\ D \in {3, 4} /\ sizes \in Seq(1 .. 4) /\ Len(sizes) = D - 1
      /\ DOMAIN sizes = 1 .. D - 1 /\ \A k \in 1 .. D - 1 : sizes[k] \in 1 .. 4
  BY SizeFacts
<1>2. ASSUME NEW k \in 1 .. D PROVE below(k) \in Nat \ {0}
  <2>1. k - 1 \in 0 .. D - 1 /\ k - 1 \in Int
    BY <1>1
  <2>2. \A i \in 1 .. k - 1 : sizes[i] \in 1 .. 4
    BY <1>1, <2>1
  <2>3. SubSeq(sizes, 1, k - 1) \in Seq(1 .. 4)
    <3> HIDE DEF sizes
    <3> QED BY <2>1, <2>2, SubSeqProperties
  <2> QED BY <2>3, ProductPositive
<1> HIDE DEF below
<1>3. ASSUME NEW k \in 1 .. D - 1 PROVE digit(k) \in Digits(k)
  <2>1. PICK b \in Nat \ {0} : b = below(k)
    <3>1. k \in 1 .. D
      BY <1>1
    <3> QED BY <1>2, <3>1
  <2>2. PICK q \in Nat : q = addr \div b
    BY <2>1
  <2>3. PICK s \in 1 .. 4 : s = standard.sizes[k]
    BY <1>1
  <2>4. q % s \in 0 .. s - 1
    BY <2>2, <2>3
  <2>5. digit(k) = q % s
    BY <2>1, <2>2, <2>3
  <2> HIDE DEF digit
  <2> QED BY <2>3, <2>4, <2>5 DEF Digits
<1>4. \A k \in 1 .. D - 1 : digit(k) \in Int
  BY <1>1, <1>3 DEF Digits
<1>5. middle \in Seq(Int) /\ Len(middle) = D - 1 /\ \A k \in 1 .. D - 1 : middle[k] = digit(k)
  <2> HIDE DEF digit
  <2> QED BY <1>1, <1>4
<1>6. end \in Seq(Int) /\ Len(end) = 2
  <2>1. Len(sizes) + 1 = D /\ D \in 1 .. D
    BY <1>1
  <2>2. PICK b \in Nat \ {0} : b = below(Len(sizes) + 1)
    BY <1>2, <2>1
  <2>3. addr \div b \in Int /\ addr % 2 \in Int
    BY <2>2
  <2> QED BY <2>2, <2>3
<1>7. AddrVec(standard.sizes, addr) = <<0>> \o middle \o end
  BY DEF AddrVec, below
<1> HIDE DEF middle, end, digit, sizes
<1>8. /\ <<0>> \o middle \in Seq(Int) /\ Len(<<0>> \o middle) = D
      /\ (<<0>> \o middle)[1] = 0
      /\ \A k \in 1 .. D - 1 : (<<0>> \o middle)[k + 1] = middle[k]
  <2>1. <<0>> \in Seq(Int) /\ Len(<<0>>) = 1 /\ <<0>>[1] = 0
    OBVIOUS
  <2>2. /\ <<0>> \o middle \in Seq(Int) /\ Len(<<0>> \o middle) = 1 + (D - 1)
        /\ \A i \in 1 .. 1 + (D - 1) :
              (<<0>> \o middle)[i] = IF i <= 1 THEN <<0>>[i] ELSE middle[i - 1]
    BY <1>5, <2>1, ConcatProperties
  <2>3. 1 + (D - 1) = D /\ 1 \in 1 .. D
    BY <1>1
  <2>4. \A k \in 1 .. D - 1 : k + 1 \in 1 .. D /\ (k + 1) - 1 = k /\ ~(k + 1 <= 1)
    BY <1>1
  <2> QED BY <2>1, <2>2, <2>3, <2>4
<1>9. PICK v : v = <<0>> \o middle
  OBVIOUS
<1>10. /\ v \o end \in Seq(Int) /\ Len(v \o end) = D + 2
       /\ \A i \in 1 .. D : (v \o end)[i] = v[i]
  <2>1. v \in Seq(Int) /\ Len(v) = D
    BY <1>8, <1>9
  <2>2. /\ v \o end \in Seq(Int) /\ Len(v \o end) = D + 2
        /\ \A i \in 1 .. D + 2 : (v \o end)[i] = IF i <= D THEN v[i] ELSE end[i - D]
    <3>1. /\ v \o end \in Seq(Int) /\ Len(v \o end) = Len(v) + Len(end)
          /\ \A i \in 1 .. Len(v) + Len(end) :
                (v \o end)[i] = IF i <= Len(v) THEN v[i] ELSE end[i - Len(v)]
      BY <1>6, <2>1, ConcatProperties
    <3> QED BY <1>6, <2>1, <3>1
  <2>3. \A i \in 1 .. D : i \in 1 .. D + 2 /\ i <= D
    BY <1>1
  <2> QED BY <2>2, <2>3
<1>11. \A k \in 1 .. D - 1 : k + 1 \in 1 .. D /\ 1 \in 1 .. D
  BY <1>1
<1>12. D + 2 >= D
  BY <1>1
<1>13. AddrVec(standard.sizes, addr) = v \o end
  BY <1>7, <1>9
<1>14. (v \o end)[1] = 0
  BY <1>1, <1>8, <1>9, <1>10
<1>15. \A k \in 1 .. D - 1 : (v \o end)[k + 1] \in Digits(k)
  BY <1>3, <1>5, <1>8, <1>9, <1>10, <1>11
<1> QED BY <1>10, <1>12, <1>13, <1>14, <1>15 DEF OnTree

RequestType ==
  [id : Nat, type : {"READ", "WRITE", "REFRESH", "EXTENSION"}, vec : Seq(Int),
   arrive : Nat, depart : Int, first : BOOLEAN]
RefreshesRanks == Specs[standard.name].translate["REFRESH"] = "REF"

\* A refresh of a rank goes to the rank, every other request to a leaf.
Fitting(r) ==
  IF r.type = "REFRESH" THEN IF RefreshesRanks THEN OfRank(r.vec) ELSE OnTree(r.vec)
  ELSE r.type \in Types(standard.name) /\ OnTree(r.vec)
Requests == {r \in RequestType : Fitting(r)}
RefreshRequests == {r \in Requests : r.type = "REFRESH"}

\* A sequence is one over a larger set.
LEMMA WiderSeq ==
  ASSUME NEW S, NEW T, S \subseteq T, NEW q \in Seq(S)
  PROVE  q \in Seq(T)
<1>1. PICK n \in Nat : q \in [1 .. n -> S]
  OBVIOUS
<1>2. q \in [1 .. n -> T]
  BY <1>1
<1> QED BY <1>2

\* A request that is sent is a request of the standard.
LEMMA RequestFits ==
  ASSUME Known, clk \in Nat, NEW w \in [id : Nat, type : {"READ", "WRITE"}, addr : Nat]
  PROVE  Request(w) \in Requests
<1>1. OnTree(AddrVec(standard.sizes, w.addr))
  BY AddressOnTree
<1>2. PICK v : v = AddrVec(standard.sizes, w.addr)
  OBVIOUS
<1>3. v \in Seq(Int) /\ OnTree(v)
  BY <1>1, <1>2 DEF OnTree
<1>4. Request(w) = [id |-> w.id, type |-> w.type, vec |-> v, arrive |-> clk, depart |-> -1, first |-> TRUE]
  BY <1>2 DEF Request
<1>5. Request(w) \in RequestType /\ Request(w).type = w.type /\ Request(w).vec = v
  BY <1>3, <1>4 DEF RequestType
<1>6. w.type \in Types(standard.name) /\ w.type # "REFRESH"
  BY DEF Types
<1> HIDE DEF Request
<1> QED BY <1>3, <1>5, <1>6 DEF Requests, Fitting

\* A request whose type and address stay the same stays fitting.
LEMMA StillFits ==
  ASSUME NEW r \in Requests, NEW q \in RequestType, q.type = r.type, q.vec = r.vec
  PROVE  q \in Requests
BY DEF Requests, Fitting

Queues == [reads : Seq(Requests), writes : Seq(Requests), pend : Seq(Requests),
           loads : Seq(Requests), stores : Seq(Requests)]
KeepsQueues(base, seq, i, f) == f \in Queues

\* enqueue(): the requests stay what they are.
LEMMA PutKeeps ==
  ASSUME clk \in Nat, NEW f \in Queues, NEW r \in Requests
  PROVE  PutStore(f, r) \in Queues /\ PutLoad(f, r) \in Queues
<1>1. r \in RequestType
  BY DEF Requests
<1>2. [r EXCEPT !.arrive = clk] \in Requests
  <2>1. [r EXCEPT !.arrive = clk] \in RequestType
    BY <1>1 DEF RequestType
  <2>2. [r EXCEPT !.arrive = clk].type = r.type /\ [r EXCEPT !.arrive = clk].vec = r.vec
    BY <1>1 DEF RequestType
  <2> QED BY <2>1, <2>2, StillFits
<1>3. [[r EXCEPT !.arrive = clk] EXCEPT !.depart = clk + 1] \in Requests
  <2>1. PICK q \in Requests : q = [r EXCEPT !.arrive = clk]
    BY <1>2
  <2>2. q \in RequestType
    BY <2>1 DEF Requests
  <2>3. /\ [q EXCEPT !.depart = clk + 1] \in RequestType
        /\ [q EXCEPT !.depart = clk + 1].type = q.type /\ [q EXCEPT !.depart = clk + 1].vec = q.vec
    BY <2>2 DEF RequestType
  <2> QED BY <2>1, <2>3, StillFits
<1>4. \A q \in Seq(Requests), e \in Requests : Append(q, e) \in Seq(Requests)
  BY AppendProperties
<1>5. PutStore(f, r) \in Queues
  BY <1>2, <1>4 DEF PutStore, Queues
<1>6. PutLoad(f, r) \in Queues
  BY <1>2, <1>3, <1>4 DEF PutLoad, Queues
<1> QED BY <1>5, <1>6

St == INSTANCE FoldProofs WITH Op <- PutStore, Good <- KeepsQueues
Ld == INSTANCE FoldProofs WITH Op <- PutLoad, Good <- KeepsQueues

\* try_insert_st and try_insert_ld.
LEMMA PutAllKeeps ==
  ASSUME clk \in Nat, NEW due \in Seq(Requests), NEW f \in Queues,
         loads \in Seq(Requests), stores \in Seq(Requests)
  PROVE  Put(due, f) \in Queues
<1> DEFINE s == stores \o due
           l == loads \o due
           g == FoldLeft(PutStore, f, s)
<1>2. s \in Seq(Requests) /\ l \in Seq(Requests)
  BY ConcatProperties
<1>3. Put(due, f) = FoldLeft(PutLoad, g, l)
  BY DEF Put
<1> HIDE DEF s, l
<1>4. g \in Queues
  <2>1. KeepsQueues(f, s, 0, f)
    BY DEF KeepsQueues
  <2>2. \A i \in 1 .. Len(s) : \A x :
           KeepsQueues(f, s, i - 1, x) => KeepsQueues(f, s, i, PutStore(x, s[i]))
    BY <1>2, PutKeeps, ElementOfSeq DEF KeepsQueues
  <2>3. KeepsQueues(f, s, Len(s), St!FoldLeft(PutStore, f, s))
    BY <1>2, <2>1, <2>2, St!FoldKeeps
  <2>4. g = St!FoldLeft(PutStore, f, s)
    BY DEF FoldLeft, St!FoldLeft, MapThenFoldSet, St!MapThenFoldSet, Max, St!Max
  <2> QED BY <2>3, <2>4 DEF KeepsQueues
<1> HIDE DEF g
<1>5. FoldLeft(PutLoad, g, l) \in Queues
  <2>1. KeepsQueues(g, l, 0, g)
    BY <1>4 DEF KeepsQueues
  <2>2. \A i \in 1 .. Len(l) : \A x :
           KeepsQueues(g, l, i - 1, x) => KeepsQueues(g, l, i, PutLoad(x, l[i]))
    BY <1>2, PutKeeps, ElementOfSeq DEF KeepsQueues
  <2>3. KeepsQueues(g, l, Len(l), Ld!FoldLeft(PutLoad, g, l))
    BY <1>2, <2>1, <2>2, Ld!FoldKeeps
  <2>4. FoldLeft(PutLoad, g, l) = Ld!FoldLeft(PutLoad, g, l)
    BY DEF FoldLeft, Ld!FoldLeft, MapThenFoldSet, Ld!MapThenFoldSet, Max, Ld!Max
  <2> QED BY <2>3, <2>4 DEF KeepsQueues
<1> QED BY <1>3, <1>5

-----------------------------------------------------------------------------
(* The refreshes of a cycle.                                               *)

Banks == {BankOf(l) : l \in LeafNodes(standard.sizes)}
RankNumbers == 0 .. standard.ranks - 1
PlanRecord == [turn : [RankNumbers -> BankNumbers], backlog : [Banks -> Int],
               subarray : [Banks -> BankNumbers], written : BOOLEAN]
PlanSet == [other : Seq(RefreshRequests), turn : [RankNumbers -> BankNumbers], backlog : [Banks -> Int],
            subarray : [Banks -> BankNumbers], written : BOOLEAN]

\* The standards that refresh single banks have subarrays in all of them.
LEMMA BankRefreshes ==
  ASSUME Known, ~RefreshesRanks, NEW rank \in RankNumbers, NEW bank \in BankNumbers
  PROVE  /\ D = 4 /\ <<0, rank, bank>> \in Banks
         /\ \A s \in BankNumbers : OnTree(<<0, rank, bank, s, -1, -1>>)
<1>1. Levels(standard.name) = Nested
  BY CommandsKnown DEF Known, RefreshesRanks
<1>2. /\ D = 4 /\ standard.sizes[2] = SubArrayCount /\ standard.sizes[3] = SubArrayCount
      /\ standard.sizes[1] = standard.ranks /\ standard.ranks \in 1 .. 4
  BY <1>1, SizeFacts
<1>3. SubArrayCount \in 1 .. 4
  BY RamDeviceAssumption
<1>4. ASSUME NEW s \in BankNumbers PROVE OnTree(<<0, rank, bank, s, -1, -1>>)
  <2>1. rank \in Int /\ bank \in Int /\ s \in Int
    BY <1>2, <1>3 DEF RankNumbers, BankNumbers
  <2>2. rank \in Digits(1) /\ bank \in Digits(2) /\ s \in Digits(3)
    BY <1>2 DEF RankNumbers, BankNumbers, Digits
  <2> DEFINE v == <<0, rank, bank, s, -1, -1>>
  <2>3. /\ v \in Seq(Int) /\ Len(v) = 6 /\ v[1] = 0 /\ v[2] = rank /\ v[3] = bank /\ v[4] = s
    BY <2>1
  <2> HIDE DEF v
  <2>4. \A k \in 1 .. 3 : k = 1 \/ k = 2 \/ k = 3
    OBVIOUS
  <2>5. \A k \in 1 .. 3 : v[k + 1] \in Digits(k)
    BY <2>2, <2>3, <2>4
  <2>6. OnTree(v)
    BY <1>2, <2>3, <2>5 DEF OnTree
  <2> QED BY <2>6 DEF v
<1>5. <<0, rank, bank>> \in Banks
  <2> DEFINE v == <<0, rank, bank, 0, -1, -1>>
  <2>1. 0 \in BankNumbers
    BY <1>3 DEF BankNumbers
  <2>2. OnTree(v)
    BY <1>4, <2>1
  <2>3. rank \in Int /\ bank \in Int
    BY <1>2, <1>3 DEF RankNumbers, BankNumbers
  <2>4. v \in Seq(Int) /\ Len(v) = 6 /\ v[1] = 0 /\ v[2] = rank /\ v[3] = bank
    BY <2>3
  <2> HIDE DEF v
  <2>5. SubSeq(v, 1, 4) \in LeafNodes(standard.sizes)
    BY <1>2, <2>2, LeafInTree
  <2>6. standard.levels # Grouped
    <3>1. standard.levels = Levels(standard.name)
      BY StandardFields DEF Known
    <3> QED BY <1>1, <3>1 DEF Nested, Grouped
  <2>7. BankOf(SubSeq(v, 1, 4)) = SubSeq(SubSeq(v, 1, 4), 1, 3)
    BY <2>6 DEF BankOf
  <2>8. SubSeq(SubSeq(v, 1, 4), 1, 3) = SubSeq(v, 1, 3)
    BY <2>4, PrefixOfPrefix
  <2>9. SubSeq(v, 1, 3) = <<0, rank, bank>>
    <3> DEFINE w == <<0, rank, bank>>
    <3>1. w \in Seq(Int) /\ Len(w) = 3 /\ w[1] = 0 /\ w[2] = rank /\ w[3] = bank
      BY <2>3
    <3> HIDE DEF w
    <3>2. /\ SubSeq(v, 1, 3) \in Seq(Int) /\ Len(SubSeq(v, 1, 3)) = 3
          /\ \A i \in 1 .. 3 : SubSeq(v, 1, 3)[i] = v[i]
      <4>1. v \in Seq(Int) /\ 3 \in 1 .. Len(v)
        BY <2>4
      <4> QED BY <4>1, Prefix
    <3>3. \A k \in 1 .. 3 : k = 1 \/ k = 2 \/ k = 3
      OBVIOUS
    <3>4. \A i \in 1 .. 3 : SubSeq(v, 1, 3)[i] = w[i]
      BY <2>4, <3>1, <3>2, <3>3
    <3>5. SubSeq(v, 1, 3) = w
      BY <3>1, <3>2, <3>4, SeqEqual
    <3> QED BY <3>5 DEF w
  <2> QED BY <2>5, <2>7, <2>8, <2>9 DEF Banks
<1> QED BY <1>2, <1>4, <1>5

\* refresh_target()
LEMMA RefreshBankKeeps ==
  ASSUME Known, ~RefreshesRanks, clk \in Nat,
         NEW p \in PlanSet, NEW rank \in RankNumbers, NEW bank \in BankNumbers
  PROVE  RefreshBank(p, rank, bank) \in PlanSet
<1> DEFINE b == <<0, rank, bank>>
           s == p.subarray[b]
           r == RefreshRequest(rank, bank, s)
           v == <<0, rank, bank, s, -1, -1>>
<1>1. /\ p.other \in Seq(RefreshRequests) /\ p.turn \in [RankNumbers -> BankNumbers]
      /\ p.backlog \in [Banks -> Int] /\ p.subarray \in [Banks -> BankNumbers]
      /\ p.written \in BOOLEAN
  BY DEF PlanSet
<1>2. b \in Banks /\ s \in BankNumbers
  BY <1>1, BankRefreshes
<1>3. OnTree(v)
  BY <1>2, BankRefreshes
<1>4. r \in RefreshRequests
  <2>1. r = [id |-> 0, type |-> "REFRESH", vec |-> v, arrive |-> Now, depart |-> -1, first |-> TRUE]
    BY DEF RefreshRequest
  <2>2. Now \in Nat
    BY DEF Now
  <2>3. v \in Seq(Int)
    BY <1>3 DEF OnTree
  <2> HIDE DEF r, v, s
  <2>4. r \in RequestType /\ r.type = "REFRESH" /\ r.vec = v
    BY <2>1, <2>2, <2>3 DEF RequestType
  <2> QED BY <1>3, <2>4 DEF RefreshRequests, Requests, Fitting
<1>5. Append(p.other, r) \in Seq(RefreshRequests)
  <2> HIDE DEF r
  <2> QED BY <1>1, <1>4, AppendProperties
<1>6. (s + 1) % SubArrayCount \in BankNumbers
  <2>1. PICK n \in 1 .. 4 : n = SubArrayCount
    BY RamDeviceAssumption
  <2>2. s \in Nat
    BY <1>2, <2>1 DEF BankNumbers
  <2> HIDE DEF s
  <2>3. (s + 1) % n \in 0 .. n - 1
    BY <2>1, <2>2
  <2> QED BY <2>1, <2>3 DEF BankNumbers
<1>7. [p.backlog EXCEPT ![b] = @ + 1] \in [Banks -> Int]
  <2>1. p.backlog[b] + 1 \in Int
    BY <1>1, <1>2
  <2> HIDE DEF b
  <2> QED BY <1>1, <2>1
<1>8. [p.subarray EXCEPT ![b] = (@ + 1) % SubArrayCount] \in [Banks -> BankNumbers]
  <2> HIDE DEF b
  <2> QED BY <1>1, <1>6
<1>9. RefreshBank(p, rank, bank) =
        [other |-> Append(p.other, r), turn |-> p.turn,
         backlog |-> [p.backlog EXCEPT ![b] = @ + 1],
         subarray |-> [p.subarray EXCEPT ![b] = (@ + 1) % SubArrayCount],
         written |-> p.written]
  <2>1. p = [other |-> p.other, turn |-> p.turn, backlog |-> p.backlog,
             subarray |-> p.subarray, written |-> p.written]
    BY DEF PlanSet
  <2> HIDE DEF r
  <2>2. PICK o, t, c, u, w : p = [other |-> o, turn |-> t, backlog |-> c, subarray |-> u, written |-> w]
    BY <2>1
  <2>3. /\ p.other = o /\ p.turn = t /\ p.backlog = c /\ p.subarray = u /\ p.written = w
    BY <2>2
  <2>4. RefreshBank(p, rank, bank) =
          [p EXCEPT !.other = Append(@, r), !.backlog[b] = @ + 1,
                    !.subarray[b] = (@ + 1) % SubArrayCount]
    BY DEF RefreshBank, r
  <2> HIDE DEF s, b
  <2> QED BY <2>2, <2>3, <2>4
<1> HIDE DEF r, s, b
<1> QED BY <1>1, <1>5, <1>7, <1>8, <1>9 DEF PlanSet

\* The steps of the three functions, over all plans there may be by then.
WriteAll(ps, r) == UNION {WriteRefresh(p, r - 1) : p \in ps}
EarlyAll(ps, r) == UNION {EarlyRefresh(p, r - 1) : p \in ps}
TurnAll(ps, r) == UNION {TurnRefresh(p, r - 1) : p \in ps}
KeepsPlans(base, seq, i, ps) == ps \subseteq PlanSet
Wr == INSTANCE FoldProofs WITH Op <- WriteAll, Good <- KeepsPlans
Er == INSTANCE FoldProofs WITH Op <- EarlyAll, Good <- KeepsPlans
Tr == INSTANCE FoldProofs WITH Op <- TurnAll, Good <- KeepsPlans

\* The three refreshes of one rank make plans of plans,
LEMMA RankRefreshKeeps ==
  ASSUME Known, ~RefreshesRanks, clk \in Nat, NEW p \in PlanSet, NEW rank \in RankNumbers
  PROVE  /\ WriteRefresh(p, rank) \subseteq PlanSet
         /\ EarlyRefresh(p, rank) \subseteq PlanSet
         /\ TurnRefresh(p, rank) \subseteq PlanSet
<1>1. \A b \in BankNumbers : RefreshBank(p, rank, b) \in PlanSet
  BY RefreshBankKeeps
<1>2. WriteRefresh(p, rank) \subseteq PlanSet
  <2> HIDE DEF PlanSet, RefreshBank
  <2> QED BY <1>1 DEF WriteRefresh
<1>3. EarlyRefresh(p, rank) \subseteq PlanSet
  BY <1>1 DEF EarlyRefresh
<1>4. TurnRefresh(p, rank) \subseteq PlanSet
  <2> DEFINE bank == p.turn[rank]
             b == <<0, rank, bank>>
             later == [p EXCEPT !.turn[rank] = (@ + 1) % SubArrayCount, !.backlog[b] = @ - 1]
  <2>1. /\ p.other \in Seq(RefreshRequests) /\ p.turn \in [RankNumbers -> BankNumbers]
        /\ p.backlog \in [Banks -> Int] /\ p.subarray \in [Banks -> BankNumbers]
        /\ p.written \in BOOLEAN
    BY DEF PlanSet
  <2>2. bank \in BankNumbers
    BY <2>1
  <2>3. b \in Banks
    BY <2>2, BankRefreshes
  <2>4. (bank + 1) % SubArrayCount \in BankNumbers
    <3>1. PICK n \in 1 .. 4 : n = SubArrayCount
      BY RamDeviceAssumption
    <3>2. bank \in Nat
      BY <2>2, <3>1 DEF BankNumbers
    <3> HIDE DEF bank
    <3>3. (bank + 1) % n \in 0 .. n - 1
      BY <3>1, <3>2
    <3> QED BY <3>1, <3>3 DEF BankNumbers
  <2>5. [p.turn EXCEPT ![rank] = (@ + 1) % SubArrayCount] \in [RankNumbers -> BankNumbers]
    BY <2>1, <2>4
  <2>6. [p.backlog EXCEPT ![b] = @ - 1] \in [Banks -> Int]
    <3>1. p.backlog[b] - 1 \in Int
      BY <2>1, <2>3
    <3> HIDE DEF b
    <3> QED BY <2>1, <3>1
  <2>7. later = [other |-> p.other, turn |-> [p.turn EXCEPT ![rank] = (@ + 1) % SubArrayCount],
                 backlog |-> [p.backlog EXCEPT ![b] = @ - 1], subarray |-> p.subarray,
                 written |-> p.written]
    <3>1. p = [other |-> p.other, turn |-> p.turn, backlog |-> p.backlog,
               subarray |-> p.subarray, written |-> p.written]
      BY DEF PlanSet
    <3> HIDE DEF b
    <3>2. PICK o, t, c, u, w : p = [other |-> o, turn |-> t, backlog |-> c, subarray |-> u, written |-> w]
      BY <3>1
    <3>3. p.other = o /\ p.turn = t /\ p.backlog = c /\ p.subarray = u /\ p.written = w
      BY <3>2
    <3>4. later = [[other |-> o, turn |-> t, backlog |-> c, subarray |-> u, written |-> w]
                     EXCEPT !.turn[rank] = (@ + 1) % SubArrayCount, !.backlog[b] = @ - 1]
      BY <3>2
    <3> HIDE DEF later
    <3> QED BY <3>3, <3>4
  <2>8. later \in PlanSet
    <3> HIDE DEF later, b
    <3> QED BY <2>1, <2>5, <2>6, <2>7 DEF PlanSet
  <2>9. RefreshBank(later, rank, bank) \in PlanSet
    <3> HIDE DEF later, bank
    <3> QED BY <2>2, <2>8, RefreshBankKeeps
  <2>10. TurnRefresh(p, rank) \subseteq {RefreshBank(later, rank, bank), later}
    BY DEF TurnRefresh
  <2> HIDE DEF later, bank
  <2> QED BY <2>8, <2>9, <2>10
<1> QED BY <1>2, <1>3, <1>4

\* and so do they of all ranks, one after the other.
LEMMA OverRanksKeeps ==
  ASSUME Known, ~RefreshesRanks, clk \in Nat, NEW plans \in SUBSET PlanSet
  PROVE  /\ OverRanks(WriteRefresh, plans) \subseteq PlanSet
         /\ OverRanks(EarlyRefresh, plans) \subseteq PlanSet
         /\ OverRanks(TurnRefresh, plans) \subseteq PlanSet
<1> DEFINE ranks == [r \in 1 .. standard.ranks |-> r]
<1>1. standard.ranks \in 1 .. 4
  BY SizeFacts
<1>2. /\ ranks \in Seq(1 .. standard.ranks) /\ Len(ranks) = standard.ranks
      /\ \A i \in 1 .. Len(ranks) : ranks[i] \in 1 .. standard.ranks /\ ranks[i] - 1 \in RankNumbers
  BY <1>1 DEF RankNumbers
<1> HIDE DEF ranks
<1>3. KeepsPlans(plans, ranks, 0, plans)
  BY DEF KeepsPlans
<1>4. OverRanks(WriteRefresh, plans) \subseteq PlanSet
  <2>1. \A i \in 1 .. Len(ranks) : \A ps :
           KeepsPlans(plans, ranks, i - 1, ps) => KeepsPlans(plans, ranks, i, WriteAll(ps, ranks[i]))
    BY <1>2, RankRefreshKeeps DEF KeepsPlans, WriteAll
  <2>2. KeepsPlans(plans, ranks, Len(ranks), Wr!FoldLeft(WriteAll, plans, ranks))
    BY <1>2, <1>3, <2>1, Wr!FoldKeeps
  <2>3. OverRanks(WriteRefresh, plans) = Wr!FoldLeft(WriteAll, plans, ranks)
    BY DEF OverRanks, FoldLeft, Wr!FoldLeft, MapThenFoldSet, Wr!MapThenFoldSet, Max, Wr!Max,
           WriteAll, ranks
  <2> QED BY <2>2, <2>3 DEF KeepsPlans
<1>5. OverRanks(EarlyRefresh, plans) \subseteq PlanSet
  <2>1. \A i \in 1 .. Len(ranks) : \A ps :
           KeepsPlans(plans, ranks, i - 1, ps) => KeepsPlans(plans, ranks, i, EarlyAll(ps, ranks[i]))
    BY <1>2, RankRefreshKeeps DEF KeepsPlans, EarlyAll
  <2>2. KeepsPlans(plans, ranks, Len(ranks), Er!FoldLeft(EarlyAll, plans, ranks))
    BY <1>2, <1>3, <2>1, Er!FoldKeeps
  <2>3. OverRanks(EarlyRefresh, plans) = Er!FoldLeft(EarlyAll, plans, ranks)
    BY DEF OverRanks, FoldLeft, Er!FoldLeft, MapThenFoldSet, Er!MapThenFoldSet, Max, Er!Max,
           EarlyAll, ranks
  <2> QED BY <2>2, <2>3 DEF KeepsPlans
<1>6. OverRanks(TurnRefresh, plans) \subseteq PlanSet
  <2>1. \A i \in 1 .. Len(ranks) : \A ps :
           KeepsPlans(plans, ranks, i - 1, ps) => KeepsPlans(plans, ranks, i, TurnAll(ps, ranks[i]))
    BY <1>2, RankRefreshKeeps DEF KeepsPlans, TurnAll
  <2>2. KeepsPlans(plans, ranks, Len(ranks), Tr!FoldLeft(TurnAll, plans, ranks))
    BY <1>2, <1>3, <2>1, Tr!FoldKeeps
  <2>3. OverRanks(TurnRefresh, plans) = Tr!FoldLeft(TurnAll, plans, ranks)
    BY DEF OverRanks, FoldLeft, Tr!FoldLeft, MapThenFoldSet, Tr!MapThenFoldSet, Max, Tr!Max,
           TurnAll, ranks
  <2> QED BY <2>2, <2>3 DEF KeepsPlans
<1> QED BY <1>4, <1>5, <1>6

\* inject_refresh(true): the requests for whole ranks.
LEMMA RankRefreshesFit ==
  ASSUME Known, RefreshesRanks, clk \in Nat
  PROVE  RankRefreshes \in Seq(RefreshRequests)
<1>1. standard.ranks \in 1 .. 4 /\ standard.sizes[1] = standard.ranks
  BY SizeFacts
<1>2. ASSUME NEW r \in 1 .. standard.ranks PROVE RefreshRequest(r - 1, -1, -1) \in RefreshRequests
  <2> DEFINE v == <<0, r - 1, -1, -1, -1, -1>>
             req == RefreshRequest(r - 1, -1, -1)
  <2>1. r - 1 \in Int /\ r - 1 \in Digits(1)
    BY <1>1 DEF Digits
  <2>2. OfRank(v)
    BY <2>1 DEF OfRank
  <2>3. v \in Seq(Int)
    BY <2>1
  <2>4. req = [id |-> 0, type |-> "REFRESH", vec |-> v, arrive |-> Now, depart |-> -1, first |-> TRUE]
    BY DEF RefreshRequest
  <2>5. Now \in Nat
    BY DEF Now
  <2> HIDE DEF req, v
  <2>6. req \in RequestType /\ req.type = "REFRESH" /\ req.vec = v
    BY <2>3, <2>4, <2>5 DEF RequestType
  <2>7. req \in RefreshRequests
    BY <2>2, <2>6 DEF RefreshRequests, Requests, Fitting
  <2> QED BY <2>7 DEF req
<1>3. PICK n \in Nat : n = standard.ranks
  BY <1>1
<1>4. [r \in 1 .. n |-> RefreshRequest(r - 1, -1, -1)] \in Seq(RefreshRequests)
  <2> HIDE DEF RefreshRequests
  <2> QED BY <1>2, <1>3
<1> QED BY <1>3, <1>4 DEF RankRefreshes

\* tick_ref(): whatever is planned is a plan, and asks for what there is.
LEMMA PlansFit ==
  ASSUME Known, clk \in Nat, otherq \in Seq(RefreshRequests), plan \in PlanRecord, write_mode \in BOOLEAN
  PROVE  PlansNow \subseteq PlanSet
<1>1. {RefreshPlan} \subseteq PlanSet
  BY DEF RefreshPlan, PlanRecord, PlanSet
<1>2. standard.translate = Specs[standard.name].translate
  BY StandardFields DEF Known
<1>3. Darp({RefreshPlan}) \subseteq PlanSet
  <2>1. CASE standard.name \in {"DARP", "DSARP"}
    <3>1. ~RefreshesRanks
      BY <2>1, CommandsKnown DEF Known, RefreshesRanks
    <3>2. Written({RefreshPlan}) \subseteq PlanSet
      BY <1>1, <3>1, OverRanksKeeps DEF Written
    <3>3. Noted(Written({RefreshPlan})) \subseteq PlanSet
      <4>1. \A p \in PlanSet : [p EXCEPT !.written = write_mode] \in PlanSet
        BY DEF PlanSet
      <4> QED BY <3>2, <4>1 DEF Noted
    <3>4. Pulled(Noted(Written({RefreshPlan}))) \subseteq PlanSet
      BY <3>1, <3>3, OverRanksKeeps DEF Pulled
    <3> QED BY <2>1, <3>4 DEF Darp
  <2>2. CASE standard.name \notin {"DARP", "DSARP"}
    BY <1>1, <2>2 DEF Darp
  <2> QED BY <2>1, <2>2
<1>4. ASSUME NEW plans \in SUBSET PlanSet PROVE Injected(plans) \subseteq PlanSet
  <2>1. CASE RefreshesRanks
    <3>1. standard.translate.REFRESH # "REFPB"
      BY <1>2, <2>1 DEF RefreshesRanks
    <3>2. \A p \in PlanSet : [p EXCEPT !.other = @ \o RankRefreshes] \in PlanSet
      <4> TAKE p \in PlanSet
      <4>1. p.other \in Seq(RefreshRequests)
        BY DEF PlanSet
      <4>2. p.other \o RankRefreshes \in Seq(RefreshRequests)
        BY <2>1, <4>1, RankRefreshesFit, ConcatProperties
      <4> QED BY <4>2 DEF PlanSet
    <3> QED BY <3>1, <3>2 DEF Injected
  <2>2. CASE ~RefreshesRanks
    <3>1. standard.translate.REFRESH = "REFPB"
      <4>1. Specs[standard.name].translate["REFRESH"] = "REFPB"
        BY <2>2, CommandsKnown DEF Known, RefreshesRanks
      <4> QED BY <1>2, <4>1
    <3> QED BY <2>2, <3>1, OverRanksKeeps DEF Injected
  <2> QED BY <2>1, <2>2
<1> QED BY <1>3, <1>4 DEF PlansNow

-----------------------------------------------------------------------------
(* The choice of a request, and of its command.                            *)

\* get_head(): a request of the queue.
LEMMA HeadInQueue ==
  ASSUME NEW q \in Seq(Requests), q # <<>>
  PROVE  HeadOf(q) \in DOMAIN q
<1> DEFINE among == Contenders(q, {i \in DOMAIN q : Preferred(q[i])})
<1>1. DOMAIN q = 1 .. Len(q) /\ Len(q) \in Nat \ {0}
  BY LenProperties, EmptySeq
<1>2. among # {} /\ among \subseteq 1 .. Len(q)
  <2>1. 1 \in 1 .. Len(q)
    BY <1>1
  <2> QED BY <1>1, <2>1 DEF Contenders
<1>3. HeadOf(q) = Earliest(q, among)
  BY DEF HeadOf
<1> HIDE DEF among
<1>4. \A i \in among : q[i].arrive \in Nat
  <2> TAKE i \in among
  <2>1. q[i] \in Requests
    BY <1>2, ElementOfSeq
  <2> QED BY <2>1 DEF Requests, RequestType
<1>5. PICK a \in {q[i].arrive : i \in among} : \A b \in {q[i].arrive : i \in among} : a <= b
  <2>1. {q[i].arrive : i \in among} \in SUBSET Nat /\ {q[i].arrive : i \in among} # {}
    BY <1>2, <1>4
  <2> QED BY <2>1, P!Least
<1>6. PICK i \in {k \in among : q[k].arrive = a} : \A j \in {k \in among : q[k].arrive = a} : i <= j
  <2>1. {k \in among : q[k].arrive = a} \in SUBSET Nat
    <3>1. \A k \in among : k \in Nat
      BY <1>1, <1>2
    <3> QED BY <3>1
  <2>2. PICK first \in among : q[first].arrive = a
    BY <1>5
  <2>3. {k \in among : q[k].arrive = a} # {}
    BY <2>2
  <2> QED BY <2>1, <2>3, P!Least
<1>7. \A j \in among \ {i} : \/ q[i].arrive < q[j].arrive
                             \/ q[i].arrive = q[j].arrive /\ i < j
  <2> TAKE j \in among \ {i}
  <2>1. q[i].arrive = a /\ a <= q[j].arrive /\ a \in Nat /\ q[j].arrive \in Nat
    BY <1>4, <1>5, <1>6
  <2>2. q[j].arrive = a => i <= j
    BY <1>6
  <2>3. i \in Nat /\ j \in Nat /\ i # j
    BY <1>2
  <2> QED BY <2>1, <2>2, <2>3
<1>8. Earliest(q, among) \in among
  BY <1>6, <1>7 DEF Earliest
<1> QED BY <1>1, <1>2, <1>3, <1>8

\* decode(): the command itself or one of those that may have to come before.
LEMMA FirstForIs ==
  ASSUME NEW cmd, NEW vec, NEW hit, standard.prereq[cmd] \in Needs
  PROVE  FirstFor(cmd, vec, hit) \in {cmd} \cup Before(standard.prereq[cmd])
<1> DEFINE need == standard.prereq[cmd]
           closed == row_state[LeafOf(vec)] = {}
           near == RowOf(vec) % 2 = 0
<1>1. FirstFor(cmd, vec, hit) = FirstOfNeed(need, cmd, vec, closed, hit, near)
  BY DEF FirstFor
<1> HIDE DEF need, closed, near
<1>2. ASSUME NEW n \in Needs, NEW c, NEW h, NEW m
      PROVE  FirstOfNeed(n, cmd, vec, c, h, m) \in {cmd} \cup Before(n)
  <2>1. CASE n = "row open"
    BY <2>1 DEF FirstOfNeed, Before
  <2>2. CASE n = "row of bank"
    BY <2>2 DEF FirstOfNeed, Before
  <2>3. CASE n = "only row of bank"
    BY <2>3 DEF FirstOfNeed, Before
  <2>4. CASE n = "row alone"
    BY <2>4 DEF FirstOfNeed, Before
  <2>5. CASE n = "row selected"
    BY <2>5 DEF FirstOfNeed, Before
  <2>6. CASE n = "row of segment"
    BY <2>6 DEF FirstOfNeed, Before
  <2>7. CASE n = "row migrated"
    BY <2>7 DEF FirstOfNeed, Before
  <2>8. CASE n = "bank closed"
    BY <2>8 DEF FirstOfNeed, Before
  <2>9. CASE n = "rank closed"
    BY <2>9 DEF FirstOfNeed, Before
  <2>10. CASE n = "banks closed"
    BY <2>10 DEF FirstOfNeed, Before
  <2> QED BY <2>1, <2>2, <2>3, <2>4, <2>5, <2>6, <2>7, <2>8, <2>9, <2>10 DEF Needs
<1>3. need \in Needs
  BY DEF need
<1>4. FirstOfNeed(need, cmd, vec, closed, hit, near) \in {cmd} \cup Before(need)
  BY <1>2, <1>3
<1> QED BY <1>1, <1>4 DEF need

\* The leaves are addresses down to a leaf.
LEMMA LeafDigits ==
  ASSUME Known, NEW b \in LeafNodes(standard.sizes), NEW k \in 1 .. D - 1
  PROVE  b[k + 1] \in Digits(k) /\ Digits(k) \subseteq Nat
<1>1. /\ D \in {3, 4} /\ DOMAIN standard.sizes = 1 .. D - 1
      /\ \A j \in 1 .. D - 1 : standard.sizes[j] \in 1 .. 4
  BY SizeFacts
<1>2. PICK d \in [1 .. D - 1 -> 0 .. 3] :
         b = <<0>> \o d /\ \A j \in 1 .. D - 1 : d[j] < standard.sizes[j]
  BY <1>1 DEF LeafNodes
<1>3. d \in Seq(Int) /\ Len(d) = D - 1
  BY <1>1
<1>4. \A i \in 1 .. 1 + (D - 1) : (<<0>> \o d)[i] = IF i <= 1 THEN <<0>>[i] ELSE d[i - 1]
  <2>1. <<0>> \in Seq(Int) /\ Len(<<0>>) = 1
    OBVIOUS
  <2> QED BY <1>3, <2>1, ConcatProperties
<1>5. k + 1 \in 1 .. 1 + (D - 1) /\ ~(k + 1 <= 1) /\ (k + 1) - 1 = k
  BY <1>1
<1>6. b[k + 1] = d[k]
  BY <1>2, <1>4, <1>5
<1>7. d[k] \in 0 .. 3 /\ d[k] < standard.sizes[k] /\ standard.sizes[k] \in 1 .. 4
  BY <1>1, <1>2
<1> QED BY <1>6, <1>7 DEF Digits

\* get_addr_vec(): the target is where the request goes, or in the same bank.
LEMMA TargetOnTree ==
  ASSUME Known, Leaves = LeafNodes(standard.sizes), NEW cmd \in Issued,
         NEW vec, Shaped(vec), OnTree(vec) \/ cmd # "PRE_OTHER"
  PROVE  /\ OnTree(vec) => OnTree(TargetOf(cmd, vec))
         /\ cmd # "PRE_OTHER" => TargetOf(cmd, vec) = vec
<1>1. cmd # "PRE_OTHER" => TargetOf(cmd, vec) = vec
  BY DEF TargetOf
<1>2. ASSUME OnTree(vec), cmd = "PRE_OTHER" PROVE OnTree(TargetOf(cmd, vec))
  <2>1. Levels(standard.name) = Nested
    <3>1. standard.issued = Specs[standard.name].issued
      BY StandardFields DEF Known
    <3> QED BY <1>2, <3>1, CommandsKnown DEF Known, Issued
  <2>2. D = 4 /\ (\A k \in 1 .. D - 1 : 0 \in Digits(k))
    BY <2>1, SizeFacts
  <2> DEFINE open == {b[4] : b \in {b \in Leaves \ {LeafOf(vec)} :
                                      BankOf(b) = BankOf(vec) /\ row_state[b] # {}}}
             s == IF open = {} THEN 0 ELSE Min(open)
             u == [vec EXCEPT ![4] = s]
  <2>3. open \subseteq Digits(3) /\ Digits(3) \subseteq Nat
    <3>1. 3 \in 1 .. D - 1 /\ 3 + 1 = 4
      BY <2>2
    <3>2. \A b \in Leaves : b[4] \in Digits(3)
      BY <3>1, LeafDigits
    <3>3. Digits(3) \subseteq Nat
      BY <3>1, SizeFacts DEF Digits
    <3> QED BY <3>2, <3>3
  <2>4. s \in Digits(3) /\ s \in Int
    <3>1. CASE open = {}
      BY <2>2, <2>3, <3>1
    <3>2. CASE open # {}
      <4> HIDE DEF open
      <4>1. open \in SUBSET Nat
        BY <2>3
      <4>2. Min(open) \in open
        BY <3>2, <4>1, MinOf
      <4> QED BY <2>3, <3>2, <4>2
    <3> QED BY <3>1, <3>2
  <2>5. TargetOf(cmd, vec) = [vec EXCEPT ![4] = s, ![5] = -1]
    BY <1>2 DEF TargetOf
  <2> HIDE DEF s, open
  <2>6. vec \in Seq(Int) /\ Len(vec) >= 4 /\ Len(vec) \in Nat /\ vec[1] = 0
        /\ \A k \in 1 .. 3 : vec[k + 1] \in Digits(k)
    BY <1>2, <2>2, LenProperties DEF OnTree
  <2>7. u \in Seq(Int) /\ Len(u) = Len(vec)
        /\ \A j \in 1 .. Len(vec) : u[j] = IF j = 4 THEN s ELSE vec[j]
    <3>1. 4 \in 1 .. Len(vec)
      BY <2>6
    <3> QED BY <2>4, <2>6, <3>1, ExceptSeq
  <2>8. TargetOf(cmd, vec) = [u EXCEPT ![5] = -1]
    BY <2>5
  <2> HIDE DEF u
  <2>9. OnTree(u)
    <3>1. u[1] = 0 /\ u[2] = vec[2] /\ u[3] = vec[3] /\ u[4] = s
      BY <2>6, <2>7
    <3>2. \A k \in 1 .. 3 : k = 1 \/ k = 2 \/ k = 3
      OBVIOUS
    <3>3. vec[2] \in Digits(1) /\ vec[3] \in Digits(2)
      <4>1. 1 \in 1 .. 3 /\ 2 \in 1 .. 3 /\ 1 + 1 = 2 /\ 2 + 1 = 3
        OBVIOUS
      <4> QED BY <2>6, <4>1
    <3>4. \A k \in 1 .. 3 : u[k + 1] \in Digits(k)
      BY <2>4, <3>1, <3>2, <3>3
    <3> QED BY <2>2, <2>6, <2>7, <3>1, <3>4 DEF OnTree
  <2>10. OnTree([u EXCEPT ![5] = -1])
    <3>1. CASE 5 \in 1 .. Len(u)
      <4>1. /\ [u EXCEPT ![5] = -1] \in Seq(Int) /\ Len([u EXCEPT ![5] = -1]) = Len(u)
            /\ \A j \in 1 .. Len(u) : [u EXCEPT ![5] = -1][j] = IF j = 5 THEN -1 ELSE u[j]
        BY <2>7, <3>1, ExceptSeq
      <4>2. PICK w : w = [u EXCEPT ![5] = -1]
        OBVIOUS
      <4>3. \A j \in 1 .. 4 : w[j] = u[j]
        BY <2>6, <2>7, <4>1, <4>2
      <4>4. \A k \in 1 .. 3 : k + 1 \in 1 .. 4 /\ 1 \in 1 .. 4
        OBVIOUS
      <4>5. OnTree(w)
        BY <2>2, <2>9, <4>1, <4>2, <4>3, <4>4 DEF OnTree
      <4> QED BY <4>2, <4>5
    <3>2. CASE 5 \notin 1 .. Len(u)
      <4>1. DOMAIN u = 1 .. Len(u)
        BY <2>7, LenProperties
      <4>2. [u EXCEPT ![5] = -1] = u
        BY <2>7, <3>2, <4>1
      <4> QED BY <2>9, <4>2
    <3> QED BY <3>1, <3>2
  <2> QED BY <2>8, <2>10
<1> QED BY <1>1, <1>2

\* update_state() keeps the leaves.
LEMMA LeavesKept ==
  ASSUME NEW cmd, NEW vec
  PROVE  DOMAIN RowsAfter(cmd, vec) = Leaves
BY DEF RowsAfter, Leaves

ShapeFor(cmd, vec) == IF cmd \in WholeRank THEN OfRank(vec) ELSE OnTree(vec)

\* A request that is served as another one needs at most the same commands.
LEMMA BeginFits ==
  ASSUME Known, NEW r \in Requests
  PROVE  /\ Begin(r) \in Requests /\ Begin(r).vec = r.vec /\ Begin(r).id \in Nat
         /\ Begin(r).type = r.type \/ /\ standard.name = "TLDRAM" /\ r.type = "READ"
                                      /\ Begin(r).type = "EXTENSION"
<1> DEFINE t == IF standard.name = "TLDRAM" /\ r.type = "READ" THEN "EXTENSION" ELSE r.type
<1>1. r \in RequestType
  BY DEF Requests
<1>2. Begin(r) = [r EXCEPT !.first = FALSE, !.type = t]
  BY <1>1 DEF Begin, RequestType
<1>3. t \in {"READ", "WRITE", "REFRESH", "EXTENSION"}
  BY <1>1 DEF RequestType
<1>4. Fitting(r) /\ r.type = "READ" /\ standard.name = "TLDRAM" => OnTree(r.vec)
  BY DEF Fitting
<1>5. Fitting(r)
  BY DEF Requests
<1>6. t = r.type \/ (standard.name = "TLDRAM" /\ r.type = "READ" /\ t = "EXTENSION")
  OBVIOUS
<1> HIDE DEF t
<1>7. /\ Begin(r) \in RequestType /\ Begin(r).vec = r.vec /\ Begin(r).id = r.id /\ r.id \in Nat
      /\ Begin(r).type = t
  BY <1>1, <1>2, <1>3 DEF RequestType
<1>8. Begin(r) \in Requests
  <2>1. CASE t = r.type
    BY <1>5, <1>7, <2>1, StillFits
  <2>2. CASE standard.name = "TLDRAM" /\ r.type = "READ" /\ t = "EXTENSION"
    <3>1. t \in Types(standard.name)
      BY <2>2 DEF Types
    <3> QED BY <1>4, <1>5, <1>7, <2>2, <3>1 DEF Requests, Fitting
  <2> QED BY <1>6, <2>1, <2>2
<1> QED BY <1>6, <1>7, <1>8

\* The command of a request is known and goes where the request can go.
LEMMA CommandFits ==
  ASSUME Known, NEW r \in Requests
  PROVE  /\ FirstCommand(r) \in Issued /\ Shaped(r.vec)
         /\ ShapeFor(FirstCommand(r), r.vec)
<1> DEFINE n == standard.name
           top == Specs[n].translate[r.type]
<1>1. /\ n \in Standards /\ standard.translate = Specs[n].translate
      /\ standard.prereq = Specs[n].prereq /\ Issued = Specs[n].issued
  BY StandardFields DEF Known, Issued
<1>2. Fitting(r) /\ r.type \in Types(n) \cup {"REFRESH"} /\ (r.type = "REFRESH" \/ r.type \in Types(n))
  BY DEF Requests, Fitting
<1>3. standard.prereq[top] \in Needs /\ standard.translate[r.type] = top
  BY <1>1, <1>2, CommandsKnown
<1>4. FirstCommand(r) \in CommandsFor(n, r.type)
  <2>1. FirstCommand(r) = FirstFor(top, r.vec, RowOf(r.vec) \in row_state[LeafOf(r.vec)])
    BY <1>3 DEF FirstCommand, Decode
  <2> HIDE DEF top
  <2>2. FirstCommand(r) \in {top} \cup Before(standard.prereq[top])
    BY <1>3, <2>1, FirstForIs
  <2> QED BY <1>1, <2>2 DEF CommandsFor, top
<1> HIDE DEF top
<1>5. CASE r.type = "REFRESH" /\ RefreshesRanks
  <2>1. CommandsFor(n, "REFRESH") \subseteq Specs[n].issued \cap WholeRank
    BY <1>1, <1>5, CommandsKnown DEF RefreshesRanks
  <2>2. OfRank(r.vec)
    BY <1>2, <1>5 DEF Fitting
  <2> QED BY <1>1, <1>4, <1>5, <2>1, <2>2 DEF ShapeFor, Shaped
<1>6. CASE r.type = "REFRESH" /\ ~RefreshesRanks
  <2>1. CommandsFor(n, "REFRESH") \subseteq Specs[n].issued \ WholeRank
    BY <1>1, <1>6, CommandsKnown DEF RefreshesRanks
  <2>2. OnTree(r.vec)
    BY <1>2, <1>6 DEF Fitting
  <2> QED BY <1>1, <1>4, <1>6, <2>1, <2>2 DEF ShapeFor, Shaped
<1>7. CASE r.type # "REFRESH"
  <2>1. CommandsFor(n, r.type) \subseteq Specs[n].issued \ WholeRank
    BY <1>1, <1>2, <1>7, CommandsKnown
  <2>2. OnTree(r.vec)
    BY <1>2, <1>7 DEF Fitting
  <2> QED BY <1>1, <1>4, <2>1, <2>2 DEF ShapeFor, Shaped
<1> QED BY <1>5, <1>6, <1>7

\* The scheduler checked the command that is issued, or one it stands for.
LEMMA CheckedIsIssued ==
  ASSUME Known, NEW r \in Requests
  PROVE  FirstCommand(r) \in CheckedFor(standard.name, FirstCommand(Begin(r)))
<1>1. CASE Begin(r).type = r.type
  <2>1. FirstCommand(Begin(r)) = FirstCommand(r)
    BY <1>1, BeginFits DEF FirstCommand
  <2> QED BY <2>1 DEF CheckedFor
<1>2. CASE standard.name = "TLDRAM" /\ r.type = "READ" /\ Begin(r).type = "EXTENSION"
  <2> DEFINE hit == RowOf(r.vec) \in row_state[LeafOf(r.vec)]
             closed == row_state[LeafOf(r.vec)] = {}
             near == RowOf(r.vec) % 2 = 0
  <2>1. /\ standard.translate["READ"] = "RD" /\ standard.translate["EXTENSION"] = "MIG"
        /\ standard.prereq["RD"] = "row of segment" /\ standard.prereq["MIG"] = "row migrated"
    <3>1. /\ "TLDRAM" \in Standards /\ standard.translate = Specs["TLDRAM"].translate
          /\ standard.prereq = Specs["TLDRAM"].prereq
      BY <1>2, StandardFields DEF Known
    <3>2. /\ Specs["TLDRAM"].translate["READ"] = "RD" /\ Specs["TLDRAM"].translate["EXTENSION"] = "MIG"
          /\ Specs["TLDRAM"].prereq["RD"] = "row of segment"
          /\ Specs["TLDRAM"].prereq["MIG"] = "row migrated"
      BY <3>1, CommandsKnown
    <3> QED BY <3>1, <3>2
  <2>2. FirstCommand(r) = FirstOfNeed("row of segment", "RD", r.vec, closed, hit, near)
    BY <1>2, <2>1 DEF FirstCommand, Decode, FirstFor
  <2>3. FirstCommand(Begin(r)) = FirstOfNeed("row migrated", "MIG", r.vec, closed, hit, near)
    <3>1. PICK b : b = Begin(r)
      OBVIOUS
    <3>2. b.vec = r.vec /\ b.type = "EXTENSION"
      BY <1>2, <3>1, BeginFits
    <3> QED BY <2>1, <3>1, <3>2 DEF FirstCommand, Decode, FirstFor
  <2>4. FirstCommand(r) = IF hit THEN "RD"
                          ELSE IF closed THEN (IF near THEN "ACTF" ELSE "ACT")
                          ELSE (IF near THEN "PREF" ELSE "PRE")
    <3> HIDE DEF hit, closed, near
    <3> QED BY <2>2 DEF FirstOfNeed
  <2>5. FirstCommand(Begin(r)) = IF hit THEN "MIG" ELSE IF closed THEN "ACTM" ELSE "PREM"
    <3> HIDE DEF hit, closed, near
    <3> QED BY <2>3 DEF FirstOfNeed
  <2> HIDE DEF hit, closed, near
  <2>6. /\ CheckedFor("TLDRAM", "MIG") = {"MIG", "RD"}
        /\ CheckedFor("TLDRAM", "ACTM") = {"ACTM", "ACT", "ACTF"}
        /\ CheckedFor("TLDRAM", "PREM") = {"PREM", "PRE", "PREF"}
    BY DEF CheckedFor
  <2> QED BY <1>2, <2>4, <2>5, <2>6
<1> QED BY <1>1, <1>2, BeginFits

\* Whatever is issued for a request is on its way down the tree, and the nodes
\* on this way do not hold back the command that was checked.
LEMMA ServedFits ==
  ASSUME Known, Leaves = LeafNodes(standard.sizes), NEW r \in Requests, Ready(r)
  PROVE  LET x == FirstCommand(r)
             y == FirstCommand(Begin(r))
             v == TargetOf(y, Begin(r).vec)
         IN  /\ y \in Issued /\ ShapeFor(y, v)
             /\ x \in Issued /\ x \in CheckedFor(standard.name, y) /\ CanIssue(x, v, Now)
<1> DEFINE x == FirstCommand(r)
           y == FirstCommand(Begin(r))
           v == TargetOf(y, Begin(r).vec)
<1>1. Begin(r) \in Requests /\ Begin(r).vec = r.vec
  BY BeginFits
<1>2. /\ x \in Issued /\ Shaped(r.vec) /\ ShapeFor(x, r.vec)
      /\ y \in Issued /\ ShapeFor(y, r.vec)
  <2> HIDE DEF Requests
  <2>1. PICK s \in Requests : s = Begin(r)
    BY <1>1
  <2>2. FirstCommand(s) \in Issued /\ ShapeFor(FirstCommand(s), s.vec)
    BY CommandFits
  <2> QED BY <1>1, <2>1, <2>2, CommandFits
<1>3. x \in CheckedFor(standard.name, y)
  BY CheckedIsIssued
<1>4. x = y \/ (x # "PRE_OTHER" /\ y # "PRE_OTHER")
  BY <1>3 DEF CheckedFor
<1>5. CanIssue(x, TargetOf(x, r.vec), Now)
  BY DEF Ready, ReadyWith
<1> HIDE DEF x, y
<1>6. TargetOf(x, r.vec) = v
  BY <1>1, <1>4 DEF TargetOf
<1>7. ShapeFor(y, v)
  <2>1. "PRE_OTHER" \notin WholeRank
    BY DEF WholeRank
  <2>2. OnTree(r.vec) \/ y # "PRE_OTHER"
    BY <1>2, <2>1 DEF ShapeFor
  <2>3. /\ OnTree(r.vec) => OnTree(TargetOf(y, r.vec))
        /\ y # "PRE_OTHER" => TargetOf(y, r.vec) = r.vec
    BY <1>2, <2>2, TargetOnTree
  <2> QED BY <1>1, <1>2, <2>1, <2>3 DEF ShapeFor
<1> HIDE DEF v
<1>8. CanIssue(x, v, Now)
  BY <1>5, <1>6
<1> QED BY <1>2, <1>3, <1>7, <1>8 DEF x, y, v

-----------------------------------------------------------------------------
(* The times of the nodes, and the history of the ranks.                   *)

\* A node of the k-th level is a path of k steps.
LEMMA TreeNode ==
  ASSUME Known, NEW node \in Tree
  PROVE  Len(node) \in 1 .. D /\ node \in Seq(Int)
<1>1. D \in {3, 4} /\ DOMAIN standard.sizes = 1 .. D - 1
  BY SizeFacts
<1>2. PICK b \in LeafNodes(standard.sizes), k \in 1 .. D : node = SubSeq(b, 1, k)
  BY DEF Tree
<1>3. PICK d \in [1 .. D - 1 -> 0 .. 3] : b = <<0>> \o d
  BY <1>1 DEF LeafNodes
<1>4. d \in Seq(Int) /\ Len(d) = D - 1
  BY <1>1
<1>5. b \in Seq(Int) /\ Len(b) = 1 + (D - 1)
  <2>1. <<0>> \in Seq(Int) /\ Len(<<0>>) = 1
    OBVIOUS
  <2> QED BY <1>3, <1>4, <2>1, ConcatProperties
<1>6. k \in 1 .. Len(b)
  BY <1>1, <1>5
<1> QED BY <1>2, <1>5, <1>6, Prefix

\* The ranks are the nodes of the second level.
LEMMA RankNodes ==
  ASSUME Known
  PROVE  /\ Ranks \subseteq Tree
         /\ \A node \in Ranks : Len(node) = 2 /\ Above(node) = <<0>>
         /\ \A v : Shaped(v) => /\ RankOf(v) \in Ranks /\ RankOf(v) \in PathOf(v)
                                /\ SubSeq(v, 1, 1) = <<0>> /\ <<0>> \in PathOf(v)
<1>1. D \in {3, 4} /\ standard.sizes[1] = standard.ranks
  BY SizeFacts
<1>2. ASSUME NEW v, Shaped(v)
      PROVE  /\ RankOf(v) \in Ranks /\ RankOf(v) \in PathOf(v) /\ RankOf(v) \in Tree
             /\ SubSeq(v, 1, 1) = <<0>> /\ <<0>> \in PathOf(v) /\ RankOf(v) = <<0, v[2]>>
  <2>1. v \in Seq(Int) /\ Len(v) >= 2 /\ v[1] = 0 /\ v[2] \in Digits(1) /\ v[2] \in Int
    <3>1. CASE OnTree(v)
      <4>1. v \in Seq(Int) /\ Len(v) >= D /\ v[1] = 0 /\ Len(v) \in Nat
        BY <3>1, LenProperties DEF OnTree
      <4>2. v[1 + 1] \in Digits(1)
        BY <1>1, <3>1 DEF OnTree
      <4> QED BY <1>1, <4>1, <4>2, ElementOfSeq
    <3>2. CASE OfRank(v)
      BY <3>2, ElementOfSeq DEF OfRank
    <3> QED BY <1>2, <3>1, <3>2 DEF Shaped
  <2>2. Len(v) \in Nat /\ 1 \in 1 .. Len(v) /\ 2 \in 1 .. Len(v)
    BY <2>1, LenProperties
  <2>3. SubSeq(v, 1, 2) = <<0, v[2]>>
    <3> DEFINE w == <<0, v[2]>>
    <3>1. w \in Seq(Int) /\ Len(w) = 2 /\ w[1] = 0 /\ w[2] = v[2]
      BY <2>1
    <3> HIDE DEF w
    <3>2. /\ SubSeq(v, 1, 2) \in Seq(Int) /\ Len(SubSeq(v, 1, 2)) = 2
          /\ \A i \in 1 .. 2 : SubSeq(v, 1, 2)[i] = v[i]
      BY <2>1, <2>2, Prefix
    <3>3. \A i \in 1 .. 2 : i = 1 \/ i = 2
      OBVIOUS
    <3>4. \A i \in 1 .. 2 : SubSeq(v, 1, 2)[i] = w[i]
      BY <2>1, <3>1, <3>2, <3>3
    <3>5. SubSeq(v, 1, 2) = w
      BY <3>1, <3>2, <3>4, SeqEqual
    <3> QED BY <3>5 DEF w
  <2>4. SubSeq(v, 1, 1) = <<0>>
    <3> DEFINE w == <<0>>
    <3>1. w \in Seq(Int) /\ Len(w) = 1 /\ w[1] = 0
      OBVIOUS
    <3> HIDE DEF w
    <3>2. /\ SubSeq(v, 1, 1) \in Seq(Int) /\ Len(SubSeq(v, 1, 1)) = 1
          /\ \A i \in 1 .. 1 : SubSeq(v, 1, 1)[i] = v[i]
      BY <2>1, <2>2, Prefix
    <3>3. \A i \in 1 .. 1 : SubSeq(v, 1, 1)[i] = w[i]
      BY <2>1, <3>1, <3>2
    <3>4. SubSeq(v, 1, 1) = w
      BY <3>1, <3>2, <3>3, SeqEqual
    <3> QED BY <3>4 DEF w
  <2>5. <<0, v[2]>> \in Ranks
    BY <1>1, <2>1 DEF Ranks, Digits
  <2>6. /\ SubSeq(v, 1, 1) \in PathOf(v) /\ SubSeq(v, 1, 2) \in PathOf(v)
        /\ SubSeq(v, 1, 2) \in Tree
    <3>1. 1 \in 1 .. D /\ 2 \in 1 .. D /\ 1 \in 1 .. 2 /\ 2 \in 1 .. 2
      BY <1>1
    <3>2. CASE OnTree(v)
      BY <3>1, <3>2, TreePath
    <3>3. CASE OfRank(v)
      BY <3>1, <3>3, RankPath
    <3> QED BY <1>2, <3>2, <3>3 DEF Shaped
  <2> QED BY <2>3, <2>4, <2>5, <2>6 DEF RankOf
<1>3. ASSUME NEW r \in RankNumbers
      PROVE  <<0, r>> \in Tree /\ Len(<<0, r>>) = 2 /\ Above(<<0, r>>) = <<0>>
  <2> DEFINE v == <<0, r, -1, -1, -1, -1>>
  <2>1. r \in Int /\ r \in Digits(1)
    BY <1>1, SizeFacts DEF RankNumbers, Digits
  <2>2. OfRank(v) /\ v[2] = r
    BY <2>1 DEF OfRank
  <2> HIDE DEF v
  <2>3. Shaped(v) /\ v \in Seq(Int) /\ 2 \in 1 .. Len(v)
    BY <2>2 DEF Shaped, OfRank
  <2>4. SubSeq(v, 1, 2) = <<0, r>> /\ <<0, r>> \in Tree /\ SubSeq(v, 1, 1) = <<0>>
    BY <1>2, <2>2, <2>3 DEF RankOf
  <2>5. Above(<<0, r>>) = <<0>>
    <3>1. SubSeq(SubSeq(v, 1, 2), 1, 1) = SubSeq(v, 1, 1)
      BY <2>3, PrefixOfPrefix
    <3>2. Len(<<0, r>>) - 1 = 1
      OBVIOUS
    <3> QED BY <2>4, <3>1, <3>2 DEF Above, Front
  <2> QED BY <2>4, <2>5
<1>4. Ranks = {<<0, r>> : r \in RankNumbers}
  BY DEF Ranks, RankNumbers
<1> QED BY <1>2, <1>3, <1>4

\* No time of a node goes back, and each row that applies is heeded.
LEMMA HeldBackGrows ==
  ASSUME NEW node, NEW cmd, NEW hist, NEW now, NEW rows, NEW c \in Issued,
         next[node][c] \in Int, NEW B \in Int,
         \A e \in rows : /\ Past(e, node, cmd, hist, now) + e.val \in Int
                         /\ Past(e, node, cmd, hist, now) + e.val <= B
  PROVE  LET h == HeldBack(node, cmd, hist, now, rows)[c]
         IN  /\ h \in Int /\ next[node][c] <= h
             /\ \A e \in rows : c \in e.to => Past(e, node, cmd, hist, now) + e.val <= h
<1> DEFINE until(e) == Past(e, node, cmd, hist, now) + e.val
           S == {next[node][c]} \cup {until(e) : e \in {e \in rows : c \in e.to}}
           h == HeldBack(node, cmd, hist, now, rows)[c]
<1>1. h = Max(S)
  BY DEF HeldBack
<1>2. \A e \in rows : until(e) \in Int /\ until(e) <= B
  OBVIOUS
<1> HIDE DEF h, until
<1>3. S \in SUBSET Int /\ S # {} /\ next[node][c] \in S
  BY <1>2
<1>4. PICK m \in Int : B <= m /\ next[node][c] <= m
  <2> DEFINE m == IF B <= next[node][c] THEN next[node][c] ELSE B
  <2>1. m \in Int /\ B <= m /\ next[node][c] <= m
    OBVIOUS
  <2> QED BY <2>1
<1>5. \A x \in S : x <= m
  <2> TAKE x \in S
  <2>1. CASE x = next[node][c]
    BY <1>4, <2>1
  <2>2. ASSUME NEW e \in rows, x = until(e) PROVE x <= m
    <3>1. until(e) \in Int /\ until(e) <= B /\ B <= m
      BY <1>2, <1>4
    <3> QED BY <2>2, <3>1
  <2> QED BY <2>1, <2>2
<1>6. \A e \in rows : c \in e.to => until(e) \in S
  OBVIOUS
<1> HIDE DEF S
<1>7. Max(S) \in S /\ \A y \in S : y <= Max(S)
  BY <1>3, <1>5, MaxOf
<1>8. h \in Int /\ next[node][c] <= h /\ \A e \in rows : c \in e.to => until(e) <= h
  BY <1>1, <1>3, <1>6, <1>7
<1> QED BY <1>8 DEF h, until

HistoryOf(now) == [Ranks -> [Opening \cap Issued -> Seq(0 .. now)]]

\* Longer clocks make no difference to the history.
LEMMA HistoryStays ==
  ASSUME clk \in Nat, NEW h \in HistoryOf(clk), NEW now \in Nat, clk <= now
  PROVE  h \in HistoryOf(now)
<1>1. 0 .. clk \subseteq 0 .. now
  OBVIOUS
<1>2. Seq(0 .. clk) \subseteq Seq(0 .. now)
  BY <1>1, SeqMonotonic
<1> QED BY <1>2 DEF HistoryOf

\* An activate comes first in the history of its rank and moves the others on.
LEMMA HistoryStep ==
  ASSUME Known, clk \in Nat, prev \in HistoryOf(clk), NEW cmd \in Issued, NEW vec, Shaped(vec)
  PROVE  LET h == HistoryAfter(cmd, vec, Now)
             rank == RankOf(vec)
         IN  /\ h \in HistoryOf(Now)
             /\ \A r \in Ranks, a \in Opening \cap Issued :
                   a # cmd \/ r # rank => h[r][a] = prev[r][a]
             /\ cmd \in Opening =>
                   /\ Len(h[rank][cmd]) \in Nat \ {0} /\ h[rank][cmd][1] = Now
                   /\ \A k \in 1 .. Len(prev[rank][cmd]) : k + 1 <= standard.longest =>
                         /\ k + 1 <= Len(h[rank][cmd])
                         /\ h[rank][cmd][k + 1] = prev[rank][cmd][k]
<1> DEFINE h == HistoryAfter(cmd, vec, Now)
           rank == RankOf(vec)
<1>1. Now \in Nat /\ clk <= Now
  BY DEF Now
<1>2. CASE cmd \notin Opening
  <2>1. h = prev
    BY <1>2 DEF HistoryAfter
  <2>2. prev \in HistoryOf(Now)
    BY <1>1, HistoryStays
  <2> QED BY <1>2, <2>1, <2>2
<1>3. CASE cmd \in Opening
  <2> DEFINE old == prev[rank][cmd]
             longer == <<Now>> \o old
             m == Min({Len(longer), standard.longest})
             new == SubSeq(longer, 1, m)
  <2>1. rank \in Ranks /\ cmd \in Opening \cap Issued
    BY <1>3, RankNodes
  <2>2. prev \in HistoryOf(Now)
    BY <1>1, HistoryStays
  <2>3. old \in Seq(0 .. Now) /\ Len(old) \in Nat
    BY <2>1, <2>2, LenProperties DEF HistoryOf
  <2>4. standard.longest \in Nat \ {0}
    <3>1. standard.longest = TheStandard(standard.name).longest
      BY DEF Known
    <3> QED BY <3>1, TablesBounded DEF Known
  <2>5. h = [prev EXCEPT ![rank][cmd] = new]
    BY <1>3 DEF HistoryAfter
  <2> HIDE DEF old, h, rank
  <2>6. /\ longer \in Seq(0 .. Now) /\ Len(longer) = 1 + Len(old)
        /\ \A i \in 1 .. 1 + Len(old) : longer[i] = IF i <= 1 THEN <<Now>>[i] ELSE old[i - 1]
    <3>1. <<Now>> \in Seq(0 .. Now) /\ Len(<<Now>>) = 1
      BY <1>1
    <3> QED BY <2>3, <3>1, ConcatProperties
  <2>7. longer[1] = Now /\ \A k \in 1 .. Len(old) : longer[k + 1] = old[k]
    <3>1. 1 \in 1 .. 1 + Len(old) /\ <<Now>>[1] = Now
      BY <2>3
    <3>2. \A k \in 1 .. Len(old) : k + 1 \in 1 .. 1 + Len(old) /\ ~(k + 1 <= 1) /\ (k + 1) - 1 = k
      BY <2>3
    <3> HIDE DEF longer
    <3> QED BY <2>6, <3>1, <3>2
  <2> HIDE DEF longer
  <2>8. m \in {Len(longer), standard.longest} /\ m <= Len(longer) /\ m <= standard.longest
    <3> DEFINE S == {Len(longer), standard.longest}
    <3>1. Len(longer) \in Nat /\ standard.longest \in Nat
      BY <2>3, <2>4, <2>6
    <3>2. \E x \in S : \A y \in S : x <= y
      BY <3>1
    <3>3. Min(S) \in S /\ \A y \in S : Min(S) <= y
      BY <3>2 DEF Min
    <3> QED BY <3>3
  <2>9. m \in 1 .. Len(longer) /\ Len(longer) \in Nat
    BY <2>3, <2>4, <2>6, <2>8
  <2> HIDE DEF m
  <2>10. /\ new \in Seq(0 .. Now) /\ Len(new) = m
         /\ \A i \in 1 .. m : new[i] = longer[i]
    <3>1. \A i \in 1 .. m : longer[i] \in 0 .. Now
      <4> TAKE i \in 1 .. m
      <4>1. i \in 1 .. Len(longer)
        BY <2>9
      <4> QED BY <2>6, <4>1, ElementOfSeq
    <3>2. m \in Int /\ 1 <= m /\ m - 1 + 1 = m
      BY <2>9
    <3>3. /\ new \in Seq(0 .. Now) /\ Len(new) = IF 1 <= m THEN m - 1 + 1 ELSE 0
          /\ \A i \in 1 .. m - 1 + 1 : new[i] = longer[1 + i - 1]
      BY <3>1, <3>2, SubSeqProperties
    <3>4. \A i \in 1 .. m : 1 + i - 1 = i
      BY <3>2
    <3> HIDE DEF new
    <3> QED BY <3>2, <3>3, <3>4
  <2> HIDE DEF new
  <2>11. [prev[rank] EXCEPT ![cmd] = new] \in [Opening \cap Issued -> Seq(0 .. Now)]
    <3>1. prev[rank] \in [Opening \cap Issued -> Seq(0 .. Now)]
      BY <2>1, <2>2 DEF HistoryOf, rank
    <3> QED BY <2>10, <3>1
  <2>12. h = [prev EXCEPT ![rank] = [prev[rank] EXCEPT ![cmd] = new]]
    BY <2>5
  <2>13. h \in HistoryOf(Now)
    BY <2>2, <2>11, <2>12 DEF HistoryOf
  <2>14. h[rank][cmd] = new
    <3>1. rank \in DOMAIN prev /\ cmd \in DOMAIN prev[rank]
      BY <2>1, <2>2 DEF HistoryOf, rank
    <3> QED BY <2>12, <3>1
  <2>15. \A r \in Ranks, a \in Opening \cap Issued : a # cmd \/ r # rank => h[r][a] = prev[r][a]
    BY <2>2, <2>12 DEF HistoryOf
  <2>16. Len(new) \in Nat \ {0} /\ new[1] = Now
    <3>1. 1 \in 1 .. m
      BY <2>9
    <3> QED BY <2>7, <2>9, <2>10, <3>1
  <2>17. \A k \in 1 .. Len(old) : k + 1 <= standard.longest =>
            k + 1 <= Len(new) /\ new[k + 1] = old[k]
    <3> TAKE k \in 1 .. Len(old)
    <3> HAVE k + 1 <= standard.longest
    <3>1. k + 1 <= Len(longer) /\ k + 1 \in Nat
      BY <2>3, <2>6
    <3>2. k + 1 <= m
      BY <2>8, <3>1
    <3>3. k + 1 \in 1 .. m
      BY <2>9, <3>1, <3>2
    <3> QED BY <2>7, <2>10, <3>2, <3>3
  <2> QED BY <2>13, <2>14, <2>15, <2>16, <2>17 DEF old, h, rank
<1> QED BY <1>2, <1>3

NextTyped == next \in [Tree -> [Issued -> Int]]

\* What the table in force says of a command is typed, and bounded.
LEMMA RowFacts ==
  ASSUME Known, NEW t \in {"first", "later"}, NEW k \in 1 .. D, NEW c \in Issued,
         NEW e \in RowsAt[standard.name][t][k][c]
  PROVE  /\ e.val \in Int /\ e.val <= standard.nREFI /\ standard.nREFI \in Nat
         /\ e.dist \in Nat /\ e.dist <= standard.longest /\ standard.longest \in Nat
         /\ e.dist # 1 => e.dist > 1 /\ k = 2 /\ ~e.sibling /\ c \in Opening /\ e.from = {c}
<1>1. /\ standard.name \in Standards /\ Issued = Specs[standard.name].issued
      /\ standard.nREFI = Specs[standard.name].nREFI
      /\ standard.longest = TheStandard(standard.name).longest
      /\ standard.levels = Levels(standard.name)
  BY StandardFields DEF Known, Issued
<1>2. k \in LevelsOf(standard.name)
  BY <1>1 DEF LevelsOf, D
<1>3. /\ TheStandard(standard.name).longest \in Nat \ {0}
      /\ e.val \in Int /\ e.val <= Specs[standard.name].nREFI
      /\ e.dist \in 1 .. TheStandard(standard.name).longest
      /\ e.dist > 1 => k = 2 /\ ~e.sibling /\ c \in Opening /\ e.from = {c}
  BY <1>1, <1>2, TablesBounded
<1>4. Specs[standard.name].nREFI \in Nat
  BY <1>1, CommandsKnown
<1> QED BY <1>1, <1>3, <1>4

\* update_timing(): what a command does to the times of the nodes.
LEMMA NextStep ==
  ASSUME Known, clk \in Nat, NextTyped, table' \in {"first", "later"}, standard' = standard,
         NEW cmd \in Issued, NEW vec, Shaped(vec), NEW h \in HistoryOf(Now),
         NEW node \in Tree, NEW c \in Issued
  PROVE  LET new == NextOf(node, cmd, vec, Now, h)[c]
             rows == RowsAt[standard.name][table'][Len(node)][cmd]
         IN  /\ new \in Int /\ next[node][c] <= new
             /\ \A e \in rows : c \in e.to =>
                   /\ node \in PathOf(vec) /\ ~e.sibling /\ e.dist = 1 => Now + e.val <= new
                   /\ node \in PathOf(vec) /\ ~e.sibling /\ e.dist > 1
                      /\ Len(h[node][cmd]) >= e.dist => h[node][cmd][e.dist] + e.val <= new
                   /\ node \notin PathOf(vec) /\ Len(node) > 1 /\ Above(node) \in PathOf(vec)
                      /\ e.sibling => Now + e.val <= new
<1> DEFINE new == NextOf(node, cmd, vec, Now, h)[c]
           rows == RowsAt[standard.name][table'][Len(node)][cmd]
           B == Now + standard.nREFI
<1>1. next[node][c] \in Int
  BY DEF NextTyped
<1>2. Now \in Nat
  BY DEF Now
<1>3. Len(node) \in 1 .. D
  BY TreeNode
<1>4. ASSUME NEW e \in rows
      PROVE  /\ e.val \in Int /\ e.val <= standard.nREFI /\ standard.nREFI \in Nat /\ e.dist \in Nat
             /\ e.dist # 1 => e.dist > 1 /\ Len(node) = 2 /\ ~e.sibling /\ cmd \in Opening
  <2>1. PICK k \in 1 .. D : k = Len(node)
    BY <1>3
  <2>2. PICK t \in {"first", "later"} : t = table'
    OBVIOUS
  <2>3. e \in RowsAt[standard.name][t][k][cmd]
    BY <2>1, <2>2
  <2> HIDE DEF rows
  <2> QED BY <2>1, <2>3, RowFacts
<1>5. standard.nREFI \in Nat /\ B \in Int
  <2>1. standard.nREFI = Specs[standard.name].nREFI /\ standard.name \in Standards
    BY StandardFields DEF Known
  <2>2. standard.nREFI \in Nat
    BY <2>1, CommandsKnown
  <2> QED BY <1>2, <2>2
<1>6. CASE node \in PathOf(vec)
  <2> DEFINE own == OwnRows(node, cmd, h)
  <2>1. own = {e \in rows : ~e.sibling /\ (e.dist = 1 \/ Len(h[node][cmd]) >= e.dist)}
    BY DEF OwnRows
  <2>2. new = HeldBack(node, cmd, h, Now, own)[c]
    BY <1>6 DEF NextOf, IsTarget
  <2>3. ASSUME NEW e \in own
        PROVE  /\ Past(e, node, cmd, h, Now) + e.val \in Int
               /\ Past(e, node, cmd, h, Now) + e.val <= B
    <3>1. e \in rows /\ (e.dist = 1 \/ Len(h[node][cmd]) >= e.dist)
      BY <2>1
    <3>2. Past(e, node, cmd, h, Now) \in 0 .. Now
      <4>1. CASE e.dist = 1
        BY <1>2, <4>1 DEF Past
      <4>2. CASE e.dist # 1
        <5>1. Len(node) = 2 /\ cmd \in Opening \cap Issued /\ e.dist > 1 /\ e.dist \in Nat
          BY <1>4, <3>1, <4>2
        <5>2. node = RankOf(vec)
          <6>1. PICK k \in 1 .. D : node = SubSeq(vec, 1, k) /\ Len(node) = k
            BY <1>6, PathInTree
          <6> QED BY <5>1, <6>1 DEF RankOf
        <5>3. node \in Ranks
          BY <5>2, RankNodes
        <5>4. h[node][cmd] \in Seq(0 .. Now)
          BY <5>1, <5>3 DEF HistoryOf
        <5>5. e.dist \in 1 .. Len(h[node][cmd])
          BY <3>1, <5>1, <5>4, LenProperties
        <5>6. h[node][cmd][e.dist] \in 0 .. Now
          BY <5>4, <5>5, ElementOfSeq
        <5> QED BY <4>2, <5>6 DEF Past
      <4> QED BY <4>1, <4>2
    <3>3. PICK p \in 0 .. Now : p = Past(e, node, cmd, h, Now)
      BY <3>2
    <3> HIDE DEF rows, own
    <3>4. e.val \in Int /\ e.val <= standard.nREFI
      BY <1>4, <3>1
    <3> QED BY <1>2, <1>5, <3>3, <3>4
  <2> HIDE DEF own, B, new
  <2>4. /\ new \in Int /\ next[node][c] <= new
        /\ \A e \in own : c \in e.to => Past(e, node, cmd, h, Now) + e.val <= new
    BY <1>1, <1>5, <2>2, <2>3, HeldBackGrows
  <2>5. ASSUME NEW e \in rows, c \in e.to, ~e.sibling,
               e.dist = 1 \/ Len(h[node][cmd]) >= e.dist
        PROVE  Past(e, node, cmd, h, Now) + e.val <= new
    BY <2>1, <2>4, <2>5
  <2>6. \A e \in rows : /\ e.dist = 1 => Past(e, node, cmd, h, Now) = Now
                        /\ e.dist > 1 => Past(e, node, cmd, h, Now) = h[node][cmd][e.dist]
    BY <1>4 DEF Past
  <2> HIDE DEF rows
  <2>7. \A e \in rows : c \in e.to /\ ~e.sibling =>
           /\ e.dist = 1 => Now + e.val <= new
           /\ e.dist > 1 /\ Len(h[node][cmd]) >= e.dist => h[node][cmd][e.dist] + e.val <= new
    BY <2>5, <2>6
  <2> QED BY <1>6, <2>4, <2>7 DEF new, rows
<1>7. CASE node \notin PathOf(vec) /\ Len(node) > 1 /\ Above(node) \in PathOf(vec)
  <2> DEFINE sibling == SiblingRows(node, cmd)
  <2>1. sibling = {e \in rows : e.sibling}
    BY DEF SiblingRows
  <2>2. new = HeldBack(node, cmd, h, Now, sibling)[c]
    BY <1>7 DEF NextOf, IsTarget, IsNextToTarget
  <2>3. \A e \in sibling : e \in rows /\ e.dist = 1 /\ Past(e, node, cmd, h, Now) = Now
    BY <1>4, <2>1 DEF Past
  <2> HIDE DEF sibling, new, rows
  <2>4. \A e \in sibling : /\ Past(e, node, cmd, h, Now) + e.val \in Int
                           /\ Past(e, node, cmd, h, Now) + e.val <= B
    BY <1>2, <1>4, <1>5, <2>3
  <2> HIDE DEF B
  <2>5. /\ new \in Int /\ next[node][c] <= new
        /\ \A e \in sibling : c \in e.to => Past(e, node, cmd, h, Now) + e.val <= new
    BY <1>1, <1>5, <2>2, <2>4, HeldBackGrows
  <2>6. \A e \in rows : c \in e.to /\ e.sibling => Now + e.val <= new
    BY <2>1, <2>3, <2>5
  <2> QED BY <1>7, <2>5, <2>6 DEF new, rows
<1>8. CASE node \notin PathOf(vec) /\ ~(Len(node) > 1 /\ Above(node) \in PathOf(vec))
  <2>1. new = next[node][c]
    BY <1>8 DEF NextOf, IsTarget, IsNextToTarget
  <2> HIDE DEF new, rows
  <2>2. new \in Int /\ next[node][c] <= new
    BY <1>1, <2>1
  <2> QED BY <1>8, <2>2 DEF new, rows
<1> QED BY <1>6, <1>7, <1>8

-----------------------------------------------------------------------------
(* The inductive invariant.                                                *)

\* The commands issued: where they may go, and one in a cycle.
CommandSet == [cmd : Issued, vec : Seq(Int), clk : Nat, id : Nat]
CommandsInOrder ==
  /\ issued \in Seq(CommandSet)
  /\ \A i \in DOMAIN issued : ShapeFor(issued[i].cmd, issued[i].vec) /\ issued[i].clk <= clk
  /\ \A i, j \in DOMAIN issued : i < j => issued[i].clk < issued[j].clk

WellTyped ==
  /\ Known /\ table \in {"first", "later"} /\ clk \in Nat
  /\ readq \in Seq(Requests) /\ writeq \in Seq(Requests) /\ actq \in Seq(Requests)
  /\ otherq \in Seq(RefreshRequests) /\ pending \in Seq(Requests)
  /\ loads \in Seq(Requests) /\ stores \in Seq(Requests)
  /\ work \in Seq([id : Nat, type : {"READ", "WRITE"}, addr : Nat])
  /\ write_mode \in BOOLEAN /\ plan \in PlanRecord
  /\ Leaves = LeafNodes(standard.sizes)
  /\ NextTyped /\ prev \in HistoryOf(clk)
  /\ CommandsInOrder

\* The nodes on the way of a command remember what its rows want, and so do the
\* ranks next to its own.
Later(k, a) == RowsAt[standard.name]["later"][k][a]
NodeOf(i, k) == SubSeq(issued[i].vec, 1, k)
OwnHeld ==
  \A i \in DOMAIN issued, k \in 1 .. D : NodeOf(i, k) \in PathOf(issued[i].vec) =>
    \A e \in Later(k, issued[i].cmd), c \in Issued :
      c \in e.to /\ ~e.sibling /\ e.dist = 1 => issued[i].clk + e.val <= next[NodeOf(i, k)][c]
SiblingHeld ==
  \A i \in DOMAIN issued : \A node \in Ranks \ {RankOf(issued[i].vec)} :
    \A e \in Later(2, issued[i].cmd), c \in Issued :
      c \in e.to /\ e.sibling => issued[i].clk + e.val <= next[node][c]

\* The n-th last of the activates of a rank is the n-th of its history, and a
\* rank remembers what the rows want that look as far back.
Again(i) == {k \in i .. Len(issued) : issued[k].cmd = issued[i].cmd /\ SameRank(i, k)}
HistoryKept ==
  \A i \in DOMAIN issued :
    issued[i].cmd \in Opening /\ Cardinality(Again(i)) <= standard.longest =>
      /\ Cardinality(Again(i)) \in 1 .. Len(prev[RankOf(issued[i].vec)][issued[i].cmd])
      /\ prev[RankOf(issued[i].vec)][issued[i].cmd][Cardinality(Again(i))] = issued[i].clk
WindowHeld ==
  \A i \in DOMAIN issued : \A e \in Later(2, issued[i].cmd), c \in Issued :
    c \in e.to /\ e.dist > 1 /\ e.dist <= Cardinality(Again(i)) =>
      issued[i].clk + e.val <= next[RankOf(issued[i].vec)][c]

IInv ==
  WellTyped /\ OwnHeld /\ SiblingHeld /\ HistoryKept /\ WindowHeld /\ RestKept /\ BurstsApart

-----------------------------------------------------------------------------
(* A cycle that issues a command.                                          *)

\* What has been shown of a command when it is issued: x is what was checked.
Issuing(cmd, vec, id, x) ==
  /\ cmd \in Issued /\ ShapeFor(cmd, vec) /\ id \in Nat
  /\ x \in Issued /\ x \in CheckedFor(standard.name, cmd) /\ CanIssue(x, vec, Now)
  /\ Issue(cmd, vec, id)
InCycle == clk' = Now /\ standard' = standard /\ table' \in {"first", "later"}

\* The commands so far, and the one after them.
LEMMA Appended ==
  ASSUME WellTyped, InCycle, NEW cmd, NEW vec, NEW id, NEW x, Issuing(cmd, vec, id, x)
  PROVE  LET n == Len(issued)
         IN  /\ n \in Nat /\ DOMAIN issued = 1 .. n /\ DOMAIN issued' = 1 .. n + 1
             /\ Len(issued') = n + 1
             /\ \A i \in 1 .. n : issued'[i] = issued[i] /\ issued[i] \in CommandSet
             /\ issued'[n + 1] = [cmd |-> cmd, vec |-> vec, clk |-> Now, id |-> id]
             /\ issued' \in Seq(CommandSet) /\ Shaped(vec) /\ vec \in Seq(Int) /\ Now \in Nat
<1> DEFINE new == [cmd |-> cmd, vec |-> vec, clk |-> Now, id |-> id]
<1>1. Now \in Nat
  BY DEF WellTyped, Now
<1>2. Shaped(vec) /\ vec \in Seq(Int)
  BY DEF Issuing, ShapeFor, Shaped, OnTree, OfRank
<1>3. new \in CommandSet
  BY <1>1, <1>2 DEF CommandSet, Issuing
<1>4. issued \in Seq(CommandSet) /\ issued' = Append(issued, new)
  BY DEF WellTyped, CommandsInOrder, Issuing, Issue
<1> HIDE DEF new
<1>5. /\ Len(issued) \in Nat /\ DOMAIN issued = 1 .. Len(issued)
      /\ \A i \in 1 .. Len(issued) : issued[i] \in CommandSet
  BY <1>4, LenProperties, ElementOfSeq
<1>6. /\ issued' \in Seq(CommandSet) /\ Len(issued') = Len(issued) + 1
      /\ \A i \in 1 .. Len(issued) : issued'[i] = issued[i]
      /\ issued'[Len(issued) + 1] = new
  BY <1>3, <1>4, AppendProperties
<1>7. DOMAIN issued' = 1 .. Len(issued) + 1
  BY <1>6, LenProperties
<1> QED BY <1>1, <1>2, <1>5, <1>6, <1>7 DEF new

\* The commands stay in order.
LEMMA OrderStep ==
  ASSUME WellTyped, InCycle, NEW cmd, NEW vec, NEW id, NEW x, Issuing(cmd, vec, id, x)
  PROVE  CommandsInOrder'
<1> DEFINE n == Len(issued)
<1>1. /\ n \in Nat /\ DOMAIN issued = 1 .. n /\ DOMAIN issued' = 1 .. n + 1
      /\ \A i \in 1 .. n : issued'[i] = issued[i] /\ issued[i] \in CommandSet
      /\ issued'[n + 1] = [cmd |-> cmd, vec |-> vec, clk |-> Now, id |-> id]
      /\ issued' \in Seq(CommandSet) /\ Now \in Nat
  BY Appended
<1> HIDE DEF n
<1>2. /\ \A i \in 1 .. n : ShapeFor(issued[i].cmd, issued[i].vec) /\ issued[i].clk <= clk
      /\ \A i, j \in 1 .. n : i < j => issued[i].clk < issued[j].clk
  BY <1>1 DEF WellTyped, CommandsInOrder
<1>3. \A i \in 1 .. n : issued[i].clk \in Nat
  BY <1>1 DEF CommandSet
<1>4. clk \in Nat /\ Now = clk + 1 /\ clk' = Now /\ CommandSet' = CommandSet
  BY DEF WellTyped, Now, InCycle, CommandSet, Issued
<1>5. \A i \in 1 .. n + 1 : issued'[i].clk <= clk'
  <2> TAKE i \in 1 .. n + 1
  <2>1. CASE i \in 1 .. n
    BY <1>1, <1>2, <1>3, <1>4, <2>1
  <2>2. CASE i = n + 1
    BY <1>1, <1>4, <2>2
  <2> QED BY <1>1, <2>1, <2>2
<1>6. ASSUME NEW i \in 1 .. n + 1
      PROVE  ShapeFor(issued[i].cmd, issued[i].vec)'
  <2>1. PICK c, v : c = issued'[i].cmd /\ v = issued'[i].vec
    OBVIOUS
  <2>2. ShapeFor(c, v)
    <3>1. CASE i \in 1 .. n
      BY <1>1, <1>2, <2>1, <3>1
    <3>2. CASE i = n + 1
      BY <1>1, <2>1, <3>2 DEF Issuing
    <3> QED BY <1>1, <3>1, <3>2
  <2>3. standard' = standard
    BY DEF InCycle
  <2> QED BY <2>1, <2>2, <2>3 DEF ShapeFor, OfRank, OnTree, Digits, D
<1>7. ASSUME NEW i \in 1 .. n + 1, NEW j \in 1 .. n + 1, i < j
      PROVE  issued'[i].clk < issued'[j].clk
  <2>1. i \in 1 .. n
    BY <1>1, <1>7
  <2>2. CASE j \in 1 .. n
    BY <1>1, <1>2, <1>7, <2>1, <2>2
  <2>3. CASE j = n + 1
    BY <1>1, <1>2, <1>3, <1>4, <2>1, <2>3
  <2> QED BY <1>1, <2>2, <2>3
<1> QED BY <1>1, <1>4, <1>5, <1>6, <1>7 DEF CommandsInOrder

\* The table in force has a row as strict as each of the later ones.
LEMMA StricterRow ==
  ASSUME Known, table' \in {"first", "later"}, NEW k \in 1 .. D, NEW a \in Issued,
         NEW e \in Later(k, a), NEW c \in Issued, c \in e.to
  PROVE  \E f \in RowsAt[standard.name][table'][k][a] :
           /\ c \in f.to /\ f.dist = e.dist /\ (f.sibling <=> e.sibling) /\ e.val <= f.val
           /\ e.val \in Int /\ f.val \in Int /\ e.dist \in Nat
           /\ e.dist # 1 => e.dist > 1 /\ k = 2 /\ ~e.sibling /\ a \in Opening /\ e.from = {a}
<1>1. /\ standard.name \in Standards /\ Issued = Specs[standard.name].issued
      /\ k \in LevelsOf(standard.name)
  BY StandardFields DEF Known, Issued, LevelsOf, D
<1>2. e \in RowsAt[standard.name]["later"][k][a]
  BY DEF Later
<1>3. /\ e.val \in Int /\ e.dist \in Nat
      /\ e.dist # 1 => e.dist > 1 /\ k = 2 /\ ~e.sibling /\ a \in Opening /\ e.from = {a}
  BY <1>2, RowFacts
<1>4. CASE table' = "later"
  BY <1>2, <1>3, <1>4
<1>5. CASE table' = "first"
  <2>1. PICK f \in RowsAt[standard.name]["first"][k][a] : AsStrict(e, f, c)
    BY <1>1, <1>2, TablesOrdered DEF RowsAfterCommand
  <2>2. f.val \in Int
    BY RowFacts
  <2> QED BY <1>3, <1>5, <2>1, <2>2 DEF AsStrict
<1> QED BY <1>4, <1>5

\* The times after a command: none goes back, and the later rows are heeded.
LEMMA TimesStep ==
  ASSUME WellTyped, InCycle, NEW cmd, NEW vec, NEW id, NEW x, Issuing(cmd, vec, id, x)
  PROVE  /\ prev' = HistoryAfter(cmd, vec, Now) /\ prev' \in HistoryOf(Now)
         /\ next' \in [Tree -> [Issued -> Int]]
         /\ \A node \in Tree, c \in Issued :
               /\ next[node][c] \in Int /\ next'[node][c] \in Int
               /\ next[node][c] <= next'[node][c]
<1>1. Known /\ clk \in Nat /\ NextTyped /\ prev \in HistoryOf(clk)
  BY DEF WellTyped
<1>2. cmd \in Issued /\ Shaped(vec)
  BY Appended DEF Issuing
<1>3. /\ prev' = HistoryAfter(cmd, vec, Now)
      /\ next' = [node \in DOMAIN next |-> NextOf(node, cmd, vec, Now, prev')]
  BY DEF Issuing, Issue, Update
<1>4. HistoryAfter(cmd, vec, Now) \in HistoryOf(Now)
  BY <1>1, <1>2, HistoryStep
<1>5. PICK h \in HistoryOf(Now) : h = prev'
  BY <1>3, <1>4
<1>6. next' = [node \in Tree |-> NextOf(node, cmd, vec, Now, h)]
  BY <1>1, <1>3, <1>5 DEF NextTyped
<1>7. ASSUME NEW node \in Tree, NEW c \in Issued
      PROVE  /\ NextOf(node, cmd, vec, Now, h)[c] \in Int
             /\ next[node][c] <= NextOf(node, cmd, vec, Now, h)[c]
  <2>1. table' \in {"first", "later"} /\ standard' = standard
    BY DEF InCycle
  <2> QED BY <1>1, <1>2, <2>1, NextStep
<1>8. ASSUME NEW node \in Tree PROVE NextOf(node, cmd, vec, Now, h) \in [Issued -> Int]
  <2>1. next[node] \in [Issued -> Int]
    BY <1>1 DEF NextTyped
  <2>2. NextOf(node, cmd, vec, Now, h) = [c \in Issued |-> NextOf(node, cmd, vec, Now, h)[c]]
    <3>1. \A r : HeldBack(node, cmd, h, Now, r) = [c \in Issued |-> HeldBack(node, cmd, h, Now, r)[c]]
      BY DEF HeldBack
    <3>2. next[node] = [c \in Issued |-> next[node][c]]
      BY <2>1
    <3>3. \/ NextOf(node, cmd, vec, Now, h) = next[node]
          \/ \E r : NextOf(node, cmd, vec, Now, h) = HeldBack(node, cmd, h, Now, r)
      BY DEF NextOf
    <3> QED BY <3>1, <3>2, <3>3
  <2> QED BY <1>7, <2>2
<1>9. next' \in [Tree -> [Issued -> Int]]
  BY <1>6, <1>8
<1>10. \A node \in Tree, c \in Issued : next[node][c] \in Int /\ next[node][c] <= next'[node][c]
  BY <1>1, <1>6, <1>7 DEF NextTyped
<1> QED BY <1>3, <1>4, <1>9, <1>10

\* What a command makes its own nodes, its rank and the other ranks wait for.
LEMMA HeldStep ==
  ASSUME WellTyped, InCycle, NEW cmd, NEW vec, NEW id, NEW x, Issuing(cmd, vec, id, x),
         NEW k \in 1 .. D, NEW e \in Later(k, cmd), NEW c \in Issued, c \in e.to
  PROVE  /\ SubSeq(vec, 1, k) \in PathOf(vec) /\ ~e.sibling /\ e.dist = 1 =>
              Now + e.val <= next'[SubSeq(vec, 1, k)][c]
         /\ e.dist > 1 /\ e.dist <= Len(prev'[RankOf(vec)][cmd]) =>
              prev'[RankOf(vec)][cmd][e.dist] + e.val <= next'[RankOf(vec)][c]
         /\ k = 2 /\ e.sibling =>
              \A node \in Ranks : node # RankOf(vec) => Now + e.val <= next'[node][c]
<1>1. Known /\ clk \in Nat /\ NextTyped /\ prev \in HistoryOf(clk)
      /\ table' \in {"first", "later"} /\ standard' = standard
  BY DEF WellTyped, InCycle
<1>2. cmd \in Issued /\ Shaped(vec) /\ vec \in Seq(Int) /\ Now \in Nat
  BY Appended DEF Issuing
<1>3. PICK h \in HistoryOf(Now) : h = prev'
  BY TimesStep
<1>4. next' = [node \in Tree |-> NextOf(node, cmd, vec, Now, h)]
  BY <1>1, <1>3 DEF NextTyped, Issuing, Issue, Update
<1>5. PICK f \in RowsAt[standard.name][table'][k][cmd] :
           /\ c \in f.to /\ f.dist = e.dist /\ (f.sibling <=> e.sibling) /\ e.val <= f.val
           /\ e.val \in Int /\ f.val \in Int /\ e.dist \in Nat
           /\ e.dist # 1 => e.dist > 1 /\ k = 2 /\ ~e.sibling /\ cmd \in Opening /\ e.from = {cmd}
  BY <1>1, <1>2, StricterRow
<1>6. ASSUME NEW node \in Tree, Len(node) = k
      PROVE  LET new == next'[node][c]
             IN  /\ new \in Int
                 /\ node \in PathOf(vec) /\ ~f.sibling /\ f.dist = 1 => Now + f.val <= new
                 /\ node \in PathOf(vec) /\ ~f.sibling /\ f.dist > 1
                    /\ Len(h[node][cmd]) >= f.dist => h[node][cmd][f.dist] + f.val <= new
                 /\ node \notin PathOf(vec) /\ Len(node) > 1 /\ Above(node) \in PathOf(vec)
                    /\ f.sibling => Now + f.val <= new
  <2>1. next'[node][c] = NextOf(node, cmd, vec, Now, h)[c]
    BY <1>4
  <2>2. f \in RowsAt[standard.name][table'][Len(node)][cmd]
    BY <1>6
  <2> QED BY <1>1, <1>2, <1>5, <2>1, <2>2, NextStep
<1>7. SubSeq(vec, 1, k) \in PathOf(vec) /\ ~e.sibling /\ e.dist = 1 =>
        Now + e.val <= next'[SubSeq(vec, 1, k)][c]
  <2> HAVE SubSeq(vec, 1, k) \in PathOf(vec) /\ ~e.sibling /\ e.dist = 1
  <2>1. SubSeq(vec, 1, k) \in Tree /\ Len(SubSeq(vec, 1, k)) = k
    <3>1. PICK m \in 1 .. D : /\ SubSeq(vec, 1, k) = SubSeq(vec, 1, m) /\ SubSeq(vec, 1, k) \in Tree
                              /\ Len(SubSeq(vec, 1, k)) = m
      BY <1>1, <1>2, PathInTree
    <3>2. k \in 1 .. Len(vec)
      BY <1>1, <1>2, ShapedLength
    <3>3. Len(SubSeq(vec, 1, k)) = k
      BY <1>2, <3>2, Prefix
    <3> QED BY <3>1, <3>3
  <2>2. PICK node \in Tree : node = SubSeq(vec, 1, k)
    BY <2>1
  <2>3. next'[node][c] \in Int /\ Now + f.val <= next'[node][c]
    BY <1>5, <1>6, <2>1, <2>2
  <2> QED BY <1>2, <1>5, <2>2, <2>3
<1>8. ASSUME e.dist > 1, e.dist <= Len(prev'[RankOf(vec)][cmd])
      PROVE  prev'[RankOf(vec)][cmd][e.dist] + e.val <= next'[RankOf(vec)][c]
  <2>1. k = 2 /\ ~e.sibling /\ cmd \in Opening \cap Issued
    BY <1>2, <1>5, <1>8
  <2>2. PICK node \in Ranks : node = RankOf(vec)
    BY <1>1, <1>2, RankNodes
  <2>3. node \in Tree /\ Len(node) = 2 /\ node \in PathOf(vec)
    BY <1>1, <1>2, <2>2, RankNodes
  <2>4. h[node][cmd] \in Seq(0 .. Now)
    BY <2>1, <2>2 DEF HistoryOf
  <2>5. e.dist \in 1 .. Len(h[node][cmd])
    BY <1>3, <1>5, <1>8, <2>2, <2>4, LenProperties
  <2>6. h[node][cmd][e.dist] \in 0 .. Now
    BY <2>4, <2>5, ElementOfSeq
  <2>7. next'[node][c] \in Int /\ h[node][cmd][f.dist] + f.val <= next'[node][c]
    <3>1. Len(h[node][cmd]) >= f.dist /\ f.dist > 1 /\ ~f.sibling
      BY <1>3, <1>5, <1>8, <2>1, <2>2, <2>4, LenProperties
    <3> QED BY <1>6, <2>1, <2>3, <3>1
  <2>8. PICK t \in Nat : t = h[node][cmd][e.dist]
    BY <1>2, <2>6
  <2>9. t + e.val <= next'[node][c]
    BY <1>5, <2>7, <2>8
  <2> QED BY <1>3, <2>2, <2>8, <2>9
<1>9. ASSUME k = 2, e.sibling, NEW node \in Ranks, node # RankOf(vec)
      PROVE  Now + e.val <= next'[node][c]
  <2>1. node \in Tree /\ Len(node) = 2 /\ Above(node) \in PathOf(vec)
    BY <1>1, <1>2, RankNodes
  <2>2. node \notin PathOf(vec)
    <3> SUFFICES ASSUME node \in PathOf(vec) PROVE FALSE
      OBVIOUS
    <3>1. PICK m \in 1 .. D : node = SubSeq(vec, 1, m) /\ Len(node) = m
      BY <1>1, <1>2, PathInTree
    <3> QED BY <1>9, <2>1, <3>1 DEF RankOf
  <2>3. next'[node][c] \in Int /\ Now + f.val <= next'[node][c]
    <3>1. f.sibling
      BY <1>5, <1>9, Zenon
    <3>2. Len(node) = k /\ Len(node) > 1
      BY <1>9, <2>1
    <3> QED BY <1>6, <2>1, <2>2, <3>1, <3>2
  <2> QED BY <1>2, <1>5, <2>3
<1> QED BY <1>7, <1>8, <1>9

\* The nodes of the commands so far go on holding back what they did, and those
\* of the new one do.
LEMMA OwnHeldStep ==
  ASSUME WellTyped, OwnHeld, InCycle,
         NEW cmd, NEW vec, NEW id, NEW x, Issuing(cmd, vec, id, x)
  PROVE  OwnHeld'
<1> DEFINE n == Len(issued)
<1>1. /\ n \in Nat /\ DOMAIN issued = 1 .. n /\ DOMAIN issued' = 1 .. n + 1
      /\ \A i \in 1 .. n : issued'[i] = issued[i] /\ issued[i] \in CommandSet
      /\ issued'[n + 1] = [cmd |-> cmd, vec |-> vec, clk |-> Now, id |-> id]
  BY Appended
<1> HIDE DEF n
<1>2. Known /\ standard' = standard
  BY DEF WellTyped, InCycle
<1>3. ASSUME NEW i \in 1 .. n + 1, NEW k \in 1 .. D,
             SubSeq(issued'[i].vec, 1, k) \in PathOf(issued'[i].vec),
             NEW e \in Later(k, issued'[i].cmd), NEW c \in Issued,
             c \in e.to, ~e.sibling, e.dist = 1
      PROVE  issued'[i].clk + e.val <= next'[SubSeq(issued'[i].vec, 1, k)][c]
  <2>1. CASE i \in 1 .. n
    <3>1. issued'[i] = issued[i] /\ issued[i] \in CommandSet
      BY <1>1, <2>1
    <3>2. PICK a, v, t : a = issued[i].cmd /\ v = issued[i].vec /\ t = issued[i].clk
      OBVIOUS
    <3>3. a \in Issued /\ t \in Nat
      BY <3>1, <3>2 DEF CommandSet
    <3>4. Shaped(v)
      BY <1>1, <2>1, <3>2 DEF WellTyped, CommandsInOrder, ShapeFor, Shaped
    <3>5. PICK node \in Tree : node = SubSeq(v, 1, k)
      BY <1>2, <1>3, <3>1, <3>2, <3>4, PathInTree
    <3>6. e.val \in Int
      BY <1>2, <1>3, <3>1, <3>2, <3>3, RowFacts DEF Later
    <3>7. t + e.val <= next[node][c]
      BY <1>1, <1>3, <2>1, <3>1, <3>2, <3>5 DEF OwnHeld, NodeOf
    <3>8. next[node][c] \in Int /\ next'[node][c] \in Int /\ next[node][c] <= next'[node][c]
      BY TimesStep
    <3> QED BY <3>1, <3>2, <3>3, <3>5, <3>6, <3>7, <3>8
  <2>2. CASE i = n + 1
    <3>1. issued'[i].cmd = cmd /\ issued'[i].vec = vec /\ issued'[i].clk = Now
      BY <1>1, <2>2
    <3> QED BY <1>3, <3>1, HeldStep
  <2> QED BY <1>1, <2>1, <2>2
<1> QED BY <1>1, <1>2, <1>3 DEF OwnHeld, NodeOf, PathOf, Later, D, Issued

\* The other ranks go on waiting for what the siblings of a command wait for.
LEMMA SiblingHeldStep ==
  ASSUME WellTyped, SiblingHeld, InCycle,
         NEW cmd, NEW vec, NEW id, NEW x, Issuing(cmd, vec, id, x)
  PROVE  SiblingHeld'
<1> DEFINE n == Len(issued)
<1>1. /\ n \in Nat /\ DOMAIN issued = 1 .. n /\ DOMAIN issued' = 1 .. n + 1
      /\ \A i \in 1 .. n : issued'[i] = issued[i] /\ issued[i] \in CommandSet
      /\ issued'[n + 1] = [cmd |-> cmd, vec |-> vec, clk |-> Now, id |-> id]
  BY Appended
<1> HIDE DEF n
<1>2. Known /\ standard' = standard /\ 2 \in 1 .. D
  BY SizeFacts DEF WellTyped, InCycle
<1>3. ASSUME NEW i \in 1 .. n + 1, NEW node \in Ranks, node # RankOf(issued'[i].vec),
             NEW e \in Later(2, issued'[i].cmd), NEW c \in Issued, c \in e.to, e.sibling
      PROVE  issued'[i].clk + e.val <= next'[node][c]
  <2>1. CASE i \in 1 .. n
    <3>1. issued'[i] = issued[i] /\ issued[i] \in CommandSet
      BY <1>1, <2>1
    <3>2. PICK a, v, t : a = issued[i].cmd /\ v = issued[i].vec /\ t = issued[i].clk
      OBVIOUS
    <3>3. a \in Issued /\ t \in Nat
      BY <3>1, <3>2 DEF CommandSet
    <3>4. node \in Tree
      BY <1>2, RankNodes
    <3>5. e.val \in Int
      BY <1>2, <1>3, <3>1, <3>2, <3>3, RowFacts DEF Later
    <3>6. t + e.val <= next[node][c]
      BY <1>1, <1>3, <2>1, <3>1, <3>2 DEF SiblingHeld
    <3>7. next[node][c] \in Int /\ next'[node][c] \in Int /\ next[node][c] <= next'[node][c]
      BY <3>4, TimesStep
    <3> QED BY <3>1, <3>2, <3>3, <3>5, <3>6, <3>7
  <2>2. CASE i = n + 1
    <3>1. issued'[i].cmd = cmd /\ issued'[i].vec = vec /\ issued'[i].clk = Now
      BY <1>1, <2>2
    <3> QED BY <1>2, <1>3, <3>1, HeldStep
  <2> QED BY <1>1, <2>1, <2>2
<1> QED BY <1>1, <1>2, <1>3 DEF SiblingHeld, RankOf, Ranks, Later, Issued

\* How often a command was given to its rank from then on.
LEMMA AgainStep ==
  ASSUME WellTyped, InCycle, NEW cmd, NEW vec, NEW id, NEW x, Issuing(cmd, vec, id, x)
  PROVE  LET n == Len(issued)
         IN  /\ \A i \in 1 .. n :
                  /\ Cardinality(Again(i)) \in Nat \ {0}
                  /\ Cardinality(Again(i)') =
                       IF issued[i].cmd = cmd /\ RankOf(issued[i].vec) = RankOf(vec)
                       THEN Cardinality(Again(i)) + 1 ELSE Cardinality(Again(i))
             /\ \A i : i = n + 1 => Cardinality(Again(i)') = 1
<1> DEFINE n == Len(issued)
<1>1. /\ n \in Nat /\ Len(issued') = n + 1
      /\ \A i \in 1 .. n : issued'[i] = issued[i]
      /\ issued'[n + 1] = [cmd |-> cmd, vec |-> vec, clk |-> Now, id |-> id]
  BY Appended
<1>2. \A i \in 1 .. n + 1 :
         Again(i)' = {k \in i .. n + 1 : issued'[k].cmd = issued'[i].cmd
                                         /\ RankOf(issued'[i].vec) = RankOf(issued'[k].vec)}
  BY <1>1 DEF Again, SameRank, RankOf
<1>3. ASSUME NEW i \in 1 .. n
      PROVE  /\ Cardinality(Again(i)) \in Nat \ {0}
             /\ Cardinality(Again(i)') =
                  IF issued[i].cmd = cmd /\ RankOf(issued[i].vec) = RankOf(vec)
                  THEN Cardinality(Again(i)) + 1 ELSE Cardinality(Again(i))
  <2> DEFINE A == Again(i)
  <2>1. A = {k \in i .. n : issued[k].cmd = issued[i].cmd
                            /\ RankOf(issued[i].vec) = RankOf(issued[k].vec)}
    BY DEF Again, SameRank
  <2> HIDE DEF A, n
  <2>2. A \subseteq i .. n /\ i \in A /\ i \in Int /\ n \in Int
    BY <1>1, <2>1
  <2>3. IsFiniteSet(A)
    BY <2>2, FS_Interval, FS_Subset
  <2>4. Cardinality(A) \in Nat \ {0}
    BY <2>2, <2>3, FS_CardinalityType, FS_EmptySet
  <2>5. i .. n + 1 = (i .. n) \cup {n + 1} /\ n + 1 \notin i .. n
    BY <1>1, <2>2
  <2>6. i \in 1 .. n + 1 /\ \A k \in i .. n : k \in 1 .. n
    BY <1>1
  <2>7. CASE issued[i].cmd = cmd /\ RankOf(issued[i].vec) = RankOf(vec)
    <3>1. Again(i)' = A \cup {n + 1}
      BY <1>1, <1>2, <2>1, <2>5, <2>6, <2>7
    <3>2. n + 1 \notin A
      BY <2>2, <2>5
    <3>3. Cardinality(A \cup {n + 1}) = Cardinality(A) + 1
      BY <2>3, <3>2, FS_AddElement
    <3> QED BY <2>4, <2>7, <3>1, <3>3 DEF A
  <2>8. CASE ~(issued[i].cmd = cmd /\ RankOf(issued[i].vec) = RankOf(vec))
    <3>1. Again(i)' = A
      BY <1>1, <1>2, <2>1, <2>5, <2>6, <2>8
    <3> QED BY <2>4, <2>8, <3>1 DEF A
  <2> QED BY <2>7, <2>8
<1>4. ASSUME NEW i, i = n + 1 PROVE Cardinality(Again(i)') = 1
  <2> HIDE DEF n
  <2>1. i \in 1 .. n + 1 /\ i .. n + 1 = {i}
    BY <1>1, <1>4
  <2>2. Again(i)' = {i}
    BY <1>2, <2>1
  <2> QED BY <2>2, FS_Singleton
<1> QED BY <1>3, <1>4

\* The history goes on holding the clocks of the last activates,
LEMMA HistoryKeptStep ==
  ASSUME WellTyped, HistoryKept, InCycle,
         NEW cmd, NEW vec, NEW id, NEW x, Issuing(cmd, vec, id, x)
  PROVE  HistoryKept'
<1>1. PICK n \in Nat : n = Len(issued)
  BY Appended
<1>2. /\ DOMAIN issued = 1 .. n /\ DOMAIN issued' = 1 .. n + 1
      /\ \A i \in 1 .. n : issued'[i] = issued[i] /\ issued[i] \in CommandSet
      /\ issued'[n + 1] = [cmd |-> cmd, vec |-> vec, clk |-> Now, id |-> id]
      /\ Shaped(vec)
  BY <1>1, Appended
<1>3. /\ \A i \in 1 .. n :
           /\ Cardinality(Again(i)) \in Nat \ {0}
           /\ Cardinality(Again(i)') =
                IF issued[i].cmd = cmd /\ RankOf(issued[i].vec) = RankOf(vec)
                THEN Cardinality(Again(i)) + 1 ELSE Cardinality(Again(i))
      /\ \A i : i = n + 1 => Cardinality(Again(i)') = 1
  BY <1>1, AgainStep
<1>4. Known /\ standard' = standard /\ clk \in Nat /\ prev \in HistoryOf(clk) /\ cmd \in Issued
  BY DEF WellTyped, InCycle, Issuing
<1>5. /\ \A r \in Ranks, a \in Opening \cap Issued :
            a # cmd \/ r # RankOf(vec) => prev'[r][a] = prev[r][a]
      /\ cmd \in Opening =>
            /\ Len(prev'[RankOf(vec)][cmd]) \in Nat \ {0} /\ prev'[RankOf(vec)][cmd][1] = Now
            /\ \A k \in 1 .. Len(prev[RankOf(vec)][cmd]) : k + 1 <= standard.longest =>
                  /\ k + 1 <= Len(prev'[RankOf(vec)][cmd])
                  /\ prev'[RankOf(vec)][cmd][k + 1] = prev[RankOf(vec)][cmd][k]
  BY <1>2, <1>4, TimesStep, HistoryStep
<1>6. standard.longest \in Nat
  <2>1. standard.longest = TheStandard(standard.name).longest
    BY <1>4 DEF Known
  <2> QED BY <1>4, <2>1, TablesBounded DEF Known
<1>7. prev' \in HistoryOf(Now)
  BY TimesStep
<1>8. ASSUME NEW i \in 1 .. n + 1, issued'[i].cmd \in Opening,
             Cardinality(Again(i)') <= standard.longest
      PROVE  LET h == prev'[RankOf(issued'[i].vec)][issued'[i].cmd]
             IN  /\ Cardinality(Again(i)') \in 1 .. Len(h)
                 /\ h[Cardinality(Again(i)')] = issued'[i].clk
  <2>1. CASE i \in 1 .. n
    <3>1. issued'[i] = issued[i] /\ issued[i] \in CommandSet
      BY <1>2, <2>1
    <3>2. PICK a, v, t : a = issued[i].cmd /\ v = issued[i].vec /\ t = issued[i].clk
      OBVIOUS
    <3>3. a \in Opening \cap Issued /\ Shaped(v)
      BY <1>2, <1>8, <2>1, <3>1, <3>2
      DEF WellTyped, CommandsInOrder, ShapeFor, Shaped, CommandSet
    <3>4. PICK r \in Ranks : r = RankOf(v)
      BY <1>4, <3>3, RankNodes
    <3>5. PICK m \in Nat \ {0} : m = Cardinality(Again(i))
      BY <1>3, <2>1
    <3>6. m <= standard.longest => m \in 1 .. Len(prev[r][a]) /\ prev[r][a][m] = t
      BY <1>2, <2>1, <3>2, <3>3, <3>4, <3>5 DEF HistoryKept
    <3>7. CASE a = cmd /\ r = RankOf(vec)
      <4>1. Cardinality(Again(i)') = m + 1
        BY <1>3, <2>1, <3>2, <3>4, <3>5, <3>7
      <4>2. m + 1 <= standard.longest /\ m <= standard.longest
        BY <1>6, <1>8, <4>1
      <4>3. m \in 1 .. Len(prev[r][a]) /\ prev[r][a][m] = t
        BY <3>6, <4>2
      <4>4. m + 1 <= Len(prev'[r][a]) /\ prev'[r][a][m + 1] = t /\ Len(prev'[r][a]) \in Nat
        BY <1>5, <3>3, <3>7, <4>2, <4>3
      <4>5. m + 1 \in 1 .. Len(prev'[r][a])
        BY <4>4
      <4> QED BY <3>1, <3>2, <3>4, <4>1, <4>4, <4>5
    <3>8. CASE ~(a = cmd /\ r = RankOf(vec))
      <4>1. Cardinality(Again(i)') = m
        BY <1>3, <2>1, <3>2, <3>4, <3>5, <3>8
      <4>2. prev'[r][a] = prev[r][a]
        BY <1>5, <3>3, <3>4, <3>8
      <4> QED BY <1>8, <3>1, <3>2, <3>4, <3>6, <4>1, <4>2
    <3> QED BY <3>7, <3>8
  <2>2. CASE i = n + 1
    <3>1. issued'[i].cmd = cmd /\ issued'[i].vec = vec /\ issued'[i].clk = Now
      BY <1>2, <2>2
    <3>2. Cardinality(Again(i)') = 1
      BY <1>3, <2>2
    <3>3. 1 \in 1 .. Len(prev'[RankOf(vec)][cmd]) /\ prev'[RankOf(vec)][cmd][1] = Now
      BY <1>5, <1>8, <3>1
    <3> QED BY <3>1, <3>2, <3>3
  <2> QED BY <2>1, <2>2
<1> QED BY <1>2, <1>4, <1>8 DEF HistoryKept, RankOf

\* and a rank what the rows want that look back to them.
LEMMA WindowHeldStep ==
  ASSUME WellTyped, HistoryKept, WindowHeld, InCycle,
         NEW cmd, NEW vec, NEW id, NEW x, Issuing(cmd, vec, id, x)
  PROVE  WindowHeld'
<1>1. PICK n \in Nat : n = Len(issued)
  BY Appended
<1>2. /\ DOMAIN issued = 1 .. n /\ DOMAIN issued' = 1 .. n + 1
      /\ \A i \in 1 .. n : issued'[i] = issued[i] /\ issued[i] \in CommandSet
      /\ issued'[n + 1] = [cmd |-> cmd, vec |-> vec, clk |-> Now, id |-> id]
      /\ Shaped(vec)
  BY <1>1, Appended
<1>3. /\ \A i \in 1 .. n :
           /\ Cardinality(Again(i)) \in Nat \ {0}
           /\ Cardinality(Again(i)') =
                IF issued[i].cmd = cmd /\ RankOf(issued[i].vec) = RankOf(vec)
                THEN Cardinality(Again(i)) + 1 ELSE Cardinality(Again(i))
      /\ \A i : i = n + 1 => Cardinality(Again(i)') = 1
  BY <1>1, AgainStep
<1>4. Known /\ standard' = standard /\ clk \in Nat /\ cmd \in Issued /\ 2 \in 1 .. D
  BY SizeFacts DEF WellTyped, InCycle, Issuing
<1>5. ASSUME NEW i \in 1 .. n + 1, NEW e \in Later(2, issued'[i].cmd), NEW c \in Issued,
             c \in e.to, e.dist > 1, e.dist <= Cardinality(Again(i)')
      PROVE  issued'[i].clk + e.val <= next'[RankOf(issued'[i].vec)][c]
  <2>1. i \in 1 .. n
    <3>1. SUFFICES ASSUME i = n + 1 PROVE FALSE
      BY <1>1
    <3>2. Cardinality(Again(i)') = 1 /\ issued'[i].cmd = cmd
      BY <1>2, <1>3, <3>1
    <3>3. e.dist \in Nat
      BY <1>4, <1>5, <3>2, RowFacts DEF Later
    <3> QED BY <1>5, <3>2, <3>3
  <2>2. issued'[i] = issued[i] /\ issued[i] \in CommandSet
    BY <1>2, <2>1
  <2>3. PICK a, v, t : a = issued[i].cmd /\ v = issued[i].vec /\ t = issued[i].clk
    OBVIOUS
  <2>4. a \in Issued /\ t \in Nat /\ Shaped(v)
    BY <1>2, <2>1, <2>2, <2>3 DEF WellTyped, CommandsInOrder, ShapeFor, Shaped, CommandSet
  <2>5. /\ e.val \in Int /\ e.dist \in Nat /\ e.dist <= standard.longest /\ standard.longest \in Nat
        /\ a \in Opening
    BY <1>4, <1>5, <2>2, <2>3, <2>4, RowFacts DEF Later
  <2>6. PICK m \in Nat \ {0} : m = Cardinality(Again(i))
    BY <1>3, <2>1
  <2>7. PICK r \in Ranks : r = RankOf(v) /\ r \in Tree
    BY <1>4, <2>4, RankNodes
  <2>8. next[r][c] \in Int /\ next'[r][c] \in Int /\ next[r][c] <= next'[r][c]
    BY <2>7, TimesStep
  <2>9. CASE e.dist <= m
    <3>1. t + e.val <= next[r][c]
      BY <1>2, <1>5, <2>1, <2>2, <2>3, <2>6, <2>7, <2>9 DEF WindowHeld
    <3> QED BY <2>2, <2>3, <2>4, <2>5, <2>7, <2>8, <3>1
  <2>10. CASE ~(e.dist <= m)
    <3>1. a = cmd /\ r = RankOf(vec) /\ e.dist = m + 1 /\ Cardinality(Again(i)') = m + 1
      <4>1. Cardinality(Again(i)') = IF a = cmd /\ r = RankOf(vec) THEN m + 1 ELSE m
        BY <1>3, <2>1, <2>3, <2>6, <2>7
      <4> QED BY <1>5, <2>5, <2>10, <4>1
    <3>2. HistoryKept'
      BY HistoryKeptStep
    <3>3. e.dist \in 1 .. Len(prev'[r][a]) /\ prev'[r][a][e.dist] = t
      <4>1. \A j \in DOMAIN issued' :
              issued'[j].cmd \in Opening /\ Cardinality(Again(j)') <= standard.longest =>
                /\ Cardinality(Again(j)') \in 1 .. Len(prev'[RankOf(issued'[j].vec)][issued'[j].cmd])
                /\ prev'[RankOf(issued'[j].vec)][issued'[j].cmd][Cardinality(Again(j)')] = issued'[j].clk
        BY <1>4, <3>2 DEF HistoryKept, RankOf
      <4>2. i \in DOMAIN issued' /\ issued'[i].cmd = a /\ issued'[i].vec = v /\ issued'[i].clk = t
        BY <1>2, <2>2, <2>3
      <4>3. Cardinality(Again(i)') = e.dist /\ e.dist <= standard.longest
        BY <2>5, <3>1
      <4> QED BY <2>5, <2>7, <4>1, <4>2, <4>3
    <3>4. PICK f \in Later(2, cmd) : f = e
      BY <1>5, <2>2, <2>3, <3>1
    <3>5. f.dist <= Len(prev'[RankOf(vec)][cmd]) /\ f.dist > 1 /\ c \in f.to
      BY <1>5, <2>5, <3>1, <3>3, <3>4
    <3>6. prev'[RankOf(vec)][cmd][f.dist] + f.val <= next'[RankOf(vec)][c]
      BY <1>4, <3>5, HeldStep
    <3> QED BY <2>2, <2>3, <2>7, <3>1, <3>3, <3>4, <3>6
  <2> QED BY <2>9, <2>10
<1> QED BY <1>2, <1>4, <1>5 DEF WindowHeld, RankOf, Later, Issued

-----------------------------------------------------------------------------
(* The command of a cycle keeps its distance from those before it.         *)

\* What is asked for is a row of the table, or nothing.
LEMMA DistanceIsARow ==
  ASSUME Known, NEW k \in 1 .. D, NEW a \in Issued, NEW b
  PROVE  \/ Distance(k, a, b) = 0
         \/ \E e \in Later(k, a) : /\ b \in e.to /\ ~e.sibling /\ e.dist = 1
                                   /\ Distance(k, a, b) = e.val /\ e.val \in Int
<1> DEFINE R == {e \in Later(k, a) : b \in e.to /\ e.dist = 1 /\ ~e.sibling}
           S == {0} \cup {e.val : e \in R}
<1>1. Distance(k, a, b) = Max(S)
  BY DEF Distance, Later
<1>2. \A e \in R : e.val \in Int /\ e.val <= standard.nREFI
  BY RowFacts DEF Later
<1>3. standard.nREFI \in Nat
  <2>1. standard.nREFI = Specs[standard.name].nREFI /\ standard.name \in Standards
    BY StandardFields DEF Known
  <2> QED BY <2>1, CommandsKnown
<1>4. S \in SUBSET Int /\ S # {} /\ \A s \in S : s <= standard.nREFI
  <2> HIDE DEF R
  <2> QED BY <1>2, <1>3
<1>5. Max(S) \in S
  <2> HIDE DEF S
  <2>1. PICK B \in Int : B = standard.nREFI
    BY <1>3
  <2> QED BY <1>4, <2>1, MaxOf
<1> QED BY <1>1, <1>2, <1>5

\* The level of the banks.
LEMMA BankLevel ==
  ASSUME Known
  PROVE  \E k \in 1 .. D : \A v : Shaped(v) => BankOf(v) = SubSeq(v, 1, k) /\ Len(BankOf(v)) = k
<1>1. D \in {3, 4} /\ standard.levels = Levels(standard.name)
  BY SizeFacts, StandardFields DEF Known
<1> DEFINE k == IF standard.levels = Grouped THEN 4 ELSE 3
<1>2. k \in 1 .. D
  <2>1. Len(Grouped) = 4
    BY DEF Grouped
  <2>2. standard.levels = Grouped => D = 4
    BY <2>1 DEF D
  <2> QED BY <1>1, <2>2
<1>3. \A v : BankOf(v) = SubSeq(v, 1, k)
  BY DEF BankOf
<1> HIDE DEF k
<1>4. ASSUME NEW v, Shaped(v) PROVE Len(SubSeq(v, 1, k)) = k
  BY <1>2, <1>4, ShapedLength, Prefix
<1> QED BY <1>2, <1>3, <1>4

\* A command for a rank has no leaf, and any other has one.
LEMMA OneShape ==
  ASSUME Known, NEW c, NEW v, ShapeFor(c, v)
  PROVE  /\ Shaped(v) /\ ~(OnTree(v) /\ OfRank(v))
         /\ c \in WholeRank <=> OfRank(v)
<1>1. ~(OnTree(v) /\ OfRank(v))
  <2> SUFFICES ASSUME OnTree(v), OfRank(v) PROVE FALSE
    OBVIOUS
  <2>1. 2 \in 1 .. D - 1 /\ 2 + 1 = 3
    BY SizeFacts
  <2>2. v[3] \in Digits(2)
    BY <2>1 DEF OnTree
  <2> QED BY <2>2 DEF OfRank, Digits
<1> QED BY <1>1 DEF ShapeFor, Shaped

\* The command that was checked is as far down as the node that holds it back.
LEMMA CheckedThere ==
  ASSUME WellTyped, NEW cmd, NEW vec, NEW id, NEW x, Issuing(cmd, vec, id, x),
         NEW m \in 1 .. D, m <= standard.depth[x]
  PROVE  next[SubSeq(vec, 1, m)][x] <= Now
<1>1. standard.depth = TheStandard(standard.name).depth /\ standard.name \in Standards
      /\ x \in Specs[standard.name].issued
  BY StandardFields DEF WellTyped, Known, Issuing, Issued
<1>2. standard.depth[x] \in LevelsOf(standard.name)
  BY <1>1, CommandsKnown
<1>3. m \in 1 .. standard.depth[x]
  BY <1>2 DEF LevelsOf
<1> QED BY <1>3 DEF Issuing, CanIssue

\* A row for one node: the table has it checked on the way.
LEMMA PairKept ==
  ASSUME WellTyped, OwnHeld, NEW cmd, NEW vec, NEW id, NEW x, Issuing(cmd, vec, id, x),
         NEW i \in DOMAIN issued, NEW k \in 1 .. D, NEW e \in Later(k, issued[i].cmd),
         cmd \in e.to, ~e.sibling, e.dist = 1,
         SubSeq(issued[i].vec, 1, k) = SubSeq(vec, 1, k)
  PROVE  Now - issued[i].clk >= e.val
<1> DEFINE n == standard.name
<1>1. Known /\ n \in Standards /\ Issued = Specs[n].issued /\ cmd \in Issued /\ x \in Issued
      /\ standard.depth = TheStandard(n).depth /\ k \in LevelsOf(n)
  BY StandardFields DEF WellTyped, Known, Issued, Issuing, LevelsOf, D
<1>2. issued[i] \in CommandSet /\ issued[i].clk <= clk /\ ShapeFor(issued[i].cmd, issued[i].vec)
  BY LenProperties, ElementOfSeq DEF WellTyped, CommandsInOrder
<1>3. PICK a, v, t : a = issued[i].cmd /\ v = issued[i].vec /\ t = issued[i].clk
  OBVIOUS
<1>4. a \in Issued /\ t \in Nat /\ t <= clk /\ clk \in Nat /\ Now = clk + 1
  BY <1>2, <1>3 DEF CommandSet, WellTyped, Now
<1>5. ShapeFor(a, v) /\ ShapeFor(cmd, vec) /\ Shaped(v) /\ Shaped(vec)
  BY <1>1, <1>2, <1>3, OneShape DEF Issuing
<1>6. e \in Later(k, a) /\ e.val \in Int
  BY <1>1, <1>3, <1>4, RowFacts DEF Later
<1>7. CASE e.val <= 0
  BY <1>3, <1>4, <1>6, <1>7
<1>8. CASE e.val > 0
  <2>1. /\ k > 2 => a \notin WholeRank \/ cmd \notin WholeRank
        /\ k > 2 => a \in WholeRank \/ cmd \in WholeRank
                    \/ \A c \in CheckedFor(n, cmd) : Covered(n, k, a, e, c)
        /\ k <= 2 => \A c \in CheckedFor(n, cmd) : Covered(n, k, a, e, c)
    BY <1>1, <1>4, <1>6, <1>8, TablesCover DEF Later, RowsAfterCommand
  <2>2. k <= 2 \/ (OnTree(v) /\ OnTree(vec))
    <3>1. \/ k <= 2 \/ (OnTree(v) /\ OnTree(vec))
          \/ k > 2 /\ OfRank(v) /\ OfRank(vec)
      BY <1>1, <1>3, <1>5, CommonPath
    <3> QED BY <1>1, <1>5, <2>1, <3>1, OneShape
  <2>3. Covered(n, k, a, e, x)
    <3>1. x \in CheckedFor(n, cmd)
      BY DEF Issuing
    <3>2. k <= 2 \/ k > 2
      BY <1>1 DEF LevelsOf
    <3>3. k > 2 => a \notin WholeRank /\ cmd \notin WholeRank
      BY <1>1, <1>5, <2>2, OneShape
    <3> QED BY <2>1, <3>1, <3>2, <3>3
  <2>a. PICK m \in 1 .. k : /\ m <= standard.depth[x]
                             /\ \E f \in RowsAfterCommand(n, m, a) : AsStrict(e, f, x)
    BY <1>1, <2>3 DEF Covered
  <2>4. PICK f \in Later(m, a) : x \in f.to /\ f.dist = 1 /\ ~f.sibling /\ f.val >= e.val
    BY <2>a DEF AsStrict, RowsAfterCommand, Later
  <2>5. m \in 1 .. D /\ (k <= 2 => m \in 1 .. 2)
    BY <1>1, SizeFacts
  <2>6. f.val \in Int
    BY <1>1, <1>4, <2>4, <2>5, RowFacts DEF Later
  <2>7. SubSeq(v, 1, m) \in PathOf(v) /\ SubSeq(v, 1, m) \in Tree
    <3>1. CASE OnTree(v)
      BY <1>1, <2>5, <3>1, TreePath
    <3>2. CASE OfRank(v)
      BY <1>1, <1>5, <2>2, <2>5, <3>2, OneShape, RankPath
    <3> QED BY <1>5, <3>1, <3>2 DEF Shaped
  <2>8. SubSeq(v, 1, m) = SubSeq(vec, 1, m)
    <3>1. SubSeq(SubSeq(v, 1, k), 1, m) = SubSeq(v, 1, m)
      BY <1>1, <1>5, <2>4, ShapedLength, PrefixOfPrefix
    <3>2. SubSeq(SubSeq(vec, 1, k), 1, m) = SubSeq(vec, 1, m)
      BY <1>1, <1>5, <2>4, ShapedLength, PrefixOfPrefix
    <3> QED BY <1>3, <3>1, <3>2
  <2>9. t + f.val <= next[SubSeq(v, 1, m)][x]
    BY <1>1, <1>3, <2>4, <2>5, <2>7 DEF OwnHeld, NodeOf
  <2>10. next[SubSeq(vec, 1, m)][x] <= Now
    BY <2>a, <2>5, CheckedThere
  <2>11. PICK y \in Int : y = next[SubSeq(v, 1, m)][x]
    BY <1>1, <2>7 DEF WellTyped, NextTyped
  <2>12. t + f.val <= y /\ y <= Now
    BY <2>8, <2>9, <2>10, <2>11
  <2> QED BY <1>3, <1>4, <1>6, <2>4, <2>6, <2>12
<1> QED BY <1>6, <1>7, <1>8

\* A row about a window of a rank: the rank holds back what was checked.
LEMMA WindowKept ==
  ASSUME WellTyped, WindowHeld, NEW cmd, NEW vec, NEW id, NEW x, Issuing(cmd, vec, id, x),
         NEW i \in DOMAIN issued, NEW e \in Later(2, issued[i].cmd),
         cmd \in e.to, e.dist > 1, RankOf(issued[i].vec) = RankOf(vec),
         Cardinality({k \in i .. Len(issued) : issued[k].cmd \in e.from /\ SameRank(i, k)}) = e.dist
  PROVE  Now - issued[i].clk >= e.val
<1> DEFINE n == standard.name
<1>1. Known /\ n \in Standards /\ Issued = Specs[n].issued /\ cmd \in Issued /\ x \in Issued
      /\ standard.depth = TheStandard(n).depth
  BY StandardFields DEF WellTyped, Known, Issued, Issuing
<1>2. 2 \in 1 .. D /\ 2 \in LevelsOf(n)
  <2>1. standard.levels = Levels(n) /\ D \in {3, 4}
    BY <1>1, SizeFacts, StandardFields DEF Known
  <2>2. Len(Levels(n)) = D
    BY <2>1 DEF D
  <2>3. 2 \in 1 .. D
    BY <2>1
  <2> QED BY <2>2, <2>3 DEF LevelsOf
<1>3. issued[i] \in CommandSet /\ issued[i].clk <= clk /\ ShapeFor(issued[i].cmd, issued[i].vec)
  BY LenProperties, ElementOfSeq DEF WellTyped, CommandsInOrder
<1>4. PICK a, v, t : a = issued[i].cmd /\ v = issued[i].vec /\ t = issued[i].clk
  OBVIOUS
<1>5. a \in Issued /\ t \in Nat /\ t <= clk /\ clk \in Nat /\ Now = clk + 1
  BY <1>3, <1>4 DEF CommandSet, WellTyped, Now
<1>6. Shaped(v)
  BY <1>1, <1>3, <1>4, OneShape
<1>7. e \in Later(2, a) /\ e.val \in Int /\ e.dist \in Nat /\ e.from = {a} /\ ~e.sibling
  BY <1>1, <1>2, <1>4, <1>5, RowFacts DEF Later
<1>8. Cardinality(Again(i)) = e.dist
  <2>1. Again(i) = {k \in i .. Len(issued) : issued[k].cmd \in e.from /\ SameRank(i, k)}
    BY <1>4, <1>7 DEF Again
  <2> QED BY <2>1
<1>9. CASE e.val <= 0
  BY <1>4, <1>5, <1>7, <1>9
<1>10. CASE e.val > 0
  <2>1. x \in CheckedFor(n, cmd)
    BY DEF Issuing
  <2>2. Covered(n, 2, a, e, x)
    BY <1>1, <1>2, <1>5, <1>7, <1>10, <2>1, TablesCover DEF Later, RowsAfterCommand
  <2>3. PICK m \in 1 .. 2 : /\ m <= standard.depth[x]
                            /\ \E f \in RowsAfterCommand(n, m, a) : AsStrict(e, f, x)
    BY <1>1, <2>2 DEF Covered
  <2>4. PICK f \in Later(m, a) : x \in f.to /\ f.dist = e.dist /\ f.val >= e.val
    BY <2>3 DEF AsStrict, RowsAfterCommand, Later
  <2>5. m \in 1 .. D
    BY <1>1, SizeFacts
  <2>6. f.val \in Int /\ m = 2
    BY <1>1, <1>5, <1>7, <2>4, <2>5, RowFacts DEF Later
  <2>7. PICK g \in Later(2, a) : g = f
    BY <2>4, <2>6
  <2>8. t + g.val <= next[RankOf(v)][x]
    <3>1. x \in g.to /\ g.dist > 1 /\ g.dist <= Cardinality(Again(i))
      BY <1>7, <1>8, <2>4, <2>7
    <3> QED BY <1>1, <1>4, <2>7, <3>1 DEF WindowHeld
  <2>9. next[RankOf(vec)][x] <= Now
    BY <1>2, <2>3, <2>6, CheckedThere DEF RankOf
  <2>10. RankOf(v) \in Tree
    BY <1>1, <1>6, RankNodes
  <2>11. PICK y \in Int : y = next[RankOf(v)][x]
    BY <1>1, <2>10 DEF WellTyped, NextTyped
  <2>12. t + g.val <= y /\ y <= Now
    BY <1>4, <2>8, <2>9, <2>11
  <2> QED BY <1>4, <1>5, <1>7, <2>4, <2>6, <2>7, <2>12
<1> QED BY <1>7, <1>9, <1>10

\* RestKept of the command of a cycle.
LEMMA RestStep ==
  ASSUME WellTyped, OwnHeld, WindowHeld, InCycle,
         NEW cmd, NEW vec, NEW id, NEW x, Issuing(cmd, vec, id, x)
  PROVE  RestKept'
<1>1. PICK n \in Nat : n = Len(issued)
  BY Appended
<1>2. /\ DOMAIN issued = 1 .. n /\ DOMAIN issued' = 1 .. n + 1 /\ Len(issued') = n + 1
      /\ \A i \in 1 .. n : issued'[i] = issued[i] /\ issued[i] \in CommandSet
      /\ issued'[n + 1] = [cmd |-> cmd, vec |-> vec, clk |-> Now, id |-> id]
      /\ Shaped(vec) /\ Now \in Nat
  BY <1>1, Appended
<1>3. Known /\ standard' = standard /\ cmd \in Issued /\ clk \in Nat /\ Now = clk + 1
      /\ D \in {3, 4}
  BY SizeFacts DEF WellTyped, InCycle, Issuing, Now
<1>4. ASSUME NEW i \in 1 .. n
      PROVE  /\ issued[i].cmd \in Issued /\ issued[i].clk \in Nat /\ issued[i].clk <= clk
             /\ Shaped(issued[i].vec)
  BY <1>2, <1>3, OneShape DEF WellTyped, CommandsInOrder, CommandSet
<1>5. ASSUME NEW i \in 1 .. n, NEW k \in 1 .. D,
             SubSeq(issued[i].vec, 1, k) = SubSeq(vec, 1, k)
      PROVE  Now - issued[i].clk >= Distance(k, issued[i].cmd, cmd)
  <2>1. CASE Distance(k, issued[i].cmd, cmd) = 0
    BY <1>3, <1>4, <2>1
  <2>2. ASSUME NEW e \in Later(k, issued[i].cmd), cmd \in e.to, ~e.sibling, e.dist = 1,
               Distance(k, issued[i].cmd, cmd) = e.val
        PROVE  Now - issued[i].clk >= Distance(k, issued[i].cmd, cmd)
    BY <1>2, <1>5, <2>2, PairKept
  <2> QED BY <1>3, <1>4, <2>1, <2>2, DistanceIsARow
<1>6. ASSUME NEW i \in 1 .. n
      PROVE  /\ LeafOf(issued[i].vec) = LeafOf(vec) =>
                  Now - issued[i].clk >= Distance(D, issued[i].cmd, cmd)
             /\ BankOf(issued[i].vec) = BankOf(vec) =>
                  Now - issued[i].clk >= Distance(Len(BankOf(issued[i].vec)), issued[i].cmd, cmd)
             /\ RankOf(issued[i].vec) = RankOf(vec) =>
                  Now - issued[i].clk >= Distance(2, issued[i].cmd, cmd)
             /\ \A e \in Later(2, issued[i].cmd) :
                   /\ e.dist > 1 /\ RankOf(issued[i].vec) = RankOf(vec) /\ cmd \in e.to
                   /\ Cardinality({k \in i .. n : issued[k].cmd \in e.from /\ SameRank(i, k)}) = e.dist
                   => Now - issued[i].clk >= e.val
  <2>1. D \in 1 .. D /\ 2 \in 1 .. D
    BY <1>3
  <2>2. LeafOf(issued[i].vec) = LeafOf(vec) =>
          Now - issued[i].clk >= Distance(D, issued[i].cmd, cmd)
    BY <1>5, <2>1 DEF LeafOf, D
  <2>3. BankOf(issued[i].vec) = BankOf(vec) =>
          Now - issued[i].clk >= Distance(Len(BankOf(issued[i].vec)), issued[i].cmd, cmd)
    <3>1. PICK k \in 1 .. D : \A v : Shaped(v) => BankOf(v) = SubSeq(v, 1, k) /\ Len(BankOf(v)) = k
      BY <1>3, BankLevel
    <3> QED BY <1>2, <1>4, <1>5, <3>1
  <2>4. RankOf(issued[i].vec) = RankOf(vec) =>
          Now - issued[i].clk >= Distance(2, issued[i].cmd, cmd)
    BY <1>5, <2>1 DEF RankOf
  <2>5. ASSUME NEW e \in Later(2, issued[i].cmd), e.dist > 1,
               RankOf(issued[i].vec) = RankOf(vec), cmd \in e.to,
               Cardinality({k \in i .. n : issued[k].cmd \in e.from /\ SameRank(i, k)}) = e.dist
        PROVE  Now - issued[i].clk >= e.val
    BY <1>1, <1>2, <2>5, WindowKept
  <2> QED BY <2>2, <2>3, <2>4, <2>5
<1>7. ASSUME NEW i \in 1 .. n + 1, NEW j \in 1 .. n + 1, j = n + 1, i < j
      PROVE  /\ SameLeaf(i, j)' => Apart(i, j)' >= Distance(Len(standard.levels), issued[i].cmd, issued[j].cmd)'
             /\ SameBank(i, j)' => Apart(i, j)' >= Distance(Len(BankOf(issued[i].vec)), issued[i].cmd, issued[j].cmd)'
             /\ SameRank(i, j)' => Apart(i, j)' >= Distance(2, issued[i].cmd, issued[j].cmd)'
             /\ \A e \in RowsAt[standard.name]["later"][2][issued'[i].cmd] :
                  /\ e.dist > 1 /\ SameRank(i, j)' /\ issued'[j].cmd \in e.to
                  /\ Cardinality({k \in i .. j - 1 :
                                    issued'[k].cmd \in e.from /\ SameRank(i, k)'}) = e.dist
                  => Apart(i, j)' >= e.val
  <2>1. i \in 1 .. n /\ issued'[i] = issued[i] /\ j - 1 = n
    BY <1>2, <1>7
  <2>2. issued'[j].cmd = cmd /\ issued'[j].vec = vec /\ issued'[j].clk = Now
    BY <1>2, <1>7
  <2>3. /\ SameLeaf(i, j)' <=> LeafOf(issued[i].vec) = LeafOf(vec)
        /\ SameBank(i, j)' <=> BankOf(issued[i].vec) = BankOf(vec)
        /\ SameRank(i, j)' <=> RankOf(issued[i].vec) = RankOf(vec)
        /\ Apart(i, j)' = Now - issued[i].clk
    BY <1>3, <2>1, <2>2 DEF SameLeaf, SameBank, SameRank, Apart, LeafOf, BankOf, RankOf
  <2>4. /\ Distance(Len(standard.levels), issued[i].cmd, issued[j].cmd)' = Distance(D, issued[i].cmd, cmd)
        /\ Distance(Len(BankOf(issued[i].vec)), issued[i].cmd, issued[j].cmd)'
             = Distance(Len(BankOf(issued[i].vec)), issued[i].cmd, cmd)
        /\ Distance(2, issued[i].cmd, issued[j].cmd)' = Distance(2, issued[i].cmd, cmd)
    BY <1>3, <2>1, <2>2 DEF Distance, BankOf, D
  <2>5. \A e : {k \in i .. n : issued'[k].cmd \in e.from /\ SameRank(i, k)'}
               = {k \in i .. n : issued[k].cmd \in e.from /\ SameRank(i, k)}
    <3>1. \A k \in i .. n : k \in 1 .. n
      BY <2>1
    <3>2. \A k \in i .. n : issued'[k] = issued[k] /\ (SameRank(i, k)' <=> SameRank(i, k))
      BY <1>2, <2>1, <3>1 DEF SameRank, RankOf
    <3> QED BY <3>2
  <2> QED BY <1>6, <2>1, <2>2, <2>3, <2>4, <2>5 DEF Later
<1>8. \A j : j \in JustIssued' => j = n + 1 /\ j \in 1 .. n + 1
  BY <1>2 DEF JustIssued
<1> QED BY <1>2, <1>3, <1>7, <1>8 DEF RestKept

\* Two columns of one node, or of two ranks: the tables keep the bus free.
LEMMA BusKept ==
  ASSUME WellTyped, OwnHeld, SiblingHeld,
         NEW cmd, NEW vec, NEW id, NEW x, Issuing(cmd, vec, id, x), cmd \in Accessing,
         NEW i \in DOMAIN issued, issued[i].cmd \in Accessing
  PROVE  /\ DataAfter(standard.name, cmd) \in Int
         /\ DataAfter(standard.name, issued[i].cmd) \in Int
         /\ Speeds[standard.name].nBL \in Nat
         /\ issued[i].clk + DataAfter(standard.name, issued[i].cmd) + Speeds[standard.name].nBL
              <= Now + DataAfter(standard.name, cmd)
<1> DEFINE n == standard.name
<1>1. Known /\ n \in Standards /\ Issued = Specs[n].issued /\ cmd \in Issued /\ x \in Issued
      /\ standard.depth = TheStandard(n).depth /\ D \in {3, 4}
      /\ standard.ranks = Specs[n].ranks /\ standard.ranks \in 1 .. 4
  BY SizeFacts, StandardFields DEF WellTyped, Known, Issued, Issuing
<1>2. issued[i] \in CommandSet /\ issued[i].clk <= clk /\ ShapeFor(issued[i].cmd, issued[i].vec)
  BY LenProperties, ElementOfSeq DEF WellTyped, CommandsInOrder
<1>3. PICK a, v, t : a = issued[i].cmd /\ v = issued[i].vec /\ t = issued[i].clk
  OBVIOUS
<1>4. a \in Issued /\ t \in Nat /\ clk \in Nat /\ Now = clk + 1
  BY <1>2, <1>3 DEF CommandSet, WellTyped, Now
<1>5. Shaped(v) /\ Shaped(vec)
  BY <1>1, <1>2, <1>3, OneShape DEF Issuing
<1>6. a \in Accessing \cap Specs[n].issued /\ cmd \in Accessing \cap Specs[n].issued
      /\ x \in CheckedFor(n, cmd)
  BY <1>1, <1>3, <1>4 DEF Issuing
<1>7. /\ Speeds[n].nBL \in Nat /\ DataAfter(n, a) \in Int /\ DataAfter(n, cmd) \in Int
      /\ BusRowFor(n, a, cmd, x, FALSE)
      /\ Specs[n].ranks = 1 \/ BusRowFor(n, a, cmd, x, TRUE)
  BY <1>1, <1>6, BusCovered
<1>8. ASSUME NEW k \in 1 .. 2, NEW e \in Later(k, a), NEW node \in Tree,
             DataAfter(n, cmd) + e.val >= DataAfter(n, a) + Speeds[n].nBL,
             t + e.val <= next[node][x], next[node][x] <= Now
      PROVE  t + DataAfter(n, a) + Speeds[n].nBL <= Now + DataAfter(n, cmd)
  <2>1. k \in 1 .. D
    BY <1>1
  <2>2. e.val \in Int
    BY <1>1, <1>4, <2>1, RowFacts DEF Later
  <2>3. PICK y \in Int : y = next[node][x]
    BY <1>1 DEF WellTyped, NextTyped
  <2>4. PICK p \in Int, q \in Int, b \in Int :
           p = DataAfter(n, a) /\ q = DataAfter(n, cmd) /\ b = Speeds[n].nBL
    BY <1>7
  <2>5. q + e.val >= p + b /\ t + e.val <= y /\ y <= Now
    BY <1>8, <2>3, <2>4
  <2>6. t + p + b <= Now + q
    BY <1>4, <2>2, <2>4, <2>5
  <2> QED BY <2>4, <2>6
<1>9. ASSUME NEW k \in 1 .. 2, k <= standard.depth[x], NEW e \in Later(k, a),
             x \in e.to, e.dist = 1, ~e.sibling,
             DataAfter(n, cmd) + e.val >= DataAfter(n, a) + Speeds[n].nBL,
             SubSeq(v, 1, k) = SubSeq(vec, 1, k)
      PROVE  t + DataAfter(n, a) + Speeds[n].nBL <= Now + DataAfter(n, cmd)
  <2>1. k \in 1 .. D
    BY <1>1
  <2>2. SubSeq(v, 1, k) \in PathOf(v) /\ SubSeq(v, 1, k) \in Tree
    BY <1>1, <1>5, <2>1, TreePath, RankPath DEF Shaped
  <2>3. t + e.val <= next[SubSeq(v, 1, k)][x]
    BY <1>1, <1>3, <1>9, <2>1, <2>2 DEF OwnHeld, NodeOf
  <2>4. next[SubSeq(vec, 1, k)][x] <= Now
    BY <1>9, <2>1, CheckedThere
  <2>5. PICK node \in Tree : node = SubSeq(v, 1, k)
    BY <2>2
  <2> QED BY <1>8, <1>9, <2>3, <2>4, <2>5
<1>10. CASE RankOf(v) = RankOf(vec)
  <2>1. PICK k \in 1 .. 2 : /\ k <= standard.depth[x]
                            /\ \E e \in RowsAfterCommand(n, k, a) :
                                 /\ x \in e.to /\ e.dist = 1
                                 /\ e.sibling <=> FALSE /\ k = 2
                                 /\ DataAfter(n, cmd) + e.val >= DataAfter(n, a) + Speeds[n].nBL
    BY <1>1, <1>7 DEF BusRowFor
  <2>2. PICK e \in Later(k, a) :
           /\ x \in e.to /\ e.dist = 1 /\ ~e.sibling
           /\ DataAfter(n, cmd) + e.val >= DataAfter(n, a) + Speeds[n].nBL
    BY <2>1 DEF RowsAfterCommand, Later
  <2>3. SubSeq(v, 1, k) = SubSeq(vec, 1, k)
    <3>1. CASE k = 2
      BY <1>10, <3>1 DEF RankOf
    <3>2. CASE k = 1
      BY <1>1, <1>5, <3>2, RankNodes
    <3> QED BY <3>1, <3>2
  <2> QED BY <1>3, <1>7, <1>9, <2>1, <2>2, <2>3
<1>11. CASE RankOf(v) # RankOf(vec)
  <2>1. RankOf(v) \in Ranks /\ RankOf(vec) \in Ranks
    BY <1>1, <1>5, RankNodes
  <2>2. Specs[n].ranks # 1
    BY <1>1, <1>11, <2>1 DEF Ranks
  <2>3. PICK k \in 1 .. 2 : /\ k <= standard.depth[x]
                            /\ \E e \in RowsAfterCommand(n, k, a) :
                                 /\ x \in e.to /\ e.dist = 1
                                 /\ e.sibling <=> TRUE /\ k = 2
                                 /\ DataAfter(n, cmd) + e.val >= DataAfter(n, a) + Speeds[n].nBL
    BY <1>1, <1>7, <2>2 DEF BusRowFor
  <2>4. PICK e \in Later(k, a) :
           /\ x \in e.to /\ e.dist = 1 /\ (e.sibling <=> k = 2)
           /\ DataAfter(n, cmd) + e.val >= DataAfter(n, a) + Speeds[n].nBL
    BY <2>3 DEF RowsAfterCommand, Later
  <2>5. CASE k = 1
    <3>1. SubSeq(v, 1, k) = SubSeq(vec, 1, k)
      BY <1>1, <1>5, <2>5, RankNodes
    <3>2. ~e.sibling
      BY <2>4, <2>5
    <3> QED BY <1>3, <1>7, <1>9, <2>3, <2>4, <3>1, <3>2
  <2>6. CASE k = 2
    <3>1. e.sibling
      BY <2>4, <2>6
    <3>2. PICK f \in Later(2, a) : f = e
      BY <2>6
    <3>3. t + f.val <= next[RankOf(vec)][x]
      BY <1>1, <1>3, <1>11, <2>1, <2>4, <3>1, <3>2 DEF SiblingHeld
    <3>4. next[RankOf(vec)][x] <= Now
      <4>1. 2 \in 1 .. D
        BY <1>1
      <4> QED BY <2>3, <2>6, <4>1, CheckedThere DEF RankOf
    <3>5. RankOf(vec) \in Tree
      BY <1>1, <2>1, RankNodes
    <3> QED BY <1>3, <1>7, <1>8, <2>4, <3>2, <3>3, <3>4, <3>5
  <2> QED BY <2>5, <2>6
<1> QED BY <1>10, <1>11, <1>3, <1>7

\* BurstsApart of the command of a cycle.
LEMMA BurstsStep ==
  ASSUME WellTyped, OwnHeld, SiblingHeld, InCycle,
         NEW cmd, NEW vec, NEW id, NEW x, Issuing(cmd, vec, id, x)
  PROVE  BurstsApart'
<1>1. PICK n \in Nat : n = Len(issued)
  BY Appended
<1>2. /\ DOMAIN issued = 1 .. n /\ DOMAIN issued' = 1 .. n + 1 /\ Len(issued') = n + 1
      /\ \A i \in 1 .. n : issued'[i] = issued[i]
      /\ issued'[n + 1] = [cmd |-> cmd, vec |-> vec, clk |-> Now, id |-> id]
  BY <1>1, Appended
<1>3. standard' = standard
  BY DEF InCycle
<1>4. ASSUME NEW j \in JustIssued', NEW i \in DOMAIN issued',
             issued'[j].cmd \in Accessing, issued'[i].cmd \in Accessing, i < j
      PROVE  issued'[i].clk + DataAfter(standard.name, issued'[i].cmd) + Speeds[standard.name].nBL
               <= issued'[j].clk + DataAfter(standard.name, issued'[j].cmd)
  <2>1. j = n + 1 /\ i \in 1 .. n
    BY <1>2, <1>4 DEF JustIssued
  <2>2. issued'[i] = issued[i] /\ issued'[j].cmd = cmd /\ issued'[j].clk = Now
    BY <1>2, <2>1
  <2> QED BY <1>2, <1>4, <2>1, <2>2, BusKept
<1> QED BY <1>3, <1>4 DEF BurstsApart, Commands

-----------------------------------------------------------------------------
(* The steps of the controller.                                            *)

\* The standard says what requests, plans and commands there are.
LEMMA SameStandard ==
  ASSUME standard' = standard
  PROVE  /\ Requests' = Requests /\ RefreshRequests' = RefreshRequests
         /\ PlanRecord' = PlanRecord
         /\ NextTyped' <=> next' \in [Tree -> [Issued -> Int]]
         /\ \A now : HistoryOf(now)' = HistoryOf(now)
         /\ Known' <=> Known
<1>1. Requests' = Requests /\ RefreshRequests' = RefreshRequests
  BY DEF RefreshRequests, Requests, Fitting, RefreshesRanks, OfRank, OnTree, Digits, D
<1>2. PlanRecord' = PlanRecord
  BY DEF PlanRecord, RankNumbers, Banks, BankOf
<1>3. NextTyped' <=> next' \in [Tree -> [Issued -> Int]]
  BY DEF NextTyped, Tree, Issued, D
<1>4. \A now : HistoryOf(now)' = HistoryOf(now)
  BY DEF HistoryOf, Ranks, Issued
<1>5. Known' <=> Known
  BY DEF Known
<1> QED BY <1>1, <1>2, <1>3, <1>4, <1>5

\* Without a new command nothing is held back longer, and none is the newest of
\* a new cycle.
LEMMA QuietStep ==
  ASSUME IInv, issued' = issued, next' = next, prev' = prev, standard' = standard,
         clk' \in {clk, Now}
  PROVE  /\ CommandsInOrder' /\ NextTyped' /\ (prev \in HistoryOf(clk))'
         /\ OwnHeld' /\ SiblingHeld' /\ HistoryKept' /\ WindowHeld'
         /\ RestKept' /\ BurstsApart'
<1>1. clk \in Nat /\ Now = clk + 1 /\ clk' \in Nat /\ clk <= clk' /\ (clk' = clk \/ clk < clk')
  BY DEF IInv, WellTyped, Now
<1>2. NextTyped'
  BY SameStandard DEF IInv, WellTyped, NextTyped
<1>3. (prev \in HistoryOf(clk))'
  <2>1. PICK now \in Nat : now = clk'
    BY <1>1
  <2>2. prev \in HistoryOf(now)
    BY <1>1, <2>1, HistoryStays DEF IInv, WellTyped
  <2>3. prev' \in HistoryOf(now)'
    BY <2>2, SameStandard
  <2> QED BY <2>1, <2>3 DEF HistoryOf
<1>4. CommandsInOrder'
  <2>1. CommandSet' = CommandSet
    BY DEF CommandSet, Issued
  <2>2. \A i \in DOMAIN issued : ShapeFor(issued[i].cmd, issued[i].vec)'
    BY DEF IInv, WellTyped, CommandsInOrder, ShapeFor, OfRank, OnTree, Digits, D
  <2>3. \A i \in DOMAIN issued : issued[i].clk <= clk'
    <3> TAKE i \in DOMAIN issued
    <3>1. issued[i] \in CommandSet /\ issued[i].clk <= clk
      BY LenProperties, ElementOfSeq DEF IInv, WellTyped, CommandsInOrder
    <3>2. issued[i].clk \in Nat
      BY <3>1 DEF CommandSet
    <3> QED BY <1>1, <3>1, <3>2
  <2> QED BY <2>1, <2>2, <2>3 DEF IInv, WellTyped, CommandsInOrder
<1>5. OwnHeld'
  BY DEF IInv, OwnHeld, NodeOf, PathOf, Later, D, Issued
<1>6. SiblingHeld'
  BY DEF IInv, SiblingHeld, RankOf, Ranks, Later, Issued
<1>7. \A i : Again(i)' = Again(i)
  BY DEF Again, SameRank, RankOf
<1>8. HistoryKept'
  BY <1>7 DEF IInv, HistoryKept, RankOf
<1>9. WindowHeld'
  BY <1>7 DEF IInv, WindowHeld, RankOf, Later, Issued
<1>10. CASE clk' = clk
  <2>1. RestKept'
    <3>1. JustIssued' = JustIssued
      BY <1>10 DEF JustIssued
    <3>2. \A i, j : /\ SameLeaf(i, j)' <=> SameLeaf(i, j)
                    /\ SameBank(i, j)' <=> SameBank(i, j)
                    /\ SameRank(i, j)' <=> SameRank(i, j)
                    /\ Apart(i, j)' = Apart(i, j)
      BY DEF SameLeaf, SameBank, SameRank, Apart, LeafOf, BankOf, RankOf
    <3>3. \A k, a, b : Distance(k, a, b)' = Distance(k, a, b)
      BY DEF Distance
    <3>4. \A i : BankOf(issued[i].vec)' = BankOf(issued[i].vec)
      BY DEF BankOf
    <3>5. RestKept
      BY DEF IInv
    <3> QED BY <3>1, <3>2, <3>3, <3>4, <3>5 DEF RestKept
  <2>2. BurstsApart'
    <3>1. JustIssued' = JustIssued /\ \A kinds : Commands(kinds)' = Commands(kinds)
      BY <1>10 DEF JustIssued, Commands
    <3>2. BurstsApart
      BY DEF IInv
    <3> QED BY <3>1, <3>2 DEF BurstsApart
  <2> QED BY <1>2, <1>3, <1>4, <1>5, <1>6, <1>8, <1>9, <2>1, <2>2
<1>11. CASE clk < clk'
  <2>1. JustIssued' = {}
    <3> SUFFICES ASSUME NEW j \in JustIssued' PROVE FALSE
      OBVIOUS
    <3>1. j \in DOMAIN issued /\ issued[j].clk = clk'
      BY DEF JustIssued
    <3>2. issued[j].clk <= clk
      BY <3>1 DEF IInv, WellTyped, CommandsInOrder
    <3> QED BY <1>1, <1>11, <3>1, <3>2
  <2>2. RestKept'
    BY <2>1 DEF RestKept
  <2>3. BurstsApart'
    BY <2>1 DEF BurstsApart
  <2> QED BY <1>2, <1>3, <1>4, <1>5, <1>6, <1>8, <1>9, <2>2, <2>3
<1> QED BY <1>1, <1>10, <1>11

\* A step of advance() sends requests and issues no command.
LEMMA InsertKeeps ==
  ASSUME IInv, Insert
  PROVE  IInv'
<1> USE DEF IInv
<1>1. /\ Known /\ clk \in Nat /\ loads \in Seq(Requests) /\ stores \in Seq(Requests)
      /\ readq \in Seq(Requests) /\ writeq \in Seq(Requests) /\ pending \in Seq(Requests)
      /\ work \in Seq([id : Nat, type : {"READ", "WRITE"}, addr : Nat])
  BY DEF WellTyped
<1> DEFINE f == [reads |-> readq, writes |-> writeq, pend |-> pending, loads |-> <<>>, stores |-> <<>>]
<1>2. PICK n \in 0 .. Len(work) :
        \E put \in {Put([i \in 1 .. n |-> Request(work[i])], f)} :
          /\ work' = SubSeq(work, n + 1, Len(work))
          /\ readq' = put.reads /\ writeq' = put.writes /\ pending' = put.pend
          /\ loads' = put.loads /\ stores' = put.stores
  BY DEF Insert
<1>3. /\ UNCHANGED <<standard, table, row_state, next, prev>>
      /\ UNCHANGED <<clk, actq, otherq, write_mode, plan, issued>>
  BY DEF Insert, deviceVars, history
<1>4. Len(work) \in Nat /\ n \in Nat /\ n <= Len(work)
  BY <1>1, LenProperties
<1>5. [i \in 1 .. n |-> Request(work[i])] \in Seq(Requests)
  <2>1. \A i \in 1 .. n : Request(work[i]) \in Requests
    <3> TAKE i \in 1 .. n
    <3>1. i \in 1 .. Len(work)
      BY <1>4
    <3>2. work[i] \in [id : Nat, type : {"READ", "WRITE"}, addr : Nat]
      BY <1>1, <3>1, ElementOfSeq
    <3> QED BY <1>1, <3>2, RequestFits
  <2> HIDE DEF Request, Requests
  <2> QED BY <1>4, <2>1
<1>6. f \in Queues
  <2>1. <<>> \in Seq(Requests)
    BY EmptySeq
  <2> QED BY <1>1, <2>1 DEF Queues
<1> HIDE DEF f
<1>7. Put([i \in 1 .. n |-> Request(work[i])], f) \in Queues
  BY <1>1, <1>5, <1>6, PutAllKeeps
<1>8. /\ readq' \in Seq(Requests) /\ writeq' \in Seq(Requests) /\ pending' \in Seq(Requests)
      /\ loads' \in Seq(Requests) /\ stores' \in Seq(Requests)
  BY <1>2, <1>7 DEF Queues
<1>9. work' \in Seq([id : Nat, type : {"READ", "WRITE"}, addr : Nat])
  <2>1. \A i \in n + 1 .. Len(work) : work[i] \in [id : Nat, type : {"READ", "WRITE"}, addr : Nat]
    <3> TAKE i \in n + 1 .. Len(work)
    <3>1. i \in 1 .. Len(work)
      BY <1>4
    <3> QED BY <1>1, <3>1, ElementOfSeq
  <2>2. n + 1 \in Int /\ Len(work) \in Int
    BY <1>4
  <2> QED BY <1>2, <2>1, <2>2, SubSeqProperties
<1>10. Requests' = Requests /\ RefreshRequests' = RefreshRequests
      /\ PlanRecord' = PlanRecord /\ (Known' <=> Known)
  BY <1>3, SameStandard
<1>11. /\ CommandsInOrder' /\ NextTyped' /\ (prev \in HistoryOf(clk))'
       /\ OwnHeld' /\ SiblingHeld' /\ HistoryKept' /\ WindowHeld' /\ RestKept' /\ BurstsApart'
  BY <1>3, QuietStep
<1>12. WellTyped'
  <2>1. (Leaves = LeafNodes(standard.sizes))'
    BY <1>3 DEF WellTyped, Leaves
  <2> HIDE DEF Requests, RefreshRequests, PlanRecord, Known, CommandsInOrder, NextTyped
  <2> QED BY <1>3, <1>8, <1>9, <1>10, <1>11, <2>1 DEF WellTyped
<1> QED BY <1>11, <1>12

\* A request leaves its queue.
LEMMA RemoveKeeps ==
  ASSUME NEW S, NEW q \in Seq(S), NEW i \in DOMAIN q
  PROVE  RemoveAt(q, i) \in Seq(S)
<1>1. PICK n \in Nat : n = Len(q)
  BY LenProperties
<1>2. i \in 1 .. n /\ \A k \in 1 .. n : q[k] \in S
  BY <1>1, LenProperties, ElementOfSeq
<1>3. SubSeq(q, 1, i - 1) \in Seq(S)
  <2>1. 1 \in Int /\ i - 1 \in Int /\ \A k \in 1 .. i - 1 : q[k] \in S
    BY <1>2
  <2> QED BY <2>1, SubSeqProperties
<1>4. SubSeq(q, i + 1, n) \in Seq(S)
  <2>1. i + 1 \in Int /\ n \in Int /\ \A k \in i + 1 .. n : q[k] \in S
    BY <1>2
  <2> QED BY <2>1, SubSeqProperties
<1> QED BY <1>1, <1>3, <1>4, ConcatProperties DEF RemoveAt

\* The queues after a cycle hold requests.
LEMMA LeaveQueuesKeep ==
  ASSUME actq \in Seq(Requests), readq \in Seq(Requests), writeq \in Seq(Requests),
         NEW source, NEW other \in Seq(RefreshRequests), NEW q \in Seq(Requests),
         source = "other" => q \in Seq(RefreshRequests),
         NEW opened \in Seq(Requests), LeaveQueues(source, other, q, opened)
  PROVE  /\ actq' \in Seq(Requests) /\ otherq' \in Seq(RefreshRequests)
         /\ writeq' \in Seq(Requests) /\ readq' \in Seq(Requests)
<1> HIDE DEF Requests, RefreshRequests
<1>1. PICK s \in Seq(Requests) : s = IF source = "act" THEN q ELSE actq
  OBVIOUS
<1>2. actq' \in Seq(Requests)
  BY <1>1, ConcatProperties DEF LeaveQueues
<1>3. otherq' \in Seq(RefreshRequests) /\ writeq' \in Seq(Requests) /\ readq' \in Seq(Requests)
  BY DEF LeaveQueues
<1> QED BY <1>2, <1>3

\* So do the reads whose data is on its way.
LEMMA PendingKeeps ==
  ASSUME pending \in Seq(Requests)
  PROVE  PendingLeft \in Seq(Requests)
BY HeadTailProperties DEF PendingLeft, Served

\* Serving a request leaves requests in the queues.
LEMMA ServeKeeps ==
  ASSUME WellTyped, NEW source, NEW other \in Seq(RefreshRequests), NEW q \in Seq(Requests),
         source = "other" => q \in Seq(RefreshRequests), Serve(source, other, q)
  PROVE  /\ actq' \in Seq(Requests) /\ otherq' \in Seq(RefreshRequests)
         /\ writeq' \in Seq(Requests) /\ readq' \in Seq(Requests)
         /\ pending' \in Seq(Requests)
<1>1. /\ actq \in Seq(Requests) /\ readq \in Seq(Requests) /\ writeq \in Seq(Requests)
      /\ PendingLeft \in Seq(Requests) /\ <<>> \in Seq(Requests)
      /\ Known /\ clk \in Nat
  <2>1. pending \in Seq(Requests)
    BY DEF WellTyped
  <2> HIDE DEF Requests
  <2>2. PendingLeft \in Seq(Requests) /\ <<>> \in Seq(Requests)
    BY <2>1, PendingKeeps, EmptySeq
  <2> QED BY <2>2 DEF WellTyped
<1>2. CASE ~HeadReady(q)
  <2>1. Idle(source, other, q)
    BY <1>2 DEF Serve
  <2> QED BY <1>1, <2>1, LeaveQueuesKeep DEF Idle
<1>3. CASE HeadReady(q)
  <2>1. q # <<>>
    BY <1>3 DEF HeadReady
  <2>2. PICK i : i = HeadOf(q)
    OBVIOUS
  <2>3. i \in DOMAIN q
    BY <2>1, <2>2, HeadInQueue
  <2>4. q[i] \in Requests
    BY <2>3, LenProperties, ElementOfSeq
  <2>5. PICK begun : begun = Begin(q[i])
    OBVIOUS
  <2>6. begun \in Requests
    BY <1>1, <2>4, <2>5, BeginFits
  <2>7. PICK cmd : \/ IssueRowCommand(source, other, q, i, begun, cmd)
                   \/ IssueLastCommand(source, other, q, i, begun, cmd)
    BY <1>3, <2>2, <2>5 DEF Serve
  <2>8. /\ RemoveAt(q, i) \in Seq(Requests)
        /\ source = "other" => RemoveAt(q, i) \in Seq(RefreshRequests)
    <3> HIDE DEF Requests, RefreshRequests
    <3> QED BY <2>3, RemoveKeeps
  <2>9. /\ [q EXCEPT ![i] = begun] \in Seq(Requests) /\ <<begun>> \in Seq(Requests)
        /\ source = "other" => [q EXCEPT ![i] = begun] \in Seq(RefreshRequests)
    <3>1. source = "other" => begun \in RefreshRequests
      <4>1. source = "other" => q[i] \in RefreshRequests
        BY <2>3, LenProperties, ElementOfSeq
      <4> QED BY <1>1, <2>4, <2>5, <2>6, <4>1, BeginFits DEF RefreshRequests
    <3> HIDE DEF Requests, RefreshRequests
    <3> QED BY <2>3, <2>6, <3>1, LenProperties, ExceptSeq
  <2>10. CASE IssueRowCommand(source, other, q, i, begun, cmd)
    <3>1. pending' \in Seq(Requests)
      BY <1>1, <2>10 DEF IssueRowCommand
    <3>2. CASE cmd \in Opening /\ standard.name # "TLDRAM"
      <4>1. PICK left \in Seq(Requests) :
              /\ LeaveQueues(source, other, left, <<begun>>)
              /\ source = "other" => left \in Seq(RefreshRequests)
        BY <2>8, <2>10, <3>2 DEF IssueRowCommand
      <4> HIDE DEF Requests, RefreshRequests
      <4> QED BY <1>1, <2>9, <3>1, <4>1, LeaveQueuesKeep
    <3>3. CASE ~(cmd \in Opening /\ standard.name # "TLDRAM")
      <4>1. LeaveQueues(source, other, [q EXCEPT ![i] = begun], <<>>)
        BY <2>10, <3>3 DEF IssueRowCommand
      <4> QED BY <1>1, <2>9, <3>1, <4>1, LeaveQueuesKeep
    <3> QED BY <3>2, <3>3
  <2>11. CASE IssueLastCommand(source, other, q, i, begun, cmd)
    <3>1. PICK left \in Seq(Requests) :
            /\ LeaveQueues(source, other, left, <<>>)
            /\ source = "other" => left \in Seq(RefreshRequests)
      BY <2>8, <2>11 DEF IssueLastCommand
    <3>2. [begun EXCEPT !.depart = Now + standard.read_latency] \in Requests
      <4>1. Now + standard.read_latency \in Int
        <5>1. standard.name \in Standards /\ standard.read_latency = Specs[standard.name].read_latency
          BY <1>1, StandardFields DEF Known
        <5>2. Specs[standard.name].read_latency \in Nat
          BY <5>1, CommandsKnown
        <5> QED BY <1>1, <5>1, <5>2 DEF Now
      <4>2. begun \in RequestType
        BY <2>6 DEF Requests
      <4>3. PICK r : r = [begun EXCEPT !.depart = Now + standard.read_latency]
        OBVIOUS
      <4>4. r \in RequestType /\ r.type = begun.type /\ r.vec = begun.vec
        BY <4>1, <4>2, <4>3 DEF RequestType
      <4> QED BY <2>6, <4>3, <4>4, StillFits
    <3>3. pending' \in Seq(Requests)
      <4> HIDE DEF Requests
      <4> QED BY <1>1, <2>11, <3>2, AppendProperties DEF IssueLastCommand
    <3> HIDE DEF Requests, RefreshRequests
    <3> QED BY <1>1, <3>1, <3>3, LeaveQueuesKeep
  <2> QED BY <2>7, <2>10, <2>11
<1> QED BY <1>2, <1>3

\* Either nothing is issued in a cycle, or a command that was checked.
LEMMA ServeIssues ==
  ASSUME WellTyped, NEW source, NEW other, NEW q \in Seq(Requests), Serve(source, other, q)
  PROVE  \/ UNCHANGED <<row_state, next, prev, issued>>
         \/ \E cmd, vec, id, x : Issuing(cmd, vec, id, x)
<1>1. Known /\ Leaves = LeafNodes(standard.sizes)
  BY DEF WellTyped
<1>2. CASE ~HeadReady(q)
  BY <1>2 DEF Serve, Idle
<1>3. CASE HeadReady(q)
  <2>1. PICK i : i = HeadOf(q)
    OBVIOUS
  <2>2. q # <<>> /\ Ready(q[i])
    BY <1>3, <2>1 DEF HeadReady
  <2>3. q[i] \in Requests
    BY <2>1, <2>2, HeadInQueue, LenProperties, ElementOfSeq
  <2>4. PICK r \in Requests : r = q[i]
    BY <2>3
  <2>5. PICK begun : begun = Begin(r)
    OBVIOUS
  <2>6. PICK cmd : cmd = FirstCommand(begun)
    OBVIOUS
  <2>7. PICK vec : vec = TargetOf(cmd, begun.vec)
    OBVIOUS
  <2>8. Issue(cmd, vec, begun.id)
    BY <1>3, <2>1, <2>4, <2>5, <2>6, <2>7 DEF Serve
  <2>9. begun.id \in Nat
    BY <1>1, <2>5, BeginFits
  <2>10. Ready(r)
    BY <2>2, <2>4
  <2>11. /\ cmd \in Issued /\ ShapeFor(cmd, vec)
         /\ FirstCommand(r) \in Issued /\ FirstCommand(r) \in CheckedFor(standard.name, cmd)
         /\ CanIssue(FirstCommand(r), vec, Now)
    BY <1>1, <2>5, <2>6, <2>7, <2>10, ServedFits
  <2>12. Issuing(cmd, vec, begun.id, FirstCommand(r))
    BY <2>8, <2>9, <2>11 DEF Issuing
  <2> QED BY <2>12
<1> QED BY <1>2, <1>3

\* A cycle keeps the invariant: it issues nothing, or a command all the nodes on
\* its way were ready for.
LEMMA TickKeeps ==
  ASSUME IInv, Tick
  PROVE  IInv'
<1>1. WellTyped /\ OwnHeld /\ SiblingHeld /\ HistoryKept /\ WindowHeld
  BY DEF IInv
<1>2. /\ clk' = Now /\ table' = TableNow /\ write_mode' = ModeNow
      /\ UNCHANGED <<standard, work, loads, stores>>
  BY DEF Tick
<1>3. PICK p \in PlansNow : \E source \in {Source(p.other)} :
         /\ plan' = [k \in DOMAIN plan |-> p[k]]
         /\ Serve(source, p.other, Tried(source, p.other))
  BY DEF Tick
<1>4. PICK source : /\ source = Source(p.other)
                    /\ plan' = [k \in DOMAIN plan |-> p[k]]
                    /\ Serve(source, p.other, Tried(source, p.other))
  BY <1>3
<1>5. p \in PlanSet
  BY <1>1, <1>3, PlansFit DEF WellTyped
<1>6. p.other \in Seq(RefreshRequests) /\ p.other \in Seq(Requests)
  <2>1. p.other \in Seq(RefreshRequests)
    BY <1>5 DEF PlanSet
  <2> QED BY <2>1, WiderSeq DEF RefreshRequests
<1>7. Tried(source, p.other) \in Seq(Requests)
  <2>1. source \in {"act", "other", "write", "read"}
    BY <1>4 DEF Source
  <2>2. actq \in Seq(Requests) /\ writeq \in Seq(Requests) /\ readq \in Seq(Requests)
    BY <1>1 DEF WellTyped
  <2> HIDE DEF Requests
  <2> QED BY <1>6, <2>1, <2>2 DEF Tried
<1>8. PICK q \in Seq(Requests) : /\ q = Tried(source, p.other)
                                 /\ source = "other" => q \in Seq(RefreshRequests)
  BY <1>6, <1>7 DEF Tried
<1>9. /\ actq' \in Seq(Requests) /\ otherq' \in Seq(RefreshRequests)
      /\ writeq' \in Seq(Requests) /\ readq' \in Seq(Requests)
      /\ pending' \in Seq(Requests)
  <2>1. Serve(source, p.other, q)
    BY <1>4, <1>8
  <2> HIDE DEF Requests, RefreshRequests
  <2> QED BY <1>1, <1>6, <1>8, <2>1, ServeKeeps
<1>10. plan' \in PlanRecord
  <2>1. DOMAIN plan = {"turn", "backlog", "subarray", "written"}
    BY <1>1 DEF WellTyped, PlanRecord
  <2>2. plan' = [turn |-> p.turn, backlog |-> p.backlog, subarray |-> p.subarray,
                 written |-> p.written]
    BY <1>4, <2>1
  <2> QED BY <1>5, <2>2 DEF PlanSet, PlanRecord
<1>11. InCycle /\ Now \in Nat /\ write_mode' \in BOOLEAN
  <2>1. table \in {"first", "later"} /\ clk \in Nat
    BY <1>1 DEF WellTyped
  <2>2. TableNow \in {"first", "later"}
    BY <2>1 DEF TableNow
  <2>3. ModeNow \in BOOLEAN
    <3>1. Len(writeq) \in Nat
      BY <1>1, LenProperties DEF WellTyped
    <3>2. LowMark \in Int /\ HighMark \in Int
      BY RamControllerAssumption
    <3>3. PICK len \in Int : len = Len(writeq)
      BY <3>1
    <3>4. PICK low \in Int, high \in Int : low = LowMark /\ high = HighMark
      BY <3>2
    <3>5. PICK slack \in Int : slack = IF standard.name = "TLDRAM" THEN 1 ELSE 0
      OBVIOUS
    <3>6. ModeNow = IF write_mode THEN ~(len < low + slack /\ readq # <<>>) ELSE len > high - slack
      BY <3>3, <3>4, <3>5 DEF ModeNow
    <3>7. (len < low + slack) \in BOOLEAN /\ (len > high - slack) \in BOOLEAN
      OBVIOUS
    <3> QED BY <3>6, <3>7
  <2> QED BY <1>2, <2>1, <2>2, <2>3 DEF InCycle, Now
<1>12. Requests' = Requests /\ RefreshRequests' = RefreshRequests
      /\ PlanRecord' = PlanRecord /\ (Known' <=> Known)
       /\ (NextTyped' <=> next' \in [Tree -> [Issued -> Int]])
       /\ \A now : HistoryOf(now)' = HistoryOf(now)
  BY <1>2, SameStandard
<1>13. /\ Leaves' = Leaves /\ CommandsInOrder' /\ NextTyped' /\ (prev \in HistoryOf(clk))'
       /\ OwnHeld' /\ SiblingHeld' /\ HistoryKept' /\ WindowHeld' /\ RestKept' /\ BurstsApart'
  <2>1. CASE UNCHANGED <<row_state, next, prev, issued>>
    <3>1. Leaves' = Leaves
      BY <2>1 DEF Leaves
    <3> QED BY <1>2, <2>1, <3>1, QuietStep
  <2>2. CASE \E cmd, vec, id, x : Issuing(cmd, vec, id, x)
    <3>1. PICK cmd, vec, id, x : Issuing(cmd, vec, id, x)
      BY <2>2
    <3>2. Leaves' = Leaves
      <4>1. row_state' = RowsAfter(cmd, vec)
        BY <3>1 DEF Issuing, Issue, Update
      <4>2. DOMAIN RowsAfter(cmd, vec) = Leaves
        BY LeavesKept
      <4> QED BY <4>1, <4>2 DEF Leaves
    <3>3. CommandsInOrder' /\ OwnHeld' /\ SiblingHeld' /\ HistoryKept' /\ WindowHeld'
          /\ RestKept' /\ BurstsApart'
      BY <1>1, <1>11, <3>1, OrderStep, OwnHeldStep, SiblingHeldStep, HistoryKeptStep,
         WindowHeldStep, RestStep, BurstsStep
    <3>4. NextTyped' /\ prev' \in HistoryOf(Now)
      BY <1>1, <1>11, <1>12, <3>1, TimesStep
    <3>5. (prev \in HistoryOf(clk))'
      <4>1. PICK now : now = clk'
        OBVIOUS
      <4>2. prev' \in HistoryOf(now)'
        BY <1>2, <1>12, <3>4, <4>1
      <4> QED BY <4>1, <4>2 DEF HistoryOf
    <3> QED BY <3>2, <3>3, <3>4, <3>5
  <2>3. Serve(source, p.other, q)
    BY <1>4, <1>8
  <2> QED BY <1>1, <1>8, <2>1, <2>2, <2>3, ServeIssues
<1>14. WellTyped'
  <2>1. LeafNodes(standard.sizes)' = LeafNodes(standard.sizes)
    BY <1>2 DEF LeafNodes
  <2>2. loads' \in Seq(Requests) /\ stores' \in Seq(Requests)
        /\ work' \in Seq([id : Nat, type : {"READ", "WRITE"}, addr : Nat])
        /\ Leaves = LeafNodes(standard.sizes) /\ Known
    BY <1>1, <1>2 DEF WellTyped
  <2>3. table' \in {"first", "later"} /\ clk' \in Nat
    BY <1>2, <1>11 DEF InCycle
  <2> HIDE DEF Requests, RefreshRequests, PlanRecord, Known, CommandsInOrder, NextTyped
  <2> QED BY <1>9, <1>10, <1>11, <1>12, <1>13, <2>1, <2>2, <2>3 DEF WellTyped
<1> QED BY <1>13, <1>14 DEF IInv

\* Before the first cycle nothing is held back, and nothing was issued.
LEMMA InitHolds ==
  ASSUME Init
  PROVE  IInv
<1>1. PICK n \in Standards : standard = TheStandard(n)
  BY DEF Init, DeviceInit
<1>2. Known /\ standard.name = n /\ clk = 0 /\ table = "first"
  BY <1>1, StandardFields DEF Known, Init, DeviceInit
<1>3. issued = <<>> /\ DOMAIN issued = {} /\ issued \in Seq(CommandSet) /\ Len(issued) = 0
  BY EmptySeq DEF Init
<1>4. Leaves = LeafNodes(standard.sizes) /\ Nodes = Tree
  BY DEF Init, DeviceInit, Leaves, Nodes, Tree, D
<1>5. NextTyped
  BY <1>4 DEF NextTyped, Init, DeviceInit
<1>6. prev \in HistoryOf(clk)
  <2>1. <<>> \in Seq(0 .. clk)
    BY EmptySeq
  <2> QED BY <2>1 DEF HistoryOf, Init, DeviceInit
<1>7. plan \in PlanRecord
  <2>1. {BankOf(l) : l \in Leaves} = Banks
    BY <1>4 DEF Banks
  <2>2. 0 \in BankNumbers
    BY RamDeviceAssumption DEF BankNumbers
  <2>3. PICK credit \in IF standard.name \in {"DARP", "DSARP"} THEN Backlogs ELSE {0} :
           plan = [turn |-> [r \in RankNumbers |-> 0], backlog |-> [b \in Banks |-> credit],
                   subarray |-> [b \in Banks |-> 0], written |-> FALSE]
    BY <2>1 DEF Init, RankNumbers
  <2>4. Backlogs \subseteq Int
    BY RamControllerAssumption
  <2>5. credit \in Int
    <3>1. CASE standard.name \in {"DARP", "DSARP"}
      BY <2>3, <2>4, <3>1
    <3>2. CASE standard.name \notin {"DARP", "DSARP"}
      BY <2>3, <3>2
    <3> QED BY <3>1, <3>2
  <2>6. /\ [r \in RankNumbers |-> 0] \in [RankNumbers -> BankNumbers]
        /\ [b \in Banks |-> credit] \in [Banks -> Int]
        /\ [b \in Banks |-> 0] \in [Banks -> BankNumbers]
    BY <2>2, <2>5
  <2> QED BY <2>3, <2>6 DEF PlanRecord
<1>8. work \in Seq([id : Nat, type : {"READ", "WRITE"}, addr : Nat])
  BY <1>2, RamControllerAssumption DEF Init
<1>9. /\ readq \in Seq(Requests) /\ writeq \in Seq(Requests) /\ actq \in Seq(Requests)
      /\ otherq \in Seq(RefreshRequests) /\ pending \in Seq(Requests)
      /\ loads \in Seq(Requests) /\ stores \in Seq(Requests)
  <2>1. <<>> \in Seq(Requests) /\ <<>> \in Seq(RefreshRequests)
    BY EmptySeq
  <2> QED BY <2>1 DEF Init
<1>10. CommandsInOrder
  BY <1>3 DEF CommandsInOrder
<1>11. WellTyped
  <2>1. write_mode \in BOOLEAN
    BY DEF Init
  <2> HIDE DEF Requests, RefreshRequests, PlanRecord, Known, CommandsInOrder, NextTyped, Leaves
  <2> QED BY <1>2, <1>4, <1>5, <1>6, <1>7, <1>8, <1>9, <1>10, <2>1 DEF WellTyped
<1>12. OwnHeld /\ SiblingHeld /\ HistoryKept /\ WindowHeld
  BY <1>3 DEF OwnHeld, SiblingHeld, HistoryKept, WindowHeld
<1>13. JustIssued = {}
  BY <1>3 DEF JustIssued
<1>14. RestKept /\ BurstsApart
  BY <1>13 DEF RestKept, BurstsApart
<1> QED BY <1>11, <1>12, <1>14 DEF IInv

\* When everything is answered nothing changes.
LEMMA StillKeeps ==
  ASSUME IInv, UNCHANGED vars
  PROVE  IInv'
<1>1. /\ UNCHANGED <<standard, table, row_state, next, prev>>
      /\ UNCHANGED <<clk, readq, writeq, actq, otherq, pending, write_mode, plan>>
      /\ UNCHANGED <<work, loads, stores, issued>>
  BY DEF vars, deviceVars, ctrlVars, hostVars, history
<1>2. WellTyped
  BY DEF IInv
<1>3. /\ CommandsInOrder' /\ NextTyped' /\ (prev \in HistoryOf(clk))'
      /\ OwnHeld' /\ SiblingHeld' /\ HistoryKept' /\ WindowHeld' /\ RestKept' /\ BurstsApart'
  BY <1>1, QuietStep
<1>4. Requests' = Requests /\ RefreshRequests' = RefreshRequests
      /\ PlanRecord' = PlanRecord /\ (Known' <=> Known)
  BY <1>1, SameStandard
<1>5. (Leaves = LeafNodes(standard.sizes))'
  BY <1>1, <1>2 DEF WellTyped, Leaves
<1>6. WellTyped'
  <2> HIDE DEF Requests, RefreshRequests, PlanRecord, Known, CommandsInOrder, NextTyped
  <2> QED BY <1>1, <1>2, <1>3, <1>4, <1>5 DEF WellTyped
<1> QED BY <1>3, <1>6 DEF IInv

-----------------------------------------------------------------------------
(* What the controller keeps.                                              *)

\* The invariant holds in every state.
THEOREM Inductive == Spec => []IInv
<1>1. Init => IInv
  BY InitHolds
<1>2. IInv /\ [Next]_vars => IInv'
  <2> SUFFICES ASSUME IInv, [Next]_vars PROVE IInv'
    OBVIOUS
  <2>1. CASE Insert
    BY <2>1, InsertKeeps
  <2>2. CASE Tick
    BY <2>2, TickKeeps
  <2>3. CASE UNCHANGED vars
    BY <2>3, StillKeeps
  <2> QED BY <2>1, <2>2, <2>3 DEF Next, Finished
<1> QED BY <1>1, <1>2, PTL DEF Spec

\* RestKept: a subarray, a bank, and a rank that refreshes, get the time the
\* table of the standard wants, and no window has more activates than it allows
\* (DRAM::check, DRAM::update_timing and the choice of Controller::tick).
THEOREM RestIsKept == Spec => []RestKept
<1>1. IInv => RestKept
  BY DEF IInv
<1> QED BY <1>1, Inductive, PTL

\* BurstsApart: the data of two columns never meets on the bus, whatever the
\* workload, the banks and the ranks (the rows of init_timing for columns, which
\* update_timing() gives to the rank and its siblings).
THEOREM BurstsAreApart == Spec => []BurstsApart
<1>1. IInv => BurstsApart
  BY DEF IInv
<1> QED BY <1>1, Inductive, PTL

=============================================================================
