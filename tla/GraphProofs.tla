---------------------------- MODULE GraphProofs ----------------------------
(***************************************************************************)
(* Proofs about the placement of data structures and the accesses of the   *)
(* execution graph, for every machine, application and size of a cache     *)
(* line.                                                                   *)
(*                                                                         *)
(* Placement: an object's addresses lie between its first line and the     *)
(* first address still free, and the objects' ranges of whole lines do not *)
(* meet.                                                                   *)
(*                                                                         *)
(* Accesses: the groups divide the nodes into stretches, the walk has come *)
(* a known way through them, and every access it has come by has the       *)
(* operations the generator gives, which are as many for each access of a  *)
(* node.                                                                   *)
(*                                                                         *)
(* These two, PlaceInv and GraphInv, are the inductive invariants.         *)
(***************************************************************************)
EXTENDS ExecGraph, SequenceTheorems, FiniteSetTheorems, TLAPS

Aligned(a) == \E k \in Nat : a = k * LineBytes

ObjectsOK ==
  \A x \in DOMAIN placed :
    /\ placed[x].mem \in Mems
    /\ placed[x].st \in Nat /\ placed[x].end \in Nat
    /\ placed[x].st < placed[x].end /\ placed[x].end <= freeAddr
    /\ Aligned(placed[x].st)

Apart ==
  \A x, y \in DOMAIN placed :
    x # y => placed[x].end <= placed[y].st \/ placed[y].end <= placed[x].st

PlaceInv ==
  /\ data \in Seq(DataStatements)
  /\ freeAddr \in Nat /\ Aligned(freeAddr)
  /\ ObjectsOK
  /\ Apart

(***************************************************************************)
(* Division with remainder.                                                *)
(***************************************************************************)
LEMMA DivMod ==
  ASSUME NEW a \in Nat, NEW b \in Nat \ {0}
  PROVE  /\ a \div b \in Nat
         /\ a % b \in 0 .. b - 1
         /\ a = (a \div b) * b + (a % b)
OBVIOUS

(***************************************************************************)
(* Rounding up to whole lines.                                             *)
(***************************************************************************)
LEMMA RoundedCovers ==
  ASSUME NEW n \in Nat \ {0}
  PROVE  Rounded(n) \in Nat /\ Rounded(n) >= n /\ Aligned(Rounded(n))
<1>1. LineBytes \in Nat \ {0}
  BY PlacementConstants
<1>2. PICK q \in Nat, r \in 0 .. LineBytes - 1 : n - 1 = q * LineBytes + r /\ q = (n - 1) \div LineBytes
  BY <1>1, DivMod
<1>3. Rounded(n) = q * LineBytes + LineBytes
  BY <1>2 DEF Rounded
<1>4. q * LineBytes \in Nat /\ q + 1 \in Nat /\ q * LineBytes + LineBytes = (q + 1) * LineBytes
  BY <1>1, <1>2
<1>5. Rounded(n) \in Nat /\ Rounded(n) >= n
  <2>1. PICK p \in Nat : p = q * LineBytes
    BY <1>4
  <2>2. n - 1 = p + r /\ Rounded(n) = p + LineBytes
    BY <1>2, <1>3, <2>1
  <2> QED
    BY ONLY <1>1, <2>2, r \in 0 .. LineBytes - 1, n \in Nat
<1>6. Aligned(Rounded(n))
  BY <1>3, <1>4 DEF Aligned
<1> QED
  BY <1>5, <1>6

(***************************************************************************)
(* The first line of an address at or behind the beginning of a line is    *)
(* at or behind it too, and addresses of different aligned ranges share no *)
(* line.                                                                   *)
(***************************************************************************)
LEMMA LineFloor ==
  ASSUME NEW s \in Nat, NEW addr \in Nat, Aligned(s), s <= addr
  PROVE  /\ (addr \div LineBytes) * LineBytes \in Nat
         /\ s <= (addr \div LineBytes) * LineBytes
         /\ (addr \div LineBytes) * LineBytes <= addr
<1>1. LineBytes \in Nat \ {0}
  BY PlacementConstants
<1>2. PICK k \in Nat : s = k * LineBytes
  BY DEF Aligned
<1>3. PICK q \in Nat, r \in 0 .. LineBytes - 1 : addr = q * LineBytes + r /\ q = addr \div LineBytes
  BY <1>1, DivMod
<1>4. k <= q
  <2>1. ASSUME q < k PROVE FALSE
    <3>1. PICK d \in Nat : k = q + 1 + d
      BY <2>1
    <3>2. k * LineBytes = q * LineBytes + LineBytes + d * LineBytes
      BY <1>1, <3>1
    <3>3. PICK u \in Nat, v \in Nat : u = q * LineBytes /\ v = d * LineBytes
      BY <1>1
    <3> QED
      BY <1>1, <1>2, <1>3, <3>2, <3>3
  <2> QED
    BY <2>1
<1>5. k * LineBytes <= q * LineBytes
  <2>1. PICK d \in Nat : q = k + d
    BY <1>4
  <2>2. q * LineBytes = k * LineBytes + d * LineBytes /\ d * LineBytes \in Nat
    BY <1>1, <2>1
  <2> QED
    BY <1>1, <2>2
<1>6. q * LineBytes \in Nat
  BY <1>1
<1> QED
  BY <1>1, <1>2, <1>3, <1>5, <1>6

(***************************************************************************)
(* Sums of multiples are multiples.                                        *)
(***************************************************************************)
LEMMA AlignedSum ==
  ASSUME NEW a \in Nat, NEW b \in Nat, Aligned(a), Aligned(b)
  PROVE  Aligned(a + b)
<1>1. PICK k \in Nat : a = k * LineBytes
  BY DEF Aligned
<1>2. PICK l \in Nat : b = l * LineBytes
  BY DEF Aligned
<1>3. a + b = (k + l) * LineBytes /\ k + l \in Nat
  BY <1>1, <1>2, PlacementConstants
<1> QED
  BY <1>3 DEF Aligned

(***************************************************************************)
(* Placement begins at a page, which begins a line.                        *)
(***************************************************************************)
LEMMA InitPlace ==
  ASSUME Init
  PROVE  PlaceInv
<1>1. PICK program \in Programs : PlaceInit(program.data)
  BY DEF Init
<1>2. data \in Seq(DataStatements)
  BY <1>1, DataHaveSize DEF PlaceInit
<1>3. freeAddr \in Nat /\ Aligned(freeAddr)
  <2>1. freeAddr = (FirstPage \div LineBytes) * LineBytes + 0 /\ FirstPage \div LineBytes \in Nat
    BY <1>1, PlacementConstants, DivMod DEF PlaceInit
  <2>2. (FirstPage \div LineBytes) * LineBytes \in Nat
    BY <2>1, PlacementConstants
  <2> QED
    BY <2>1, <2>2 DEF Aligned
<1>4. ObjectsOK /\ Apart
  BY <1>1 DEF PlaceInit, ObjectsOK, Apart
<1> QED
  BY <1>2, <1>3, <1>4 DEF PlaceInv

(***************************************************************************)
(* Placing an object behind all others keeps them apart.                   *)
(***************************************************************************)
LEMMA PlaceStep ==
  ASSUME PlaceInv, PlaceObject
  PROVE  PlaceInv'
<1> DEFINE d == Head(data)
           m == MemOfData(d)
           bytes == Bytes(d)
<1>1. CASE m \notin Mems \/ avail[m] < bytes
  BY <1>1 DEF PlaceObject, PlaceInv, ObjectsOK, Apart, Aligned
<1>2. CASE ~(m \notin Mems \/ avail[m] < bytes)
  <2>1. d \in DataStatements /\ Tail(data) \in Seq(DataStatements)
    BY DEF PlaceInv, PlaceObject
  <2>2. bytes \in Nat \ {0}
    BY <2>1, DataHaveSize
  <2>3. m \in Mems
    BY <1>2
  <2>4. /\ placed' = [x \in DOMAIN placed \cup {d.name} |->
                        IF x = d.name THEN NewObject(d, m) ELSE placed[x]]
        /\ freeAddr' = freeAddr + Rounded(bytes)
        /\ data' = Tail(data)
    BY <1>2 DEF PlaceObject
  <2>5. /\ NewObject(d, m).mem = m
        /\ NewObject(d, m).st = freeAddr
        /\ NewObject(d, m).end = freeAddr + bytes
    BY DEF NewObject
  <2> HIDE DEF d, m, bytes
  <2>6. /\ DOMAIN placed' = DOMAIN placed \cup {d.name}
        /\ \A x \in DOMAIN placed : x # d.name => placed'[x] = placed[x]
        /\ placed'[d.name].mem = m
        /\ placed'[d.name].st = freeAddr
        /\ placed'[d.name].end = freeAddr + bytes
    BY <2>4, <2>5
  <2>7. Rounded(bytes) \in Nat /\ Rounded(bytes) >= bytes /\ Aligned(Rounded(bytes))
    BY <2>2, RoundedCovers
  <2>8. freeAddr \in Nat /\ Aligned(freeAddr) /\ ObjectsOK /\ Apart
    BY DEF PlaceInv
  <2>9. freeAddr' \in Nat /\ freeAddr' >= freeAddr + bytes /\ Aligned(freeAddr')
    <3>1. Aligned(freeAddr + Rounded(bytes))
      BY <2>7, <2>8, AlignedSum
    <3>2. Aligned(freeAddr')
      BY <2>4, <3>1 DEF Aligned
    <3> QED
      BY <2>2, <2>4, <2>7, <2>8, <3>2
  <2>10. ObjectsOK'
    <3> SUFFICES ASSUME NEW x \in DOMAIN placed'
                 PROVE  /\ placed'[x].mem \in Mems
                        /\ placed'[x].st \in Nat /\ placed'[x].end \in Nat
                        /\ placed'[x].st < placed'[x].end /\ placed'[x].end <= freeAddr'
                        /\ Aligned(placed'[x].st)
      BY DEF ObjectsOK, Aligned
    <3>1. CASE x = d.name
      BY <3>1, <2>2, <2>3, <2>6, <2>8, <2>9
    <3>2. CASE x # d.name
      BY <3>2, <2>2, <2>6, <2>8, <2>9 DEF ObjectsOK
    <3> QED
      BY <3>1, <3>2
  <2>11. Apart'
    <3> SUFFICES ASSUME NEW x \in DOMAIN placed', NEW y \in DOMAIN placed', x # y
                 PROVE  placed'[x].end <= placed'[y].st \/ placed'[y].end <= placed'[x].st
      BY DEF Apart
    <3>1. CASE x = d.name
      BY <3>1, <2>6, <2>8 DEF ObjectsOK
    <3>2. CASE y = d.name
      BY <3>2, <2>6, <2>8 DEF ObjectsOK
    <3>3. CASE x # d.name /\ y # d.name
      BY <3>3, <2>6, <2>8 DEF Apart
    <3> QED
      BY <3>1, <3>2, <3>3
  <2> QED
    BY <2>1, <2>4, <2>9, <2>10, <2>11 DEF PlaceInv, Aligned
<1> QED
  BY <1>1, <1>2

(***************************************************************************)
(* Every step places an object or leaves the placement alone.              *)
(***************************************************************************)
LEMMA PlaceInvNext ==
  ASSUME PlaceInv, [Next]_vars
  PROVE  PlaceInv'
<1>1. CASE Place
  BY <1>1, PlaceStep DEF Place
<1>2. CASE UNCHANGED <<data, freeAddr, placed>>
  BY <1>2 DEF PlaceInv, ObjectsOK, Apart, Aligned
<1>3. CASE BuildOpNode
  BY <1>2, <1>3 DEF BuildOpNode, Rejected, placeVars
<1>4. CASE BuildDataNode
  <2>1. UNCHANGED <<data, freeAddr, placed>>
    BY <1>4 DEF BuildDataNode, Rejected, placeVars
  <2> QED
    BY <1>2, <2>1
<1>5. CASE EndBuild
  BY <1>2, <1>5 DEF EndBuild, placeVars
<1>6. CASE OffsetNode
  BY <1>2, <1>6 DEF OffsetNode, placeVars
<1>7. CASE OffsetsForward
  BY <1>2, <1>7 DEF OffsetsForward, placeVars
<1>8. CASE FetchNode
  BY <1>2, <1>8 DEF FetchNode, placeVars
<1>9. CASE FetchForward
  BY <1>2, <1>9 DEF FetchForward, placeVars
<1>10. CASE UNCHANGED vars
  BY <1>2, <1>10 DEF vars, placeVars
<1> QED
  BY <1>1, <1>3, <1>4, <1>5, <1>6, <1>7, <1>8, <1>9, <1>10 DEF Next

(***************************************************************************)
(* An address of an object, whole or rounded down to its line, is found in *)
(* that object and in no other.                                            *)
(***************************************************************************)
LEMMA FoundInObject ==
  ASSUME PlaceInv, NEW x \in DOMAIN placed, NEW a \in Nat,
         placed[x].st <= a, a < placed[x].end
  PROVE  FindMemobj(a) = {placed[x].mem}
<1>1. CASE Cardinality(Mems) = 1
  <2>1. placed[x].mem \in Mems
    BY DEF PlaceInv, ObjectsOK
  <2>2. Mems = {placed[x].mem}
    BY <1>1, <2>1, PlacementConstants, FS_Singleton
  <2> QED
    BY <1>1, <2>2 DEF FindMemobj
<1>2. CASE Cardinality(Mems) # 1
  <2>1. ASSUME NEW y \in DOMAIN placed, placed[y].st <= a, a < placed[y].end
        PROVE  y = x
    BY <2>1 DEF PlaceInv, ObjectsOK, Apart
  <2>2. {y \in DOMAIN placed : placed[y].st <= a /\ a < placed[y].end} = {x}
    BY <2>1
  <2> QED
    BY <1>2, <2>2 DEF FindMemobj
<1> QED
  BY <1>1, <1>2

(***************************************************************************)
(* The invariant gives every byte of an object, and the beginning of its   *)
(* line, to the object's memory alone.                                     *)
(***************************************************************************)
LEMMA PlaceInvGivesMemory ==
  ASSUME PlaceInv
  PROVE  LineHasOneMemory
<1> SUFFICES ASSUME NEW x \in DOMAIN placed, NEW addr \in placed[x].st .. placed[x].end - 1
             PROVE  /\ FindMemobj(addr) = {placed[x].mem}
                    /\ FindMemobj((addr \div LineBytes) * LineBytes) = {placed[x].mem}
  BY DEF LineHasOneMemory
<1>1. placed[x].st \in Nat /\ placed[x].end \in Nat /\ Aligned(placed[x].st)
  BY DEF PlaceInv, ObjectsOK
<1>2. addr \in Nat /\ placed[x].st <= addr /\ addr < placed[x].end
  BY <1>1
<1>3. PICK line \in Nat : /\ line = (addr \div LineBytes) * LineBytes
                          /\ placed[x].st <= line /\ line <= addr
  BY <1>1, <1>2, LineFloor
<1>4. line < placed[x].end
  BY <1>1, <1>2, <1>3
<1> QED
  BY <1>1, <1>2, <1>3, <1>4, FoundInObject

(***************************************************************************)
(* Whatever the machine's memories, the data structures and the size of a  *)
(* line, Engine::find_memobj returns for every byte of an object, and for  *)
(* the line that byte is in, the memory Engine::init_data_placement has    *)
(* put the object into: a write-back goes where the line came from.        *)
(***************************************************************************)
THEOREM WriteBackFindsMemory == Spec => []LineHasOneMemory
<1>1. Init => PlaceInv
  BY InitPlace
<1>2. PlaceInv /\ [Next]_vars => PlaceInv'
  BY PlaceInvNext
<1>3. PlaceInv => LineHasOneMemory
  BY PlaceInvGivesMemory
<1> QED
  BY <1>1, <1>2, <1>3, PTL DEF Spec

-----------------------------------------------------------------------------
(***************************************************************************)
(* How many addresses a generator touches. The elements of a shape lie     *)
(* apart by their size at least, and all within the address space, so no   *)
(* two lines of them are the same address.                                 *)
(***************************************************************************)

Rest(x, b, q, r) == x = b * q + r /\ x % b = r

LEMMA IntDivMod ==
  ASSUME NEW x \in Int, NEW b \in Nat \ {0}
  PROVE  \E q \in Int, r \in 0 .. b - 1 : Rest(x, b, q, r)
<1>1. x \div b \in Int /\ x % b \in 0 .. b - 1 /\ x = b * (x \div b) + (x % b)
  OBVIOUS
<1> QED BY <1>1 DEF Rest

\* Integers less than the address space apart are not the same address.
LEMMA SameAddress ==
  ASSUME NEW x \in Int, NEW y \in Int, NEW i \in Int, NEW j \in Int,
         ((x % AddrSpace) + i) % AddrSpace = ((y % AddrSpace) + j) % AddrSpace,
         (x + i) - (y + j) < AddrSpace, (y + j) - (x + i) < AddrSpace
  PROVE  x + i = y + j
<1> DEFINE A == AddrSpace
<1>1. A \in Nat \ {0}
  BY AddressConstants
<1>2. \A v \in Int : \E q \in Int, r \in 0 .. A - 1 : Rest(v, A, q, r)
  BY <1>1, IntDivMod
<1> HIDE DEF A
<1>3. PICK a \in Int, r \in 0 .. A - 1 : Rest(x, A, a, r)
  BY <1>2
<1>4. PICK b \in Int, s \in 0 .. A - 1 : Rest(y, A, b, s)
  BY <1>2
<1>5. r \in Int /\ s \in Int
  BY <1>1
<1>6. r + i \in Int /\ s + j \in Int
  BY <1>5
<1>7. PICK c \in Int, t \in 0 .. A - 1 : Rest(r + i, A, c, t)
  BY <1>6, <1>2
<1>8. PICK d \in Int, u \in 0 .. A - 1 : Rest(s + j, A, d, u)
  BY <1>6, <1>2
<1>9. t = u
  BY <1>3, <1>4, <1>7, <1>8 DEF Rest, A
<1>10. PICK k \in Int : k = (a + c) - (b + d)
  OBVIOUS
<1>11. (x + i) - (y + j) = A * k
  <2>1. A * k = (A * a + A * c) - (A * b + A * d)
    BY <1>1, <1>10
  <2>2. PICK aa \in Int, ac \in Int, ab \in Int, ad \in Int :
            aa = A * a /\ ac = A * c /\ ab = A * b /\ ad = A * d
    BY <1>1
  <2>3. x = aa + r /\ r + i = ac + t /\ y = ab + s /\ s + j = ad + t
    BY <1>3, <1>4, <1>7, <1>8, <1>9, <2>2 DEF Rest
  <2>4. (x + i) - (y + j) = (aa + ac) - (ab + ad)
    BY <1>1, <1>5, <2>2, <2>3
  <2> QED BY <2>1, <2>2, <2>4
<1>12. k = 0
  <2>1. k >= 1 => A * k >= A
    BY <1>1
  <2>2. k <= -1 => A * k <= 0 - A
    BY <1>1
  <2>3. A * k < A /\ 0 - A < A * k
    <3>1. PICK z \in Int : z = (x + i) - (y + j)
      OBVIOUS
    <3>2. z < A /\ 0 - A < z
      BY <1>1, <3>1 DEF A
    <3> QED BY <1>11, <3>1, <3>2
  <2>4. PICK ak \in Int : ak = A * k
    BY <1>1
  <2> QED BY <1>1, <2>1, <2>2, <2>3, <2>4
<1>13. A * k = 0
  BY <1>1, <1>12
<1> QED BY <1>11, <1>13

\* The cache lines an element is read in; each begins inside the element.
LinesOf(size) == ((size - 1) \div LineBytes) + 1

LEMMA LinesFit ==
  ASSUME NEW size \in Nat \ {0}
  PROVE  /\ LinesOf(size) \in Nat \ {0}
         /\ \A i \in 0 .. LinesOf(size) - 1 : i * LineBytes \in 0 .. size - 1
<1> DEFINE q == (size - 1) \div LineBytes
<1>1. LineBytes \in Nat \ {0} /\ size - 1 \in Nat
  BY PlacementConstants
<1>2. PICK r \in 0 .. LineBytes - 1 : size - 1 = q * LineBytes + r /\ q \in Nat
  BY <1>1, DivMod
<1>3. LinesOf(size) = q + 1
  BY DEF LinesOf
<1>4. ASSUME NEW i \in 0 .. q PROVE i * LineBytes \in 0 .. size - 1
  <2>1. PICK d \in Nat : q = i + d
    BY <1>2
  <2>2. PICK a \in Nat, b \in Nat : a = i * LineBytes /\ b = d * LineBytes
    BY <1>1
  <2>3. q * LineBytes = a + b
    BY <1>1, <2>1, <2>2
  <2> QED BY <1>1, <1>2, <2>2, <2>3
<1> QED BY <1>2, <1>3, <1>4

\* Offsets of elements that do not overlap, before or after wrapping.
SizesApart(T, O, size) ==
  \A v, u \in T : v # u =>
    /\ O[v] - O[u] >= size \/ O[u] - O[v] >= size
    /\ O[v] - O[u] <= AddrSpace - size

Touched(T, O, base, size) ==
  {(b + i * LineBytes) % AddrSpace :
     b \in {(base + O[v]) % AddrSpace : v \in T}, i \in 0 .. LinesOf(size) - 1}

\* Such elements are touched at as many addresses as they have lines.
LEMMA TouchedOnce ==
  ASSUME NEW T, IsFiniteSet(T), NEW O \in [T -> Int], NEW base \in Int,
         NEW size \in 1 .. AddrSpace, SizesApart(T, O, size)
  PROVE  /\ IsFiniteSet(Touched(T, O, base, size))
         /\ Cardinality(Touched(T, O, base, size)) = Cardinality(T) * LinesOf(size)
<1> DEFINE L == 0 .. LinesOf(size) - 1
           At(v, i) == (((base + O[v]) % AddrSpace) + i * LineBytes) % AddrSpace
           S == Touched(T, O, base, size)
           f == [p \in T \X L |-> At(p[1], p[2])]
<1>1. AddrSpace \in Nat \ {0} /\ LineBytes \in Nat \ {0} /\ size \in Nat \ {0} /\ size <= AddrSpace
  BY AddressConstants, PlacementConstants
<1>2. LinesOf(size) \in Nat \ {0} /\ \A i \in L : i * LineBytes \in 0 .. size - 1
  BY <1>1, LinesFit
<1>3. IsFiniteSet(L) /\ Cardinality(L) = LinesOf(size)
  <2>1. PICK n \in Nat \ {0} : n = LinesOf(size)
    BY <1>2
  <2>2. IsFiniteSet(0 .. n - 1) /\ Cardinality(0 .. n - 1) = IF 0 > n - 1 THEN 0 ELSE n - 1 - 0 + 1
    BY FS_Interval
  <2> QED BY <2>1, <2>2
<1>4. IsFiniteSet(T \X L) /\ Cardinality(T \X L) = Cardinality(T) * LinesOf(size)
  BY <1>3, FS_Product
<1>5. S = {At(v, i) : v \in T, i \in L}
  BY DEF Touched
<1>6. ASSUME NEW v \in T, NEW u \in T, NEW i \in L, NEW j \in L, At(v, i) = At(u, j)
      PROVE  v = u /\ i = j
  <2>1. PICK x \in Int, y \in Int, a \in Int, b \in Int :
          x = base + O[v] /\ y = base + O[u] /\ a = i * LineBytes /\ b = j * LineBytes
    BY <1>2
  <2>2. a \in 0 .. size - 1 /\ b \in 0 .. size - 1
    BY <1>2, <2>1
  <2>3. ((x % AddrSpace) + a) % AddrSpace = ((y % AddrSpace) + b) % AddrSpace
    BY <1>6, <2>1
  <2>4. /\ v # u => /\ x - y >= size \/ y - x >= size
                    /\ x - y <= AddrSpace - size
                    /\ y - x <= AddrSpace - size
        /\ v = u => x = y
    <3>1. PICK o \in Int, p \in Int : o = O[v] /\ p = O[u]
      OBVIOUS
    <3>2. v # u => /\ o - p >= size \/ p - o >= size
                   /\ o - p <= AddrSpace - size
                   /\ p - o <= AddrSpace - size
      BY <3>1 DEF SizesApart
    <3> QED BY <1>1, <2>1, <3>1, <3>2
  <2>5. (x + a) - (y + b) < AddrSpace /\ (y + b) - (x + a) < AddrSpace
    BY <1>1, <2>2, <2>4
  <2>6. x + a = y + b
    BY <2>3, <2>5, SameAddress
  <2>7. v = u
    BY <1>1, <2>2, <2>4, <2>6
  <2>8. a = b
    BY <2>4, <2>6, <2>7
  <2>9. i * LineBytes = j * LineBytes => i = j
    BY <1>1, <1>2
  <2> QED BY <2>1, <2>7, <2>8, <2>9
<1>7. f \in Bijection(T \X L, S)
  <2>1. f \in [T \X L -> S]
    BY <1>5
  <2>2. ASSUME NEW p \in T \X L, NEW q \in T \X L, f[p] = f[q] PROVE p = q
    <3>1. PICK v \in T, i \in L, u \in T, j \in L : p = <<v, i>> /\ q = <<u, j>>
      OBVIOUS
    <3>2. At(v, i) = At(u, j)
      BY <2>2, <3>1
    <3> HIDE DEF At, L
    <3> QED BY <1>6, <3>1, <3>2
  <2>3. ASSUME NEW t \in S PROVE \E p \in T \X L : f[p] = t
    <3>1. PICK v \in T, i \in L : t = At(v, i)
      BY <1>5
    <3>2. <<v, i>> \in T \X L /\ f[<<v, i>>] = t
      BY <3>1
    <3> QED BY <3>2
  <2> HIDE DEF f
  <2> QED BY <2>1, <2>2, <2>3 DEF Bijection, Injection, IsInjective, Surjection
<1>8. ExistsBijection(T \X L, S)
  BY <1>7 DEF ExistsBijection
<1> HIDE DEF S, L
<1> QED BY <1>4, <1>8, FS_Bijection DEF S

\* Points of a shape are apart, and not further than three planes.
LEMMA Span ==
  ASSUME NEW row \in Nat \ {0}, NEW col \in Nat \ {0}, NEW a \in Int, NEW b \in Int, NEW c \in Int,
         ~(a = 0 /\ b = 0 /\ c = 0),
         \/ row >= 3 /\ col >= 3 /\ a \in -2 .. 2 /\ b \in -2 .. 2 /\ c \in -2 .. 2
         \/ a < row /\ -a < row /\ b < col /\ -b < col /\ c = 0
  PROVE  LET x == a + row * b + (row * col) * c
         IN  x \in Int /\ x # 0 /\ x < 3 * (row * col) /\ -x < 3 * (row * col)
<1>1. PICK p \in Nat, rb \in Int, pc_ \in Int : p = row * col /\ rb = row * b /\ pc_ = p * c
  OBVIOUS
<1>2. CASE row >= 3 /\ col >= 3 /\ a \in -2 .. 2 /\ b \in -2 .. 2 /\ c \in -2 .. 2
  <2>1. p >= 3 * row /\ p >= 9
    <3>1. PICK e \in Nat : col = 3 + e
      BY <1>2
    <3>2. p = 3 * row + row * e /\ row * e \in Nat
      BY <1>1, <3>1
    <3> QED BY <1>2, <3>2
  <2>2. rb \in {-2 * row, 0 - row, 0, row, 2 * row} /\ (rb = 0 <=> b = 0)
    BY <1>1, <1>2
  <2>3. pc_ \in {-2 * p, 0 - p, 0, p, 2 * p} /\ (pc_ = 0 <=> c = 0)
    <3>1. c \in {-2, -1, 0, 1, 2}
      BY <1>2
    <3> QED BY <1>1, <2>1, <3>1
  <2>4. /\ a + rb + pc_ \in Int /\ a + rb + pc_ # 0
        /\ a + rb + pc_ < 3 * p /\ -(a + rb + pc_) < 3 * p
    <3> HIDE <1>1
    <3> QED BY ONLY p \in Nat, row \in Nat, rb \in Int, pc_ \in Int, a \in Int, b \in Int, c \in Int,
                    ~(a = 0 /\ b = 0 /\ c = 0), <1>2, <2>1, <2>2, <2>3
  <2> QED BY <1>1, <2>4
<1>3. CASE a < row /\ -a < row /\ b < col /\ -b < col /\ c = 0
  <2>1. pc_ = 0
    BY <1>1, <1>3
  <2>2. /\ b >= 1 => rb >= row
        /\ b <= -1 => rb <= 0 - row
        /\ b = 0 => rb = 0
    BY <1>1
  <2>3. rb <= p - row /\ -rb <= p - row
    <3>1. row * (col - 1) = p - row
      BY <1>1
    <3>2. b <= col - 1 /\ -b <= col - 1
      BY <1>3
    <3>3. row * b <= row * (col - 1)
      BY <3>2
    <3>4. row * (0 - b) <= row * (col - 1) /\ row * (0 - b) = 0 - rb
      BY <1>1, <3>2
    <3> QED BY <1>1, <3>1, <3>3, <3>4
  <2>4. /\ a + rb + pc_ \in Int /\ a + rb + pc_ # 0
        /\ a + rb + pc_ < 3 * p /\ -(a + rb + pc_) < 3 * p
    BY ONLY p \in Nat, row \in Nat \ {0}, rb \in Int, pc_ \in Int, a \in Int, b \in Int, c \in Int,
                    ~(a = 0 /\ b = 0 /\ c = 0), <1>3, <2>1, <2>2, <2>3
  <2> QED BY <1>1, <2>4
<1> QED BY <1>2, <1>3

\* What the generators need of a node: a pattern that has room in the object.
Fits(n) ==
  /\ n.pattern \in Patterns
  /\ n.size \in 1 .. AddrSpace /\ n.num \in Nat \ {0} /\ n.st \in Int /\ n.stride \in Int
  /\ n.pattern \in Shaped =>
       /\ n.dim[1] \in Nat \ {0} /\ n.dim[2] \in Nat \ {0}
       /\ 3 * n.size * (n.dim[1] * n.dim[2]) <= AddrSpace
       /\ n.pattern # "conv" => n.dim[1] >= 3 /\ n.dim[2] >= 3
       /\ n.pattern = "conv" => n.tile[1] \in 0 .. n.dim[1] /\ n.tile[2] \in 0 .. n.dim[2]

\* The points of a shape are few and near.
LEMMA ShapeIs ==
  ASSUME NEW n, Fits(n)
  PROVE  /\ n.pattern \notin Shaped => Shape(n) = {<<0, 0, 0>>}
         /\ n.pattern \in Shaped /\ n.pattern # "conv" => Shape(n) \subseteq Near \X Near \X Near
         /\ n.pattern = "conv" => Shape(n) \subseteq (0 .. n.tile[1] - 1) \X (0 .. n.tile[2] - 1) \X {0}
         /\ IsFiniteSet(Shape(n))
<1>1. n.pattern \in Patterns
  BY DEF Fits
<1>2. -1 \in Near /\ 0 \in Near /\ 1 \in Near
  BY DEF Near
<1>3. n.pattern \notin Shaped => Shape(n) = {<<0, 0, 0>>}
  BY <1>1 DEF Shaped, Patterns, Shape
<1>4. n.pattern = "ghostcell" => Shape(n) = {<<0, 0, 0>>}
  BY DEF Shape
<1>5. n.pattern = "stencil3p" => Shape(n) = Near \X {0} \X {0}
  BY DEF Shape
<1>6. n.pattern = "stencil4p" => Shape(n) = {<<-1, 0, 0>>, <<1, 0, 0>>, <<0, -1, 0>>, <<0, 1, 0>>}
  BY DEF Shape
<1>7. n.pattern = "stencil5p" => Shape(n) = (Near \X {0} \X {0}) \cup {<<0, -1, 0>>, <<0, 1, 0>>}
  BY DEF Shape
<1>8. n.pattern = "stencil8p" => Shape(n) = ({0} \X Near \X Near) \ {<<0, 0, 0>>}
  BY DEF Shape
<1>9. n.pattern = "stencil9p" => Shape(n) = {0} \X Near \X Near
  BY DEF Shape
<1>10. n.pattern = "stencil26p" => Shape(n) = (Near \X Near \X Near) \ {<<0, 0, 0>>}
  BY DEF Shape
<1>11. n.pattern = "stencil27p" => Shape(n) = Near \X Near \X Near
  BY DEF Shape
<1>12. n.pattern = "conv" => Shape(n) = (0 .. n.tile[1] - 1) \X (0 .. n.tile[2] - 1) \X {0}
  BY DEF Shape
<1>13. n.pattern \in Shaped /\ n.pattern # "conv" => Shape(n) \subseteq Near \X Near \X Near
  <2> HIDE DEF Near, Shape
  <2>1. {<<0, 0, 0>>} \subseteq Near \X Near \X Near
    BY <1>2
  <2>2. {<<-1, 0, 0>>, <<1, 0, 0>>, <<0, -1, 0>>, <<0, 1, 0>>} \subseteq Near \X Near \X Near
    BY <1>2
  <2>3. Near \X {0} \X {0} \subseteq Near \X Near \X Near
    BY <1>2
  <2>4. {0} \X Near \X Near \subseteq Near \X Near \X Near
    BY <1>2
  <2>5. {<<0, -1, 0>>, <<0, 1, 0>>} \subseteq Near \X Near \X Near
    BY <1>2
  <2>6. n.pattern \in Shaped /\ n.pattern # "conv" =>
          n.pattern \in {"ghostcell", "stencil3p", "stencil4p", "stencil5p", "stencil8p", "stencil9p",
                         "stencil26p", "stencil27p"}
    BY DEF Shaped, Patterns
  <2> QED BY <1>4, <1>5, <1>6, <1>7, <1>8, <1>9, <1>10, <1>11, <2>1, <2>2, <2>3, <2>4, <2>5, <2>6
<1>14. IsFiniteSet(Near \X Near \X Near)
  <2>1. IsFiniteSet(Near)
    <3>1. PICK a \in Int, b \in Int : a = -1 /\ b = 1
      OBVIOUS
    <3>2. IsFiniteSet(a .. b)
      BY FS_Interval
    <3> QED BY <3>1, <3>2 DEF Near
  <2>2. IsFiniteSet(Near \X Near)
    BY <2>1, FS_Product
  <2>3. IsFiniteSet((Near \X Near) \X Near)
    BY <2>1, <2>2, FS_Product
  <2> DEFINE f == [p \in (Near \X Near) \X Near |-> <<p[1][1], p[1][2], p[2]>>]
  <2>4. f \in Surjection((Near \X Near) \X Near, Near \X Near \X Near)
    <3>1. f \in [(Near \X Near) \X Near -> Near \X Near \X Near]
      OBVIOUS
    <3>2. ASSUME NEW t \in Near \X Near \X Near PROVE \E p \in (Near \X Near) \X Near : f[p] = t
      <4>1. PICK x \in Near, y \in Near, z \in Near : t = <<x, y, z>>
        OBVIOUS
      <4>2. <<<<x, y>>, z>> \in (Near \X Near) \X Near /\ f[<<<<x, y>>, z>>] = t
        BY <4>1
      <4> QED BY <4>2
    <3> QED BY <3>1, <3>2 DEF Surjection
  <2> QED BY <2>3, <2>4, FS_Surjection
<1>15. ASSUME n.pattern = "conv"
       PROVE  IsFiniteSet((0 .. n.tile[1] - 1) \X (0 .. n.tile[2] - 1) \X {0})
  <2>1. PICK a \in Int, b \in Int : a = n.tile[1] - 1 /\ b = n.tile[2] - 1
    <3>1. n.tile[1] \in Nat /\ n.tile[2] \in Nat
      BY <1>15 DEF Fits, Shaped, Patterns
    <3> QED BY <3>1
  <2>2. IsFiniteSet(0 .. a) /\ IsFiniteSet(0 .. b)
    BY FS_Interval
  <2>3. IsFiniteSet((0 .. a) \X (0 .. b))
    BY <2>2, FS_Product
  <2> DEFINE f == [p \in (0 .. a) \X (0 .. b) |-> <<p[1], p[2], 0>>]
  <2>4. f \in Surjection((0 .. a) \X (0 .. b), (0 .. a) \X (0 .. b) \X {0})
    <3>1. f \in [(0 .. a) \X (0 .. b) -> (0 .. a) \X (0 .. b) \X {0}]
      OBVIOUS
    <3>2. ASSUME NEW t \in (0 .. a) \X (0 .. b) \X {0}
          PROVE  \E p \in (0 .. a) \X (0 .. b) : f[p] = t
      <4>1. PICK x \in 0 .. a, y \in 0 .. b : t = <<x, y, 0>>
        OBVIOUS
      <4>2. <<x, y>> \in (0 .. a) \X (0 .. b) /\ f[<<x, y>>] = t
        BY <4>1
      <4> QED BY <4>2
    <3> QED BY <3>1, <3>2 DEF Surjection
  <2> QED BY <2>1, <2>3, <2>4, FS_Surjection
<1>16. IsFiniteSet(Shape(n))
  <2>1. CASE n.pattern \notin Shaped
    BY <1>3, <2>1, FS_Singleton
  <2>2. CASE n.pattern \in Shaped /\ n.pattern # "conv"
    BY <1>13, <1>14, <2>2, FS_Subset
  <2>3. CASE n.pattern = "conv"
    BY <1>12, <1>15, <2>3
  <2> QED BY <2>1, <2>2, <2>3
<1> QED BY <1>3, <1>12, <1>13, <1>16

\* The point found is one of integers, as the object has an interior.
LEMMA PointIs ==
  ASSUME NEW n, Fits(n), n.pattern \in Shaped, NEW m \in Nat
  PROVE  Point(n, m)[1] \in Int /\ Point(n, m)[2] \in Int /\ Point(n, m)[3] \in Int
<1>1. PICK row \in Nat \ {0}, col \in Nat \ {0} : row = n.dim[1] /\ col = n.dim[2]
  BY DEF Fits
<1>2. \A a \in Nat, b \in Nat \ {0} : a % b \in Nat /\ a \div b \in Nat
  BY DivMod
<1>3. ASSUME n.pattern # "conv"
      PROVE  /\ InteriorPlane(n, m) \in Int \X Int \X Int
             /\ InteriorSpace(n, m) \in Int \X Int \X Int
             /\ WholeRows(n, m) \in Int \X Int \X Int
  <2>1. row >= 3 /\ col >= 3
    BY <1>1, <1>3 DEF Fits
  <2>2. PICK w \in Nat \ {0}, h \in Nat \ {0} : w = row - 2 /\ h = col - 2
    BY <2>1
  <2>3. PICK a \in Nat, b \in Nat, c \in Nat, d \in Nat :
          a = m % w /\ b = m \div w /\ c = m % row /\ d = m \div row
    BY <1>2
  <2>4. PICK e \in Nat, f \in Nat, g \in Nat, i \in Nat :
          e = b % h /\ f = b \div h /\ g = d % h /\ i = d \div h
    BY <1>2
  <2>5. InteriorPlane(n, m) = <<a + 1, b + 1, 0>>
    BY <1>1, <2>2, <2>3 DEF InteriorPlane
  <2>6. InteriorSpace(n, m) = <<a + 1, e + 1, f + 1>>
    BY <1>1, <2>2, <2>3, <2>4 DEF InteriorSpace
  <2>7. WholeRows(n, m) = <<c, g + 1, i + 1>>
    BY <1>1, <2>2, <2>3, <2>4 DEF WholeRows
  <2> QED BY <2>5, <2>6, <2>7
<1>4. ASSUME n.pattern = "conv" PROVE FilterCorners(n, m) \in Int \X Int \X Int
  <2>1. PICK w \in Nat \ {0} : w = row - n.tile[1] + 1
    <3>1. n.tile[1] \in 0 .. row
      BY <1>1, <1>4 DEF Fits
    <3> QED BY <3>1
  <2>2. PICK a \in Nat, b \in Nat : a = m % w /\ b = m \div w
    BY <1>2
  <2>3. FilterCorners(n, m) = <<a, b, 0>>
    BY <1>1, <2>1, <2>2 DEF FilterCorners
  <2> QED BY <2>3
<1>5. Point(n, m) \in Int \X Int \X Int
  <2>1. n.pattern = "stencil4p" => Point(n, m) = InteriorPlane(n, m)
    BY DEF Point
  <2>2. n.pattern = "ghostcell" => Point(n, m) \in {InteriorPlane(n, m), InteriorSpace(n, m)}
    BY DEF Point
  <2>3. n.pattern \in {"stencil3p", "stencil5p"} => Point(n, m) = InteriorSpace(n, m)
    BY DEF Point
  <2>4. n.pattern \in {"stencil8p", "stencil9p", "stencil26p", "stencil27p"} =>
          Point(n, m) = WholeRows(n, m)
    BY DEF Point
  <2>5. n.pattern = "conv" => Point(n, m) = FilterCorners(n, m)
    BY DEF Point
  <2> QED BY <1>3, <1>4, <2>1, <2>2, <2>3, <2>4, <2>5 DEF Shaped, Patterns
<1> QED BY <1>5

\* Where a point of the shape lies from the point found.
Away(n) == [v \in Shape(n) |-> n.size * (v[1] + n.dim[1] * v[2] + (n.dim[1] * n.dim[2]) * v[3])]

\* The elements of a shape do not overlap.
LEMMA AwayApart ==
  ASSUME NEW n, Fits(n), n.pattern \in Shaped
  PROVE  Away(n) \in [Shape(n) -> Int] /\ SizesApart(Shape(n), Away(n), n.size)
<1>1. PICK row \in Nat \ {0}, col \in Nat \ {0}, p \in Nat \ {0} :
        row = n.dim[1] /\ col = n.dim[2] /\ p = row * col
  <2>1. PICK a \in Nat \ {0}, b \in Nat \ {0} : a = n.dim[1] /\ b = n.dim[2]
    BY DEF Fits
  <2>2. a * b \in Nat \ {0}
    OBVIOUS
  <2> QED BY <2>1, <2>2
<1>2. PICK size \in Nat \ {0} : size = n.size
  BY AddressConstants DEF Fits
<1>3. AddrSpace \in Nat /\ 3 * size * p <= AddrSpace
  BY <1>1, <1>2, AddressConstants DEF Fits
<1>4. ASSUME NEW v \in Shape(n)
      PROVE  /\ v = <<v[1], v[2], v[3]>>
             /\ v[1] \in Int /\ v[2] \in Int /\ v[3] \in Int
             /\ n.pattern # "conv" => v[1] \in -1 .. 1 /\ v[2] \in -1 .. 1 /\ v[3] \in -1 .. 1
             /\ n.pattern = "conv" =>
                  v[1] \in 0 .. n.tile[1] - 1 /\ v[2] \in 0 .. n.tile[2] - 1 /\ v[3] = 0
  <2>1. CASE n.pattern # "conv"
    <3>1. v \in Near \X Near \X Near
      BY <2>1, ShapeIs
    <3> QED BY <2>1, <3>1 DEF Near
  <2>2. CASE n.pattern = "conv"
    <3>1. v \in (0 .. n.tile[1] - 1) \X (0 .. n.tile[2] - 1) \X {0}
      BY <2>2, ShapeIs
    <3> QED BY <2>2, <3>1
  <2> QED BY <2>1, <2>2
<1> DEFINE x(v) == v[1] + row * v[2] + (row * col) * v[3]
<1>5. ASSUME NEW v \in Shape(n) PROVE x(v) \in Int /\ Away(n)[v] = size * x(v)
  BY <1>1, <1>2, <1>4 DEF Away
<1>6. Away(n) \in [Shape(n) -> Int]
  <2>1. \A v \in Shape(n) : Away(n)[v] \in Int
    <3> HIDE DEF x
    <3> QED BY <1>2, <1>5
  <2> QED BY <2>1 DEF Away
<1>7. ASSUME NEW v \in Shape(n), NEW u \in Shape(n), v # u
      PROVE  x(v) # x(u) /\ x(v) - x(u) < 3 * p /\ x(u) - x(v) < 3 * p
  <2>1. PICK a \in Int, b \in Int, c \in Int : a = v[1] - u[1] /\ b = v[2] - u[2] /\ c = v[3] - u[3]
    BY <1>4
  <2>2. ~(a = 0 /\ b = 0 /\ c = 0)
    <3>1. v = <<v[1], v[2], v[3]>> /\ u = <<u[1], u[2], u[3]>>
      BY <1>4
    <3>2. v[1] \in Int /\ v[2] \in Int /\ v[3] \in Int /\ u[1] \in Int /\ u[2] \in Int /\ u[3] \in Int
      BY <1>4
    <3>3. a = 0 /\ b = 0 /\ c = 0 => v[1] = u[1] /\ v[2] = u[2] /\ v[3] = u[3]
      <4>1. \A i, j \in Int : i - j = 0 => i = j
        OBVIOUS
      <4>2. a = 0 => v[1] = u[1]
        BY <2>1, <3>2, <4>1
      <4>3. b = 0 => v[2] = u[2]
        BY <2>1, <3>2, <4>1
      <4>4. c = 0 => v[3] = u[3]
        BY <2>1, <3>2, <4>1
      <4> QED BY <4>2, <4>3, <4>4
    <3> QED BY <1>7, <3>1, <3>3
  <2>3. \/ row >= 3 /\ col >= 3 /\ a \in -2 .. 2 /\ b \in -2 .. 2 /\ c \in -2 .. 2
        \/ a < row /\ -a < row /\ b < col /\ -b < col /\ c = 0
    <3>1. CASE n.pattern # "conv"
      <4>1. row >= 3 /\ col >= 3
        BY <1>1, <3>1 DEF Fits
      <4> QED BY <1>4, <2>1, <3>1, <4>1
    <3>2. CASE n.pattern = "conv"
      <4>1. n.tile[1] \in 0 .. row /\ n.tile[2] \in 0 .. col
        BY <1>1, <3>2 DEF Fits
      <4>2. /\ v[1] \in 0 .. n.tile[1] - 1 /\ u[1] \in 0 .. n.tile[1] - 1
            /\ v[2] \in 0 .. n.tile[2] - 1 /\ u[2] \in 0 .. n.tile[2] - 1 /\ v[3] = 0 /\ u[3] = 0
        BY <1>4, <3>2
      <4> QED BY <2>1, <4>1, <4>2
    <3> QED BY <3>1, <3>2
  <2>4. PICK y \in Int : /\ y = a + row * b + (row * col) * c
                         /\ y # 0 /\ y < 3 * (row * col) /\ -y < 3 * (row * col)
    BY <2>2, <2>3, Span
  <2>5. y = x(v) - x(u)
    <3>1. PICK v1 \in Int, v2 \in Int, v3 \in Int, u1 \in Int, u2 \in Int, u3 \in Int :
            v1 = v[1] /\ v2 = v[2] /\ v3 = v[3] /\ u1 = u[1] /\ u2 = u[2] /\ u3 = u[3]
      BY <1>4
    <3>2. row * b = row * v2 - row * u2 /\ p * c = p * v3 - p * u3
      BY <2>1, <3>1
    <3>3. x(v) = v1 + row * v2 + p * v3 /\ x(u) = u1 + row * u2 + p * u3
      BY <1>1, <3>1
    <3>4. PICK rv \in Int, ru \in Int, pv \in Int, pu \in Int :
            rv = row * v2 /\ ru = row * u2 /\ pv = p * v3 /\ pu = p * u3
      OBVIOUS
    <3>5. y = a + (rv - ru) + (pv - pu)
      BY <1>1, <2>4, <3>2, <3>4
    <3>6. a = v1 - u1
      BY <2>1, <3>1
    <3>7. x(v) = v1 + rv + pv /\ x(u) = u1 + ru + pu
      BY <3>3, <3>4
    <3>8. y = (v1 + rv + pv) - (u1 + ru + pu)
      BY <3>5, <3>6
    <3> QED BY <3>7, <3>8
  <2> HIDE DEF x
  <2> QED BY <1>1, <1>5, <2>4, <2>5
<1>8. ASSUME NEW v \in Shape(n), NEW u \in Shape(n), v # u
      PROVE  /\ Away(n)[v] - Away(n)[u] >= n.size \/ Away(n)[u] - Away(n)[v] >= n.size
             /\ Away(n)[v] - Away(n)[u] <= AddrSpace - n.size
  <2> HIDE DEF x
  <2>1. PICK e \in Int : e = x(v)
    BY <1>5
  <2>12. PICK f \in Int : f = x(u)
    BY <1>5
  <2>13. PICK d \in Int : d = e - f
    OBVIOUS
  <2>2. d # 0 /\ d <= 3 * p - 1
    BY <1>7, <1>8, <2>1, <2>12, <2>13
  <2>3. Away(n)[v] = size * e /\ Away(n)[u] = size * f
    BY <1>5, <2>1, <2>12
  <2>4. size * e - size * f = size * d
    BY <2>13
  <2>5. size * d >= size \/ size * d <= 0 - size
    BY <2>2
  <2>6. size * d <= size * (3 * p - 1)
    BY <2>2
  <2>7. size * (3 * p - 1) = 3 * size * p - size
    OBVIOUS
  <2>8. PICK se \in Int, sf \in Int, sd \in Int, sp \in Int :
          se = size * e /\ sf = size * f /\ sd = size * d /\ sp = 3 * size * p
    OBVIOUS
  <2>9. sd <= AddrSpace - size
    BY <1>3, <2>6, <2>7, <2>8
  <2>10. se - sf >= size \/ sf - se >= size
    BY <2>4, <2>5, <2>8
  <2>11. se - sf <= AddrSpace - size
    BY <2>4, <2>8, <2>9
  <2> QED BY <1>2, <2>3, <2>8, <2>10, <2>11
<1>9. SizesApart(Shape(n), Away(n), n.size)
  BY <1>8 DEF SizesApart
<1> QED BY <1>6, <1>9

\* Each choice of a generator is a shape's elements around some point.
LEMMA BasesAre ==
  ASSUME NEW n, Fits(n), NEW m \in Nat, NEW bases \in Bases(n, m)
  PROVE  \E O \in [Shape(n) -> Int], base \in Int :
           /\ SizesApart(Shape(n), O, n.size)
           /\ bases = {(base + O[v]) % AddrSpace : v \in Shape(n)}
<1>1. n.st \in Int /\ n.stride \in Int /\ n.size \in Nat /\ n.num \in Nat \ {0} /\ n.pattern \in Patterns
  BY AddressConstants DEF Fits
<1>2. ASSUME n.pattern \notin Shaped, NEW base \in Int, bases = {base % AddrSpace}
      PROVE  \E O \in [Shape(n) -> Int], start \in Int :
               /\ SizesApart(Shape(n), O, n.size)
               /\ bases = {(start + O[v]) % AddrSpace : v \in Shape(n)}
  <2>1. Shape(n) = {<<0, 0, 0>>}
    BY <1>2, ShapeIs
  <2> DEFINE O == [v \in Shape(n) |-> 0]
  <2>2. O \in [Shape(n) -> Int]
    OBVIOUS
  <2>3. SizesApart(Shape(n), O, n.size)
    BY <2>1 DEF SizesApart
  <2>4. {(base + O[v]) % AddrSpace : v \in Shape(n)} = {(base + 0) % AddrSpace}
    BY <2>1
  <2>5. base + 0 = base
    OBVIOUS
  <2> QED BY <1>2, <2>2, <2>3, <2>4, <2>5
<1>3. CASE n.pattern = "stride"
  <2>1. PICK r \in Nat : r = m % n.num
    <3>1. \A a \in Nat, b \in Nat \ {0} : a % b \in Nat
      BY DivMod
    <3> QED BY <1>1, <3>1
  <2>2. n.st + r * n.stride \in Int
    BY <1>1
  <2>3. bases = {(n.st + r * n.stride) % AddrSpace}
    BY <1>3, <2>1 DEF Bases
  <2>4. n.pattern \notin Shaped
    BY <1>3 DEF Shaped
  <2> QED BY <1>2, <2>2, <2>3, <2>4
<1>4. CASE n.pattern = "random"
  <2>1. PICK k \in 0 .. n.num : bases = {(n.st + k * n.size) % AddrSpace}
    BY <1>4 DEF Bases
  <2>2. n.st + k * n.size \in Int
    BY <1>1
  <2>3. n.pattern \notin Shaped
    BY <1>4 DEF Shaped
  <2> QED BY <1>2, <2>1, <2>2, <2>3
<1>5. CASE n.pattern \in Shaped
  <2>1. bases = {AddrOf(n, [d \in 1 .. 3 |-> Point(n, m)[d] + v[d]]) : v \in Shape(n)}
    BY <1>5 DEF Bases, Shaped, Patterns
  <2>2. PICK x \in Int, y \in Int, z \in Int :
          x = Point(n, m)[1] /\ y = Point(n, m)[2] /\ z = Point(n, m)[3]
    BY <1>5, PointIs
  <2>3. PICK row \in Int, plane \in Int, size \in Int, st \in Int :
          row = n.dim[1] /\ plane = n.dim[1] * n.dim[2] /\ size = n.size /\ st = n.st
    <3>1. n.dim[1] \in Int /\ n.dim[2] \in Int
      BY <1>5 DEF Fits
    <3>2. n.dim[1] * n.dim[2] \in Int
      BY <3>1
    <3> QED BY <1>1, <3>1, <3>2
  <2>4. PICK base \in Int : base = st + size * (x + row * y + plane * z)
    OBVIOUS
  <2>5. Away(n) \in [Shape(n) -> Int] /\ SizesApart(Shape(n), Away(n), n.size)
    BY <1>5, AwayApart
  <2>6. ASSUME NEW v \in Shape(n)
        PROVE  AddrOf(n, [d \in 1 .. 3 |-> Point(n, m)[d] + v[d]]) = (base + Away(n)[v]) % AddrSpace
    <3>1. PICK a \in Int, b \in Int, c \in Int : a = v[1] /\ b = v[2] /\ c = v[3]
      <4>1. n.pattern # "conv" => v \in Near \X Near \X Near
        BY <1>5, ShapeIs
      <4>2. n.pattern = "conv" => v \in (0 .. n.tile[1] - 1) \X (0 .. n.tile[2] - 1) \X {0}
        BY ShapeIs
      <4>3. Near \subseteq Int
        BY DEF Near
      <4>4. 0 .. n.tile[1] - 1 \subseteq Int /\ 0 .. n.tile[2] - 1 \subseteq Int /\ 0 \in Int
        OBVIOUS
      <4>5. v[1] \in Int /\ v[2] \in Int /\ v[3] \in Int
        BY <4>1, <4>2, <4>3, <4>4
      <4> QED BY <4>5
    <3>2. AddrOf(n, [d \in 1 .. 3 |-> Point(n, m)[d] + v[d]])
          = (st + size * ((x + a) + row * (y + b) + plane * (z + c))) % AddrSpace
      BY <2>2, <2>3, <3>1 DEF AddrOf
    <3>3. Away(n)[v] = size * (a + row * b + plane * c)
      BY <2>3, <3>1 DEF Away
    <3>4. (x + a) + row * (y + b) + plane * (z + c)
          = (x + row * y + plane * z) + (a + row * b + plane * c)
      <4>1. row * (y + b) = row * y + row * b /\ plane * (z + c) = plane * z + plane * c
        OBVIOUS
      <4>2. PICK ry \in Int, rb \in Int, pz \in Int, pc_ \in Int :
              ry = row * y /\ rb = row * b /\ pz = plane * z /\ pc_ = plane * c
        OBVIOUS
      <4>3. (x + a) + (ry + rb) + (pz + pc_) = (x + ry + pz) + (a + rb + pc_)
        OBVIOUS
      <4> QED BY <4>1, <4>2, <4>3
    <3>5. PICK p \in Int, q \in Int : p = x + row * y + plane * z /\ q = a + row * b + plane * c
      OBVIOUS
    <3>6. st + size * (p + q) = (st + size * p) + size * q
      OBVIOUS
    <3> QED BY <2>4, <3>2, <3>3, <3>4, <3>5, <3>6
  <2>7. bases = {(base + Away(n)[v]) % AddrSpace : v \in Shape(n)}
    BY <2>1, <2>6
  <2> QED BY <2>5, <2>7
<1>6. n.pattern \in {"stride", "random"} \/ n.pattern \in Shaped
  BY <1>1 DEF Shaped, Patterns
<1> QED BY <1>3, <1>4, <1>5, <1>6

\* However the node makes its m-th access, it touches as many addresses.
LEMMA GeneratorsTouchOnce ==
  ASSUME NEW n, Fits(n), NEW m \in Nat, NEW addrs \in GenAddr(n, m)
  PROVE  OpsPerAccess(n) \in Nat /\ Len(addrs) = OpsPerAccess(n)
<1> DEFINE F(some) == Ascending({(b + i * LineBytes) % AddrSpace :
                                   b \in some, i \in 0 .. LinesPerAccess(n) - 1})
<1>1. PICK bases \in Bases(n, m) : addrs = F(bases)
  <2>1. GenAddr(n, m) = {F(some) : some \in Bases(n, m)}
    BY DEF GenAddr
  <2> HIDE DEF F
  <2> QED BY <2>1
<1>2. PICK O \in [Shape(n) -> Int], base \in Int :
        /\ SizesApart(Shape(n), O, n.size)
        /\ bases = {(base + O[v]) % AddrSpace : v \in Shape(n)}
  BY BasesAre
<1>3. n.size \in 1 .. AddrSpace /\ LinesPerAccess(n) = LinesOf(n.size)
  BY DEF Fits, LinesPerAccess, LinesOf
<1> DEFINE S == Touched(Shape(n), O, base, n.size)
<1>4. addrs = Ascending(S)
  BY <1>1, <1>2, <1>3 DEF Touched
<1>5. IsFiniteSet(S) /\ Cardinality(S) = Cardinality(Shape(n)) * LinesOf(n.size)
  BY <1>2, <1>3, ShapeIs, TouchedOnce
<1>6. Cardinality(S) = OpsPerAccess(n) /\ Cardinality(S) \in Nat
  BY <1>3, <1>5, FS_CardinalityType DEF OpsPerAccess
<1> HIDE DEF S
<1>7. Len(Ascending(S)) = Cardinality(S)
  <2> DEFINE s == Ascending(S)
             T == {s[i] : i \in 1 .. Cardinality(S)}
  <2>1. s = [i \in 1 .. Cardinality(S) |-> s[i]]
    BY DEF Ascending
  <2>2. s \in [1 .. Cardinality(S) -> T]
    <3> HIDE DEF s
    <3> QED BY <2>1
  <2> HIDE DEF s, T
  <2>3. PICK N \in Nat : N = Cardinality(S)
    BY <1>6
  <2>4. s \in [1 .. N -> T]
    BY <2>2, <2>3
  <2>5. s \in Seq(T) /\ Len(s) = N
    BY <2>4
  <2> QED BY <2>3, <2>5 DEF s
<1> QED BY <1>4, <1>6, <1>7

-----------------------------------------------------------------------------
(***************************************************************************)
(* The kernel: what build_nodes and the traits give, and the control.      *)
(***************************************************************************)

\* What the folds over statements and traits keep.
KeepsNodes(base, list, i, x) ==
  /\ x \in Seq(ToSet(list))
  /\ i >= 1 /\ (IsData(list[i]) => list[i].count > 0) => x # <<>> /\ Last(x) = list[i]
KeepsOffset(base, traits, i, x) == x \in Int

Nd == INSTANCE FoldProofs WITH Op <- AddNode, Good <- KeepsNodes
Mv == INSTANCE FoldProofs WITH Op <- MoveBy, Good <- KeepsOffset

\* The greatest of some numbers up to n.
LEMMA GreatestIs ==
  ASSUME NEW n \in Nat, NEW S \in SUBSET (1 .. n), S # {}
  PROVE  Max(S) \in S /\ \A y \in S : y <= Max(S)
BY Nd!Greatest DEF Max, Nd!Max

\* The nodes are statements of the kernel, among them its last.
LEMMA NodesAre ==
  ASSUME NEW program \in Programs
  PROVE  LET list == Nodes(program.stmts)
         IN  /\ list \in Seq(ToSet(program.stmts)) /\ list # <<>>
             /\ Last(list) = Last(program.stmts)
<1> DEFINE all == program.stmts
<1>1. all \in Seq(ToSet(all)) /\ all # <<>>
  BY StatementsHaveCounts, KernelsEndWithData
<1>2. PICK n \in Nat \ {0} : n = Len(all) /\ DOMAIN all = 1 .. n /\ Last(all) = all[n]
  BY <1>1 DEF Last
<1>3. IsData(all[n]) /\ all[n].count > 0
  BY <1>2, KernelsEndWithData DEF IsData
<1>4. KeepsNodes(<<>>, all, 0, <<>>)
  BY DEF KeepsNodes
<1>5. ASSUME NEW i \in 1 .. Len(all), NEW x, KeepsNodes(<<>>, all, i - 1, x)
      PROVE  KeepsNodes(<<>>, all, i, AddNode(x, all[i]))
  <2>1. x \in Seq(ToSet(all)) /\ all[i] \in ToSet(all)
    BY <1>2, <1>5 DEF KeepsNodes, ToSet
  <2>2. CASE IsData(all[i]) => all[i].count > 0
    <3>1. AddNode(x, all[i]) = Append(x, all[i])
      BY <2>2 DEF AddNode
    <3>2. Append(x, all[i]) \in Seq(ToSet(all)) /\ Len(Append(x, all[i])) = Len(x) + 1
          /\ Append(x, all[i])[Len(x) + 1] = all[i] /\ Len(x) \in Nat
      BY <2>1, AppendProperties, LenProperties
    <3>3. Append(x, all[i]) # <<>>
      BY <3>2
    <3> QED BY <3>1, <3>2, <3>3 DEF KeepsNodes, Last
  <2>3. CASE ~(IsData(all[i]) => all[i].count > 0)
    BY <2>1, <2>3 DEF KeepsNodes, AddNode
  <2> QED BY <2>2, <2>3
<1>6. KeepsNodes(<<>>, all, Len(all), FoldLeft(AddNode, <<>>, all))
  <2>1. KeepsNodes(<<>>, all, Len(all), Nd!FoldLeft(AddNode, <<>>, all))
    <3> HIDE DEF all
    <3> QED BY <1>1, <1>4, <1>5, Nd!FoldKeeps
  <2>2. FoldLeft(AddNode, <<>>, all) = Nd!FoldLeft(AddNode, <<>>, all)
    BY DEF FoldLeft, Nd!FoldLeft, MapThenFoldSet, Nd!MapThenFoldSet, Max, Nd!Max
  <2> QED BY <2>1, <2>2
<1> QED BY <1>2, <1>3, <1>6 DEF KeepsNodes, Nodes

\* Finitely many numbers have a bound.
BoundedBy(f, k, b) == \A i \in 1 .. k : f[i] <= b

LEMMA Bounded ==
  ASSUME NEW n \in Nat, NEW f \in [1 .. n -> Nat]
  PROVE  \E b \in Nat : BoundedBy(f, n, b)
<1> DEFINE T == {k \in Nat : k <= n /\ ~ \E b \in Nat : BoundedBy(f, k, b)}
<1>1. SUFFICES ASSUME T # {} PROVE FALSE
  <2>1. n \notin T => \E b \in Nat : BoundedBy(f, n, b)
    OBVIOUS
  <2> HIDE DEF T
  <2> QED BY <2>1
<1>2. PICK k \in T : \A y \in T : k <= y
  <2>1. T \in SUBSET Nat
    OBVIOUS
  <2> HIDE DEF T
  <2> QED BY <1>1, <2>1, Nd!Least
<1>3. k \in Nat /\ k <= n /\ \A b \in Nat : ~BoundedBy(f, k, b)
  OBVIOUS
<1>4. k # 0
  <2>1. BoundedBy(f, 0, 0)
    BY DEF BoundedBy
  <2> QED BY <1>3, <2>1
<1>5. PICK m \in Nat : k = m + 1
  BY <1>3, <1>4
<1>6. PICK b \in Nat : BoundedBy(f, m, b)
  <2>1. m <= n /\ ~(k <= m)
    BY <1>3, <1>5
  <2> QED BY <1>2, <2>1
<1>7. PICK c \in Nat : c = f[k]
  <2>1. k \in 1 .. n
    BY <1>3, <1>4
  <2> QED BY <2>1
<1>8. ASSUME NEW i \in 1 .. k PROVE f[i] <= b + c
  <2>1. CASE i = k
    BY <1>7, <2>1
  <2>2. CASE i # k
    <3>1. i \in 1 .. m /\ i \in 1 .. n
      BY <1>3, <1>5, <2>2
    <3>2. f[i] <= b /\ f[i] \in Nat
      BY <1>6, <3>1 DEF BoundedBy
    <3> QED BY <3>2
  <2> QED BY <2>1, <2>2
<1>9. b + c \in Nat /\ BoundedBy(f, k, b + c)
  BY <1>8 DEF BoundedBy
<1> QED BY <1>3, <1>9

\* A kernel has a number of global steps.
LEMMA ControlIs ==
  ASSUME NEW program \in Programs
  PROVE  GlobalControl(Nodes(program.stmts), program.control) \in Nat \ {0}
<1> DEFINE list == Nodes(program.stmts)
           counts == {list[i].count : i \in DOMAIN list}
           all == program.stmts
<1>1. list \in Seq(ToSet(all)) /\ list # <<>> /\ Last(list) = Last(all)
  BY NodesAre
<1>2. PICK n \in Nat \ {0} : n = Len(list) /\ DOMAIN list = 1 .. n /\ Last(list) = list[n]
  <2> HIDE DEF list
  <2> QED BY <1>1 DEF Last
<1>3. ASSUME NEW i \in 1 .. n PROVE list[i].count \in Nat
  <2>1. list[i] \in ToSet(all)
    <3> HIDE DEF list
    <3> QED BY <1>1, <1>2
  <2> QED BY <2>1, StatementsHaveCounts DEF ToSet
<1>4. list[n].count > 0
  BY <1>1, <1>2, KernelsEndWithData
<1> HIDE DEF list
<1>5. program.control \in Nat
  BY StatementsHaveCounts
<1>6. ASSUME program.control = 0 PROVE CommonDivisor(counts) \in Nat \ {0}
  <2>1. PICK b \in Nat : \A i \in 1 .. n : list[i].count <= b
    <3> DEFINE f == [i \in 1 .. n |-> list[i].count]
    <3>1. f \in [1 .. n -> Nat]
      BY <1>3
    <3>2. PICK b \in Nat : BoundedBy(f, n, b)
      <4> HIDE DEF f
      <4> QED BY <3>1, Bounded
    <3>3. \A i \in 1 .. n : f[i] = list[i].count
      OBVIOUS
    <3> HIDE DEF f
    <3> QED BY <3>2, <3>3 DEF BoundedBy
  <2>2. counts \subseteq 0 .. b
    BY <1>2, <1>3, <2>1
  <2>3. list[n].count \in counts \ {0}
    BY <1>2, <1>3, <1>4
  <2> HIDE DEF counts
  <2>4. Max(counts \ {0}) \in counts \ {0} /\ \A y \in counts \ {0} : y <= Max(counts \ {0})
    <3>1. counts \ {0} \in SUBSET (1 .. b)
      BY <2>2
    <3> QED BY <2>3, <3>1, GreatestIs
  <2>5. PICK x \in counts : x \in 1 .. b /\ \A y \in counts : x >= y
    <3>1. PICK x : x = Max(counts \ {0})
      OBVIOUS
    <3>2. x \in counts /\ x \in 1 .. b
      <4>1. x \in counts /\ x # 0
        BY <2>4, <3>1
      <4> QED BY <2>2, <4>1
    <3>3. ASSUME NEW y \in counts PROVE x >= y
      <4>1. y \in 0 .. b
        BY <2>2
      <4>2. y # 0 => y <= x
        BY <2>4, <3>1
      <4> QED BY <3>2, <4>1, <4>2
    <3> QED BY <3>2, <3>3
  <2>6. Max(counts) \in counts /\ \A y \in counts : Max(counts) >= y
    BY <2>5 DEF Max
  <2>7. PICK M \in Nat \ {0} : M = Max(counts)
    <3>1. Max(counts) >= x /\ Max(counts) \in 0 .. b
      BY <2>2, <2>5, <2>6
    <3> QED BY <2>5, <3>1
  <2> DEFINE divisors == {d \in 1 .. M : \A c \in counts : Divides(d, c)}
  <2>8. 1 \in divisors
    <3>1. \A c \in Nat : c % 1 = 0
      OBVIOUS
    <3>2. counts \subseteq Nat
      BY <2>2
    <3> QED BY <3>1, <3>2 DEF Divides
  <2>9. Max(divisors) \in divisors
    <3>1. divisors \in SUBSET (1 .. M) /\ divisors # {}
      BY <2>8
    <3> HIDE DEF divisors
    <3> QED BY <3>1, GreatestIs
  <2>10. CommonDivisor(counts) = Max(divisors)
    BY <2>7 DEF CommonDivisor
  <2> QED BY <2>9, <2>10
<1> QED BY <1>5, <1>6 DEF GlobalControl, list

-----------------------------------------------------------------------------
(***************************************************************************)
(* The application while its data are placed.                              *)
(***************************************************************************)

\* Every object is placed or still to be placed, as the application describes it.
Source(program) ==
  /\ stmts = Nodes(program.stmts)
  /\ control = GlobalControl(Nodes(program.stmts), program.control)
  /\ data \in Seq(ToSet(program.data))
  /\ \A j \in DOMAIN program.data :
       program.data[j].name \in DOMAIN placed \/ program.data[j] \in ToSet(data)
  /\ \A x \in DOMAIN placed : \E j \in DOMAIN program.data :
       /\ program.data[j].name = x
       /\ placed[x].dim = program.data[j].dim /\ placed[x].size = program.data[j].size
       /\ placed[x].num = Product(program.data[j].dim)

\* It holds at first, before anything is placed.
LEMMA InitSource ==
  ASSUME Init
  PROVE  \E program \in Programs : Source(program)
<1>1. PICK program \in Programs :
        /\ PlaceInit(program.data)
        /\ stmts = Nodes(program.stmts)
        /\ control = GlobalControl(Nodes(program.stmts), program.control)
  BY DEF Init
<1>2. program.data \in Seq(DataStatements)
  BY DataHaveSize
<1>3. program.data \in Seq(ToSet(program.data))
  <2>1. Len(program.data) \in Nat /\ program.data \in [1 .. Len(program.data) -> DataStatements]
    BY <1>2
  <2>2. program.data \in [1 .. Len(program.data) -> ToSet(program.data)]
    BY <2>1 DEF ToSet
  <2> QED BY <2>1, <2>2
<1>4. data = program.data /\ placed = <<>>
  BY <1>1 DEF PlaceInit
<1>5. \A j \in DOMAIN program.data : program.data[j] \in ToSet(data)
  BY <1>4 DEF ToSet
<1>6. DOMAIN placed = {}
  BY <1>4
<1> QED BY <1>1, <1>3, <1>4, <1>5, <1>6 DEF Source

\* Placing an object keeps it.
LEMMA PlaceSource ==
  ASSUME NEW program \in Programs, Source(program), PlaceInv, PlaceObject, UNCHANGED <<stmts, control>>
  PROVE  Source(program)'
<1> DEFINE d == Head(data)
           m == MemOfData(d)
           all == program.data
<1>1. data \in Seq(ToSet(all)) /\ data # <<>> /\ d \in ToSet(all)
      /\ Tail(data) \in Seq(ToSet(all)) /\ ToSet(data) = {d} \cup ToSet(Tail(data))
  <2>1. data \in Seq(ToSet(all)) /\ data # <<>>
    BY DEF Source, PlaceObject
  <2>2. PICK n \in Nat : n + 1 = Len(data)
    BY <2>1
  <2>3. Tail(data) \in Seq(ToSet(all)) /\ Len(Tail(data)) = n /\ \A i \in 1 .. n : Tail(data)[i] = data[i + 1]
    BY <2>1, <2>2, HeadTailProperties
  <2>4. DOMAIN data = 1 .. n + 1 /\ DOMAIN Tail(data) = 1 .. n /\ d = data[1]
    BY <2>1, <2>2, <2>3
  <2>5. 1 .. n + 1 = {1} \cup {i + 1 : i \in 1 .. n}
    <3>1. ASSUME NEW i \in 1 .. n + 1, i # 1 PROVE \E j \in 1 .. n : i = j + 1
      <4>1. i - 1 \in 1 .. n /\ i = (i - 1) + 1
        BY <3>1
      <4> QED BY <4>1
    <3>2. 1 \in 1 .. n + 1 /\ \A i \in 1 .. n : i + 1 \in 1 .. n + 1
      OBVIOUS
    <3> QED BY <3>1, <3>2
  <2>6. ToSet(data) = {d} \cup ToSet(Tail(data))
    <3> HIDE DEF d
    <3>1. ToSet(data) = {data[i] : i \in 1 .. n + 1}
      BY <2>4 DEF ToSet
    <3>2. ToSet(Tail(data)) = {data[i + 1] : i \in 1 .. n}
      BY <2>3, <2>4 DEF ToSet
    <3>3. ASSUME NEW x \in ToSet(data) PROVE x \in {d} \cup ToSet(Tail(data))
      <4>1. PICK i \in 1 .. n + 1 : x = data[i]
        BY <3>1
      <4>2. CASE i = 1
        BY <2>4, <4>1, <4>2
      <4>3. CASE i # 1
        <5>1. PICK k \in 1 .. n : i = k + 1
          BY <2>5, <4>3
        <5>2. x = data[k + 1]
          BY <4>1, <5>1
        <5> QED BY <3>2, <5>2
      <4> QED BY <4>2, <4>3
    <3>4. ASSUME NEW x \in {d} \cup ToSet(Tail(data)) PROVE x \in ToSet(data)
      <4>1. CASE x = d
        BY <2>4, <3>1, <4>1
      <4>2. CASE x \in ToSet(Tail(data))
        <5>1. PICK k \in 1 .. n : x = data[k + 1]
          BY <3>2, <4>2
        <5>2. k + 1 \in 1 .. n + 1
          BY <2>2
        <5> QED BY <3>1, <5>1, <5>2
      <4> QED BY <4>1, <4>2
    <3> QED BY <3>3, <3>4
  <2>7. d \in ToSet(all)
    BY <2>1, <2>4
  <2> QED BY <2>1, <2>3, <2>6, <2>7
<1>2. CASE m \notin Mems \/ avail[m] < Bytes(d)
  <2>1. UNCHANGED <<data, placed>>
    BY <1>2 DEF PlaceObject
  <2> QED BY <2>1 DEF Source
<1>3. CASE ~(m \notin Mems \/ avail[m] < Bytes(d))
  <2>1. /\ placed' = [x \in DOMAIN placed \cup {d.name} |->
                        IF x = d.name THEN NewObject(d, m) ELSE placed[x]]
        /\ data' = Tail(data)
    BY <1>3 DEF PlaceObject
  <2>2. /\ NewObject(d, m).dim = d.dim /\ NewObject(d, m).size = d.size
        /\ NewObject(d, m).num = Product(d.dim)
    BY DEF NewObject
  <2>3. PICK i \in DOMAIN all : d = all[i]
    BY <1>1 DEF ToSet
  <2> HIDE DEF d, m, all
  <2>4. ASSUME NEW j \in DOMAIN all
        PROVE  all[j].name \in DOMAIN placed' \/ all[j] \in ToSet(data')
    BY <1>1, <2>1 DEF Source, all
  <2>5. ASSUME NEW x \in DOMAIN placed'
        PROVE  \E j \in DOMAIN all :
                 /\ all[j].name = x
                 /\ placed'[x].dim = all[j].dim /\ placed'[x].size = all[j].size
                 /\ placed'[x].num = Product(all[j].dim)
    <3>1. CASE x = d.name
      <4>1. placed'[x] = NewObject(d, m)
        BY <2>1, <3>1
      <4> QED BY <2>2, <2>3, <3>1, <4>1
    <3>2. CASE x # d.name
      <4>1. x \in DOMAIN placed /\ placed'[x] = placed[x]
        BY <2>1, <3>2
      <4> QED BY <4>1 DEF Source, all
    <3> QED BY <3>1, <3>2
  <2> QED BY <1>1, <2>1, <2>4, <2>5 DEF Source, all
<1> QED BY <1>2, <1>3

\* A statement that becomes a node is one of the kernel.
LEMMA StatementIs ==
  ASSUME NEW program \in Programs, Source(program), NEW k \in DOMAIN stmts
  PROVE  \E i \in DOMAIN program.stmts : stmts[k] = program.stmts[i]
<1>1. stmts \in Seq(ToSet(program.stmts))
  BY NodesAre DEF Source
<1>2. stmts[k] \in ToSet(program.stmts)
  BY <1>1
<1> QED BY <1>2 DEF ToSet

\* A shape has two dimensions at least.
LEMMA ShapesAreWide ==
  ASSUME NEW pattern \in Shaped, NEW dims \in Nat, PatternFits(pattern, dims)
  PROVE  dims >= 2
<1>1. CASE pattern = "ghostcell"
  BY <1>1 DEF PatternFits
<1>2. CASE pattern \in {"stencil4p", "stencil5p", "conv"}
  <2>1. PatternFits(pattern, dims) <=> dims = 2
    BY <1>2 DEF PatternFits
  <2> QED BY <2>1
<1>3. CASE pattern \in {"stencil3p", "stencil8p", "stencil26p", "stencil27p"}
  <2>1. PatternFits(pattern, dims) <=> dims = 3
    BY <1>3 DEF PatternFits
  <2> QED BY <2>1
<1>4. CASE pattern = "stencil9p"
  BY <1>4 DEF PatternFits
<1> QED BY <1>1, <1>2, <1>3, <1>4 DEF Shaped, Patterns

\* The node that a statement becomes has what the generators need.
LEMMA NodeFits ==
  ASSUME NEW program \in Programs, Source(program), PlaceInv, data = <<>>,
         NEW k \in DOMAIN stmts, IsData(stmts[k]),
         \A i \in DOMAIN stmts[k].traits :
           ~TraitFails(stmts[k].traits[i], placed[stmts[k].name].dim, DOMAIN placed),
         NEW n,
         LET obj == placed[stmts[k].name]
             t   == ParseMemtraits(stmts[k].traits, obj.size)
         IN  /\ n.pattern = t.pattern /\ n.tile = t.tile /\ n.stride = t.stride
             /\ n.st = obj.st + t.offset /\ n.dim = obj.dim /\ n.size = obj.size /\ n.num = obj.num
  PROVE  Fits(n) /\ stmts[k].count \in Nat
<1>1. PICK i \in DOMAIN program.stmts : stmts[k] = program.stmts[i]
  BY StatementIs
<1>2. PICK s : s = stmts[k] /\ s = program.stmts[i]
  BY <1>1
<1>3. s.kind # "flops"
  BY <1>2 DEF IsData
<1>4. /\ s.count \in Nat /\ s.traits \in Seq(ToSet(s.traits))
      /\ \A j \in DOMAIN s.traits :
           s.traits[j].name \in Patterns \cup {"offset"} => s.traits[j].values \in Seq(Nat)
      /\ Given(s.traits, Patterns) # {}
      /\ \E j \in DOMAIN program.data : program.data[j].name = s.name
  BY <1>2, <1>3, StatementsHaveCounts, KernelsEndWithData
<1>5. s.name \in DOMAIN placed
  <2>1. ToSet(data) = {}
    BY DEF ToSet
  <2> QED BY <1>4, <2>1 DEF Source
<1>6. PICK j \in DOMAIN program.data :
        LET obj == placed[s.name]
            d   == program.data[j]
        IN  d.name = s.name /\ obj.dim = d.dim /\ obj.size = d.size /\ obj.num = Product(d.dim)
  BY <1>5 DEF Source
<1>7. PICK obj, d : obj = placed[s.name] /\ d = program.data[j]
  OBVIOUS
<1>8. /\ d.dim \in Seq(Nat \ {0}) /\ d.size \in 1 .. AddrSpace /\ Product(d.dim) \in Nat \ {0}
      /\ obj.st \in Nat
  <2>1. d \in DataStatements
    BY <1>7 DEF DataStatements
  <2> QED BY <1>5, <1>7, <2>1, DataHaveSize DEF PlaceInv, ObjectsOK
<1>9. PICK traits : traits = s.traits
  OBVIOUS
<1>10. PICK len \in Nat : len = Len(traits) /\ DOMAIN traits = 1 .. len
  BY <1>4, <1>9
<1>11. \A names : Given(traits, names) # {} =>
         \E p \in DOMAIN traits : LastGiven(traits, names) = traits[p] /\ traits[p].name \in names
  <2> TAKE names
  <2>1. HAVE Given(traits, names) # {}
  <2>2. Given(traits, names) \in SUBSET (1 .. len)
    BY <1>10 DEF Given
  <2>3. Max(Given(traits, names)) \in Given(traits, names)
    BY <2>1, <2>2, GreatestIs
  <2> QED BY <2>3 DEF Given, LastGiven
<1>12. PICK t : t = ParseMemtraits(traits, obj.size)
  OBVIOUS
<1>13. /\ n.pattern = t.pattern /\ n.tile = t.tile /\ n.stride = t.stride
       /\ n.st = obj.st + t.offset /\ n.dim = obj.dim /\ n.size = obj.size /\ n.num = obj.num
  BY <1>2, <1>7, <1>9, <1>12
<1>14. /\ t.pattern = LastGiven(traits, Patterns).name
       /\ t.tile = IF Given(traits, {"conv"}) = {} THEN <<>> ELSE LastGiven(traits, {"conv"}).values
       /\ t.stride = LastValue(traits, "stride", obj.size)
       /\ t.offset = Moved(traits)
  BY <1>12 DEF ParseMemtraits
<1>15. ASSUME NEW p \in DOMAIN traits PROVE ~TraitFails(traits[p], d.dim, DOMAIN placed)
  BY <1>2, <1>6, <1>7, <1>9
<1>16. PICK p \in DOMAIN traits : /\ LastGiven(traits, Patterns) = traits[p]
                                  /\ traits[p].name \in Patterns
  BY <1>4, <1>9, <1>11
<1>17. n.pattern \in Patterns /\ n.pattern = LastGiven(traits, Patterns).name
       /\ PatternFits(n.pattern, Len(d.dim))
  <2>1. n.pattern = traits[p].name
    BY <1>13, <1>14, <1>16
  <2>2. ~TraitFails(traits[p], d.dim, DOMAIN placed)
    BY <1>15
  <2> QED BY <1>16, <2>1, <2>2 DEF TraitFails
<1>18. n.stride \in Int
  <2>1. CASE Given(traits, {"stride"}) = {} \/ LastGiven(traits, {"stride"}).values = <<>>
    BY <1>6, <1>7, <1>8, <1>13, <1>14, <2>1, AddressConstants DEF LastValue
  <2>2. CASE ~(Given(traits, {"stride"}) = {} \/ LastGiven(traits, {"stride"}).values = <<>>)
    <3>1. PICK q \in DOMAIN traits : /\ LastGiven(traits, {"stride"}) = traits[q]
                                     /\ traits[q].name = "stride"
      BY <1>11, <2>2
    <3>2. traits[q].values \in Seq(Nat) /\ traits[q].values # <<>>
      BY <1>4, <1>9, <2>2, <3>1 DEF Patterns
    <3>3. traits[q].values[1] \in Nat
      BY <3>2
    <3> QED BY <1>13, <1>14, <2>2, <3>1, <3>3 DEF LastValue
  <2> QED BY <2>1, <2>2
<1>19. Moved(traits) \in Int
  <2>1. KeepsOffset(0, traits, 0, 0)
    BY DEF KeepsOffset
  <2>2. ASSUME NEW q \in 1 .. Len(traits), NEW x, KeepsOffset(0, traits, q - 1, x)
        PROVE  KeepsOffset(0, traits, q, MoveBy(x, traits[q]))
    <3>1. x \in Int
      BY <2>2 DEF KeepsOffset
    <3>2. CASE traits[q].name = "offset"
      <4>1. q \in DOMAIN traits
        BY <1>10
      <4>2. traits[q].values \in Seq(Nat) /\ traits[q].values # <<>>
        BY <1>4, <1>9, <1>15, <3>2, <4>1 DEF TraitFails, Valued
      <4>3. traits[q].values[1] \in Nat
        BY <4>2
      <4> QED BY <3>1, <3>2, <4>3 DEF KeepsOffset, MoveBy
    <3>3. CASE traits[q].name # "offset"
      BY <3>1, <3>3 DEF KeepsOffset, MoveBy
    <3> QED BY <3>2, <3>3
  <2>3. KeepsOffset(0, traits, Len(traits), Mv!FoldLeft(MoveBy, 0, traits))
    BY <1>4, <1>9, <2>1, <2>2, Mv!FoldKeeps
  <2>4. FoldLeft(MoveBy, 0, traits) = Mv!FoldLeft(MoveBy, 0, traits)
    BY DEF FoldLeft, Mv!FoldLeft, MapThenFoldSet, Mv!MapThenFoldSet, Max, Mv!Max
  <2> QED BY <2>3, <2>4 DEF KeepsOffset, Moved
<1>20. n.st \in Int
  BY <1>8, <1>13, <1>14, <1>19
<1>21. ASSUME n.pattern \in Shaped
       PROVE  /\ n.dim[1] \in Nat \ {0} /\ n.dim[2] \in Nat \ {0}
              /\ 3 * n.size * (n.dim[1] * n.dim[2]) <= AddrSpace
              /\ n.pattern # "conv" => n.dim[1] >= 3 /\ n.dim[2] >= 3
              /\ n.pattern = "conv" => n.tile[1] \in 0 .. n.dim[1] /\ n.tile[2] \in 0 .. n.dim[2]
  <2>1. n.dim = d.dim /\ n.size = d.size
    BY <1>6, <1>7, <1>13
  <2>2. Len(d.dim) >= 2
    <3>1. PICK len2 \in Nat : len2 = Len(d.dim)
      BY <1>8
    <3>2. len2 >= 2
      BY <1>17, <1>21, <3>1, ShapesAreWide
    <3> QED BY <3>1, <3>2
  <2>3. d.dim[1] \in Nat \ {0} /\ d.dim[2] \in Nat \ {0}
    BY <1>8, <2>2
  <2>4. /\ 3 * d.size * (d.dim[1] * d.dim[2]) <= AddrSpace
        /\ n.pattern # "conv" => d.dim[1] >= 3 /\ d.dim[2] >= 3
    <3>1. n.pattern \in {LastGiven(s.traits, Patterns).name} \cap Shaped
      BY <1>9, <1>17, <1>21
    <3>2. d.name = s.name
      BY <1>6, <1>7
    <3> QED BY <1>2, <1>3, <1>7, <1>17, <3>1, <3>2, ShapesHaveRoom
  <2>5. ASSUME n.pattern = "conv" PROVE n.tile[1] \in 0 .. d.dim[1] /\ n.tile[2] \in 0 .. d.dim[2]
    <3>1. p \in Given(traits, {"conv"})
      BY <1>16, <1>17, <2>5 DEF Given
    <3>2. PICK q \in DOMAIN traits : LastGiven(traits, {"conv"}) = traits[q] /\ traits[q].name = "conv"
      BY <1>11, <3>1
    <3>3. n.tile = traits[q].values
      BY <1>13, <1>14, <3>1, <3>2
    <3>4. traits[q].values \in Seq(Nat)
      BY <1>4, <1>9, <3>2 DEF Patterns
    <3>5. FilterFits(traits[q].values, d.dim)
      BY <1>15, <3>2 DEF TraitFails
    <3>6. n.tile[1] \in Nat /\ n.tile[2] \in Nat
      BY <3>3, <3>4, <3>5 DEF FilterFits
    <3> QED BY <2>3, <3>3, <3>5, <3>6 DEF FilterFits
  <2> QED BY <2>1, <2>3, <2>4, <2>5
<1>22. n.size \in 1 .. AddrSpace /\ n.num \in Nat \ {0}
  BY <1>6, <1>7, <1>8, <1>13
<1> QED BY <1>2, <1>4, <1>17, <1>18, <1>20, <1>21, <1>22 DEF Fits

-----------------------------------------------------------------------------
(***************************************************************************)
(* The invariant of the execution graph: of its nodes and groups while     *)
(* they are built, of the walk of init_offsets, and of that of             *)
(* fetch_global_step.                                                      *)
(***************************************************************************)

\* The fields of a node; those that stay as they are once the node is built.
NodeFields == {"name", "kind", "count", "comp", "pattern", "tile", "stride", "st", "end", "dim",
               "size", "num", "mem", "prev", "next", "group", "offset", "opsStep", "numPrev"}
Fixed == {"count", "pattern", "tile", "stride", "st", "dim", "size", "num", "group"}
SameNode(q, r) == DOMAIN q = NodeFields /\ \A f \in Fixed : q[f] = r[f]

GroupRecord == [st : Nat, end : Nat, step : Nat, steps : Nat, numOps : Nat]

\* The groups divide the nodes into stretches, one behind the other.
GroupsOK ==
  /\ groups \in Seq(GroupRecord)
  /\ \A g \in DOMAIN groups :
       /\ 1 <= groups[g].st /\ groups[g].st <= groups[g].end /\ groups[g].end <= Len(nodes)
       /\ g = 1 => groups[g].st = 1
       /\ g > 1 => groups[g].st = groups[g - 1].end + 1
       /\ g = Len(groups) => groups[g].end = Len(nodes)

\* A node has what its generator needs, and lies in the stretch of its group.
NodesOK ==
  /\ nodes \in Seq(ToSet(nodes))
  /\ \A n \in DOMAIN nodes :
       /\ DOMAIN nodes[n] = NodeFields
       /\ Fits(nodes[n]) /\ nodes[n].count \in Nat
       /\ nodes[n].group \in DOMAIN groups
       /\ groups[nodes[n].group].steps = nodes[n].count \div control
  /\ \A g \in DOMAIN groups, n \in DOMAIN nodes :
       nodes[n].group = g <=> n \in groups[g].st .. groups[g].end

\* Where the walk through the groups is.
WalkOK ==
  /\ cur \in DOMAIN groups
  /\ at \in Group.st .. Group.end + 1
  /\ \A g \in DOMAIN groups : g # cur => groups[g].step = 0

\* The nodes the walk of init_offsets has come by.
Passed(n) == \/ nodes[n].group < cur
             \/ nodes[n].group = cur /\ (n < at \/ Group.step > 0)
Sized(n) == nodes[n].opsStep = OpsPerAccess(nodes[n])

\* The accesses made of a node, and the operations of one of them.
Done(n) ==
  LET g == nodes[n].group
      S == groups[g].steps
  IN  fetched * S + (IF g < cur THEN S ELSE IF g > cur THEN 0
                     ELSE groups[g].step + (IF n < at THEN 1 ELSE 0))
Made(n, m) == {k \in DOMAIN window : window[k].node = n /\ window[k].local = m}

\* What holds while nodes are built, in init_offsets, and in fetch_global_step.
Built == /\ cur = 1 /\ fetched = 0 /\ window = <<>>
         /\ \A g \in DOMAIN groups : groups[g].step = 0
         /\ at \in 1 .. Len(stmts) + 1
         /\ at = Len(stmts) + 1 => nodes # <<>>
Offset == /\ fetched = 0 /\ window = <<>> /\ WalkOK
          /\ \A n \in DOMAIN nodes : Passed(n) => Sized(n)
Fetched ==
  /\ WalkOK
  /\ \A n \in DOMAIN nodes : Sized(n)
  /\ fetched \in 0 .. control
  /\ fetched = control => at = 1 /\ cur = 1 /\ Group.step = 0
  /\ window \in Seq(ToSet(window))
  /\ \A n \in DOMAIN nodes, m \in Nat :
       Cardinality(Made(n, m)) = IF m < Done(n) THEN nodes[n].opsStep ELSE 0

GraphInv ==
  /\ \E program \in Programs : Source(program)
  /\ PlaceInv
  /\ control \in Nat \ {0}
  /\ GroupsOK /\ NodesOK
  /\ pc \in {"build", "offsets", "fetch"}
  /\ pc = "build" => Built
  /\ pc = "offsets" => Offset
  /\ pc = "fetch" => Fetched

\* A function on the numbers up to n is a list.
LEMMA ListIs ==
  ASSUME NEW n \in Nat, NEW s, s = [i \in 1 .. n |-> s[i]]
  PROVE  s \in Seq(ToSet(s)) /\ Len(s) = n /\ DOMAIN s = 1 .. n
<1> DEFINE T == ToSet(s)
<1>1. DOMAIN s = 1 .. n
  OBVIOUS
<1>2. \A i \in 1 .. n : s[i] \in T
  BY <1>1 DEF ToSet
<1> HIDE DEF T
<1>3. s \in [1 .. n -> T]
  BY <1>2
<1>4. s \in Seq(T) /\ Len(s) = n
  BY <1>3
<1> QED BY <1>1, <1>4 DEF T

\* A list stays one when an element is replaced.
LEMMA ReplacedIs ==
  ASSUME NEW s, s \in Seq(ToSet(s)), NEW i \in DOMAIN s, NEW e
  PROVE  LET t == [s EXCEPT ![i] = e]
         IN  /\ t \in Seq(ToSet(t)) /\ Len(t) = Len(s) /\ DOMAIN t = DOMAIN s
             /\ \A j \in DOMAIN s : t[j] = IF j = i THEN e ELSE s[j]
<1>1. PICK n \in Nat : n = Len(s) /\ DOMAIN s = 1 .. n /\ s = [j \in 1 .. n |-> s[j]]
  OBVIOUS
<1>2. PICK t : t = [s EXCEPT ![i] = e]
  OBVIOUS
<1>3. t = [j \in 1 .. n |-> IF j = i THEN e ELSE s[j]]
  BY <1>1, <1>2
<1>4. t = [j \in 1 .. n |-> t[j]]
  BY <1>3
<1>5. t \in Seq(ToSet(t)) /\ Len(t) = n /\ DOMAIN t = 1 .. n
  BY <1>4, ListIs
<1> QED BY <1>1, <1>2, <1>3, <1>5

\* A node that differs in its dependencies and operations only is as good.
LEMMA SameGenerates ==
  ASSUME NEW r, NEW q, Fits(r), SameNode(q, r)
  PROVE  Fits(q) /\ OpsPerAccess(q) = OpsPerAccess(r)
<1>1. /\ q.pattern = r.pattern /\ q.tile = r.tile /\ q.stride = r.stride /\ q.st = r.st
      /\ q.dim = r.dim /\ q.size = r.size /\ q.num = r.num
  BY DEF SameNode, Fixed
<1>2. Fits(q)
  BY <1>1 DEF Fits
<1>3. Shape(q) = Shape(r) /\ LinesPerAccess(q) = LinesPerAccess(r)
  BY <1>1 DEF Shape, LinesPerAccess
<1> QED BY <1>2, <1>3 DEF OpsPerAccess

\* The invariant holds of a kernel of which no node is built.
LEMMA InitGraph ==
  ASSUME Init
  PROVE  GraphInv
<1>1. PICK program \in Programs : Source(program)
  BY InitSource
<1>2. /\ nodes = <<>> /\ groups = <<>> /\ pc = "build" /\ at = 1 /\ cur = 1
      /\ fetched = 0 /\ window = <<>>
  BY DEF Init
<1>3. control \in Nat \ {0}
  BY <1>1, ControlIs DEF Source
<1>4. Len(stmts) \in Nat /\ Len(stmts) # 0
  <2>1. stmts \in Seq(ToSet(program.stmts)) /\ stmts # <<>>
    BY <1>1, NodesAre DEF Source
  <2> QED BY <2>1
<1>5. GroupsOK
  BY <1>2 DEF GroupsOK
<1>6. NodesOK
  BY <1>2 DEF NodesOK
<1>7. Built
  BY <1>2, <1>4 DEF Built
<1> QED BY <1>1, <1>2, <1>3, <1>5, <1>6, <1>7, InitPlace DEF GraphInv

\* Steps that place an object, reject the application or read arithmetic.
LEMMA PlaceGraph ==
  ASSUME GraphInv, [Place \/ BuildOpNode \/ EndBuild]_vars \/ Rejected, PlaceInv'
  PROVE  GraphInv'
<1>1. PICK program \in Programs : Source(program)
  BY DEF GraphInv
<1>2. Len(stmts) \in Nat
  <2>1. stmts \in Seq(ToSet(program.stmts))
    BY <1>1, NodesAre DEF Source
  <2> QED BY <2>1
<1>3. ASSUME Source(program)', UNCHANGED graphVars PROVE GraphInv'
  <2>1. GroupsOK' /\ NodesOK'
    BY <1>3 DEF GraphInv, GroupsOK, NodesOK, graphVars
  <2>2. (Built => Built') /\ (Offset => Offset') /\ (Fetched => Fetched')
    <3> USE <1>3 DEF graphVars
    <3>1. Built => Built'
      BY DEF Built
    <3>2. WalkOK => WalkOK'
      BY DEF WalkOK, Group
    <3>3. Offset => Offset'
      BY <3>2 DEF Offset, Passed, Sized, Group
    <3>4. Fetched => Fetched'
      BY <3>2 DEF Fetched, Sized, Group, Done, Made
    <3> QED BY <3>1, <3>3, <3>4
  <2> QED BY <1>3, <2>1, <2>2 DEF GraphInv, graphVars
<1>4. CASE Place
  BY <1>1, <1>3, <1>4, PlaceSource DEF Place, graphVars, GraphInv
<1>5. ASSUME UNCHANGED <<data, placed, stmts, control>> PROVE Source(program)'
  BY <1>1, <1>5 DEF Source
<1>6. CASE Rejected \/ UNCHANGED vars
  BY <1>3, <1>5, <1>6 DEF Rejected, vars, placeVars, graphVars
<1>7. ASSUME UNCHANGED <<placeVars, stmts, control, nodes, groups, cur, fetched, window>>,
             pc = "build",
             \/ pc' = "build" /\ at' \in 1 .. Len(stmts) + 1 /\ (at' = Len(stmts) + 1 => nodes # <<>>)
             \/ pc' = "offsets" /\ at' = 1 /\ nodes # <<>>
      PROVE  GraphInv'
  <2>1. Source(program)'
    BY <1>5, <1>7 DEF placeVars
  <2>2. GroupsOK' /\ NodesOK'
    BY <1>7 DEF GraphInv, GroupsOK, NodesOK
  <2>3. Built
    BY <1>7 DEF GraphInv
  <2>4. CASE pc' = "build"
    <3>1. Built'
      BY <1>7, <2>3, <2>4 DEF Built
    <3> QED BY <1>7, <2>1, <2>2, <2>4, <3>1 DEF GraphInv
  <2>5. CASE pc' = "offsets"
    <3>1. 1 \in DOMAIN groups /\ groups[1].st = 1 /\ groups[1] \in GroupRecord
          /\ \A n \in DOMAIN nodes : n \in Nat /\ nodes[n].group \in Nat /\ n >= 1 /\ nodes[n].group >= 1
          /\ groups[1].st <= groups[1].end
      <4>1. nodes \in Seq(ToSet(nodes)) /\ nodes # <<>> /\ groups \in Seq(GroupRecord)
        BY <1>7, <2>5 DEF GraphInv, NodesOK, GroupsOK
      <4>2. 1 \in DOMAIN nodes
        BY <4>1
      <4>3. nodes[1].group \in DOMAIN groups
        BY <4>2 DEF GraphInv, NodesOK
      <4>4. 1 \in DOMAIN groups
        BY <4>1, <4>3
      <4> QED BY <4>1, <4>4 DEF GraphInv, NodesOK, GroupsOK
    <3>2. WalkOK'
      BY <1>7, <2>3, <2>5, <3>1 DEF WalkOK, Built, Group, GroupRecord
    <3>3. Offset'
      BY <1>7, <2>3, <2>5, <3>1, <3>2 DEF Offset, Built, Passed, Group
    <3> QED BY <1>7, <2>1, <2>2, <2>5, <3>3 DEF GraphInv
  <2> QED BY <1>7, <2>4, <2>5
<1>8. CASE BuildOpNode
  <2>1. CASE Rejected
    BY <1>6, <2>1
  <2>2. CASE ~Rejected
    <3>1. /\ at < Len(stmts) /\ at' = at + 1 /\ pc = "build"
          /\ UNCHANGED <<placeVars, stmts, control, nodes, groups, pc, cur, width, fetched, window>>
      BY <1>8, <2>2 DEF BuildOpNode, Building
    <3>2. at \in 1 .. Len(stmts) + 1
      BY <3>1 DEF GraphInv, Built
    <3>3. at' \in 1 .. Len(stmts)
      BY <1>2, <3>1, <3>2
    <3> QED BY <1>2, <1>7, <3>1, <3>3
  <2> QED BY <2>1, <2>2
<1>9. CASE EndBuild
  <2>1. pc = "build" /\ at > Len(stmts)
    BY <1>9 DEF EndBuild, Building
  <2>2. nodes # <<>>
    BY <1>2, <2>1 DEF GraphInv, Built
  <2> QED BY <1>7, <1>9, <2>1, <2>2 DEF EndBuild
<1> QED BY <1>4, <1>6, <1>8, <1>9

\* A statement becomes a node, of the last group or of one of its own.
LEMMA BuildGraph ==
  ASSUME GraphInv, BuildDataNode, ~Rejected, PlaceInv'
  PROVE  GraphInv'
<1> DEFINE s    == stmts[at]
           obj  == placed[s.name]
           t    == ParseMemtraits(s.traits, obj.size)
           prev == [i \in 1 .. Len(t.deps) |-> LastNamed(t.deps[i])]
           mine == Len(nodes) + 1
           per  == s.count \div control
           joins == groups # <<>> /\ per = Last(groups).steps
           node == [name |-> s.name, kind |-> s.kind, count |-> s.count, comp |-> Comp(at),
                    pattern |-> t.pattern, tile |-> t.tile, stride |-> t.stride,
                    st |-> obj.st + t.offset, end |-> obj.end, dim |-> obj.dim, size |-> obj.size,
                    num |-> obj.num, mem |-> obj.mem,
                    prev |-> prev, next |-> <<>>, group |-> Len(groups) + (IF joins THEN 0 ELSE 1),
                    offset |-> 0, opsStep |-> 0, numPrev |-> 0]
           notified(j) == [nodes[j] EXCEPT !.next =
                             @ \o [i \in 1 .. Len(SelectSeq(prev, LAMBDA p : p = j)) |-> mine]]
<1>1. PICK program \in Programs : Source(program)
  BY DEF GraphInv
<1>2. /\ data = <<>> /\ pc = "build" /\ at <= Len(stmts) /\ IsData(s)
      /\ \A i \in DOMAIN s.traits : ~TraitFails(s.traits[i], obj.dim, DOMAIN placed)
      /\ nodes' = [j \in 1 .. mine |-> IF j = mine THEN node ELSE notified(j)]
      /\ groups' = IF joins THEN [groups EXCEPT ![Len(groups)].end = mine]
                   ELSE Append(groups, [st |-> mine, end |-> mine, step |-> 0,
                                        steps |-> per, numOps |-> 0])
      /\ at' = at + 1
      /\ UNCHANGED <<placeVars, stmts, control, pc, cur, width, fetched, window>>
  BY DEF BuildDataNode, Building
<1>3. /\ control \in Nat \ {0} /\ Built /\ NodesOK /\ GroupsOK
  BY <1>2 DEF GraphInv
<1>4. Len(stmts) \in Nat /\ at \in DOMAIN stmts /\ at' \in 1 .. Len(stmts) + 1
  <2>1. stmts \in Seq(ToSet(program.stmts))
    BY <1>1, NodesAre DEF Source
  <2>2. PICK L \in Nat : L = Len(stmts) /\ DOMAIN stmts = 1 .. L
    BY <2>1
  <2>3. at \in 1 .. L + 1 /\ at <= L
    BY <1>2, <1>3, <2>2 DEF Built
  <2>4. at' = at + 1
    BY <1>2
  <2>5. at \in 1 .. L /\ at + 1 \in 1 .. L + 1
    BY <2>3
  <2> QED BY <2>2, <2>4, <2>5
<1>5. PICK N \in Nat : N = Len(nodes) /\ DOMAIN nodes = 1 .. N
  BY <1>3 DEF NodesOK
<1>6. PICK G \in Nat : G = Len(groups) /\ DOMAIN groups = 1 .. G
  BY <1>3 DEF GroupsOK
<1>7. Fits(node) /\ node.count \in Nat
  <2>1. /\ node.pattern = t.pattern /\ node.tile = t.tile /\ node.stride = t.stride
        /\ node.st = obj.st + t.offset /\ node.dim = obj.dim /\ node.size = obj.size /\ node.num = obj.num
        /\ node.count = s.count
    OBVIOUS
  <2> HIDE DEF node
  <2>2. PlaceInv
    BY DEF GraphInv
  <2>3. Fits(node) /\ stmts[at].count \in Nat
    BY <1>1, <1>2, <1>4, <2>1, <2>2, NodeFits
  <2> QED BY <2>1, <2>3
<1>8. DOMAIN node = NodeFields /\ node.group = IF joins THEN G ELSE G + 1
  <2>1. DOMAIN node = NodeFields
    BY DEF NodeFields
  <2>2. node.group = Len(groups) + (IF joins THEN 0 ELSE 1)
    OBVIOUS
  <2> HIDE DEF node
  <2> QED BY <1>6, <2>1, <2>2
<1>9. per \in Nat /\ per = node.count \div control
  <2>1. node.count = s.count
    OBVIOUS
  <2>2. PICK c \in Nat : c = s.count
    BY <1>7, <2>1
  <2>3. c \div control \in Nat
    BY <1>3, DivMod
  <2> QED BY <2>1, <2>2, <2>3
<1>10. ASSUME NEW j \in 1 .. N PROVE SameNode(notified(j), nodes[j])
  <2>1. DOMAIN nodes[j] = NodeFields
    BY <1>3, <1>5 DEF NodesOK
  <2> QED BY <2>1 DEF SameNode, NodeFields, Fixed
<1> HIDE DEF node, notified, per, joins
<1>11. /\ nodes' \in Seq(ToSet(nodes')) /\ Len(nodes') = N + 1 /\ DOMAIN nodes' = 1 .. N + 1
       /\ nodes'[N + 1] = node /\ \A j \in 1 .. N : SameNode(nodes'[j], nodes[j])
  <2>1. nodes' = [j \in 1 .. N + 1 |-> IF j = N + 1 THEN node ELSE notified(j)]
    BY <1>2, <1>5
  <2>2. nodes' = [j \in 1 .. N + 1 |-> nodes'[j]]
    BY <2>1
  <2>3. nodes'[N + 1] = node /\ \A j \in 1 .. N : nodes'[j] = notified(j)
    BY <2>1
  <2> QED BY <1>10, <2>2, <2>3, ListIs
<1>12. PICK H \in Nat :
         /\ H = IF joins THEN G ELSE G + 1
         /\ H >= 1 /\ groups' \in Seq(GroupRecord) /\ Len(groups') = H /\ DOMAIN groups' = 1 .. H
         /\ \A g \in 1 .. H : g < H => groups'[g] = groups[g]
         /\ groups'[H].end = N + 1 /\ groups'[H].steps = per /\ groups'[H].step = 0
         /\ groups'[H].st = IF joins THEN groups[G].st ELSE N + 1
  <2>1. CASE joins
    <3>1. G >= 1 /\ per = groups[G].steps /\ groups[G] \in GroupRecord /\ groups[G].step = 0
      BY <1>3, <1>6, <2>1 DEF joins, Last, GroupsOK, Built
    <3> DEFINE e == [groups[G] EXCEPT !.end = N + 1]
    <3>2. e \in GroupRecord /\ e.end = N + 1 /\ e.steps = per /\ e.step = 0 /\ e.st = groups[G].st
      BY <3>1 DEF GroupRecord
    <3>3. groups' = [groups EXCEPT ![G] = e]
      BY <1>2, <1>5, <1>6, <2>1
    <3> HIDE DEF e
    <3>4. /\ groups' \in Seq(GroupRecord) /\ Len(groups') = G
          /\ \A g \in 1 .. G : groups'[g] = IF g = G THEN e ELSE groups[g]
      BY <1>3, <1>6, <3>1, <3>2, <3>3, ExceptSeq DEF GroupsOK
    <3> QED BY <2>1, <3>1, <3>2, <3>4
  <2>2. CASE ~joins
    <3> DEFINE e == [st |-> N + 1, end |-> N + 1, step |-> 0, steps |-> per, numOps |-> 0]
    <3>1. e \in GroupRecord /\ e.end = N + 1 /\ e.steps = per /\ e.step = 0 /\ e.st = N + 1
      BY <1>9 DEF GroupRecord
    <3>2. groups' = Append(groups, e)
      BY <1>2, <1>5, <2>2
    <3> HIDE DEF e
    <3>3. /\ groups' \in Seq(GroupRecord) /\ Len(groups') = G + 1
          /\ \A g \in 1 .. G : groups'[g] = groups[g]
          /\ groups'[G + 1] = e
      BY <1>3, <1>6, <3>1, <3>2, AppendProperties DEF GroupsOK
    <3> QED BY <2>2, <3>1, <3>3
  <2> QED BY <2>1, <2>2
<1>13. /\ \A g \in 1 .. G : /\ groups[g].st \in Nat /\ groups[g].end \in Nat
                            /\ 1 <= groups[g].st /\ groups[g].st <= groups[g].end /\ groups[g].end <= N
                            /\ g = 1 => groups[g].st = 1
                            /\ g > 1 => groups[g].st = groups[g - 1].end + 1
                            /\ g = G => groups[g].end = N
       /\ G = 0 => N = 0
       /\ \A n \in 1 .. N : nodes[n].group \in 1 .. G
  <2>1. \A g \in 1 .. G : groups[g] \in GroupRecord
    BY <1>3, <1>6 DEF GroupsOK
  <2>2. \A n \in 1 .. N : nodes[n].group \in 1 .. G
    BY <1>3, <1>5, <1>6 DEF NodesOK
  <2>3. G = 0 => N = 0
    <3>1. N # 0 => 1 \in 1 .. N
      OBVIOUS
    <3> QED BY <2>2, <3>1
  <2> QED BY <1>3, <1>5, <1>6, <2>1, <2>2, <2>3 DEF GroupsOK, GroupRecord
<1>14. joins => G >= 1
  BY <1>6 DEF joins
<1>15. GroupsOK'
  <2>1. ASSUME NEW g \in 1 .. H
        PROVE  /\ 1 <= groups'[g].st /\ groups'[g].st <= groups'[g].end /\ groups'[g].end <= N + 1
               /\ g = 1 => groups'[g].st = 1
               /\ g > 1 => groups'[g].st = groups'[g - 1].end + 1
               /\ g = H => groups'[g].end = N + 1
    <3>1. CASE g < H
      <4>1. groups'[g] = groups[g] /\ g \in 1 .. G /\ (g > 1 => g - 1 \in 1 .. G /\ groups'[g - 1] = groups[g - 1])
        BY <1>12, <3>1
      <4> QED BY <1>13, <3>1, <4>1
    <3>2. CASE g = H
      <4>1. CASE joins
        <5>1. g = G /\ groups'[g].st = groups[G].st /\ groups'[g].end = N + 1
              /\ (g > 1 => g - 1 \in 1 .. H /\ groups'[g - 1] = groups[g - 1])
          BY <1>12, <3>2, <4>1
        <5> QED BY <1>13, <1>14, <4>1, <5>1
      <4>2. CASE ~joins
        <5>1. g = G + 1 /\ groups'[g].st = N + 1 /\ groups'[g].end = N + 1
              /\ (g > 1 => g - 1 = G /\ g - 1 \in 1 .. H /\ groups'[g - 1] = groups[g - 1])
          BY <1>12, <3>2, <4>2
        <5>2. g > 1 => groups[G].end = N
          BY <1>13, <5>1
        <5> QED BY <1>13, <5>1, <5>2
      <4> QED BY <4>1, <4>2
    <3> QED BY <3>1, <3>2
  <2> QED BY <1>11, <1>12, <2>1 DEF GroupsOK
<1>16. ASSUME NEW j \in 1 .. N
       PROVE  /\ nodes'[j].group = nodes[j].group /\ nodes'[j].count = nodes[j].count
              /\ DOMAIN nodes'[j] = NodeFields /\ Fits(nodes'[j])
  <2>1. SameNode(nodes'[j], nodes[j]) /\ Fits(nodes[j])
    BY <1>3, <1>5, <1>11 DEF NodesOK
  <2> QED BY <2>1, SameGenerates DEF SameNode, Fixed
<1>17. NodesOK'
  <2>1. ASSUME NEW n \in 1 .. N + 1
        PROVE  /\ DOMAIN nodes'[n] = NodeFields
               /\ Fits(nodes'[n]) /\ nodes'[n].count \in Nat
               /\ nodes'[n].group \in 1 .. H
               /\ groups'[nodes'[n].group].steps = nodes'[n].count \div control
    <3>1. CASE n = N + 1
      BY <1>7, <1>8, <1>9, <1>11, <1>12, <3>1
    <3>2. CASE n # N + 1
      <4>1. n \in 1 .. N
        BY <3>2
      <4>2. PICK g \in 1 .. G : g = nodes[n].group
        BY <1>13, <4>1
      <4>3. nodes[n].count \in Nat /\ groups[g].steps = nodes[n].count \div control
        BY <1>3, <1>5, <4>1, <4>2 DEF NodesOK
      <4>4. g \in 1 .. H /\ groups'[g].steps = groups[g].steps
        <5>1. CASE g < H
          BY <1>12, <5>1
        <5>2. CASE ~(g < H)
          <6>1. joins /\ g = G /\ g = H
            BY <1>12, <5>2
          <6>2. groups[G].steps = per
            BY <1>6, <6>1 DEF joins, Last
          <6> QED BY <1>12, <6>1, <6>2
        <5> QED BY <5>1, <5>2
      <4> QED BY <1>16, <4>1, <4>2, <4>3, <4>4
    <3> QED BY <3>1, <3>2
  <2>2. ASSUME NEW g \in 1 .. H, NEW n \in 1 .. N + 1
        PROVE  nodes'[n].group = g <=> n \in groups'[g].st .. groups'[g].end
    <3>1. CASE n = N + 1
      <4>1. nodes'[n].group = H
        BY <1>8, <1>11, <1>12, <3>1
      <4>2. CASE g < H
        <5>1. groups'[g] = groups[g] /\ g \in 1 .. G
          BY <1>12, <4>2
        <5> QED BY <1>13, <3>1, <4>1, <4>2, <5>1
      <4>3. CASE g = H
        <5>1. groups'[H].st \in Nat /\ groups'[H].st <= N + 1
          BY <1>12, <1>13, <1>14
        <5> QED BY <1>12, <3>1, <4>1, <4>3, <5>1
      <4> QED BY <4>2, <4>3
    <3>2. CASE n # N + 1
      <4>1. n \in 1 .. N
        BY <3>2
      <4>2. nodes'[n].group = nodes[n].group /\ nodes[n].group \in 1 .. G
        BY <1>13, <1>16, <4>1
      <4>3. \A h \in 1 .. G : nodes[n].group = h <=> n \in groups[h].st .. groups[h].end
        BY <1>3, <1>5, <1>6, <4>1 DEF NodesOK
      <4>4. CASE g < H
        <5>1. groups'[g] = groups[g] /\ g \in 1 .. G
          BY <1>12, <4>4
        <5> QED BY <4>2, <4>3, <5>1
      <4>5. CASE g = H /\ joins
        <5>1. g = G /\ g \in 1 .. G
          BY <1>12, <1>14, <4>5
        <5>2. groups'[g].st = groups[g].st /\ groups'[g].end = N + 1 /\ groups[g].end = N
          BY <1>12, <1>13, <4>5, <5>1
        <5> QED BY <1>13, <4>1, <4>2, <4>3, <5>1, <5>2
      <4>6. CASE g = H /\ ~joins
        BY <1>12, <4>1, <4>2, <4>6
      <4> QED BY <1>12, <4>4, <4>5, <4>6
    <3> QED BY <3>1, <3>2
  <2>3. control' = control
    BY <1>2
  <2> QED BY <1>11, <1>12, <2>1, <2>2, <2>3 DEF NodesOK
<1>18. Built'
  <2>1. ASSUME NEW g \in 1 .. H PROVE groups'[g].step = 0
    BY <1>3, <1>6, <1>12 DEF Built
  <2>2. nodes' # <<>>
    BY <1>11
  <2> QED BY <1>2, <1>3, <1>4, <1>12, <2>1, <2>2 DEF Built
<1>19. Source(program)'
  BY <1>1, <1>2 DEF Source, placeVars
<1> QED BY <1>2, <1>3, <1>15, <1>17, <1>18, <1>19 DEF GraphInv

\* What one step of a walk leaves of the nodes and of the groups.
SameNodes ==
  /\ nodes' \in Seq(ToSet(nodes')) /\ Len(nodes') = Len(nodes) /\ DOMAIN nodes' = DOMAIN nodes
  /\ \A n \in DOMAIN nodes : SameNode(nodes'[n], nodes[n])
SameGroups ==
  /\ groups' \in Seq(GroupRecord) /\ Len(groups') = Len(groups) /\ DOMAIN groups' = DOMAIN groups
  /\ \A g \in DOMAIN groups : /\ groups'[g].st = groups[g].st /\ groups'[g].end = groups[g].end
                              /\ groups'[g].steps = groups[g].steps

\* Such a step keeps the stretches.
LEMMA SameIsOK ==
  ASSUME GroupsOK, NodesOK, SameNodes, SameGroups, control' = control
  PROVE  GroupsOK' /\ NodesOK'
<1>1. PICK G \in Nat : G = Len(groups) /\ DOMAIN groups = 1 .. G
  BY DEF GroupsOK
<1>2. GroupsOK'
  <2>1. ASSUME NEW g \in DOMAIN groups'
        PROVE  /\ 1 <= groups'[g].st /\ groups'[g].st <= groups'[g].end /\ groups'[g].end <= Len(nodes')
               /\ g = 1 => groups'[g].st = 1
               /\ g > 1 => groups'[g].st = groups'[g - 1].end + 1
               /\ g = Len(groups') => groups'[g].end = Len(nodes')
    <3>1. g \in DOMAIN groups /\ (g > 1 => g - 1 \in DOMAIN groups)
      BY <1>1 DEF SameGroups
    <3> QED BY <3>1 DEF GroupsOK, SameGroups, SameNodes
  <2> QED BY <2>1 DEF GroupsOK, SameGroups
<1>3. ASSUME NEW n \in DOMAIN nodes
      PROVE  /\ nodes'[n].group = nodes[n].group /\ nodes'[n].count = nodes[n].count
             /\ DOMAIN nodes'[n] = NodeFields /\ Fits(nodes'[n])
  <2>1. SameNode(nodes'[n], nodes[n]) /\ Fits(nodes[n])
    BY DEF NodesOK, SameNodes
  <2> QED BY <2>1, SameGenerates DEF SameNode, Fixed
<1>4. ASSUME NEW n \in DOMAIN nodes'
      PROVE  /\ DOMAIN nodes'[n] = NodeFields
             /\ Fits(nodes'[n]) /\ nodes'[n].count \in Nat
             /\ nodes'[n].group \in DOMAIN groups'
             /\ groups'[nodes'[n].group].steps = nodes'[n].count \div control'
  <2>1. n \in DOMAIN nodes
    BY DEF SameNodes
  <2>2. /\ nodes[n].count \in Nat /\ nodes[n].group \in DOMAIN groups
        /\ groups[nodes[n].group].steps = nodes[n].count \div control
    BY <2>1 DEF NodesOK
  <2> QED BY <1>3, <2>1, <2>2 DEF SameGroups
<1>5. ASSUME NEW g \in DOMAIN groups', NEW n \in DOMAIN nodes'
      PROVE  nodes'[n].group = g <=> n \in groups'[g].st .. groups'[g].end
  <2>1. n \in DOMAIN nodes /\ g \in DOMAIN groups
    BY DEF SameNodes, SameGroups
  <2>2. nodes[n].group = g <=> n \in groups[g].st .. groups[g].end
    BY <2>1 DEF NodesOK
  <2> QED BY <1>3, <2>1, <2>2 DEF SameGroups
<1>6. NodesOK'
  BY <1>4, <1>5 DEF NodesOK, SameNodes
<1> QED BY <1>2, <1>6

\* A node's operations per access are a number.
LEMMA OpsAre ==
  ASSUME NEW n, Fits(n)
  PROVE  OpsPerAccess(n) \in Nat
<1>1. Cardinality(Shape(n)) \in Nat
  BY ShapeIs, FS_CardinalityType
<1>2. LinesPerAccess(n) \in Nat
  BY LinesFit DEF Fits, LinesPerAccess, LinesOf
<1> QED BY <1>1, <1>2 DEF OpsPerAccess

\* The groups, and where the walk is in them, in numbers.
GroupsAre(G, N) ==
  /\ G = Len(groups) /\ DOMAIN groups = 1 .. G
  /\ N = Len(nodes) /\ DOMAIN nodes = 1 .. N
  /\ \A g \in 1 .. G :
       /\ groups[g].st \in 1 .. N /\ groups[g].end \in 1 .. N /\ groups[g].st <= groups[g].end
       /\ groups[g].step \in Nat /\ groups[g].steps \in Nat
       /\ g = 1 => groups[g].st = 1
       /\ g > 1 => groups[g].st = groups[g - 1].end + 1
  /\ \A n \in 1 .. N : nodes[n].group \in 1 .. G
  /\ \A n \in 1 .. N, g \in 1 .. G : nodes[n].group = g <=> n \in groups[g].st .. groups[g].end

LEMMA WalkIs ==
  ASSUME GroupsOK, NodesOK
  PROVE  \E G, N \in Nat : GroupsAre(G, N)
<1>1. PICK G \in Nat : G = Len(groups) /\ DOMAIN groups = 1 .. G
  BY DEF GroupsOK
<1>2. PICK N \in Nat : N = Len(nodes) /\ DOMAIN nodes = 1 .. N
  BY DEF NodesOK
<1>3. ASSUME NEW g \in 1 .. G
      PROVE  /\ groups[g].st \in 1 .. N /\ groups[g].end \in 1 .. N /\ groups[g].st <= groups[g].end
             /\ groups[g].step \in Nat /\ groups[g].steps \in Nat
             /\ g = 1 => groups[g].st = 1
             /\ g > 1 => groups[g].st = groups[g - 1].end + 1
  <2>1. groups[g] \in GroupRecord
    BY <1>1 DEF GroupsOK
  <2>2. /\ groups[g].st \in Nat /\ groups[g].end \in Nat
        /\ groups[g].step \in Nat /\ groups[g].steps \in Nat
    BY <2>1 DEF GroupRecord
  <2>3. /\ 1 <= groups[g].st /\ groups[g].st <= groups[g].end /\ groups[g].end <= N
        /\ g = 1 => groups[g].st = 1
        /\ g > 1 => groups[g].st = groups[g - 1].end + 1
    BY <1>1, <1>2 DEF GroupsOK
  <2>4. PICK a, b \in Nat : a = groups[g].st /\ b = groups[g].end
    BY <2>2
  <2>5. a \in 1 .. N /\ b \in 1 .. N
    BY <2>3, <2>4
  <2> QED BY <2>2, <2>3, <2>4, <2>5
<1>4. /\ \A n \in 1 .. N : nodes[n].group \in 1 .. G
      /\ \A n \in 1 .. N, g \in 1 .. G :
           nodes[n].group = g <=> n \in groups[g].st .. groups[g].end
  BY <1>1, <1>2 DEF NodesOK
<1>5. GroupsAre(G, N)
  BY <1>1, <1>2, <1>3, <1>4 DEF GroupsAre
<1> QED BY <1>5

\* The walk's next step leaves the accesses made as they are.
LEMMA ForwardIs ==
  ASSUME GroupsOK, NodesOK, WalkOK, StepForward, UNCHANGED <<nodes, control>>, fetched \in Nat
  PROVE  /\ SameGroups /\ WalkOK'
         /\ EndsWalk => at' = 1 /\ cur' = 1 /\ groups'[1].step = 0 /\ \A n \in DOMAIN nodes : Passed(n)
         /\ ~EndsWalk => \A n \in DOMAIN nodes : Passed(n)' => Passed(n)
         /\ fetched' = (IF EndsWalk THEN fetched + 1 ELSE fetched)
              => \A n \in DOMAIN nodes : Done(n)' = Done(n)
<1>1. PICK G, N \in Nat : GroupsAre(G, N)
  BY WalkIs
<1>2. PICK c \in 1 .. G, first_, last_ \in 1 .. N, step \in Nat, S \in Nat :
        /\ c = cur /\ first_ = groups[c].st /\ last_ = groups[c].end /\ step = groups[c].step
        /\ S = groups[c].steps /\ first_ <= last_ /\ at = last_ + 1
  <2>1. at > groups[cur].end
    BY DEF StepForward, Group
  <2>2. cur \in 1 .. G /\ at \in groups[cur].st .. groups[cur].end + 1
    BY <1>1 DEF GroupsAre, WalkOK, Group
  <2>3. /\ groups[cur].st \in 1 .. N /\ groups[cur].end \in 1 .. N
        /\ groups[cur].st <= groups[cur].end
        /\ groups[cur].step \in Nat /\ groups[cur].steps \in Nat
    BY <1>1, <2>2 DEF GroupsAre
  <2>4. at = groups[cur].end + 1
    BY <2>1, <2>2, <2>3
  <2> QED BY <2>2, <2>3, <2>4
<1>3. PICK next \in Nat : next = IF step + 1 = S THEN 0 ELSE step + 1
  OBVIOUS
<1>4. /\ groups' = [groups EXCEPT ![c].step = next]
      /\ cur' = IF step + 1 # S THEN c ELSE IF c = G THEN 1 ELSE c + 1
      /\ at' = IF step + 1 # S THEN first_ ELSE IF c = G THEN 1 ELSE last_ + 1
      /\ EndsWalk <=> step + 1 = S /\ c = G
  BY <1>1, <1>2, <1>3 DEF StepForward, Group, EndsGroup, EndsWalk, GroupsAre
<1>5. /\ groups' \in Seq(GroupRecord) /\ Len(groups') = G /\ DOMAIN groups' = 1 .. G
      /\ \A g \in 1 .. G :
           /\ groups'[g].st = groups[g].st /\ groups'[g].end = groups[g].end
           /\ groups'[g].steps = groups[g].steps
           /\ groups'[g].step = IF g = c THEN next ELSE 0
  <2> DEFINE e == [groups[c] EXCEPT !.step = next]
  <2>1. groups \in Seq(GroupRecord) /\ groups[c] \in GroupRecord
    BY <1>1 DEF GroupsOK, GroupsAre
  <2>2. /\ e \in GroupRecord /\ e.st = groups[c].st /\ e.end = groups[c].end
        /\ e.steps = groups[c].steps /\ e.step = next
    BY <2>1 DEF GroupRecord
  <2>3. groups' = [groups EXCEPT ![c] = e]
    BY <1>4
  <2> HIDE DEF e
  <2>4. /\ groups' \in Seq(GroupRecord) /\ Len(groups') = Len(groups)
        /\ \A g \in 1 .. Len(groups) : groups'[g] = IF g = c THEN e ELSE groups[g]
    BY <1>1, <2>1, <2>2, <2>3, ExceptSeq DEF GroupsAre
  <2>5. ASSUME NEW g \in 1 .. G
        PROVE  /\ groups'[g].st = groups[g].st /\ groups'[g].end = groups[g].end
               /\ groups'[g].steps = groups[g].steps
               /\ groups'[g].step = IF g = c THEN next ELSE 0
    <3>1. groups'[g] = IF g = c THEN e ELSE groups[g]
      BY <1>1, <2>4 DEF GroupsAre
    <3>2. g # c => groups[g].step = 0
      BY <1>1, <1>2 DEF GroupsAre, WalkOK
    <3> QED BY <2>2, <3>1, <3>2
  <2> QED BY <1>1, <2>4, <2>5 DEF GroupsAre
<1>6. SameGroups
  BY <1>1, <1>5 DEF SameGroups, GroupsAre
<1>7. ASSUME c # G
      PROVE  /\ c + 1 \in 1 .. G /\ groups[c + 1].st = last_ + 1
             /\ groups[c + 1].end \in Nat /\ groups[c + 1].end >= last_ + 1
  <2>1. c + 1 \in 1 .. G /\ c + 1 > 1 /\ (c + 1) - 1 = c
    BY <1>7
  <2> QED BY <1>1, <1>2, <2>1 DEF GroupsAre
<1>8. 1 \in 1 .. G /\ groups[1].st = 1 /\ groups[1].end \in 1 .. N
  <2>1. 1 \in 1 .. G
    OBVIOUS
  <2> QED BY <1>1, <2>1 DEF GroupsAre
<1>9. WalkOK'
  <2>1. CASE step + 1 # S
    <3>1. cur' = c /\ at' = first_
      BY <1>4, <2>1
    <3>2. \A g \in 1 .. G : g # c => groups'[g].step = 0
      BY <1>5
    <3> QED BY <1>2, <1>5, <3>1, <3>2 DEF WalkOK, Group
  <2>2. CASE step + 1 = S /\ c # G
    <3>1. cur' = c + 1 /\ at' = last_ + 1 /\ next = 0
      BY <1>3, <1>4, <2>2
    <3>2. \A g \in 1 .. G : groups'[g].step = 0
      BY <1>5, <3>1
    <3>3. groups'[c + 1].st = last_ + 1 /\ groups'[c + 1].end \in Nat /\ groups'[c + 1].end >= last_ + 1
      BY <1>5, <1>7, <2>2
    <3> QED BY <1>5, <1>7, <2>2, <3>1, <3>2, <3>3 DEF WalkOK, Group
  <2>3. CASE step + 1 = S /\ c = G
    <3>1. cur' = 1 /\ at' = 1 /\ next = 0
      BY <1>3, <1>4, <2>3
    <3>2. \A g \in 1 .. G : groups'[g].step = 0
      BY <1>5, <3>1
    <3> QED BY <1>5, <1>8, <3>1, <3>2 DEF WalkOK, Group
  <2> QED BY <2>1, <2>2, <2>3
<1>10. EndsWalk => at' = 1 /\ cur' = 1 /\ groups'[1].step = 0
  BY <1>3, <1>4, <1>5, <1>8
<1>11. ASSUME NEW n \in DOMAIN nodes
       PROVE  /\ EndsWalk => Passed(n)
              /\ ~EndsWalk => (Passed(n)' => Passed(n))
              /\ fetched' = (IF EndsWalk THEN fetched + 1 ELSE fetched) => Done(n)' = Done(n)
  <2>1. PICK g \in 1 .. G, a, b \in 1 .. N :
          /\ g = nodes[n].group /\ a = groups[g].st /\ b = groups[g].end
          /\ n \in a .. b /\ n \in 1 .. N
    <3>1. n \in 1 .. N /\ nodes[n].group \in 1 .. G
      BY <1>1 DEF GroupsAre
    <3>2. PICK g \in 1 .. G : g = nodes[n].group
      BY <3>1
    <3>3. n \in groups[g].st .. groups[g].end /\ groups[g].st \in 1 .. N /\ groups[g].end \in 1 .. N
      BY <1>1, <3>1, <3>2 DEF GroupsAre
    <3> QED BY <3>1, <3>2, <3>3
  <2>2. PICK T \in Nat : T = groups[g].steps
    BY <1>1 DEF GroupsAre
  <2>3. g = c => n < at
    BY <1>2, <2>1
  <2>4. Passed(n) <=> g < c \/ g = c
    BY <1>2, <2>1, <2>3 DEF Passed
  <2>5. Passed(n)' <=> g < cur' \/ (g = cur' /\ (n < at' \/ groups'[g].step > 0))
    <3>1. nodes'[n].group = g
      BY <2>1
    <3>2. Passed(n)' <=> g < cur' \/ (g = cur' /\ (n < at' \/ groups'[cur'].step > 0))
      BY <3>1 DEF Passed, Group
    <3> QED BY <3>2
  <2>6. Done(n) = fetched * T + (IF g < c THEN T ELSE IF g > c THEN 0 ELSE step + 1)
    <3>1. Done(n) = fetched * T + (IF g < c THEN T ELSE IF g > c THEN 0
                                   ELSE groups[g].step + (IF n < at THEN 1 ELSE 0))
      BY <1>2, <2>1, <2>2 DEF Done
    <3>2. g = c => groups[g].step = step
      BY <1>2
    <3>3. g = c \/ g < c \/ g > c
      OBVIOUS
    <3> QED BY <2>3, <3>1, <3>2, <3>3
  <2>7. Done(n)' = fetched' * T + (IF g < cur' THEN T ELSE IF g > cur' THEN 0
                                   ELSE groups'[g].step + (IF n < at' THEN 1 ELSE 0))
    BY <1>5, <2>1, <2>2 DEF Done
  <2>8. CASE step + 1 # S
    <3>1. cur' = c /\ at' = first_ /\ ~EndsWalk /\ next = step + 1
      BY <1>3, <1>4, <2>8
    <3>2. g = c => ~(n < first_) /\ groups'[g].step = step + 1
      <4>1. g = c => a = first_
        BY <1>2, <2>1
      <4>2. g = c => groups'[g].step = next
        BY <1>5
      <4> QED BY <2>1, <3>1, <4>1, <4>2
    <3>3. Passed(n)' => Passed(n)
      BY <2>4, <2>5, <3>1
    <3>4. fetched' = fetched => Done(n)' = Done(n)
      <4>1. HAVE fetched' = fetched
      <4>2. CASE g < c
        BY <2>6, <2>7, <3>1, <4>1, <4>2
      <4>3. CASE g = c
        BY <2>6, <2>7, <3>1, <3>2, <4>1, <4>3
      <4>4. CASE g > c
        BY <2>6, <2>7, <3>1, <4>1, <4>4
      <4> QED BY <4>2, <4>3, <4>4
    <3> QED BY <3>1, <3>3, <3>4
  <2>9. CASE step + 1 = S /\ c # G
    <3>1. cur' = c + 1 /\ at' = last_ + 1 /\ ~EndsWalk /\ next = 0
      BY <1>3, <1>4, <2>9
    <3>2. g = c + 1 => ~(n < last_ + 1)
      BY <1>7, <2>1, <2>9
    <3>3. groups'[g].step = 0 /\ (g = c => T = S)
      BY <1>2, <1>5, <2>2, <3>1
    <3>4. Passed(n)' => Passed(n)
      BY <2>4, <2>5, <3>1, <3>2, <3>3
    <3>5. fetched' = fetched => Done(n)' = Done(n)
      <4>1. HAVE fetched' = fetched
      <4>2. CASE g < c
        BY <2>6, <2>7, <3>1, <4>1, <4>2
      <4>3. CASE g = c
        BY <2>6, <2>7, <2>9, <3>1, <3>3, <4>1, <4>3
      <4>4. CASE g = c + 1
        BY <2>6, <2>7, <3>1, <3>2, <3>3, <4>1, <4>4
      <4>5. CASE g > c + 1
        BY <2>6, <2>7, <3>1, <4>1, <4>5
      <4> QED BY <4>2, <4>3, <4>4, <4>5
    <3> QED BY <3>1, <3>4, <3>5
  <2>10. CASE step + 1 = S /\ c = G
    <3>1. cur' = 1 /\ at' = 1 /\ EndsWalk /\ next = 0
      BY <1>3, <1>4, <2>10
    <3>2. groups'[g].step = 0 /\ (g = c => T = S)
      BY <1>2, <1>5, <2>2, <3>1
    <3>3. Passed(n)
      BY <2>4, <2>10
    <3>4. PICK x \in Nat : x = fetched * T
      OBVIOUS
    <3>5. Done(n) = x + T
      BY <2>6, <2>10, <3>2, <3>4
    <3>6. fetched' = fetched + 1 => Done(n)' = x + T
      <4>1. HAVE fetched' = fetched + 1
      <4>2. (fetched + 1) * T = x + T
        BY <3>4
      <4>3. ~(g < 1) /\ ~(n < 1)
        BY <2>1
      <4> QED BY <2>7, <3>1, <3>2, <4>1, <4>2, <4>3
    <3> QED BY <3>1, <3>3, <3>5, <3>6
  <2> QED BY <2>8, <2>9, <2>10
<1> QED BY <1>6, <1>9, <1>10, <1>11

\* A node in init_offsets is given its number of operations.
LEMMA OffsetGraph ==
  ASSUME GraphInv, OffsetNode, PlaceInv'
  PROVE  GraphInv'
<1> DEFINE ops == OpsPerAccess(nodes[at])
<1>1. /\ pc = "offsets" /\ at <= Group.end
      /\ nodes' = IF Group.step > 0 THEN [nodes EXCEPT ![at].opsStep = ops]
                  ELSE [nodes EXCEPT ![at].opsStep = ops, ![at].offset = width,
                                     ![at].numPrev = OpsToWaitFor(at)]
      /\ groups' = IF Group.step > 0 THEN groups ELSE [groups EXCEPT ![cur].numOps = @ + ops]
      /\ at' = at + 1
      /\ UNCHANGED <<placeVars, stmts, control, pc, cur, fetched, window>>
  BY DEF OffsetNode
<1>2. Offset /\ WalkOK /\ NodesOK /\ GroupsOK
  BY <1>1 DEF GraphInv, Offset
<1>3. PICK G, N \in Nat : GroupsAre(G, N)
  BY <1>2, WalkIs
<1>4. PICK c \in 1 .. G, a, b \in 1 .. N, step \in Nat :
        /\ c = cur /\ a = groups[c].st /\ b = groups[c].end /\ step = groups[c].step
        /\ at \in a .. b /\ DOMAIN nodes = 1 .. N /\ DOMAIN groups = 1 .. G
  <2>1. cur \in 1 .. G /\ at \in groups[cur].st .. groups[cur].end + 1
    BY <1>2, <1>3 DEF GroupsAre, WalkOK, Group
  <2>2. groups[cur].st \in 1 .. N /\ groups[cur].end \in 1 .. N /\ groups[cur].step \in Nat
        /\ DOMAIN nodes = 1 .. N /\ DOMAIN groups = 1 .. G
    BY <1>3, <2>1 DEF GroupsAre
  <2>3. at <= groups[cur].end
    BY <1>1 DEF Group
  <2>4. at \in groups[cur].st .. groups[cur].end
    BY <2>1, <2>2, <2>3
  <2> QED BY <2>1, <2>2, <2>4
<1>5. at \in 1 .. N /\ at \in DOMAIN nodes /\ Fits(nodes[at]) /\ DOMAIN nodes[at] = NodeFields
      /\ nodes[at].group = c
  <2>1. at \in 1 .. N /\ at \in DOMAIN nodes
    BY <1>4
  <2>2. nodes[at].group = c
    BY <1>3, <1>4, <2>1 DEF GroupsAre
  <2> QED BY <1>2, <2>1, <2>2 DEF NodesOK
<1>6. ops \in Nat
  BY <1>5, OpsAre
<1> HIDE DEF ops
<1>7. PICK q : /\ nodes' = [nodes EXCEPT ![at] = q]
               /\ SameNode(q, nodes[at]) /\ q.opsStep = ops
  <2>1. CASE Group.step > 0
    <3> DEFINE q == [nodes[at] EXCEPT !.opsStep = ops]
    <3>1. nodes' = [nodes EXCEPT ![at] = q]
      BY <1>1, <2>1
    <3>2. SameNode(q, nodes[at]) /\ q.opsStep = ops
      BY <1>5 DEF SameNode, NodeFields, Fixed
    <3> QED BY <3>1, <3>2
  <2>2. CASE ~(Group.step > 0)
    <3> DEFINE wait == OpsToWaitFor(at)
               q1 == [nodes[at] EXCEPT !.opsStep = ops]
               q2 == [q1 EXCEPT !.offset = width]
               q == [q2 EXCEPT !.numPrev = wait]
    <3>1. nodes' = [nodes EXCEPT ![at] = q]
      BY <1>1, <1>5, <2>2
    <3> HIDE DEF wait
    <3>2. DOMAIN q1 = NodeFields /\ q1.opsStep = ops /\ \A f \in Fixed : q1[f] = nodes[at][f]
      BY <1>5 DEF NodeFields, Fixed
    <3> HIDE DEF q1
    <3>3. DOMAIN q2 = NodeFields /\ q2.opsStep = ops /\ \A f \in Fixed : q2[f] = nodes[at][f]
      BY <3>2 DEF NodeFields, Fixed
    <3> HIDE DEF q2
    <3>4. DOMAIN q = NodeFields /\ q.opsStep = ops /\ \A f \in Fixed : q[f] = nodes[at][f]
      BY <3>3 DEF NodeFields, Fixed
    <3> HIDE DEF q
    <3> QED BY <3>1, <3>4 DEF SameNode
  <2> QED BY <2>1, <2>2
<1>8. SameNodes /\ nodes'[at] = q /\ \A n \in 1 .. N : n # at => nodes'[n] = nodes[n]
  <2>1. nodes \in Seq(ToSet(nodes))
    BY <1>2 DEF NodesOK
  <2>2. /\ nodes' \in Seq(ToSet(nodes')) /\ Len(nodes') = Len(nodes) /\ DOMAIN nodes' = DOMAIN nodes
        /\ \A n \in DOMAIN nodes : nodes'[n] = IF n = at THEN q ELSE nodes[n]
    <3>1. /\ [nodes EXCEPT ![at] = q] \in Seq(ToSet([nodes EXCEPT ![at] = q]))
          /\ Len([nodes EXCEPT ![at] = q]) = Len(nodes)
          /\ DOMAIN [nodes EXCEPT ![at] = q] = DOMAIN nodes
          /\ \A n \in DOMAIN nodes :
               [nodes EXCEPT ![at] = q][n] = IF n = at THEN q ELSE nodes[n]
      BY <1>5, <2>1, ReplacedIs
    <3>2. nodes' = [nodes EXCEPT ![at] = q]
      BY <1>7
    <3> HIDE <1>7
    <3> QED BY <3>1, <3>2
  <2>3. ASSUME NEW n \in DOMAIN nodes PROVE SameNode(nodes'[n], nodes[n])
    <3>1. DOMAIN nodes[n] = NodeFields
      BY <1>2 DEF NodesOK
    <3> QED BY <1>7, <2>2, <3>1 DEF SameNode
  <2> QED BY <1>4, <1>5, <2>2, <2>3 DEF SameNodes
<1>9. SameGroups /\ \A g \in 1 .. G : groups'[g].step = groups[g].step
  <2>1. groups \in Seq(GroupRecord) /\ groups[c] \in GroupRecord /\ Len(groups) = G
    BY <1>2, <1>3, <1>4 DEF GroupsOK, GroupsAre
  <2>2. CASE Group.step > 0
    BY <1>1, <2>1, <2>2 DEF SameGroups
  <2>3. CASE ~(Group.step > 0)
    <3>1. groups[c].numOps \in Nat
      BY <2>1 DEF GroupRecord
    <3>2. PICK u \in Nat : u = groups[c].numOps + ops
      BY <1>6, <3>1
    <3> DEFINE e == [groups[c] EXCEPT !.numOps = u]
    <3>3. /\ e \in GroupRecord /\ e.st = groups[c].st /\ e.end = groups[c].end
          /\ e.steps = groups[c].steps /\ e.step = groups[c].step
      BY <2>1 DEF GroupRecord
    <3>4. groups' = [groups EXCEPT ![c] = e]
      BY <1>1, <1>4, <2>3, <3>2
    <3> HIDE DEF e
    <3>5. /\ groups' \in Seq(GroupRecord) /\ Len(groups') = Len(groups)
          /\ \A g \in 1 .. Len(groups) : groups'[g] = IF g = c THEN e ELSE groups[g]
      BY <2>1, <3>3, <3>4, ExceptSeq
    <3>6. DOMAIN groups' = DOMAIN groups
      BY <1>4, <2>1, <3>5
    <3>7. ASSUME NEW g \in 1 .. G
          PROVE  /\ groups'[g].st = groups[g].st /\ groups'[g].end = groups[g].end
                 /\ groups'[g].steps = groups[g].steps /\ groups'[g].step = groups[g].step
      BY <2>1, <3>3, <3>5
    <3> QED BY <1>4, <3>5, <3>6, <3>7 DEF SameGroups
  <2> QED BY <2>2, <2>3
<1>10. GroupsOK' /\ NodesOK'
  BY <1>1, <1>2, <1>8, <1>9, SameIsOK
<1>11. WalkOK'
  <2>1. at + 1 \in a .. b + 1
    BY <1>4
  <2>2. cur' = c /\ at' = at + 1 /\ groups'[c].st = a /\ groups'[c].end = b
    BY <1>1, <1>4, <1>9 DEF SameGroups
  <2>3. \A g \in 1 .. G : g # c => groups'[g].step = 0
    BY <1>2, <1>4, <1>9 DEF WalkOK
  <2> QED BY <1>4, <1>9, <2>1, <2>2, <2>3 DEF WalkOK, Group, SameGroups
<1>12. ASSUME NEW n \in DOMAIN nodes', Passed(n)' PROVE Sized(n)'
  <2>1. n \in 1 .. N /\ SameNode(nodes'[n], nodes[n]) /\ Fits(nodes[n])
    BY <1>2, <1>4, <1>8 DEF SameNodes, NodesOK
  <2>2. OpsPerAccess(nodes'[n]) = OpsPerAccess(nodes[n]) /\ nodes'[n].group = nodes[n].group
    BY <2>1, SameGenerates DEF SameNode, Fixed
  <2>3. CASE n = at
    BY <1>7, <1>8, <2>2, <2>3 DEF Sized, ops
  <2>4. CASE n # at
    <3>1. nodes'[n] = nodes[n]
      BY <1>8, <2>1, <2>4
    <3>2. nodes[n].group < c \/ (nodes[n].group = c /\ (n < at + 1 \/ groups[c].step > 0))
      BY <1>1, <1>4, <1>9, <1>12, <2>2 DEF Passed, Group
    <3>3. n < at + 1 => n < at
      BY <1>5, <2>1, <2>4
    <3>4. Passed(n)
      BY <1>4, <3>2, <3>3 DEF Passed, Group
    <3> QED BY <1>2, <1>4, <2>1, <3>1, <3>4 DEF Offset, Sized
  <2> QED BY <2>3, <2>4
<1>13. Offset'
  BY <1>1, <1>2, <1>11, <1>12 DEF Offset
<1>14. \E program \in Programs : Source(program)'
  BY <1>1 DEF GraphInv, Source, placeVars
<1> QED BY <1>1, <1>10, <1>13, <1>14 DEF GraphInv

\* The walk of init_offsets goes on, or it is over and fetching begins.
LEMMA ForwardGraph ==
  ASSUME GraphInv, OffsetsForward, PlaceInv'
  PROVE  GraphInv'
<1>1. /\ pc = "offsets" /\ StepForward
      /\ pc' = IF EndsWalk THEN "fetch" ELSE "offsets"
      /\ UNCHANGED <<placeVars, stmts, control, nodes, width, fetched, window>>
  BY DEF OffsetsForward
<1>2. Offset /\ WalkOK /\ NodesOK /\ GroupsOK /\ control \in Nat \ {0}
  BY <1>1 DEF GraphInv, Offset
<1>3. fetched = 0 /\ fetched' = 0 /\ window = <<>> /\ window' = <<>>
  BY <1>1, <1>2 DEF Offset
<1>4. /\ SameGroups /\ WalkOK'
      /\ EndsWalk => at' = 1 /\ cur' = 1 /\ groups'[1].step = 0 /\ \A n \in DOMAIN nodes : Passed(n)
      /\ ~EndsWalk => \A n \in DOMAIN nodes : Passed(n)' => Passed(n)
  BY <1>1, <1>2, <1>3, ForwardIs
<1>5. SameNodes
  BY <1>1, <1>2 DEF SameNodes, SameNode, NodesOK
<1>6. GroupsOK' /\ NodesOK'
  BY <1>1, <1>2, <1>4, <1>5, SameIsOK
<1>7. \A n \in DOMAIN nodes : Sized(n)' <=> Sized(n)
  BY <1>1 DEF Sized
<1>8. ~EndsWalk => Offset'
  BY <1>1, <1>2, <1>3, <1>4, <1>7 DEF Offset
<1>9. ASSUME EndsWalk PROVE Fetched'
  <2>1. \A n \in DOMAIN nodes' : Sized(n)'
    BY <1>1, <1>2, <1>4, <1>7, <1>9 DEF Offset
  <2>2. fetched' \in 0 .. control' /\ fetched' # control'
    BY <1>1, <1>2, <1>3
  <2>3. window' \in Seq(ToSet(window'))
    BY <1>3
  <2>4. ASSUME NEW n \in DOMAIN nodes', NEW m \in Nat
        PROVE  Cardinality(Made(n, m)') = IF m < Done(n)' THEN nodes'[n].opsStep ELSE 0
    <3>1. PICK G, N \in Nat : GroupsAre(G, N)
      BY <1>2, WalkIs
    <3>2. n \in 1 .. N /\ nodes[n].group \in 1 .. G
      BY <1>1, <3>1 DEF GroupsAre
    <3>3. PICK g \in 1 .. G : g = nodes[n].group
      BY <3>2
    <3>4. PICK T \in Nat : T = groups'[g].steps
      BY <1>4, <3>1, <3>3 DEF GroupsAre, SameGroups
    <3>5. Done(n)' = fetched' * T + (IF g < cur' THEN T ELSE IF g > cur' THEN 0
                                     ELSE groups'[g].step + (IF n < at' THEN 1 ELSE 0))
      BY <1>1, <3>3, <3>4 DEF Done
    <3>6. cur' = 1 /\ at' = 1 /\ groups'[1].step = 0
      BY <1>4, <1>9
    <3>7. Done(n)' = 0
      BY <1>3, <3>2, <3>3, <3>4, <3>5, <3>6
    <3>8. Made(n, m)' = {}
      BY <1>3 DEF Made
    <3>9. Cardinality(Made(n, m)') = 0
      BY <3>8, FS_EmptySet
    <3> QED BY <3>7, <3>9
  <2> QED BY <1>4, <2>1, <2>2, <2>3, <2>4 DEF Fetched
<1>10. \E program \in Programs : Source(program)'
  BY <1>1 DEF GraphInv, Source, placeVars
<1> QED BY <1>1, <1>2, <1>6, <1>8, <1>9, <1>10 DEF GraphInv

\* The walk of fetch_global_step goes on, maybe to the next global step.
LEMMA StepGraph ==
  ASSUME GraphInv, FetchForward, PlaceInv'
  PROVE  GraphInv'
<1>1. /\ pc = "fetch" /\ fetched < control /\ StepForward
      /\ fetched' = IF EndsWalk THEN fetched + 1 ELSE fetched
      /\ UNCHANGED <<placeVars, stmts, control, nodes, pc, width, window>>
  BY DEF FetchForward
<1>2. Fetched /\ WalkOK /\ NodesOK /\ GroupsOK /\ control \in Nat \ {0} /\ fetched \in 0 .. control
  BY <1>1 DEF GraphInv, Fetched
<1>3. /\ SameGroups /\ WalkOK'
      /\ EndsWalk => at' = 1 /\ cur' = 1 /\ groups'[1].step = 0
      /\ \A n \in DOMAIN nodes : Done(n)' = Done(n)
  BY <1>1, <1>2, ForwardIs
<1>4. SameNodes
  BY <1>1, <1>2 DEF SameNodes, SameNode, NodesOK
<1>5. GroupsOK' /\ NodesOK'
  BY <1>1, <1>2, <1>3, <1>4, SameIsOK
<1>6. \A n \in DOMAIN nodes : Sized(n)' <=> Sized(n)
  BY <1>1 DEF Sized
<1>7. \A n, m : Made(n, m)' = Made(n, m)
  BY <1>1 DEF Made
<1>8. fetched' \in 0 .. control' /\ (fetched' = control' => at' = 1 /\ cur' = 1 /\ Group'.step = 0)
  <2>1. CASE EndsWalk
    BY <1>1, <1>2, <1>3, <2>1 DEF Group
  <2>2. CASE ~EndsWalk
    BY <1>1, <1>2, <2>2
  <2> QED BY <2>1, <2>2
<1>9. Fetched'
  BY <1>1, <1>2, <1>3, <1>6, <1>7, <1>8 DEF Fetched
<1>10. \E program \in Programs : Source(program)'
  BY <1>1 DEF GraphInv, Source, placeVars
<1> QED BY <1>1, <1>2, <1>5, <1>9, <1>10 DEF GraphInv

\* An access is fetched: its operations are the first of that access.
LEMMA FetchGraph ==
  ASSUME GraphInv, FetchNode, PlaceInv'
  PROVE  GraphInv'
<1> DEFINE a == nodes[at]
           local == LocalStep
           distances == Distances(at)
<1>1. /\ pc = "fetch" /\ fetched < control /\ at <= Group.end
      /\ at' = at + 1
      /\ UNCHANGED <<placeVars, stmts, control, nodes, groups, pc, cur, width, fetched>>
  BY DEF FetchNode
<1>2. PICK addrs \in GenAddr(a, local) :
        window' = window \o
          [i \in 1 .. Len(addrs) |->
             [node |-> at, local |-> local, type |-> a.kind, comp |-> a.comp,
              mem |-> a.mem, addr |-> addrs[i], prev |-> a.numPrev,
              next |-> [k \in DOMAIN distances |-> distances[k] - (i - 1)]]]
  BY DEF FetchNode
<1>3. Fetched /\ WalkOK /\ NodesOK /\ GroupsOK /\ control \in Nat \ {0} /\ fetched \in 0 .. control
  BY <1>1 DEF GraphInv, Fetched
<1>4. PICK G, N \in Nat : GroupsAre(G, N)
  BY <1>3, WalkIs
<1>5. PICK c \in 1 .. G, x, y \in 1 .. N, step, S \in Nat :
        /\ c = cur /\ x = groups[c].st /\ y = groups[c].end /\ step = groups[c].step
        /\ S = groups[c].steps
        /\ at \in x .. y /\ DOMAIN nodes = 1 .. N /\ DOMAIN groups = 1 .. G
  <2>1. cur \in 1 .. G /\ at \in groups[cur].st .. groups[cur].end + 1
    BY <1>3, <1>4 DEF GroupsAre, WalkOK, Group
  <2>2. groups[cur].st \in 1 .. N /\ groups[cur].end \in 1 .. N /\ groups[cur].step \in Nat
        /\ groups[cur].steps \in Nat /\ DOMAIN nodes = 1 .. N /\ DOMAIN groups = 1 .. G
    BY <1>4, <2>1 DEF GroupsAre
  <2>3. at <= groups[cur].end
    BY <1>1 DEF Group
  <2>4. at \in groups[cur].st .. groups[cur].end
    BY <2>1, <2>2, <2>3
  <2> QED BY <2>1, <2>2, <2>4
<1>6. at \in 1 .. N /\ at \in DOMAIN nodes /\ Fits(a) /\ a.group = c
  <2>1. at \in 1 .. N /\ at \in DOMAIN nodes
    BY <1>5
  <2>2. nodes[at].group = c
    BY <1>4, <1>5, <2>1 DEF GroupsAre
  <2> QED BY <1>3, <2>1, <2>2 DEF NodesOK
<1>7. PICK f \in Nat, h \in 1 .. N : f = fetched /\ h = at
  BY <1>3, <1>6
<1>8. PICK m0 \in Nat : m0 = local /\ m0 = f * S + step /\ m0 = Done(at)
  <2>1. local = f * S + step
    BY <1>5, <1>7 DEF LocalStep, Group
  <2>2. Done(at) = f * S + step
    <3>1. Done(at) = fetched * groups[c].steps + (IF c < cur THEN groups[c].steps ELSE IF c > cur THEN 0
                       ELSE groups[c].step + (IF at < at THEN 1 ELSE 0))
      BY <1>6 DEF Done
    <3> QED BY <1>5, <1>7, <3>1
  <2>3. f * S + step \in Nat
    OBVIOUS
  <2> QED BY <2>1, <2>2, <2>3
<1>9. PICK L \in Nat : L = Len(addrs) /\ L = a.opsStep
  <2>1. OpsPerAccess(a) \in Nat /\ Len(addrs) = OpsPerAccess(a)
    BY <1>2, <1>6, <1>8, GeneratorsTouchOnce
  <2>2. a.opsStep = OpsPerAccess(a)
    BY <1>3, <1>6 DEF Fetched, Sized
  <2> QED BY <2>1, <2>2
<1>10. PICK W \in Nat : W = Len(window) /\ DOMAIN window = 1 .. W /\ window \in Seq(ToSet(window))
  BY <1>3 DEF Fetched
<1>11. /\ window' \in Seq(ToSet(window')) /\ DOMAIN window' = 1 .. W + L
       /\ \A k \in 1 .. W + L :
            IF k <= W THEN window'[k] = window[k]
            ELSE window'[k].node = h /\ window'[k].local = m0
  <2> DEFINE op(i) == [node |-> at, local |-> local, type |-> a.kind, comp |-> a.comp,
                       mem |-> a.mem, addr |-> addrs[i], prev |-> a.numPrev,
                       next |-> [k \in DOMAIN distances |-> distances[k] - (i - 1)]]
             new == [i \in 1 .. L |-> op(i)]
  <2>1. \A i : op(i).node = at /\ op(i).local = local
    OBVIOUS
  <2>2. window' = window \o new
    BY <1>2, <1>9
  <2> HIDE DEF op
  <2>3. new = [i \in 1 .. L |-> new[i]] /\ \A i \in 1 .. L : new[i] = op(i)
    OBVIOUS
  <2> HIDE DEF new
  <2>4. new \in Seq(ToSet(new)) /\ Len(new) = L
    BY <2>3, ListIs
  <2> DEFINE T == ToSet(window) \cup ToSet(new)
  <2>5. window \in Seq(T) /\ new \in Seq(T)
    BY <1>10, <2>4
  <2> HIDE DEF T
  <2>6. /\ window \o new \in Seq(T) /\ Len(window \o new) = W + L
        /\ \A k \in 1 .. W + L : (window \o new)[k] = IF k <= W THEN window[k] ELSE new[k - W]
    BY <1>10, <2>4, <2>5, ConcatProperties
  <2>7. window' \in Seq(T) /\ Len(window') = W + L /\ DOMAIN window' = 1 .. W + L
    BY <2>2, <2>6
  <2>8. window' = [k \in 1 .. W + L |-> window'[k]]
    BY <2>7
  <2>9. window' \in Seq(ToSet(window'))
    <3>1. W + L \in Nat
      OBVIOUS
    <3> QED BY <2>8, <3>1, ListIs
  <2>10. ASSUME NEW k \in 1 .. W + L, ~(k <= W)
         PROVE  window'[k].node = h /\ window'[k].local = m0
    <3>1. window'[k] = new[k - W] /\ k - W \in 1 .. L
      BY <2>2, <2>6, <2>10
    <3> QED BY <1>7, <1>8, <2>1, <2>3, <3>1
  <2> QED BY <2>2, <2>6, <2>7, <2>9, <2>10
<1>12. ASSUME NEW n, NEW m \in Nat, ~(n = h /\ m = m0)
       PROVE  Made(n, m)' = Made(n, m)
  BY <1>10, <1>11, <1>12 DEF Made
<1>13. Cardinality(Made(h, m0)') = L
  <2>1. Cardinality(Made(h, m0)) = 0
    BY <1>3, <1>6, <1>7, <1>8 DEF Fetched
  <2>2. IsFiniteSet(Made(h, m0))
    <3>1. IsFiniteSet(1 .. W)
      BY FS_Interval
    <3>2. Made(h, m0) \subseteq 1 .. W
      BY <1>10 DEF Made
    <3> QED BY <3>1, <3>2, FS_Subset
  <2>3. Made(h, m0) = {}
    BY <2>1, <2>2, FS_EmptySet
  <2>4. \A k \in 1 .. W : ~(window[k].node = h /\ window[k].local = m0)
    BY <1>10, <2>3 DEF Made
  <2>5. Made(h, m0)' = {k \in 1 .. W + L : window'[k].node = h /\ window'[k].local = m0}
    BY <1>11 DEF Made
  <2>6. Made(h, m0)' = W + 1 .. W + L
    BY <1>11, <2>4, <2>5
  <2>7. PICK p, r \in Int : p = W + 1 /\ r = W + L
    OBVIOUS
  <2>8. Cardinality(p .. r) = IF p > r THEN 0 ELSE r - p + 1
    BY FS_Interval
  <2> QED BY <2>6, <2>7, <2>8
<1>14. ASSUME NEW n \in DOMAIN nodes
       PROVE  Done(n)' = IF n = h THEN m0 + 1 ELSE Done(n)
  <2>1. n \in 1 .. N
    BY <1>5
  <2>2. PICK g \in 1 .. G : g = nodes[n].group
    BY <1>4, <2>1 DEF GroupsAre
  <2>3. PICK T, s \in Nat : T = groups[g].steps /\ s = groups[g].step
    BY <1>4 DEF GroupsAre
  <2>4. Done(n) = f * T + (IF g < c THEN T ELSE IF g > c THEN 0 ELSE s + (IF n < at THEN 1 ELSE 0))
    BY <1>5, <1>7, <2>2, <2>3 DEF Done
  <2>5. Done(n)' = f * T + (IF g < c THEN T ELSE IF g > c THEN 0 ELSE s + (IF n < at + 1 THEN 1 ELSE 0))
    BY <1>1, <1>5, <1>7, <2>2, <2>3 DEF Done
  <2>6. CASE n = at
    <3>1. g = c /\ T = S /\ s = step
      BY <1>5, <1>6, <2>2, <2>3, <2>6
    <3>2. h < h + 1 /\ m0 = f * S + step
      BY <1>8
    <3> QED BY <1>7, <2>5, <2>6, <3>1, <3>2
  <2>7. CASE n # at
    <3>1. n < at + 1 <=> n < at
      BY <1>6, <2>1, <2>7
    <3>2. Done(n)' = Done(n)
      BY <2>4, <2>5, <3>1
    <3> QED BY <1>7, <2>7, <3>2
  <2> QED BY <1>7, <2>6, <2>7
<1>15. ASSUME NEW n \in DOMAIN nodes, NEW m \in Nat
       PROVE  Cardinality(Made(n, m)') = IF m < Done(n)' THEN nodes[n].opsStep ELSE 0
  <2>1. Cardinality(Made(n, m)) = IF m < Done(n) THEN nodes[n].opsStep ELSE 0
    BY <1>3 DEF Fetched
  <2>2. CASE n = h /\ m = m0
    <3>1. nodes[n].opsStep = L
      BY <1>7, <1>9, <2>2
    <3>2. m0 < m0 + 1
      OBVIOUS
    <3> QED BY <1>13, <1>14, <2>2, <3>1, <3>2
  <2>3. CASE n = h /\ m # m0
    <3>1. m < m0 + 1 <=> m < m0
      BY <2>3
    <3>2. Done(n) = m0
      BY <1>7, <1>8, <2>3
    <3> QED BY <1>12, <1>14, <2>1, <2>3, <3>1, <3>2
  <2>4. CASE n # h
    BY <1>12, <1>14, <2>1, <2>4
  <2> QED BY <2>2, <2>3, <2>4
<1>16. WalkOK'
  <2>1. at + 1 \in x .. y + 1
    BY <1>5
  <2> QED BY <1>1, <1>3, <1>5, <2>1 DEF WalkOK, Group
<1>17. fetched' # control'
  BY <1>1, <1>3
<1>18. Fetched'
  BY <1>1, <1>3, <1>11, <1>15, <1>16, <1>17 DEF Fetched, Sized
<1>19. GroupsOK' /\ NodesOK'
  BY <1>1, <1>3 DEF GroupsOK, NodesOK
<1>20. \E program \in Programs : Source(program)'
  BY <1>1 DEF GraphInv, Source, placeVars
<1> QED BY <1>1, <1>3, <1>18, <1>19, <1>20 DEF GraphInv

\* Every step keeps the invariant.
LEMMA GraphInvNext ==
  ASSUME GraphInv, [Next]_vars
  PROVE  GraphInv'
<1>1. PlaceInv'
  BY PlaceInvNext DEF GraphInv
<1>2. CASE Place \/ BuildOpNode \/ EndBuild \/ UNCHANGED vars
  BY <1>1, <1>2, PlaceGraph
<1>3. CASE BuildDataNode
  <2>1. CASE Rejected
    BY <1>1, <2>1, PlaceGraph
  <2> QED BY <1>1, <1>3, <2>1, BuildGraph
<1>4. CASE OffsetNode
  BY <1>1, <1>4, OffsetGraph
<1>5. CASE OffsetsForward
  BY <1>1, <1>5, ForwardGraph
<1>6. CASE FetchNode
  BY <1>1, <1>6, FetchGraph
<1>7. CASE FetchForward
  BY <1>1, <1>7, StepGraph
<1> QED BY <1>2, <1>3, <1>4, <1>5, <1>6, <1>7 DEF Next

\* After the last global step each node has made count accesses.
LEMMA GraphInvCounts ==
  ASSUME GraphInv
  PROVE  EveryAccessOnce
<1> SUFFICES ASSUME pc = "fetch", fetched = control,
                    NEW n \in DOMAIN nodes, nodes[n].count % control = 0,
                    NEW m \in 0 .. nodes[n].count
             PROVE  Cardinality(Made(n, m)) = IF m < nodes[n].count THEN nodes[n].opsStep ELSE 0
  BY DEF EveryAccessOnce, Made
<1>1. Fetched /\ WalkOK /\ NodesOK /\ GroupsOK
  BY DEF GraphInv, Fetched
<1>2. PICK G, N \in Nat : GroupsAre(G, N)
  BY <1>1, WalkIs
<1>3. n \in 1 .. N /\ nodes[n].group \in 1 .. G
  BY <1>2 DEF GroupsAre
<1>4. PICK g \in 1 .. G : g = nodes[n].group
  BY <1>3
<1>5. PICK T \in Nat : T = groups[g].steps
  BY <1>2 DEF GroupsAre
<1>6. PICK count \in Nat, k \in Nat \ {0} : count = nodes[n].count /\ k = control
  BY <1>1 DEF GraphInv, NodesOK
<1>7. T = count \div k /\ count % k = 0
  BY <1>1, <1>4, <1>5, <1>6 DEF NodesOK
<1>8. k * T = count
  <2>1. count = (count \div k) * k + (count % k)
    BY DivMod
  <2>2. PICK z \in Nat : z = (count \div k) * k
    BY <1>5, <1>7
  <2>3. count = z
    BY <1>7, <2>1, <2>2
  <2> QED BY <1>5, <1>7, <2>2, <2>3
<1>9. at = 1 /\ cur = 1 /\ (g = 1 => groups[g].step = 0)
  BY <1>1 DEF Fetched, Group
<1>10. Done(n) = fetched * T + (IF g < cur THEN T ELSE IF g > cur THEN 0
                                ELSE groups[g].step + (IF n < at THEN 1 ELSE 0))
  BY <1>4, <1>5 DEF Done
<1>11. Done(n) = count
  <2>1. ~(n < 1) /\ ~(g < 1)
    BY <1>3
  <2> QED BY <1>6, <1>8, <1>9, <1>10, <2>1
<1>12. m \in Nat /\ count = nodes[n].count
  BY <1>6
<1> QED BY <1>1, <1>11, <1>12 DEF Fetched

(***************************************************************************)
(* Whatever the kernel, its patterns and the memories its objects are in:  *)
(* when Context::fetch_global_step has fetched the last global step, every *)
(* access of every statement whose count global_control divides has been   *)
(* fetched once, with all its operations, though the groups are stepped    *)
(* through unequally often.                                                *)
(***************************************************************************)
THEOREM EveryAccessIsMadeOnce == Spec => []EveryAccessOnce
<1>1. Init => GraphInv
  BY InitGraph
<1>2. GraphInv /\ [Next]_vars => GraphInv'
  BY GraphInvNext
<1>3. GraphInv => EveryAccessOnce
  BY GraphInvCounts
<1> QED BY <1>1, <1>2, <1>3, PTL DEF Spec
=============================================================================
