---------------------------- MODULE ContextProofs ----------------------------
(***************************************************************************)
(* Proofs about the instruction window of a thread, for every kernel whose *)
(* edges go forward, every size of the window and the reorder buffer, any  *)
(* ports and any number of global steps.                                   *)
(*                                                                         *)
(* The ring is a multiple of a global step long and is refilled by whole   *)
(* steps, so that the operations of a step lie side by side in it and no   *)
(* edge wraps around.  The inductive invariant says, position by position  *)
(* behind the head, which operations have been through dispatch, which     *)
(* requests the retry lists hold, and how many parents an operation still  *)
(* waits for.                                                              *)
(***************************************************************************)
EXTENDS Context, SequenceTheorems, FiniteSetTheorems, WellFoundedInduction, TLAPS

IB == W * WindowSteps(Last - First)

Op == [status : {"issued", "pending", "dispatched", "completed"}, prev : Nat,
       type : {"LOAD", "STORE"}, comp : Nat, next : Seq(Nat), lat : Nat,
       dispatch : Nat, sent : Nat, complete : Nat]
Request == [pos : 0 .. IB - 1, dispatch : Nat]
ContextType ==
  [ib : {IB}, win : [0 .. IB - 1 -> Op], head : 0 .. IB - 1, load : 0 .. IB,
   fetched : First + WindowSteps(Last - First) .. Last, last : {Last}, cpu : Nat,
   alu : Nat, aluLeft : 1 .. Alu, ld : Nat, ldLeft : 1 .. Ld, st : Nat, stLeft : 1 .. St,
   ldq : Seq(Request), stq : Seq(Request),
   hasComplete : BOOLEAN, nextEvent : Nat, done : BOOLEAN, panic : BOOLEAN]

TypeOK ==
  /\ c \in ContextType
  /\ pc \in {"window", "idle", "loads", "stores", "scan", "notify"}
  /\ pos \in Nat /\ left \in Nat /\ kids \in Seq(0 .. IB - 1)

-----------------------------------------------------------------------------
\* how far behind the head a position of the ring is
Dist(x, p) == IF p >= x.head THEN p - x.head ELSE p - x.head + IB

\* where the window ends is the beginning of a global step
Multiple(m, w) == \E k \in Nat : m = k * w
Aligned(x) == Multiple(x.head + x.load, W)
Refilled(x) == x.load >= RobDepth \/ x.fetched = Last
DoneWhenEmpty(x) == x.done <=> x.load = 0 /\ x.fetched = Last
Pattern(x) ==
  \A p \in 0 .. IB - 1 : /\ x.win[p].next = Step[(p % W) + 1].next
                         /\ x.win[p].type = Step[(p % W) + 1].type

\* the operations dispatch has been called for are the first of the window
Phases(x, entered) ==
  \A p \in 0 .. IB - 1 :
    /\ Dist(x, p) < entered => x.win[p].status # "issued"
    /\ entered <= Dist(x, p) /\ Dist(x, p) < x.load => x.win[p].status = "issued"
    /\ x.load <= Dist(x, p) => x.win[p].status = "completed"

Sent(x) ==
  \A p \in 0 .. IB - 1 : Dist(x, p) < x.load =>
    /\ x.win[p].status \in {"dispatched", "completed"} => x.win[p].prev = 0
    /\ x.win[p].status = "completed" => x.win[p].complete \in 1 .. x.cpu

\* the retry list of a port holds its ready operations, but for those set aside
Queue(x, q, type, aside) ==
  /\ \A i \in 1 .. Len(q) : /\ x.win[q[i].pos].status = "pending" /\ x.win[q[i].pos].prev = 0
                            /\ x.win[q[i].pos].type = type /\ q[i].pos \notin aside
  /\ \A i, j \in 1 .. Len(q) : q[i].pos = q[j].pos => i = j
  /\ \A p \in (0 .. IB - 1) \ aside :
       x.win[p].status = "pending" /\ x.win[p].prev = 0 /\ x.win[p].type = type =>
         \E i \in 1 .. Len(q) : q[i].pos = p
Queues(x, aside) == Queue(x, x.ldq, "LOAD", aside) /\ Queue(x, x.stq, "STORE", aside)

Entered == IF pc = "window" THEN pos ELSE RobLoad(c)

Loops ==
  /\ pc = "window" => c.head = 0 /\ pos + left = RobLoad(c) /\ ~c.done
  /\ pc \in {"loads", "stores"} => pos >= 1
  /\ pc \in {"scan", "notify"} =>
       pos \in 0 .. IB - 1 /\ (left > 0 => Dist(c, pos) + left <= RobLoad(c))
  /\ kids # <<>> => pc = "notify"

\* the operations of the window that have not completed and notify position p
Parents(x, p) ==
  {e \in (0 .. IB - 1) \X (1 .. W) :
     /\ Dist(x, e[1]) < x.load /\ x.win[e[1]].status # "completed"
     /\ e[2] <= Len(x.win[e[1]].next)
     /\ e[1] + x.win[e[1]].next[e[2]] = p}
Told(K, p) == {n \in 1 .. Len(K) : K[n] = p}
Counts(x, K) ==
  \A p \in 0 .. IB - 1 : Dist(x, p) < x.load =>
    x.win[p].prev = Cardinality(Parents(x, p)) + Cardinality(Told(K, p))

\* what holds of the operations of the window, also within a call
Ops(x, entered, K, aside) ==
  /\ Aligned(x) /\ Pattern(x) /\ x.panic = FALSE
  /\ Phases(x, entered) /\ Sent(x) /\ Queues(x, aside) /\ Counts(x, K)
  /\ \A n \in 1 .. Len(K) : Dist(x, K[n]) < x.load

Inv ==
  /\ TypeOK
  /\ Refilled(c) /\ DoneWhenEmpty(c)
  /\ Ops(c, Entered, kids, {})
  /\ Loops

-----------------------------------------------------------------------------
(***************************************************************************)
(* Arithmetic: division with remainder, remainders of sums, and the blocks *)
(* of a global step.                                                       *)
(***************************************************************************)
LEMMA DivMod ==
  ASSUME NEW a \in Nat, NEW b \in Nat \ {0}
  PROVE  /\ a \div b \in Nat
         /\ a % b \in 0 .. b - 1
         /\ a = (a \div b) * b + (a % b)
OBVIOUS

\* multiplication by a positive number keeps the order
LEMMA ProductOrder ==
  ASSUME NEW a \in Nat, NEW b \in Nat, NEW w \in Nat \ {0}
  PROVE  /\ a * w \in Nat
         /\ a <= b => a * w <= b * w
         /\ a < b => a * w + w <= b * w
<1>1. a * w \in Nat
  OBVIOUS
<1>2. ASSUME a <= b PROVE a * w <= b * w
  <2>1. PICK d \in Nat : b = a + d
    BY <1>2
  <2>2. b * w = a * w + d * w /\ d * w \in Nat /\ a * w \in Nat
    BY <2>1
  <2> QED
    BY <2>2
<1>3. ASSUME a < b PROVE a * w + w <= b * w
  <2>1. PICK d \in Nat : b = a + 1 + d
    BY <1>3
  <2>2. b * w = a * w + w + d * w /\ d * w \in Nat /\ a * w \in Nat
    BY <2>1
  <2> QED
    BY <2>2
<1> QED
  BY <1>1, <1>2, <1>3

\* whole multiples do not change a remainder
LEMMA ModShift ==
  ASSUME NEW a \in Nat, NEW b \in Nat, NEW w \in Nat \ {0}, NEW m \in Nat,
         Multiple(m, w), a = b + m
  PROVE  a % w = b % w
<1>1. PICK q \in Nat, r \in 0 .. w - 1 : a = q * w + r /\ r = a % w
  BY DivMod
<1>2. PICK p \in Nat, s \in 0 .. w - 1 : b = p * w + s /\ s = b % w
  BY DivMod
<1>3. PICK k \in Nat, n \in Nat : m = k * w /\ n = p + k
  BY DEF Multiple
<1>4. n * w = p * w + m
  BY <1>3
<1>5. q * w \in Nat /\ n * w \in Nat /\ p * w \in Nat
  OBVIOUS
<1>6. q * w + r = n * w + s
  <2>1. PICK pw \in Nat : pw = p * w
    BY <1>5
  <2>2. a = b + m /\ b = pw + s /\ n * w = pw + m
    BY <1>2, <1>4, <2>1
  <2> QED
    BY <1>1, <2>2
<1>7. CASE q < n
  <2>1. q * w + w <= n * w
    BY <1>7, ProductOrder
  <2> QED
    BY <1>5, <1>6, <2>1
<1>8. CASE n < q
  <2>1. n * w + w <= q * w
    BY <1>8, ProductOrder
  <2> QED
    BY <1>5, <1>6, <2>1
<1>9. CASE q = n
  <2>1. q * w = n * w
    BY <1>9
  <2>2. r = s
    BY <1>5, <1>6, <2>1
  <2> QED
    BY <1>1, <1>2, <2>2
<1> QED
  BY <1>7, <1>8, <1>9

\* the remainder of a number less than twice the divisor
LEMMA ModSmall ==
  ASSUME NEW a \in Nat, NEW b \in Nat \ {0}
  PROVE  /\ a < b => a % b = a
         /\ b <= a /\ a < b + b => a % b = a - b
<1>1. ASSUME a < b PROVE a % b = a
  BY <1>1
<1>2. ASSUME b <= a, a < b + b PROVE a % b = a - b
  <2>1. PICK d \in Nat : a = d + b /\ d < b
    BY <1>2
  <2>2. b = 1 * b
    OBVIOUS
  <2>3. Multiple(b, b)
    BY <2>2 DEF Multiple
  <2>4. a % b = d % b
    BY <2>1, <2>3, ModShift
  <2> QED
    BY <2>1, <2>4
<1> QED
  BY <1>1, <1>2

\* the block a number lies in ends before the next multiple does
LEMMA BlockEnd ==
  ASSUME NEW p \in Nat, NEW m \in Nat, NEW w \in Nat \ {0}, Multiple(m, w), p < m
  PROVE  p + w - (p % w) <= m
<1>1. PICK q \in Nat, r \in 0 .. w - 1 : p = q * w + r /\ r = p % w
  BY DivMod
<1>2. PICK e \in Nat : m = e * w
  BY DEF Multiple
<1>3. q * w \in Nat
  OBVIOUS
<1>4. q < e
  <2>1. SUFFICES ASSUME e <= q PROVE FALSE
    OBVIOUS
  <2>2. e * w <= q * w
    BY <1>2, <2>1, ProductOrder
  <2> QED
    BY <1>1, <1>2, <1>3, <2>2
<1>5. q * w + w <= e * w
  BY <1>2, <1>4, ProductOrder
<1> QED
  BY <1>1, <1>2, <1>3, <1>5

(***************************************************************************)
(* The ring is at least one global step long, and a whole number of them.  *)
(***************************************************************************)
LEMMA Sizes ==
  /\ W \in Nat \ {0} /\ IB \in Nat \ {0}
  /\ WindowSteps(Last - First) \in 1 .. Last - First
  /\ Multiple(IB, W)
<1>1. W \in Nat \ {0} /\ RobDepth \in Nat \ {0}
  BY ContextConstants, LenProperties DEF W
<1>2. Last - First \in Nat \ {0}
  BY ThreadConstants
<1>3. PICK q \in Nat : q = (4 * RobDepth) \div W
  BY <1>1, DivMod
<1>4. PICK s \in 1 .. Last - First : s = WindowSteps(Last - First)
  BY <1>2, <1>3 DEF WindowSteps, SmallerOf, LargerOf
<1>5. IB = W * s /\ s * W = W * s /\ W * s \in Nat
  BY <1>1, <1>2, <1>4 DEF IB
<1>6. 0 * W + W <= s * W
  BY <1>1, <1>2, <1>4, ProductOrder
<1>7. Multiple(IB, W)
  BY <1>5 DEF Multiple
<1> QED
  BY <1>1, <1>2, <1>4, <1>5, <1>6, <1>7

(***************************************************************************)
(* The ring holds the whole thread, or a global step more than what the    *)
(* reorder buffer may lack of being full when it is refilled.              *)
(***************************************************************************)
LEMMA WindowDeep ==
  WindowSteps(Last - First) = Last - First \/ RobDepth - 1 + W <= IB
<1>1. W \in Nat \ {0} /\ RobDepth \in Nat \ {0} /\ Last - First \in Nat \ {0}
  BY ContextConstants, ThreadConstants, LenProperties DEF W
<1>2. PICK q \in Nat, r \in 0 .. W - 1 : q = (4 * RobDepth) \div W /\ 4 * RobDepth = q * W + r
  <2>1. 4 * RobDepth \in Nat
    BY <1>1
  <2> QED
    BY <1>1, <2>1, DivMod
<1>3. PICK s \in Nat : s = LargerOf(q, 2) /\ s >= 2 /\ s >= q
  BY DEF LargerOf
<1>4. WindowSteps(Last - First) = SmallerOf(s, Last - First)
  BY <1>2, <1>3 DEF WindowSteps
<1>5. CASE s > Last - First
  BY <1>1, <1>3, <1>4, <1>5 DEF SmallerOf
<1>6. CASE s <= Last - First
  <2>1. IB = W * s
    BY <1>1, <1>3, <1>4, <1>6 DEF IB, SmallerOf
  <2>2. PICK a \in Nat : a = s * W /\ IB = a
    BY <1>1, <1>3, <2>1
  <2>3. PICK b \in Nat : b = q * W /\ b <= a
    BY <1>1, <1>3, <2>2, ProductOrder
  <2>4. 2 * W <= a
    BY <1>1, <1>3, <2>2, ProductOrder
  <2>5. 4 * RobDepth = b + r /\ r < W
    BY <1>1, <1>2, <2>3
  <2> QED
    BY ONLY <1>1, <2>2, <2>3, <2>4, <2>5, r \in 0 .. W - 1
<1> QED
  BY <1>1, <1>3, <1>5, <1>6

(***************************************************************************)
(* Positions of the ring and their distance from the head.                 *)
(***************************************************************************)
LEMMA Ring ==
  ASSUME NEW x \in ContextType
  PROVE  /\ \A i \in 0 .. IB - 1 : RingAt(x, i) \in 0 .. IB - 1 /\ Dist(x, RingAt(x, i)) = i
         /\ \A p \in 0 .. IB - 1 : Dist(x, p) \in 0 .. IB - 1 /\ RingAt(x, Dist(x, p)) = p
<1>1. IB \in Nat \ {0} /\ x.head \in 0 .. IB - 1 /\ x.ib = IB
  BY Sizes DEF ContextType
<1>2. ASSUME NEW i \in 0 .. IB - 1
      PROVE  RingAt(x, i) = IF x.head + i < IB THEN x.head + i ELSE x.head + i - IB
  <2>1. x.head + i \in Nat /\ x.head + i < IB + IB
    BY <1>1
  <2>2. RingAt(x, i) = (x.head + i) % IB
    BY <1>1 DEF RingAt
  <2>3. PICK a \in Nat : a = x.head + i /\ a < IB + IB
    BY <2>1
  <2>4. (a < IB => a % IB = a) /\ (IB <= a /\ a < IB + IB => a % IB = a - IB)
    BY <1>1, ModSmall
  <2> QED
    BY <1>1, <2>2, <2>3, <2>4
<1>3. ASSUME NEW i \in 0 .. IB - 1
      PROVE  RingAt(x, i) \in 0 .. IB - 1 /\ Dist(x, RingAt(x, i)) = i
  BY <1>1, <1>2 DEF Dist
<1>4. ASSUME NEW p \in 0 .. IB - 1
      PROVE  Dist(x, p) \in 0 .. IB - 1 /\ RingAt(x, Dist(x, p)) = p
  <2>1. Dist(x, p) \in 0 .. IB - 1
    BY <1>1 DEF Dist
  <2> QED
    BY <1>1, <1>2, <2>1 DEF Dist
<1> QED
  BY <1>3, <1>4

(***************************************************************************)
(* The window and the reorder buffer are the positions near the head.      *)
(***************************************************************************)
LEMMA Positions ==
  ASSUME NEW x \in ContextType
  PROVE  /\ RobLoad(x) \in 0 .. x.load /\ x.load \in 0 .. IB
         /\ {RingAt(x, i) : i \in 0 .. x.load - 1} = {p \in 0 .. IB - 1 : Dist(x, p) < x.load}
         /\ Rob(x) = {p \in 0 .. IB - 1 : Dist(x, p) < RobLoad(x)}
<1>1. IB \in Nat \ {0} /\ x.load \in 0 .. IB /\ RobLoad(x) \in 0 .. x.load
  <2>1. IB \in Nat \ {0} /\ RobDepth \in Nat \ {0}
    BY Sizes, ContextConstants
  <2>2. PICK n \in 0 .. IB : n = x.load
    BY <2>1 DEF ContextType
  <2> QED
    BY <2>1, <2>2 DEF RobLoad, SmallerOf
<1>2. ASSUME NEW n \in 0 .. IB
      PROVE  {RingAt(x, i) : i \in 0 .. n - 1} = {p \in 0 .. IB - 1 : Dist(x, p) < n}
  <2>1. ASSUME NEW i \in 0 .. n - 1 PROVE RingAt(x, i) \in {p \in 0 .. IB - 1 : Dist(x, p) < n}
    <3>1. i \in 0 .. IB - 1 /\ i < n
      BY <1>1
    <3> QED
      BY <3>1, Ring
  <2>2. ASSUME NEW p \in 0 .. IB - 1, Dist(x, p) < n
        PROVE  p \in {RingAt(x, i) : i \in 0 .. n - 1}
    <3>1. Dist(x, p) \in 0 .. IB - 1 /\ RingAt(x, Dist(x, p)) = p
      BY Ring
    <3>2. Dist(x, p) \in 0 .. n - 1
      BY <1>1, <2>2, <3>1
    <3> QED
      BY <3>1, <3>2
  <2> QED
    BY <2>1, <2>2
<1>3. RobLoad(x) \in 0 .. IB
  BY <1>1
<1> QED
  BY <1>1, <1>2, <1>3 DEF Rob

(***************************************************************************)
(* The same positions seen from the end of the window, where the next      *)
(* global step is fetched to: that is where a global step begins.          *)
(***************************************************************************)
Start(x) == (x.head + x.load) % x.ib
Place(x, p) == (p - Start(x) + x.ib) % x.ib

\* where a position lies counted from the end of the window
LEMMA Places ==
  ASSUME NEW x \in ContextType, NEW p \in 0 .. IB - 1
  PROVE  /\ Start(x) \in 0 .. IB - 1
         /\ Start(x) = x.head + x.load \/ Start(x) = x.head + x.load - IB
         /\ Place(x, p) = IF p >= Start(x) THEN p - Start(x) ELSE p - Start(x) + IB
         /\ Place(x, p) \in 0 .. IB - 1
         /\ Dist(x, p) = IF Place(x, p) < IB - x.load THEN Place(x, p) + x.load
                         ELSE Place(x, p) - (IB - x.load)
         /\ Dist(x, p) < x.load <=> Place(x, p) >= IB - x.load
<1>1. IB \in Nat \ {0} /\ x.head \in 0 .. IB - 1 /\ x.ib = IB /\ x.load \in 0 .. IB
  BY Sizes DEF ContextType
<1>2. PICK a \in Nat : a = x.head + x.load /\ a < IB + IB
  BY <1>1
<1>3. Start(x) = IF a < IB THEN a ELSE a - IB
  <2>1. (a < IB => a % IB = a) /\ (IB <= a /\ a < IB + IB => a % IB = a - IB)
    BY <1>1, ModSmall
  <2> QED
    BY <1>1, <1>2, <2>1 DEF Start
<1>4. PICK s \in 0 .. IB - 1 : s = Start(x)
  BY <1>1, <1>2, <1>3
<1>5. Place(x, p) = IF p >= s THEN p - s ELSE p - s + IB
  <2>1. PICK b \in Nat : b = p - s + IB /\ b < IB + IB
    BY <1>1, <1>4
  <2>2. (b < IB => b % IB = b) /\ (IB <= b /\ b < IB + IB => b % IB = b - IB)
    BY <1>1, ModSmall
  <2> QED
    BY <1>1, <1>4, <2>1, <2>2 DEF Place
<1>6. Place(x, p) \in 0 .. IB - 1
  BY <1>1, <1>4, <1>5
<1>7. Dist(x, p) = IF Place(x, p) < IB - x.load THEN Place(x, p) + x.load
                   ELSE Place(x, p) - (IB - x.load)
  BY <1>1, <1>2, <1>3, <1>4, <1>5 DEF Dist
<1> QED
  BY <1>1, <1>2, <1>3, <1>4, <1>5, <1>6, <1>7


\* sums and differences of multiples are multiples
LEMMA MultipleLess ==
  ASSUME NEW a \in Nat, NEW b \in Nat, NEW w \in Nat \ {0}, Multiple(a, w), Multiple(b, w)
  PROVE  /\ Multiple(a + b, w)
         /\ b <= a => Multiple(a - b, w)
<1>1. PICK i \in Nat, j \in Nat : a = i * w /\ b = j * w
  BY DEF Multiple
<1>2. a + b = (i + j) * w /\ i + j \in Nat
  BY <1>1
<1>3. ASSUME b <= a PROVE Multiple(a - b, w)
  <2>1. CASE i < j
    <3>1. i * w + w <= j * w
      BY <1>1, <2>1, ProductOrder
    <3> QED
      BY <1>1, <1>3, <3>1
  <2>2. CASE j <= i
    <3>1. PICK d \in Nat : i = j + d
      BY <1>1, <2>2
    <3>2. i * w = j * w + d * w
      BY <1>1, <3>1
    <3>3. d * w \in Nat
      BY <3>1, ProductOrder
    <3>4. a - b = d * w
      BY <1>1, <3>2, <3>3
    <3> QED
      BY <3>1, <3>4 DEF Multiple
  <2> QED
    BY <1>1, <2>1, <2>2
<1> QED
  BY <1>2, <1>3 DEF Multiple

\* the window ends where a global step begins
LEMMA StartAligned ==
  ASSUME NEW x \in ContextType, Aligned(x)
  PROVE  Multiple(Start(x), W)
<1>1. W \in Nat \ {0} /\ IB \in Nat \ {0} /\ Multiple(IB, W)
  BY Sizes
<1>2. x.head \in 0 .. IB - 1 /\ x.load \in 0 .. IB /\ 0 \in 0 .. IB - 1
  BY <1>1 DEF ContextType
<1>3. PICK a \in Nat : a = x.head + x.load /\ Multiple(a, W)
  BY <1>1, <1>2 DEF Aligned
<1>4. Start(x) \in 0 .. IB - 1 /\ (Start(x) = a \/ Start(x) = a - IB)
  <2>1. /\ Start(x) \in 0 .. IB - 1
        /\ Start(x) = x.head + x.load \/ Start(x) = x.head + x.load - IB
    BY <1>2, Places
  <2> QED
    BY <1>1, <1>2, <1>3, <2>1
<1>5. CASE Start(x) = a
  BY <1>3, <1>5
<1>6. CASE Start(x) = a - IB
  <2>1. IB <= a
    BY <1>1, <1>3, <1>4, <1>6
  <2> QED
    BY <1>1, <1>3, <1>6, <2>1, MultipleLess
<1> QED
  BY <1>4, <1>5, <1>6

(***************************************************************************)
(* The operations of a global step lie side by side.                       *)
(***************************************************************************)
LEMMA SameStep ==
  ASSUME NEW x \in ContextType, Aligned(x), NEW q \in 0 .. IB - 1,
         NEW d \in Nat, (q % W) + d < W
  PROVE  /\ q + d \in 0 .. IB - 1
         /\ (q + d) % W = (q % W) + d
         /\ Place(x, q + d) = Place(x, q) + d
         /\ (q + d) % IB = q + d
<1>1. W \in Nat \ {0} /\ IB \in Nat \ {0} /\ q \in Nat /\ Multiple(IB, W)
  BY Sizes
<1>2. PICK r \in 0 .. W - 1, m \in Nat : r = q % W /\ Multiple(m, W) /\ q = m + r
  <2>1. PICK b \in 0 .. W - 1, a \in Nat : b = q % W /\ q = a * W + b
    BY <1>1, DivMod
  <2>2. PICK m \in Nat : m = a * W
    BY <1>1, <2>1, ProductOrder
  <2>3. Multiple(m, W)
    BY <2>1, <2>2 DEF Multiple
  <2> QED
    BY <2>1, <2>2, <2>3
<1>3. q + W - (q % W) <= IB
  <2>1. IB \in Nat /\ q < IB
    BY <1>1
  <2> QED
    BY ONLY BlockEnd, <1>1, <2>1
<1>4. q + d \in 0 .. IB - 1
  BY <1>1, <1>2, <1>3
<1>5. (q + d) % W = (q % W) + d
  <2>1. PICK b \in Nat : b = r + d /\ b < W
    BY <1>1, <1>2
  <2>2. PICK f \in Nat : f = q + d /\ f = b + m
    BY <1>1, <1>2, <2>1
  <2>3. f % W = b % W
    BY ZenonT(30), <1>1, <1>2, <2>1, <2>2, ModShift
  <2>4. b % W = b
    BY <1>1, <2>1, ModSmall
  <2> QED
    BY <1>2, <2>1, <2>2, <2>3, <2>4
<1>6. Place(x, q + d) = Place(x, q) + d
  <2>1. PICK t \in 0 .. IB - 1 : t = Start(x) /\ Multiple(t, W)
    BY <1>1, Places, StartAligned
  <2>2. Place(x, q) = IF q >= t THEN q - t ELSE q - t + IB
    BY <2>1, Places
  <2>3. Place(x, q + d) = IF q + d >= t THEN q + d - t ELSE q + d - t + IB
    BY <1>4, <2>1, Places
  <2>4. CASE q >= t
    BY <1>1, <2>1, <2>2, <2>3, <2>4
  <2>5. CASE q < t
    <3>1. q + W - (q % W) <= t
      BY <1>1, <2>1, <2>5, BlockEnd
    <3>2. q + d < t
      BY <1>1, <1>2, <2>1, <3>1
    <3> QED
      BY <1>1, <2>1, <2>2, <2>3, <2>5, <3>2
  <2> QED
    BY <1>1, <2>1, <2>4, <2>5
<1>7. (q + d) % IB = q + d
  <2>1. PICK f \in Nat : f = q + d /\ f < IB
    BY <1>1, <1>4
  <2> QED
    BY <1>1, <2>1, ModSmall
<1> QED
  BY <1>4, <1>5, <1>6, <1>7

\* an operation keeps its place in the global step
LEMMA PlaceInStep ==
  ASSUME NEW x \in ContextType, Aligned(x), NEW p \in 0 .. IB - 1
  PROVE  Place(x, p) % W = p % W
<1>1. W \in Nat \ {0} /\ IB \in Nat \ {0} /\ Multiple(IB, W)
  BY Sizes
<1>2. PICK t \in 0 .. IB - 1 : t = Start(x) /\ Multiple(t, W)
  BY <1>1, Places, StartAligned
<1>3. PICK a \in 0 .. IB - 1 : a = Place(x, p) /\ a = IF p >= t THEN p - t ELSE p - t + IB
  BY <1>2, Places
<1>4. CASE p >= t
  <2>1. p = a + t
    BY <1>1, <1>2, <1>3, <1>4
  <2>2. a \in Nat /\ p \in Nat /\ t \in Nat
    BY <1>1, <1>2, <1>3
  <2>3. a % W = p % W
    BY ONLY <1>1, <1>2, <2>1, <2>2, ModShift
  <2> QED
    BY <1>3, <2>3
<1>5. CASE p < t
  <2>1. PICK b \in Nat : b = p + IB /\ b = a + t
    BY <1>1, <1>2, <1>3, <1>5
  <2>2. a \in Nat /\ p \in Nat /\ t \in Nat /\ IB \in Nat
    BY <1>1, <1>2, <1>3
  <2>3. b % W = a % W
    BY ONLY <1>1, <1>2, <2>1, <2>2, ModShift
  <2>4. b % W = p % W
    BY ONLY <1>1, <2>1, <2>2, ModShift
  <2> QED
    BY <1>3, <2>3, <2>4
<1> QED
  BY <1>1, <1>2, <1>4, <1>5

(***************************************************************************)
(* An edge leads to a later operation of the same global step, which is in *)
(* the window when the operation it comes from is.                         *)
(***************************************************************************)
LEMMA Child ==
  ASSUME NEW x \in ContextType, Aligned(x), Pattern(x),
         NEW q \in 0 .. IB - 1, NEW n \in 1 .. Len(x.win[q].next)
  PROVE  /\ n \in 1 .. W /\ x.win[q].next[n] \in Nat \ {0}
         /\ (q % W) + x.win[q].next[n] < W
         /\ q + x.win[q].next[n] \in 0 .. IB - 1
         /\ (q + x.win[q].next[n]) % x.ib = q + x.win[q].next[n]
         /\ Place(x, q + x.win[q].next[n]) = Place(x, q) + x.win[q].next[n]
         /\ Dist(x, q) < x.load => Dist(x, q + x.win[q].next[n]) < x.load
<1>1. W \in Nat \ {0} /\ IB \in Nat \ {0} /\ x.ib = IB /\ x.load \in 0 .. IB
  BY Sizes DEF ContextType
<1>2. PICK r \in 0 .. W - 1 : r = q % W
  <2>1. q \in Nat
    BY <1>1
  <2> QED
    BY <1>1, <2>1, DivMod
<1>3. PICK k \in 1 .. W : k = r + 1
  BY <1>1, <1>2
<1>4. x.win[q].next = Step[k].next
  BY <1>2, <1>3 DEF Pattern
<1>5. /\ \A m \in 1 .. Len(Step[k].next) : Step[k].next[m] \in 1 .. W - k
      /\ Len(Step[k].next) <= W
  BY <1>3, StepIsForward
<1>6. PICK d \in 1 .. W - k : d = x.win[q].next[n]
  BY <1>4, <1>5
<1>7. n \in 1 .. W
  <2>1. Step[k] \in OpTemplate
    BY <1>3, ContextConstants DEF W
  <2>2. Len(Step[k].next) \in Nat
    BY <2>1, LenProperties DEF OpTemplate
  <2> QED
    BY <1>1, <1>4, <1>5, <2>2
<1>8. d \in Nat \ {0} /\ (q % W) + d < W
  <2>1. d \in 1 .. W - k
    BY <1>6
  <2>2. d \in Nat \ {0} /\ r + d < W
    BY ONLY <1>1, <1>2, <1>3, <2>1
  <2> QED
    BY <1>2, <2>2
<1>9. q + d \in 0 .. IB - 1 /\ (q + d) % IB = q + d /\ Place(x, q + d) = Place(x, q) + d
  BY <1>8, SameStep
<1>10. ASSUME Dist(x, q) < x.load PROVE Dist(x, q + d) < x.load
  <2>1. PICK a \in 0 .. IB - 1 : a = Place(x, q) /\ a >= IB - x.load
    BY <1>10, Places
  <2>2. Place(x, q + d) >= IB - x.load
    BY <1>1, <1>8, <1>9, <2>1
  <2> QED
    BY <1>9, <2>2, Places
<1> QED
  BY <1>1, <1>6, <1>7, <1>8, <1>9, <1>10

(***************************************************************************)
(* Parents in terms of the run's own counters.                             *)
(***************************************************************************)
LEMMA ParentsFinite ==
  ASSUME NEW x, NEW p
  PROVE  IsFiniteSet(Parents(x, p)) /\ Cardinality(Parents(x, p)) \in Nat
<1>1. IsFiniteSet(0 .. IB - 1) /\ IsFiniteSet(1 .. W)
  BY Sizes, FS_Interval
<1>2. IsFiniteSet((0 .. IB - 1) \X (1 .. W))
  BY <1>1, FS_Product
<1>3. Parents(x, p) \in SUBSET ((0 .. IB - 1) \X (1 .. W))
  BY DEF Parents
<1>4. IsFiniteSet(Parents(x, p))
  BY <1>2, <1>3, FS_Subset
<1> QED
  BY <1>4, FS_CardinalityType

\* notifications under way can be counted
LEMMA ToldFinite ==
  ASSUME NEW K \in Seq(0 .. IB - 1), NEW p
  PROVE  IsFiniteSet(Told(K, p)) /\ Cardinality(Told(K, p)) \in Nat
<1>1. IsFiniteSet(1 .. Len(K))
  BY LenProperties, FS_Interval
<1>2. Told(K, p) \in SUBSET (1 .. Len(K))
  BY DEF Told
<1>3. IsFiniteSet(Told(K, p))
  BY <1>1, <1>2, FS_Subset
<1> QED
  BY <1>3, FS_CardinalityType

\* the parents depend on nothing but the edges and who has not completed
LEMMA ParentsSame ==
  ASSUME NEW x \in ContextType, NEW y \in ContextType, NEW p,
         \A q \in 0 .. IB - 1 :
           /\ y.win[q].next = x.win[q].next
           /\ (Dist(y, q) < y.load /\ y.win[q].status # "completed")
                <=> (Dist(x, q) < x.load /\ x.win[q].status # "completed")
  PROVE  Parents(y, p) = Parents(x, p)
<1>1. ASSUME NEW e \in (0 .. IB - 1) \X (1 .. W) PROVE e \in Parents(y, p) <=> e \in Parents(x, p)
  <2>1. PICK q \in 0 .. IB - 1 : q = e[1]
    OBVIOUS
  <2> QED
    BY <2>1 DEF Parents
<1> QED
  BY <1>1 DEF Parents

\* the parents are what the checked property counts, no edge wraps around
LEMMA ParentsAre ==
  ASSUME NEW p, c \in ContextType, Aligned(c), Pattern(c)
  PROVE  UnfinishedParents(p) = Cardinality(Parents(c, p))
<1>1. Live = {q \in 0 .. IB - 1 : Dist(c, q) < c.load}
  BY Positions DEF Live
<1>2. ASSUME NEW e \in (0 .. IB - 1) \X (1 .. W), e[2] <= Len(c.win[e[1]].next)
      PROVE  (e[1] + c.win[e[1]].next[e[2]]) % c.ib = e[1] + c.win[e[1]].next[e[2]]
  <2>1. e[1] \in 0 .. IB - 1 /\ e[2] \in 1 .. W /\ W \in Nat
    BY Sizes
  <2>2. c.win[e[1]] \in Op
    BY <2>1 DEF ContextType
  <2>3. Len(c.win[e[1]].next) \in Nat
    BY <2>2, LenProperties DEF Op
  <2>4. e[2] \in 1 .. Len(c.win[e[1]].next)
    BY <1>2, <2>1, <2>3
  <2> QED
    BY <2>1, <2>4, Child
<1>3. Parents(c, p) = {e \in Live \X (1 .. W) :
                         /\ c.win[e[1]].status # "completed"
                         /\ e[2] <= Len(c.win[e[1]].next)
                         /\ (e[1] + c.win[e[1]].next[e[2]]) % c.ib = p}
  BY <1>1, <1>2 DEF Parents
<1> QED
  BY <1>3 DEF UnfinishedParents

(***************************************************************************)
(* Counting.                                                               *)
(***************************************************************************)
LEMMA SameSize ==
  ASSUME NEW S, NEW T, IsFiniteSet(S), NEW f \in [S -> T],
         \A a, b \in S : f[a] = f[b] => a = b,
         \A t \in T : \E a \in S : f[a] = t
  PROVE  IsFiniteSet(T) /\ Cardinality(T) = Cardinality(S)
<1>1. f \in Bijection(S, T)
  BY DEF Bijection, Injection, Surjection, IsInjective
<1> QED
  BY <1>1, FS_Bijection DEF ExistsBijection

(***************************************************************************)
(* An operation whose global step is in the window as far as itself, with  *)
(* nothing completed, waits for as many parents as the kernel gives it.    *)
(***************************************************************************)
LEMMA FreshCounts ==
  ASSUME NEW x \in ContextType, Aligned(x), Pattern(x), NEW p \in 0 .. IB - 1,
         \A q \in 0 .. IB - 1, d \in Nat :
           (q % W) + d < W /\ p = q + d => Dist(x, q) < x.load /\ x.win[q].status # "completed"
  PROVE  Cardinality(Parents(x, p)) = Cardinality(Edges((p % W) + 1))
<1>1. W \in Nat \ {0} /\ IB \in Nat \ {0} /\ p \in Nat
  BY Sizes
<1>2. PICK r \in 0 .. W - 1, z \in Nat : r = p % W /\ Multiple(z, W) /\ p = z + r
  <2>1. PICK a \in Nat, h \in 0 .. W - 1 : p = a * W + h /\ h = p % W
    BY <1>1, DivMod
  <2>2. PICK z \in Nat : z = a * W
    BY <1>1, <2>1, ProductOrder
  <2> QED
    BY <2>1, <2>2 DEF Multiple
<1>3. IsFiniteSet(Edges((p % W) + 1))
  <2>1. IsFiniteSet((1 .. W) \X (1 .. W))
    <3>1. IsFiniteSet(1 .. W)
      BY <1>1, FS_Interval
    <3> QED
      BY <3>1, FS_Product
  <2>2. Edges((p % W) + 1) \in SUBSET ((1 .. W) \X (1 .. W))
    BY DEF Edges
  <2> QED
    BY <2>1, <2>2, FS_Subset
<1> DEFINE f == [e \in Edges((p % W) + 1) |-> <<z + e[1] - 1, e[2]>>]
<1>4. ASSUME NEW q \in 0 .. IB - 1, NEW d \in Nat, (q % W) + d < W, p = q + d
      PROVE  /\ r = (q % W) + d /\ q = z + (q % W) /\ q % W \in 0 .. W - 1
             /\ Dist(x, q) < x.load /\ x.win[q].status # "completed"
             /\ x.win[q].next = Step[(q % W) + 1].next
  <2>1. q \in Nat /\ q % W \in 0 .. W - 1
    BY <1>1, DivMod
  <2>2. (q + d) % W = (q % W) + d
    BY <1>4, SameStep
  <2>3. Dist(x, q) < x.load /\ x.win[q].status # "completed"
    BY <1>4
  <2>4. x.win[q].next = Step[(q % W) + 1].next
    BY DEF Pattern
  <2>5. PICK h \in 0 .. W - 1 : h = q % W /\ r = h + d
    BY <1>2, <1>4, <2>1, <2>2
  <2>6. q = z + h
    <3>1. p = q + d /\ r = h + d /\ p = z + r /\ q \in Nat /\ z \in Nat /\ h \in Nat /\ d \in Nat
      <4>1. p = z + r /\ z \in Nat
        BY <1>2
      <4>2. r = h + d /\ h \in Nat
        BY <1>1, <2>5
      <4>3. p = q + d /\ q \in Nat
        BY <1>4, <2>1
      <4> QED
        BY <4>1, <4>2, <4>3
    <3> QED
      BY ONLY <3>1
  <2> QED
    BY <2>1, <2>3, <2>4, <2>5, <2>6
<1>5. ASSUME NEW e \in Edges((p % W) + 1)
      PROVE  /\ e \in (1 .. W) \X (1 .. W)
             /\ <<z + e[1] - 1, e[2]>> \in Parents(x, p)
  <2>1. /\ e \in (1 .. W) \X (1 .. W) /\ e[2] <= Len(Step[e[1]].next)
        /\ e[1] + Step[e[1]].next[e[2]] = r + 1
    BY <1>2 DEF Edges
  <2>2. PICK k \in 1 .. W, n \in 1 .. W : k = e[1] /\ n = e[2] /\ e = <<k, n>>
    BY <2>1
  <2>3. Len(Step[k].next) \in Nat
    <3>1. Step[k] \in OpTemplate
      BY <2>2, ContextConstants DEF W
    <3> QED
      BY <3>1, LenProperties DEF OpTemplate
  <2>4. PICK m \in Nat \ {0} : m = Step[k].next[n] /\ k + m = r + 1
    <3>1. n \in 1 .. Len(Step[k].next)
      BY <1>1, <2>1, <2>2, <2>3
    <3>2. Step[k].next[n] \in 1 .. W - k
      BY <2>2, <3>1, StepIsForward
    <3> QED
      BY SMTT(30), <1>1, <2>1, <2>2, <3>2
  <2>5. PICK h \in 0 .. W - 1, q \in 0 .. IB - 1 : h = k - 1 /\ q = z + k - 1 /\ q = h + z /\ p = q + m
    <3>1. PICK h \in 0 .. W - 1 : h = k - 1 /\ r = h + m
      BY ONLY <1>1, <1>2, <2>2, <2>4
    <3>2. PICK q \in Nat : q = z + h
      BY <1>2, <3>1
    <3>3. p = q + m
      <4>1. p = z + r /\ r = h + m /\ z \in Nat /\ h \in Nat /\ m \in Nat
        BY <1>2, <2>4, <3>1
      <4> QED
        BY ONLY <3>2, <4>1
    <3>4. q \in 0 .. IB - 1
      BY <1>1, <2>4, <3>2, <3>3
    <3>5. q = z + k - 1 /\ q = h + z
      BY <1>2, <2>2, <3>1, <3>2
    <3> QED
      BY <3>1, <3>3, <3>4, <3>5
  <2>6. q % W = h
    <3>1. q \in Nat /\ h \in Nat /\ h < W /\ q = h + z
      BY <1>1, <2>5
    <3>2. q % W = h % W
      <4>1. z \in Nat /\ Multiple(z, W) /\ W \in Nat \ {0}
        BY <1>1, <1>2
      <4> QED
        BY ONLY ZenonT(30), <3>1, <4>1, ModShift
    <3>3. h % W = h
      BY ONLY <1>1, <3>1, ModSmall
    <3> QED
      BY <3>2, <3>3
  <2>7. (q % W) + m < W /\ m \in Nat /\ (q % W) + 1 = k
    <3>1. h + m < W /\ m \in Nat /\ h + 1 = k
      BY <1>1, <1>2, <2>2, <2>4, <2>5
    <3> QED
      BY <2>6, <3>1
  <2>8. /\ Dist(x, q) < x.load /\ x.win[q].status # "completed"
        /\ x.win[q].next = Step[(q % W) + 1].next
    BY <1>4, <2>5, <2>7
  <2>9. <<q, n>> \in Parents(x, p)
    BY <2>1, <2>2, <2>4, <2>5, <2>7, <2>8 DEF Parents
  <2> QED
    BY <2>1, <2>2, <2>5, <2>9
<1>6. f \in [Edges((p % W) + 1) -> Parents(x, p)]
  BY <1>5
<1>7. ASSUME NEW a \in Edges((p % W) + 1), NEW b \in Edges((p % W) + 1), f[a] = f[b] PROVE a = b
  <2>1. a \in (1 .. W) \X (1 .. W) /\ b \in (1 .. W) \X (1 .. W)
    BY <1>5
  <2>2. z + a[1] - 1 = z + b[1] - 1 /\ a[2] = b[2]
    BY <1>7
  <2>3. a[1] = b[1]
    <3>1. a[1] \in Nat /\ b[1] \in Nat /\ z \in Nat
      BY <1>2, <2>1
    <3> QED
      BY ONLY <2>2, <3>1
  <2> QED
    BY <2>1, <2>2, <2>3
<1>8. ASSUME NEW t \in Parents(x, p) PROVE \E a \in Edges((p % W) + 1) : f[a] = t
  <2>1. PICK q \in 0 .. IB - 1, n \in 1 .. W :
          t = <<q, n>> /\ n <= Len(x.win[q].next) /\ q + x.win[q].next[n] = p
    BY DEF Parents
  <2>2. Len(x.win[q].next) \in Nat
    <3>1. x.win[q] \in Op
      BY DEF ContextType
    <3> QED
      BY <3>1, LenProperties DEF Op
  <2>3. n \in 1 .. Len(x.win[q].next)
    BY <1>1, <2>1, <2>2
  <2>4. PICK d \in Nat \ {0} : d = x.win[q].next[n] /\ (q % W) + d < W /\ q + d = p
    BY <2>1, <2>3, Child
  <2>5. PICK h \in 0 .. W - 1 :
          h = q % W /\ r = h + d /\ q = z + h /\ x.win[q].next = Step[h + 1].next
    <3>1. d \in Nat
      BY <2>4
    <3>2. /\ r = (q % W) + d /\ q = z + (q % W) /\ q % W \in 0 .. W - 1
          /\ x.win[q].next = Step[(q % W) + 1].next
      BY <1>4, <2>4, <3>1
    <3> QED
      BY <3>2
  <2>6. PICK k \in 1 .. W : k = h + 1 /\ k + d = r + 1 /\ z + k - 1 = q
    BY ONLY <1>1, <1>2, <2>4, <2>5
  <2>7. <<k, n>> \in Edges((p % W) + 1)
    BY <1>2, <2>1, <2>4, <2>5, <2>6 DEF Edges
  <2>8. f[<<k, n>>] = <<q, n>>
    BY <2>6, <2>7
  <2> QED
    BY <2>1, <2>7, <2>8
<1>9. IsFiniteSet(Parents(x, p))
  BY ParentsFinite
<1> HIDE DEF f
<1>10. Cardinality(Parents(x, p)) = Cardinality(Edges((p % W) + 1))
  BY ONLY ZenonT(30), <1>3, <1>6, <1>7, <1>8, SameSize
<1> QED
  BY <1>10

(***************************************************************************)
(* The children of an operation, as advance reads them.                    *)
(***************************************************************************)
LEMMA ChildrenAre ==
  ASSUME NEW x \in ContextType, Aligned(x), Pattern(x), NEW p \in 0 .. IB - 1
  PROVE  /\ Children(x, p) \in Seq(0 .. IB - 1)
         /\ Len(Children(x, p)) = Len(x.win[p].next) /\ Len(x.win[p].next) \in Nat
         /\ \A n \in 1 .. Len(x.win[p].next) :
              /\ n \in 1 .. W
              /\ Children(x, p)[n] = p + x.win[p].next[n]
              /\ Children(x, p)[n] # p
              /\ Dist(x, p) < x.load => Dist(x, Children(x, p)[n]) < x.load
<1>1. PICK len \in Nat : len = Len(x.win[p].next)
  <2>1. x.win[p] \in Op
    BY DEF ContextType
  <2> QED
    BY <2>1, LenProperties DEF Op
<1>2. Children(x, p) = [n \in 1 .. len |-> (p + x.win[p].next[n]) % x.ib]
  BY <1>1 DEF Children
<1>3. ASSUME NEW n \in 1 .. len
      PROVE  /\ n \in 1 .. W
             /\ Children(x, p)[n] = p + x.win[p].next[n]
             /\ Children(x, p)[n] \in 0 .. IB - 1
             /\ Children(x, p)[n] # p
             /\ Dist(x, p) < x.load => Dist(x, Children(x, p)[n]) < x.load
  <2>1. /\ n \in 1 .. W /\ x.win[p].next[n] \in Nat \ {0}
        /\ p + x.win[p].next[n] \in 0 .. IB - 1
        /\ (p + x.win[p].next[n]) % x.ib = p + x.win[p].next[n]
        /\ Dist(x, p) < x.load => Dist(x, p + x.win[p].next[n]) < x.load
    BY <1>1, Child
  <2>2. Children(x, p)[n] = p + x.win[p].next[n]
    BY <1>2, <2>1
  <2>3. Children(x, p)[n] # p
    BY <2>1, <2>2, Sizes
  <2> QED
    BY <2>1, <2>2, <2>3
<1>4. Children(x, p) = [n \in 1 .. len |-> Children(x, p)[n]]
  BY <1>2
<1>5. [n \in 1 .. len |-> Children(x, p)[n]] \in Seq(0 .. IB - 1)
  BY <1>3, IsASeq
<1>6. Len(Children(x, p)) = len
  BY <1>2
<1> QED
  BY <1>1, <1>3, <1>4, <1>5, <1>6

(***************************************************************************)
(* Marking an operation completed turns the operations it notifies from    *)
(* waiting for it into being about to be told.                             *)
(***************************************************************************)
LEMMA MarkCounts ==
  ASSUME NEW x \in ContextType, Aligned(x), Pattern(x),
         NEW p \in 0 .. IB - 1, Dist(x, p) < x.load, x.win[p].status # "completed",
         NEW y \in ContextType, y.head = x.head, y.load = x.load,
         \A q \in 0 .. IB - 1 : q # p => y.win[q] = x.win[q],
         y.win[p].next = x.win[p].next, y.win[p].status = "completed",
         NEW r
  PROVE  Cardinality(Parents(x, r))
           = Cardinality(Parents(y, r)) + Cardinality(Told(Children(x, p), r))
<1>1. PICK K \in Seq(0 .. IB - 1) : K = Children(x, p)
  BY ChildrenAre
<1>2. PICK len \in Nat :
        /\ len = Len(K) /\ len = Len(x.win[p].next)
        /\ \A n \in 1 .. len : n \in 1 .. W /\ K[n] = p + x.win[p].next[n]
  BY <1>1, ChildrenAre
<1> DEFINE D == {<<p, n>> : n \in Told(K, r)}
           f == [n \in Told(K, r) |-> <<p, n>>]
<1>3. IsFiniteSet(Told(K, r)) /\ Cardinality(Told(K, r)) \in Nat
  BY <1>1, ToldFinite
<1>4. IsFiniteSet(D) /\ Cardinality(D) = Cardinality(Told(K, r))
  <2>1. f \in [Told(K, r) -> D]
    OBVIOUS
  <2>2. \A a, b \in Told(K, r) : f[a] = f[b] => a = b
    OBVIOUS
  <2>3. \A t \in D : \E a \in Told(K, r) : f[a] = t
    OBVIOUS
  <2> HIDE DEF f, D
  <2> QED
    BY <1>3, <2>1, <2>2, <2>3, SameSize
<1>5. ASSUME NEW q \in 0 .. IB - 1 PROVE Dist(y, q) = Dist(x, q)
  BY DEF Dist
<1>6. ASSUME NEW q \in 0 .. IB - 1, NEW n \in 1 .. W
      PROVE  <<q, n>> \in Parents(x, r) <=> <<q, n>> \in Parents(y, r) \/ <<q, n>> \in D
  <2>1. CASE q # p
    <3>1. <<q, n>> \notin D
      BY <2>1
    <3>2. y.win[q] = x.win[q] /\ Dist(y, q) = Dist(x, q)
      BY <1>5, <2>1
    <3> QED
      BY <3>1, <3>2 DEF Parents
  <2>2. CASE q = p
    <3>1. <<q, n>> \notin Parents(y, r)
      BY <2>2 DEF Parents
    <3>2. <<q, n>> \in D <=> n \in Told(K, r)
      BY <2>2
    <3>3. n \in Told(K, r) <=> n <= len /\ p + x.win[p].next[n] = r
      BY SMTT(30), <1>2, Sizes DEF Told
    <3>4. <<q, n>> \in Parents(x, r) <=> n <= len /\ p + x.win[p].next[n] = r
      BY <1>2, <2>2 DEF Parents
    <3> QED
      BY <3>1, <3>2, <3>3, <3>4
  <2> QED
    BY <2>1, <2>2
<1>7. D \in SUBSET ((0 .. IB - 1) \X (1 .. W))
  BY <1>2 DEF Told
<1>8. Parents(x, r) \in SUBSET ((0 .. IB - 1) \X (1 .. W)) /\ Parents(y, r) \in SUBSET ((0 .. IB - 1) \X (1 .. W))
  BY DEF Parents
<1>9. Parents(x, r) = Parents(y, r) \cup D
  <2>1. ASSUME NEW e \in (0 .. IB - 1) \X (1 .. W)
        PROVE  e \in Parents(x, r) <=> e \in Parents(y, r) \cup D
    <3>1. PICK q \in 0 .. IB - 1, n \in 1 .. W : e = <<q, n>>
      OBVIOUS
    <3> HIDE DEF D
    <3> QED
      BY <1>6, <3>1
  <2> HIDE DEF D
  <2> QED
    BY <1>7, <1>8, <2>1
<1>10. Parents(y, r) \cap D = {}
  BY DEF Parents
<1> HIDE DEF D
<1>11. IsFiniteSet(Parents(y, r)) /\ Cardinality(Parents(y, r)) \in Nat
  BY ParentsFinite
<1>12. Cardinality(Parents(y, r) \cup D)
         = Cardinality(Parents(y, r)) + Cardinality(D) - Cardinality(Parents(y, r) \cap D)
  BY <1>4, <1>11, FS_Union
<1>13. Cardinality(Parents(y, r) \cap D) = 0
  BY <1>10, FS_EmptySet
<1> QED
  BY <1>1, <1>3, <1>4, <1>9, <1>11, <1>12, <1>13

(***************************************************************************)
(* Telling the first child in line.                                        *)
(***************************************************************************)
LEMMA TailCounts ==
  ASSUME NEW K \in Seq(0 .. IB - 1), K # <<>>, NEW r
  PROVE  Cardinality(Told(K, r))
           = Cardinality(Told(Tail(K), r)) + (IF Head(K) = r THEN 1 ELSE 0)
<1>1. PICK len \in Nat : len = Len(K) /\ len >= 1
  BY LenProperties, EmptySeq
<1>2. /\ Tail(K) \in Seq(0 .. IB - 1) /\ Len(Tail(K)) = len - 1
      /\ \A n \in 1 .. len - 1 : Tail(K)[n] = K[n + 1]
      /\ Head(K) = K[1]
  BY <1>1, HeadTailProperties
<1> DEFINE S == Told(Tail(K), r)
           T == {n \in 2 .. len : K[n] = r}
           f == [n \in S |-> n + 1]
<1>3. IsFiniteSet(S) /\ Cardinality(S) \in Nat
  BY <1>2, ToldFinite
<1>4. S = {n \in 1 .. len - 1 : K[n + 1] = r}
  BY <1>2 DEF Told
<1>5. IsFiniteSet(T) /\ Cardinality(T) = Cardinality(S)
  <2>1. f \in [S -> T]
    BY <1>1, <1>4
  <2>2. \A a, b \in S : f[a] = f[b] => a = b
    BY <1>4
  <2>3. ASSUME NEW t \in T PROVE \E a \in S : f[a] = t
    <3>1. t - 1 \in S /\ t - 1 + 1 = t
      BY <1>1, <1>4
    <3> QED
      BY <3>1
  <2> HIDE DEF f, S, T
  <2> QED
    BY <1>3, <2>1, <2>2, <2>3, SameSize
<1>6. CASE Head(K) = r
  <2>1. Told(K, r) = T \cup {1}
    BY <1>1, <1>2, <1>6 DEF Told
  <2>2. 1 \notin T
    OBVIOUS
  <2> HIDE DEF S, T
  <2>3. Cardinality(T \cup {1}) = Cardinality(T) + 1
    BY <1>5, <2>2, FS_AddElement
  <2> QED
    BY <1>5, <1>6, <2>1, <2>3 DEF S
<1>7. CASE Head(K) # r
  <2>1. Told(K, r) = T
    BY <1>1, <1>2, <1>7 DEF Told
  <2> HIDE DEF S, T
  <2> QED
    BY <1>3, <1>5, <1>7, <2>1 DEF S
<1> QED
  BY <1>6, <1>7

-----------------------------------------------------------------------------
(***************************************************************************)
(* What the functions of the context change.                               *)
(***************************************************************************)
Still(x, y) ==
  /\ y.head = x.head /\ y.load = x.load /\ y.fetched = x.fetched /\ y.cpu = x.cpu
  /\ (y.done <=> x.done) /\ (y.panic <=> x.panic)
SameQueues(x, y) == y.ldq = x.ldq /\ y.stq = x.stq
OnlyAt(x, y, p) ==
  /\ Still(x, y)
  /\ \A q \in 0 .. IB - 1 : q # p => y.win[q] = x.win[q]
  /\ y.win[p].next = x.win[p].next /\ y.win[p].type = x.win[p].type
  /\ y.win[p].prev = x.win[p].prev

\* every port starts something each cycle
LEMMA Positive == Alu \in Nat \ {0} /\ Ld \in Nat \ {0} /\ St \in Nat \ {0}
BY ContextConstants

\* a port that refuses only moves its clock
LEMMA SyncDoes ==
  ASSUME NEW x \in ContextType
  PROVE  /\ SyncLd(x) \in ContextType /\ Still(x, SyncLd(x)) /\ SameQueues(x, SyncLd(x))
         /\ SyncLd(x).win = x.win
         /\ SyncSt(x) \in ContextType /\ Still(x, SyncSt(x)) /\ SameQueues(x, SyncSt(x))
         /\ SyncSt(x).win = x.win
<1>1. PICK a \in Nat, b \in Nat : a = LargerOf(x.ld, x.cpu) /\ b = LargerOf(x.st, x.cpu)
  BY DEF ContextType, LargerOf
<1>2. SyncLd(x) = [x EXCEPT !.ld = a] /\ SyncSt(x) = [x EXCEPT !.st = b]
  BY <1>1 DEF SyncLd, SyncSt
<1>3. [x EXCEPT !.ld = a] \in ContextType /\ [x EXCEPT !.st = b] \in ContextType
  BY DEF ContextType
<1>4. Still(x, [x EXCEPT !.ld = a]) /\ Still(x, [x EXCEPT !.st = b])
  BY DEF ContextType, Still
<1>5. SameQueues(x, [x EXCEPT !.ld = a]) /\ SameQueues(x, [x EXCEPT !.st = b])
  BY DEF ContextType, SameQueues
<1>6. [x EXCEPT !.ld = a].win = x.win /\ [x EXCEPT !.st = b].win = x.win
  BY DEF ContextType
<1> QED
  BY <1>2, <1>3, <1>4, <1>5, <1>6

(***************************************************************************)
(* A request sent to a port: the operation and the port change.            *)
(***************************************************************************)
SentAt(x, y, p) ==
  /\ OnlyAt(x, y, p) /\ SameQueues(x, y)
  /\ y.win[p].status = "dispatched"

\* try_dispatch_ld that succeeds changes the operation alone
LEMMA SendLdDoes ==
  ASSUME NEW x \in ContextType, NEW r \in Request
  PROVE  SendLd(x, r) \in ContextType /\ SentAt(x, SendLd(x, r), r.pos)
<1>1. PICK p \in 0 .. IB - 1 : p = r.pos
  BY DEF Request
<1>2. x.win \in [0 .. IB - 1 -> Op] /\ x.win[p] \in Op
  BY DEF ContextType
<1>3. PICK now \in Nat : now = LargerOf(x.ld, x.cpu)
  BY DEF ContextType, LargerOf
<1>4. PICK t \in Nat :
        t = IF (IF LineOf(p) \in PendingLines(x) THEN 0 ELSE x.win[p].lat) = 0 THEN 0
            ELSE now + (IF LineOf(p) \in PendingLines(x) THEN 0 ELSE x.win[p].lat)
  BY <1>2, <1>3 DEF Op
<1>5. PICK a \in Nat : a = IF x.ldLeft = 1 THEN now + 1 ELSE now
  BY <1>3
<1>6. PICK b \in 1 .. Ld : b = IF x.ldLeft = 1 THEN Ld ELSE x.ldLeft - 1
  BY SMTT(30), Positive DEF ContextType
<1>7. PICK o \in Op : o = [x.win[p] EXCEPT !.status = "dispatched", !.sent = now, !.complete = t]
  BY <1>2, <1>4 DEF Op
<1>8. o.status = "dispatched" /\ o.next = x.win[p].next /\ o.type = x.win[p].type /\ o.prev = x.win[p].prev
  BY <1>2, <1>7 DEF Op
<1>9. PICK w \in [0 .. IB - 1 -> Op] : w = [x.win EXCEPT ![p] = o]
  BY <1>2, <1>7
<1>10. SendLd(x, r) = [x EXCEPT !.win = w, !.ld = a, !.ldLeft = b]
  <2>1. SendLd(x, r) = [x EXCEPT !.win[p].status = "dispatched", !.win[p].sent = now,
                                 !.win[p].complete = t, !.ld = a, !.ldLeft = b]
    BY <1>1, <1>3, <1>4, <1>5, <1>6 DEF SendLd
  <2>2. [x.win EXCEPT ![p].status = "dispatched", ![p].sent = now, ![p].complete = t] = w
    BY <1>2, <1>7, <1>9 DEF Op
  <2>3. [x EXCEPT !.win[p].status = "dispatched", !.win[p].sent = now, !.win[p].complete = t,
                  !.ld = a, !.ldLeft = b]
          = [x EXCEPT !.win = [x.win EXCEPT ![p].status = "dispatched", ![p].sent = now,
                                            ![p].complete = t],
                      !.ld = a, !.ldLeft = b]
    BY <1>2 DEF ContextType
  <2> QED
    BY <2>1, <2>2, <2>3
<1> DEFINE y == [x EXCEPT !.win = w, !.ld = a, !.ldLeft = b]
<1>11. y \in ContextType
  BY <1>5, <1>6, <1>9 DEF ContextType
<1>12. Still(x, y) /\ SameQueues(x, y)
  BY DEF ContextType, Still, SameQueues
<1>13. y.win = w
  BY DEF ContextType
<1> HIDE DEF y
<1>14. SentAt(x, y, p)
  BY <1>2, <1>7, <1>8, <1>9, <1>12, <1>13 DEF SentAt, OnlyAt
<1> QED
  BY <1>1, <1>10, <1>11, <1>14 DEF y

\* try_dispatch_st that succeeds changes the operation alone
LEMMA SendStDoes ==
  ASSUME NEW x \in ContextType, NEW r \in Request
  PROVE  SendSt(x, r) \in ContextType /\ SentAt(x, SendSt(x, r), r.pos)
<1>1. PICK p \in 0 .. IB - 1 : p = r.pos
  BY DEF Request
<1>2. x.win \in [0 .. IB - 1 -> Op] /\ x.win[p] \in Op
  BY DEF ContextType
<1>3. PICK now \in Nat : now = LargerOf(x.st, x.cpu)
  BY DEF ContextType, LargerOf
<1>4. PICK a \in Nat : a = IF x.stLeft = 1 THEN now + 1 ELSE now
  BY <1>3
<1>5. PICK b \in 1 .. St : b = IF x.stLeft = 1 THEN St ELSE x.stLeft - 1
  BY Positive DEF ContextType
<1>6. PICK o \in Op : o = [x.win[p] EXCEPT !.status = "dispatched", !.complete = a]
  BY <1>2, <1>4 DEF Op
<1>7. o.status = "dispatched" /\ o.next = x.win[p].next /\ o.type = x.win[p].type /\ o.prev = x.win[p].prev
  BY <1>2, <1>6 DEF Op
<1>8. PICK w \in [0 .. IB - 1 -> Op] : w = [x.win EXCEPT ![p] = o]
  BY <1>2, <1>6
<1>9. SendSt(x, r) = [x EXCEPT !.win = w, !.st = a, !.stLeft = b]
  <2>1. SendSt(x, r) = [x EXCEPT !.win[p].status = "dispatched", !.win[p].complete = a,
                                 !.st = a, !.stLeft = b]
    BY <1>1, <1>3, <1>4, <1>5 DEF SendSt
  <2>2. [x.win EXCEPT ![p].status = "dispatched", ![p].complete = a] = w
    BY <1>2, <1>6, <1>8 DEF Op
  <2>3. [x EXCEPT !.win[p].status = "dispatched", !.win[p].complete = a, !.st = a, !.stLeft = b]
          = [x EXCEPT !.win = [x.win EXCEPT ![p].status = "dispatched", ![p].complete = a],
                      !.st = a, !.stLeft = b]
    BY <1>2 DEF ContextType
  <2> QED
    BY <2>1, <2>2, <2>3
<1> DEFINE y == [x EXCEPT !.win = w, !.st = a, !.stLeft = b]
<1>10. y \in ContextType
  BY <1>4, <1>5, <1>8 DEF ContextType
<1>11. Still(x, y) /\ SameQueues(x, y)
  BY DEF ContextType, Still, SameQueues
<1>12. y.win = w
  BY DEF ContextType
<1> HIDE DEF y
<1>13. SentAt(x, y, p)
  BY <1>2, <1>6, <1>7, <1>8, <1>11, <1>12 DEF SentAt, OnlyAt
<1> QED
  BY <1>1, <1>9, <1>10, <1>13 DEF y

\* arithmetic changes its own clock and counter only
LEMMA UseAluDoes ==
  ASSUME NEW x \in ContextType, NEW k \in Nat
  PROVE  /\ UseAlu(x, k) \in ContextType
         /\ Still(x, UseAlu(x, k)) /\ SameQueues(x, UseAlu(x, k)) /\ UseAlu(x, k).win = x.win
<1>1. PICK now \in Nat : now = LargerOf(x.alu, x.cpu)
  BY DEF ContextType, LargerOf
<1>2. PICK s \in 1 .. Alu : s = x.aluLeft
  BY DEF ContextType
<1>3. \E a \in Nat, b \in 1 .. Alu : UseAlu(x, k) = [x EXCEPT !.alu = a, !.aluLeft = b]
  <2>1. CASE k < s
    <3>1. s - k \in 1 .. Alu
      BY <1>2, <2>1, Positive
    <3>2. UseAlu(x, k) = [x EXCEPT !.alu = now, !.aluLeft = s - k]
      BY <1>1, <1>2, <2>1 DEF UseAlu
    <3> QED
      BY <3>1, <3>2
  <2>2. CASE ~(k < s)
    <3>1. PICK rest \in Nat : rest = k - s
      BY <1>2, <2>2, Positive
    <3>2. rest \div Alu \in Nat /\ rest % Alu \in 0 .. Alu - 1
      BY <3>1, Positive, DivMod
    <3>3. PICK q \in Nat, m \in 0 .. Alu - 1 : q = rest \div Alu /\ m = rest % Alu
      BY <3>2
    <3>4. now + 1 + q \in Nat /\ Alu - m \in 1 .. Alu
      BY <3>3, Positive
    <3>5. UseAlu(x, k) = [x EXCEPT !.alu = now + 1 + q, !.aluLeft = Alu - m]
      BY <1>1, <1>2, <2>2, <3>1, <3>3 DEF UseAlu
    <3> QED
      BY <3>4, <3>5
  <2> QED
    BY <2>1, <2>2
<1>4. PICK a \in Nat, b \in 1 .. Alu : UseAlu(x, k) = [x EXCEPT !.alu = a, !.aluLeft = b]
  BY <1>3
<1>5. [x EXCEPT !.alu = a, !.aluLeft = b] \in ContextType
  BY <1>4 DEF ContextType
<1>6. /\ Still(x, [x EXCEPT !.alu = a, !.aluLeft = b])
      /\ SameQueues(x, [x EXCEPT !.alu = a, !.aluLeft = b])
      /\ [x EXCEPT !.alu = a, !.aluLeft = b].win = x.win
  BY DEF ContextType, Still, SameQueues
<1> QED
  BY <1>4, <1>5, <1>6

\* writing one operation of the window
LEMMA SetOp ==
  ASSUME NEW x \in ContextType, NEW p \in 0 .. IB - 1, NEW o \in Op,
         o.next = x.win[p].next, o.type = x.win[p].type, o.prev = x.win[p].prev
  PROVE  LET y == [x EXCEPT !.win = [x.win EXCEPT ![p] = o]]
         IN  y \in ContextType /\ OnlyAt(x, y, p) /\ SameQueues(x, y) /\ y.win[p] = o
<1>1. x.win \in [0 .. IB - 1 -> Op]
  BY DEF ContextType
<1>2. PICK w \in [0 .. IB - 1 -> Op] : w = [x.win EXCEPT ![p] = o]
  BY <1>1
<1> DEFINE y == [x EXCEPT !.win = w]
<1>3. y \in ContextType
  BY <1>2 DEF ContextType
<1>4. Still(x, y) /\ SameQueues(x, y) /\ y.win = w
  BY DEF ContextType, Still, SameQueues
<1> HIDE DEF y
<1>5. OnlyAt(x, y, p) /\ y.win[p] = o
  BY <1>1, <1>2, <1>4 DEF OnlyAt
<1> QED
  BY <1>2, <1>3, <1>4, <1>5 DEF y

\* two changes to one operation are one change
LEMMA OnlyAtTrans ==
  ASSUME NEW x, NEW y, NEW z, NEW p \in 0 .. IB - 1, OnlyAt(x, y, p), OnlyAt(y, z, p)
  PROVE  OnlyAt(x, z, p)
<1>1. Still(x, z)
  BY DEF OnlyAt, Still
<1> QED
  BY <1>1 DEF OnlyAt

\* no change is a change to one operation
LEMMA StillOnly ==
  ASSUME NEW x, NEW y, NEW p \in 0 .. IB - 1, Still(x, y), y.win = x.win
  PROVE  OnlyAt(x, y, p)
BY DEF OnlyAt

(***************************************************************************)
(* dispatch: the operation waits for its parents, or goes to the cache, or *)
(* joins the retry list of its port.                                       *)
(***************************************************************************)
Queued(x, y, p) ==
  /\ y.win[p].status = "pending"
  /\ \E r \in Request :
       /\ r.pos = p
       /\ \/ x.win[p].type = "LOAD" /\ y.ldq = Append(x.ldq, r) /\ y.stq = x.stq
          \/ x.win[p].type = "STORE" /\ y.stq = Append(x.stq, r) /\ y.ldq = x.ldq
Effect(x, y, p) ==
  /\ OnlyAt(x, y, p)
  /\ \/ x.win[p].prev > 0 /\ y.win[p].status = "pending" /\ SameQueues(x, y)
     \/ x.win[p].prev = 0 /\ y.win[p].status = "dispatched" /\ SameQueues(x, y)
     \/ x.win[p].prev = 0 /\ Queued(x, y, p)

\* a request refused joins the retry list of its port
LEMMA QueueUp ==
  ASSUME NEW x \in ContextType, NEW r \in Request, NEW p \in 0 .. IB - 1, r.pos = p
  PROVE  /\ x.win[p].type = "LOAD" =>
              LET y == [x EXCEPT !.win[p].status = "pending", !.ldq = Append(@, r)]
              IN  y \in ContextType /\ OnlyAt(x, y, p) /\ Queued(x, y, p)
         /\ x.win[p].type = "STORE" =>
              LET y == [x EXCEPT !.win[p].status = "pending", !.stq = Append(@, r)]
              IN  y \in ContextType /\ OnlyAt(x, y, p) /\ Queued(x, y, p)
<1>1. x.win \in [0 .. IB - 1 -> Op] /\ x.win[p] \in Op /\ x.ldq \in Seq(Request) /\ x.stq \in Seq(Request)
  BY DEF ContextType
<1>2. PICK o \in Op : o = [x.win[p] EXCEPT !.status = "pending"]
  BY <1>1 DEF Op
<1>3. o.status = "pending" /\ o.next = x.win[p].next /\ o.type = x.win[p].type /\ o.prev = x.win[p].prev
  BY <1>1, <1>2 DEF Op
<1> DEFINE z == [x EXCEPT !.win = [x.win EXCEPT ![p] = o]]
<1>4. z \in ContextType /\ OnlyAt(x, z, p) /\ SameQueues(x, z) /\ z.win[p] = o
  BY <1>3, SetOp
<1>5. PICK q \in Seq(Request) : q = Append(x.ldq, r)
  BY <1>1, AppendProperties
<1>6. PICK s \in Seq(Request) : s = Append(x.stq, r)
  BY <1>1, AppendProperties
<1>7. /\ [x EXCEPT !.win[p].status = "pending", !.ldq = Append(@, r)] = [z EXCEPT !.ldq = q]
      /\ [x EXCEPT !.win[p].status = "pending", !.stq = Append(@, r)] = [z EXCEPT !.stq = s]
  BY <1>1, <1>2, <1>5, <1>6 DEF ContextType
<1> HIDE DEF z
<1>8. ASSUME NEW y \in {[z EXCEPT !.ldq = q], [z EXCEPT !.stq = s]}
      PROVE  y \in ContextType /\ Still(z, y) /\ y.win = z.win
  BY <1>4, <1>5, <1>6 DEF ContextType, Still
<1>9. [z EXCEPT !.ldq = q].ldq = q /\ [z EXCEPT !.ldq = q].stq = z.stq
  BY <1>4 DEF ContextType
<1>10. [z EXCEPT !.stq = s].stq = s /\ [z EXCEPT !.stq = s].ldq = z.ldq
  BY <1>4 DEF ContextType
<1>11. ASSUME NEW y \in {[z EXCEPT !.ldq = q], [z EXCEPT !.stq = s]}
       PROVE  OnlyAt(x, y, p) /\ y.win[p].status = "pending"
  <2>1. OnlyAt(z, y, p)
    BY <1>8, StillOnly
  <2>2. OnlyAt(x, y, p)
    BY <1>4, <2>1, OnlyAtTrans
  <2> QED
    BY <1>3, <1>4, <1>8, <2>2
<1>12. x.win[p].type = "LOAD" => Queued(x, [z EXCEPT !.ldq = q], p)
  BY <1>4, <1>5, <1>9, <1>11 DEF Queued, SameQueues
<1>13. x.win[p].type = "STORE" => Queued(x, [z EXCEPT !.stq = s], p)
  BY <1>4, <1>6, <1>10, <1>11 DEF Queued, SameQueues
<1> QED
  BY <1>7, <1>8, <1>11, <1>12, <1>13

\* dispatch changes its operation and at most one retry list
LEMMA DispatchDoes ==
  ASSUME NEW x \in ContextType, NEW p \in 0 .. IB - 1
  PROVE  Dispatch(x, p) \in ContextType /\ Effect(x, Dispatch(x, p), p)
<1>1. x.win[p] \in Op /\ x.cpu \in Nat
  BY DEF ContextType
<1>2. CASE x.win[p].prev > 0
  <2>1. PICK o \in Op : o = [x.win[p] EXCEPT !.status = "pending", !.dispatch = 0]
    BY <1>1 DEF Op
  <2>2. o.status = "pending" /\ o.next = x.win[p].next /\ o.type = x.win[p].type /\ o.prev = x.win[p].prev
    BY <1>1, <2>1 DEF Op
  <2>3. Dispatch(x, p) = [x EXCEPT !.win[p].status = "pending", !.win[p].dispatch = 0]
    BY <1>2 DEF Dispatch
  <2>4. [x EXCEPT !.win[p].status = "pending", !.win[p].dispatch = 0]
          = [x EXCEPT !.win = [x.win EXCEPT ![p] = o]]
    BY <1>1, <2>1 DEF ContextType
  <2>5. LET y == [x EXCEPT !.win = [x.win EXCEPT ![p] = o]]
        IN  y \in ContextType /\ OnlyAt(x, y, p) /\ SameQueues(x, y) /\ y.win[p] = o
    BY <2>2, SetOp
  <2> QED
    BY <1>2, <2>2, <2>3, <2>4, <2>5 DEF Effect
<1>3. CASE ~(x.win[p].prev > 0)
  <2>1. x.win[p].prev = 0 /\ x.win[p].comp \in Nat
    BY <1>1, <1>3 DEF Op
  <2> DEFINE c1 == IF x.win[p].comp = 0 THEN x ELSE UseAlu(x, x.win[p].comp)
             t == IF x.win[p].comp = 0 THEN x.cpu ELSE c1.alu
             c2 == [c1 EXCEPT !.win[p].dispatch = t, !.win[p].comp = 0]
             r == [pos |-> p, dispatch |-> t]
  <2>2. c1 \in ContextType /\ Still(x, c1) /\ SameQueues(x, c1) /\ c1.win = x.win
    <3>1. CASE x.win[p].comp = 0
      BY <3>1 DEF Still, SameQueues
    <3>2. CASE x.win[p].comp # 0
      BY <2>1, <3>2, UseAluDoes
    <3> QED
      BY <3>1, <3>2
  <2>3. t \in Nat
    BY <1>1, <2>2 DEF ContextType
  <2>4. r \in Request /\ r.pos = p
    BY <2>3 DEF Request
  <2>5. Dispatch(x, p) = IF x.win[p].type = "LOAD"
                         THEN IF LdPortReady(c2, r) THEN SendLd(c2, r)
                              ELSE [SyncLd(c2) EXCEPT !.win[p].status = "pending", !.ldq = Append(@, r)]
                         ELSE IF StPortReady(c2, r) THEN SendSt(c2, r)
                              ELSE [SyncSt(c2) EXCEPT !.win[p].status = "pending", !.stq = Append(@, r)]
    BY <1>3 DEF Dispatch
  <2> HIDE DEF c1
  <2>6. PICK u \in Nat : u = t
    BY <2>3
  <2> HIDE DEF t
  <2>7. c2 \in ContextType /\ OnlyAt(c1, c2, p) /\ SameQueues(c1, c2)
    <3> c1.win[p] \in Op
      BY <2>2 DEF ContextType
    <3>1. PICK o \in Op : o = [c1.win[p] EXCEPT !.dispatch = u, !.comp = 0]
      BY <2>6 DEF Op
    <3>2. o.next = c1.win[p].next /\ o.type = c1.win[p].type /\ o.prev = c1.win[p].prev
      BY <3>1 DEF Op
    <3>3. c2 = [c1 EXCEPT !.win = [c1.win EXCEPT ![p] = o]]
      BY <2>2, <2>6, <3>1 DEF ContextType
    <3> QED
      BY <2>2, <3>2, <3>3, SetOp
  <2> HIDE DEF c2, r
  <2>8. OnlyAt(x, c2, p) /\ SameQueues(x, c2)
    <3>1. OnlyAt(x, c1, p)
      BY <2>2, StillOnly
    <3>2. OnlyAt(x, c2, p)
      BY <2>7, <3>1, OnlyAtTrans
    <3> QED
      BY <2>2, <2>7, <3>2 DEF SameQueues
  <2>9. ASSUME NEW y, y \in ContextType, SentAt(c2, y, p)
        PROVE  Effect(x, y, p)
    <3>1. OnlyAt(x, y, p)
      BY <2>8, <2>9, OnlyAtTrans DEF SentAt
    <3>2. SameQueues(x, y) /\ y.win[p].status = "dispatched"
      BY <2>8, <2>9 DEF SentAt, SameQueues
    <3> QED
      BY <2>1, <3>1, <3>2 DEF Effect
  <2>10. ASSUME NEW z, z \in ContextType, Still(c2, z), SameQueues(c2, z), z.win = c2.win,
                NEW y, OnlyAt(z, y, p), Queued(z, y, p)
         PROVE  Effect(x, y, p)
    <3>1. OnlyAt(c2, z, p)
      BY <2>10, StillOnly
    <3>2. OnlyAt(x, z, p)
      BY <2>8, <3>1, OnlyAtTrans
    <3>3. OnlyAt(x, y, p)
      BY <2>10, <3>2, OnlyAtTrans
    <3>4. z.win[p].type = x.win[p].type /\ z.ldq = x.ldq /\ z.stq = x.stq
      BY <2>8, <2>10, <3>2 DEF OnlyAt, SameQueues
    <3>5. Queued(x, y, p)
      BY <2>10, <3>4 DEF Queued
    <3> QED
      BY <2>1, <3>3, <3>5 DEF Effect
  <2>11. CASE x.win[p].type = "LOAD"
    <3>1. CASE LdPortReady(c2, r)
      <4>1. SendLd(c2, r) \in ContextType /\ SentAt(c2, SendLd(c2, r), p)
        BY <2>4, <2>7, SendLdDoes
      <4>2. Dispatch(x, p) = SendLd(c2, r)
        BY <2>5, <2>11, <3>1
      <4> QED
        BY <2>9, <4>1, <4>2
    <3>2. CASE ~LdPortReady(c2, r)
      <4>1. PICK z \in ContextType : z = SyncLd(c2) /\ Still(c2, z) /\ SameQueues(c2, z) /\ z.win = c2.win
        BY <2>7, SyncDoes
      <4>2. z.win[p].type = "LOAD"
        BY <2>8, <2>11, <4>1 DEF OnlyAt
      <4>3. PICK y \in ContextType :
              /\ y = [z EXCEPT !.win[p].status = "pending", !.ldq = Append(@, r)]
              /\ OnlyAt(z, y, p) /\ Queued(z, y, p)
        BY <2>4, <4>2, QueueUp
      <4>4. Dispatch(x, p) = y
        BY <2>5, <2>11, <3>2, <4>1, <4>3
      <4> QED
        BY <2>10, <4>1, <4>3, <4>4
    <3> QED
      BY <3>1, <3>2
  <2>12. CASE x.win[p].type # "LOAD"
    <3>1. CASE StPortReady(c2, r)
      <4>1. SendSt(c2, r) \in ContextType /\ SentAt(c2, SendSt(c2, r), p)
        BY <2>4, <2>7, SendStDoes
      <4>2. Dispatch(x, p) = SendSt(c2, r)
        BY <2>5, <2>12, <3>1
      <4> QED
        BY <2>9, <4>1, <4>2
    <3>2. CASE ~StPortReady(c2, r)
      <4>1. PICK z \in ContextType : z = SyncSt(c2) /\ Still(c2, z) /\ SameQueues(c2, z) /\ z.win = c2.win
        BY <2>7, SyncDoes
      <4>2. z.win[p].type = "STORE"
        BY <1>1, <2>8, <2>12, <4>1 DEF OnlyAt, Op
      <4>3. PICK y \in ContextType :
              /\ y = [z EXCEPT !.win[p].status = "pending", !.stq = Append(@, r)]
              /\ OnlyAt(z, y, p) /\ Queued(z, y, p)
        BY <2>4, <4>2, QueueUp
      <4>4. Dispatch(x, p) = y
        BY <2>5, <2>12, <3>2, <4>1, <4>3
      <4> QED
        BY <2>10, <4>1, <4>3, <4>4
    <3> QED
      BY <3>1, <3>2
  <2> QED
    BY <2>11, <2>12
<1> QED
  BY <1>2, <1>3

-----------------------------------------------------------------------------
(***************************************************************************)
(* What the functions keep true of the operations of the window.           *)
(***************************************************************************)
LEMMA StillOps ==
  ASSUME NEW x \in ContextType, NEW y \in ContextType, NEW e, NEW K, NEW aside,
         Ops(x, e, K, aside), y.win = x.win, y.head = x.head, y.load = x.load,
         SameQueues(x, y), y.panic <=> x.panic, x.cpu <= y.cpu
  PROVE  Ops(y, e, K, aside)
<1>1. \A p : Dist(y, p) = Dist(x, p)
  BY DEF Dist
<1>2. Aligned(y) /\ Pattern(y) /\ y.panic = FALSE
  <2>1. Aligned(y) /\ Pattern(y)
    BY DEF Ops, Aligned, Pattern
  <2>2. y.panic \in BOOLEAN /\ x.panic = FALSE
    BY DEF Ops, ContextType
  <2> QED
    BY <2>1, <2>2
<1>3. Phases(y, e)
  BY <1>1 DEF Ops, Phases
<1>4. Sent(y)
  <2>1. x.cpu \in Nat /\ y.cpu \in Nat
    BY DEF ContextType
  <2>2. \A t : t \in 1 .. x.cpu => t \in 1 .. y.cpu
    BY <2>1
  <2> QED
    BY <1>1, <2>2 DEF Ops, Sent
<1>5. Queues(y, aside)
  BY DEF Ops, Queues, Queue, SameQueues
<1>6. Counts(y, K)
  <2>1. \A p : Parents(y, p) = Parents(x, p)
    BY <1>1 DEF Parents
  <2> QED
    BY <1>1, <2>1 DEF Ops, Counts
<1>7. \A n \in 1 .. Len(K) : Dist(y, K[n]) < y.load
  BY <1>1 DEF Ops
<1> QED
  BY <1>2, <1>3, <1>4, <1>5, <1>6, <1>7 DEF Ops

(***************************************************************************)
(* Only one operation changes, and not to or from completed.               *)
(***************************************************************************)
LEMMA OnlyOps ==
  ASSUME NEW x \in ContextType, NEW y \in ContextType, NEW e \in Nat, NEW K,
         NEW p \in 0 .. IB - 1, NEW d \in Nat, NEW aside,
         Ops(x, e, K, aside), OnlyAt(x, y, p), Queues(y, {}),
         Dist(x, p) < x.load, Dist(x, p) <= e, d = (IF Dist(x, p) = e THEN e + 1 ELSE e),
         x.win[p].status # "completed", y.win[p].status \in {"pending", "dispatched"},
         y.win[p].status = "dispatched" => y.win[p].prev = 0
  PROVE  Ops(y, d, K, {})
<1>1. /\ \A q : Dist(y, q) = Dist(x, q)
      /\ y.load = x.load /\ y.head = x.head /\ y.cpu = x.cpu /\ (y.panic <=> x.panic)
  BY DEF Dist, OnlyAt, Still
<1>2. Aligned(y) /\ Pattern(y) /\ y.panic = FALSE
  <2>1. Aligned(y)
    BY <1>1 DEF Ops, Aligned
  <2>2. Pattern(y)
    BY DEF Ops, Pattern, OnlyAt
  <2>3. y.panic \in BOOLEAN /\ x.panic = FALSE
    BY DEF Ops, ContextType
  <2> QED
    BY <1>1, <2>1, <2>2, <2>3
<1>3. \A q \in 0 .. IB - 1 : Dist(x, q) \in Nat
  <2>1. ASSUME NEW q \in 0 .. IB - 1 PROVE Dist(x, q) \in 0 .. IB - 1
    BY Ring
  <2> QED
    BY <2>1, Sizes
<1>4. Phases(y, d)
  <2>1. ASSUME NEW q \in 0 .. IB - 1
        PROVE  /\ Dist(y, q) < d => y.win[q].status # "issued"
               /\ d <= Dist(y, q) /\ Dist(y, q) < y.load => y.win[q].status = "issued"
               /\ y.load <= Dist(y, q) => y.win[q].status = "completed"
    <3>1. PICK k \in Nat, h \in Nat, l \in Nat : k = Dist(x, q) /\ h = Dist(x, p) /\ l = x.load
      <4>1. x.load \in Nat
        BY Sizes DEF ContextType
      <4> QED
        BY <1>3, <4>1
    <3>2. /\ k < e => x.win[q].status # "issued"
          /\ e <= k /\ k < l => x.win[q].status = "issued"
          /\ l <= k => x.win[q].status = "completed"
      BY <3>1 DEF Ops, Phases
    <3>3. CASE q = p
      <4>1. k < d /\ k < l
        BY <3>1, <3>3
      <4> QED
        BY <1>1, <3>1, <3>3, <4>1
    <3>4. CASE q # p
      <4>1. k # h
        <5>1. RingAt(x, Dist(x, q)) = q /\ RingAt(x, Dist(x, p)) = p
          BY Ring
        <5> QED
          BY <3>1, <3>4, <5>1
      <4>2. (k < d <=> k < e) /\ (d <= k <=> e <= k)
        BY <3>1, <4>1
      <4>3. y.win[q] = x.win[q]
        BY <3>4 DEF OnlyAt
      <4> QED
        BY <1>1, <3>1, <3>2, <4>2, <4>3
    <3> QED
      BY <3>3, <3>4
  <2> QED
    BY <2>1 DEF Phases
<1>5. Sent(y)
  <2>1. ASSUME NEW q \in 0 .. IB - 1, Dist(y, q) < y.load
        PROVE  /\ y.win[q].status \in {"dispatched", "completed"} => y.win[q].prev = 0
               /\ y.win[q].status = "completed" => y.win[q].complete \in 1 .. y.cpu
    <3>1. CASE q = p
      BY <3>1
    <3>2. CASE q # p
      BY <1>1, <2>1, <3>2 DEF Ops, Sent, OnlyAt
    <3> QED
      BY <3>1, <3>2
  <2> QED
    BY <2>1 DEF Sent
<1>6. Counts(y, K)
  <2>1. ASSUME NEW q \in 0 .. IB - 1
        PROVE  /\ y.win[q].next = x.win[q].next /\ y.win[q].prev = x.win[q].prev
               /\ (Dist(y, q) < y.load /\ y.win[q].status # "completed")
                    <=> (Dist(x, q) < x.load /\ x.win[q].status # "completed")
    BY <1>1 DEF OnlyAt
  <2>2. \A r : Parents(y, r) = Parents(x, r)
    <3>1. ASSUME NEW r PROVE Parents(y, r) = Parents(x, r)
      BY <2>1, ParentsSame
    <3> QED
      BY <3>1
  <2> QED
    BY <1>1, <2>1, <2>2 DEF Ops, Counts
<1>7. \A n \in 1 .. Len(K) : Dist(y, K[n]) < y.load
  BY <1>1 DEF Ops
<1> QED
  BY <1>2, <1>4, <1>5, <1>6, <1>7 DEF Ops

(***************************************************************************)
(* dispatch, called for an operation that is in no retry list.             *)
(***************************************************************************)
LEMMA QueueKept ==
  ASSUME NEW x \in ContextType, NEW y \in ContextType, NEW p \in 0 .. IB - 1,
         NEW q, NEW type, Queue(x, q, type, {p}),
         \A r \in 0 .. IB - 1 : r # p => y.win[r] = x.win[r],
         q \in Seq(Request),
         ~(y.win[p].status = "pending" /\ y.win[p].prev = 0 /\ y.win[p].type = type)
  PROVE  Queue(y, q, type, {})
<1>1. ASSUME NEW i \in 1 .. Len(q) PROVE q[i].pos \in 0 .. IB - 1
  <2>1. q[i] \in Request
    BY ElementOfSeq
  <2> QED
    BY <2>1 DEF Request
<1> QED
  BY <1>1 DEF Queue

\* a retry list stays right when the operation set aside joins it
LEMMA QueueGrown ==
  ASSUME NEW x \in ContextType, NEW y \in ContextType, NEW p \in 0 .. IB - 1,
         NEW q, NEW type, Queue(x, q, type, {p}),
         \A r \in 0 .. IB - 1 : r # p => y.win[r] = x.win[r],
         q \in Seq(Request), NEW r \in Request, r.pos = p,
         y.win[p].status = "pending" /\ y.win[p].prev = 0 /\ y.win[p].type = type
  PROVE  Queue(y, Append(q, r), type, {})
<1>1. ASSUME NEW i \in 1 .. Len(q) PROVE q[i].pos \in 0 .. IB - 1
  <2>1. q[i] \in Request
    BY ElementOfSeq
  <2> QED
    BY <2>1 DEF Request
<1>2. PICK len \in Nat : len = Len(q)
  BY LenProperties
<1>3. PICK s \in Seq(Request) :
        /\ s = Append(q, r) /\ Len(s) = len + 1 /\ s[len + 1] = r
        /\ \A i \in 1 .. len : s[i] = q[i]
  <2>1. /\ Append(q, r) \in Seq(Request) /\ Len(Append(q, r)) = Len(q) + 1
        /\ \A i \in 1 .. Len(q) : Append(q, r)[i] = q[i]
        /\ Append(q, r)[Len(q) + 1] = r
    BY AppendProperties
  <2> QED
    BY <1>2, <2>1
<1>4. ASSUME NEW i \in 1 .. len + 1
      PROVE  i \in 1 .. len \/ i = len + 1
  BY <1>2
<1>5. \A i \in 1 .. len + 1 : /\ y.win[s[i].pos].status = "pending" /\ y.win[s[i].pos].prev = 0
                              /\ y.win[s[i].pos].type = type
  <2>1. ASSUME NEW i \in 1 .. len
        PROVE  /\ y.win[s[i].pos].status = "pending" /\ y.win[s[i].pos].prev = 0
               /\ y.win[s[i].pos].type = type
    BY <1>1, <1>2, <1>3 DEF Queue
  <2> QED
    BY <1>3, <1>4, <2>1
<1>6. \A i, j \in 1 .. len + 1 : s[i].pos = s[j].pos => i = j
  <2>1. \A i \in 1 .. len : s[i].pos # p
    BY <1>2, <1>3 DEF Queue
  <2>2. \A i, j \in 1 .. len : s[i].pos = s[j].pos => i = j
    BY <1>2, <1>3 DEF Queue
  <2> QED
    BY <1>3, <1>4, <2>1, <2>2
<1>7. ASSUME NEW k \in 0 .. IB - 1,
             y.win[k].status = "pending" /\ y.win[k].prev = 0 /\ y.win[k].type = type
      PROVE  \E i \in 1 .. len + 1 : s[i].pos = k
  <2>1. CASE k = p
    BY <1>2, <1>3, <2>1
  <2>2. CASE k # p
    <3>1. PICK i \in 1 .. len : q[i].pos = k
      BY <1>2, <1>7, <2>2 DEF Queue
    <3> QED
      BY <1>2, <1>3, <3>1
  <2> QED
    BY <2>1, <2>2
<1> QED
  BY <1>3, <1>5, <1>6, <1>7 DEF Queue

\* dispatch keeps the invariant
LEMMA DispatchOps ==
  ASSUME NEW x \in ContextType, NEW e \in Nat, NEW K,
         NEW p \in 0 .. IB - 1, NEW d \in Nat, Ops(x, e, K, {p}),
         Dist(x, p) < x.load, Dist(x, p) <= e, d = (IF Dist(x, p) = e THEN e + 1 ELSE e),
         x.win[p].status # "completed"
  PROVE  Ops(Dispatch(x, p), d, K, {})
<1>1. PICK y \in ContextType : y = Dispatch(x, p) /\ Effect(x, y, p)
  BY DispatchDoes
<1>2. OnlyAt(x, y, p) /\ y.win[p].type = x.win[p].type /\ y.win[p].prev = x.win[p].prev
  BY <1>1 DEF Effect, OnlyAt
<1>3. \A r \in 0 .. IB - 1 : r # p => y.win[r] = x.win[r]
  BY <1>2 DEF OnlyAt
<1>4. x.ldq \in Seq(Request) /\ x.stq \in Seq(Request) /\ x.win[p].prev \in Nat
  BY DEF ContextType, Op
<1>5. Queue(x, x.ldq, "LOAD", {p}) /\ Queue(x, x.stq, "STORE", {p})
  BY DEF Ops, Queues
<1>6. Queues(y, {})
  <2>1. CASE Queued(x, y, p) /\ x.win[p].prev = 0
    <3>1. PICK r \in Request :
            /\ r.pos = p
            /\ \/ x.win[p].type = "LOAD" /\ y.ldq = Append(x.ldq, r) /\ y.stq = x.stq
               \/ x.win[p].type = "STORE" /\ y.stq = Append(x.stq, r) /\ y.ldq = x.ldq
      BY <2>1 DEF Queued
    <3>2. y.win[p].status = "pending" /\ y.win[p].prev = 0
      BY <1>2, <2>1 DEF Queued
    <3>3. CASE x.win[p].type = "LOAD" /\ y.ldq = Append(x.ldq, r) /\ y.stq = x.stq
      <4>1. Queue(y, Append(x.ldq, r), "LOAD", {})
        BY <1>2, <1>3, <1>4, <1>5, <3>1, <3>2, <3>3, QueueGrown
      <4>2. Queue(y, x.stq, "STORE", {})
        BY <1>2, <1>3, <1>4, <1>5, <3>3, QueueKept
      <4> QED
        BY <3>3, <4>1, <4>2 DEF Queues
    <3>4. CASE x.win[p].type = "STORE" /\ y.stq = Append(x.stq, r) /\ y.ldq = x.ldq
      <4>1. Queue(y, Append(x.stq, r), "STORE", {})
        BY <1>2, <1>3, <1>4, <1>5, <3>1, <3>2, <3>4, QueueGrown
      <4>2. Queue(y, x.ldq, "LOAD", {})
        BY <1>2, <1>3, <1>4, <1>5, <3>4, QueueKept
      <4> QED
        BY <3>4, <4>1, <4>2 DEF Queues
    <3> QED
      BY <3>1, <3>3, <3>4
  <2>2. CASE ~(Queued(x, y, p) /\ x.win[p].prev = 0)
    <3>1. SameQueues(x, y) /\ ~(y.win[p].status = "pending" /\ y.win[p].prev = 0)
      BY <1>1, <1>2, <1>4, <2>2 DEF Effect
    <3>2. Queue(y, x.ldq, "LOAD", {}) /\ Queue(y, x.stq, "STORE", {})
      BY <1>3, <1>4, <1>5, <3>1, QueueKept
    <3> QED
      BY <3>1, <3>2 DEF Queues, SameQueues
  <2> QED
    BY <2>1, <2>2
<1>7. /\ y.win[p].status \in {"pending", "dispatched"}
      /\ y.win[p].status = "dispatched" => y.win[p].prev = 0
  BY <1>1, <1>2, <1>4 DEF Effect, Queued
<1>8. Ops(y, d, K, {})
  BY <1>2, <1>6, <1>7, OnlyOps
<1> QED
  BY <1>1, <1>8

(***************************************************************************)
(* A pending request goes to its port and leaves the retry list.           *)
(***************************************************************************)
LEMMA DistNat ==
  ASSUME NEW x \in ContextType, NEW p \in 0 .. IB - 1
  PROVE  Dist(x, p) \in Nat /\ Dist(x, p) < IB /\ x.load \in Nat
<1>1. Dist(x, p) \in 0 .. IB - 1
  BY Ring
<1> QED
  BY SMTT(30), <1>1, Sizes DEF ContextType

\* what erasing an element of a retry list leaves
LEMMA WithoutIs ==
  ASSUME NEW S, NEW s \in Seq(S), NEW i \in 1 .. Len(s)
  PROVE  /\ Without(s, i) \in Seq(S) /\ Len(Without(s, i)) = Len(s) - 1
         /\ \A j \in 1 .. Len(s) - 1 :
              Without(s, i)[j] = IF j < i THEN s[j] ELSE s[j + 1]
<1>1. PICK len \in Nat : len = Len(s)
  BY LenProperties
<1>2. PICK a \in Seq(S) : a = SubSeq(s, 1, i - 1) /\ Len(a) = i - 1 /\ \A j \in 1 .. i - 1 : a[j] = s[j]
  <2>1. \A j \in 1 .. i - 1 : s[j] \in S
    BY <1>1, ElementOfSeq
  <2>2. /\ SubSeq(s, 1, i - 1) \in Seq(S)
        /\ Len(SubSeq(s, 1, i - 1)) = IF 1 <= i - 1 THEN (i - 1) - 1 + 1 ELSE 0
        /\ \A j \in 1 .. (i - 1) - 1 + 1 : SubSeq(s, 1, i - 1)[j] = s[1 + j - 1]
    BY <2>1, SubSeqProperties
  <2>3. \A j \in 1 .. i - 1 : SubSeq(s, 1, i - 1)[j] = s[j]
    BY <1>1, <2>2
  <2>4. i \in Nat /\ i >= 1
    BY <1>1
  <2>5. Len(SubSeq(s, 1, i - 1)) = i - 1
    BY ONLY <2>2, <2>4
  <2> QED
    BY <2>2, <2>3, <2>5
<1>3. PICK b \in Seq(S) : /\ b = SubSeq(s, i + 1, len) /\ Len(b) = len - i
                          /\ \A j \in 1 .. len - i : b[j] = s[i + j]
  <2>1. \A j \in i + 1 .. len : s[j] \in S
    BY <1>1, ElementOfSeq
  <2>2. /\ SubSeq(s, i + 1, len) \in Seq(S)
        /\ Len(SubSeq(s, i + 1, len)) = IF i + 1 <= len THEN len - (i + 1) + 1 ELSE 0
        /\ \A j \in 1 .. len - (i + 1) + 1 : SubSeq(s, i + 1, len)[j] = s[i + 1 + j - 1]
    BY <1>1, <2>1, SubSeqProperties
  <2>3. ASSUME NEW j \in 1 .. len - i PROVE SubSeq(s, i + 1, len)[j] = s[i + j]
    <3>1. j \in 1 .. len - (i + 1) + 1 /\ i + 1 + j - 1 = i + j
      BY <1>1
    <3> QED
      BY <2>2, <3>1
  <2>4. i \in Nat /\ i >= 1 /\ i <= len
    BY <1>1
  <2>5. Len(SubSeq(s, i + 1, len)) = len - i
    BY ONLY <1>1, <2>2, <2>4
  <2> QED
    BY <2>2, <2>3, <2>5
<1>4. Without(s, i) = a \o b
  BY <1>1, <1>2, <1>3 DEF Without
<1>5. /\ a \o b \in Seq(S) /\ Len(a \o b) = len - 1
      /\ \A j \in 1 .. len - 1 : (a \o b)[j] = IF j <= i - 1 THEN a[j] ELSE b[j - (i - 1)]
  <2>1. /\ a \o b \in Seq(S) /\ Len(a \o b) = Len(a) + Len(b)
        /\ \A j \in 1 .. Len(a) + Len(b) : (a \o b)[j] = IF j <= Len(a) THEN a[j] ELSE b[j - Len(a)]
    BY <1>2, <1>3, ConcatProperties
  <2>2. Len(a) + Len(b) = len - 1
    <3>1. Len(a) = i - 1 /\ Len(b) = len - i /\ i \in Nat /\ len \in Nat
      BY <1>1, <1>2, <1>3
    <3> QED
      BY ONLY <3>1
  <2> QED
    BY <1>2, <2>1, <2>2
<1>6. ASSUME NEW j \in 1 .. len - 1
      PROVE  (a \o b)[j] = IF j < i THEN s[j] ELSE s[j + 1]
  <2>1. CASE j < i
    <3>1. j \in 1 .. i - 1 /\ j <= i - 1
      BY <1>1, <2>1
    <3> QED
      BY <1>2, <1>5, <2>1, <3>1
  <2>2. CASE ~(j < i)
    <3>1. PICK k \in 1 .. len - i : k = j - (i - 1) /\ i + k = j + 1 /\ ~(j <= i - 1)
      BY <1>1, <2>2
    <3>2. (a \o b)[j] = b[k]
      BY <1>5, <3>1
    <3> QED
      BY <1>3, <2>2, <3>1, <3>2
  <2> QED
    BY <2>1, <2>2
<1> QED
  BY <1>1, <1>4, <1>5, <1>6

\* a retry list stays right when an operation sent leaves it
LEMMA QueueShrunk ==
  ASSUME NEW x \in ContextType, NEW y \in ContextType, NEW p \in 0 .. IB - 1,
         NEW q \in Seq(Request), NEW type, Queue(x, q, type, {}),
         NEW i \in 1 .. Len(q), q[i].pos = p,
         \A r \in 0 .. IB - 1 : r # p => y.win[r] = x.win[r],
         y.win[p].status # "pending"
  PROVE  Queue(y, Without(q, i), type, {})
<1>1. ASSUME NEW j \in 1 .. Len(q) PROVE q[j].pos \in 0 .. IB - 1
  <2>1. q[j] \in Request
    BY ElementOfSeq
  <2> QED
    BY <2>1 DEF Request
<1>2. PICK len \in Nat : len = Len(q)
  BY LenProperties
<1>3. PICK s \in Seq(Request) :
        /\ s = Without(q, i) /\ Len(s) = len - 1
        /\ \A j \in 1 .. len - 1 : s[j] = IF j < i THEN q[j] ELSE q[j + 1]
  BY <1>2, WithoutIs
<1> DEFINE from(j) == IF j < i THEN j ELSE j + 1
<1>4. \A j \in 1 .. len - 1 : from(j) \in 1 .. len /\ from(j) # i /\ s[j] = q[from(j)]
  BY <1>2, <1>3
<1>5. \A j, k \in 1 .. len - 1 : from(j) = from(k) => j = k
  OBVIOUS
<1>6. ASSUME NEW j \in 1 .. len, j # i PROVE \E k \in 1 .. len - 1 : from(k) = j
  <2>1. CASE j < i
    <3>1. j \in 1 .. len - 1 /\ from(j) = j
      BY <1>2, <2>1
    <3> QED
      BY <3>1
  <2>2. CASE j > i
    <3>1. j - 1 \in 1 .. len - 1 /\ from(j - 1) = j
      BY <1>2, <2>2
    <3> QED
      BY <3>1
  <2> QED
    BY <1>2, <1>6, <2>1, <2>2
<1> HIDE DEF from
<1>7. \A j \in 1 .. len - 1 : /\ y.win[s[j].pos].status = "pending" /\ y.win[s[j].pos].prev = 0
                              /\ y.win[s[j].pos].type = type
  <2>1. ASSUME NEW j \in 1 .. len - 1
        PROVE  /\ y.win[s[j].pos].status = "pending" /\ y.win[s[j].pos].prev = 0
               /\ y.win[s[j].pos].type = type
    <3>1. PICK k \in 1 .. len : k # i /\ s[j] = q[k]
      BY <1>4
    <3>2. q[k].pos # p /\ q[k].pos \in 0 .. IB - 1
      BY <1>1, <1>2, <3>1 DEF Queue
    <3> QED
      BY <1>2, <3>1, <3>2 DEF Queue
  <2> QED
    BY <2>1
<1>8. \A j, k \in 1 .. len - 1 : s[j].pos = s[k].pos => j = k
  BY <1>2, <1>4, <1>5 DEF Queue
<1>9. ASSUME NEW k \in 0 .. IB - 1,
             y.win[k].status = "pending" /\ y.win[k].prev = 0 /\ y.win[k].type = type
      PROVE  \E j \in 1 .. len - 1 : s[j].pos = k
  <2>1. k # p
    BY <1>9
  <2>2. PICK m \in 1 .. len : q[m].pos = k
    BY <1>2, <1>9, <2>1 DEF Queue
  <2>3. m # i
    BY <2>1, <2>2
  <2>4. PICK j \in 1 .. len - 1 : from(j) = m
    BY <1>6, <2>3
  <2> QED
    BY <1>4, <2>2, <2>4
<1> QED
  BY <1>3, <1>7, <1>8, <1>9 DEF Queue

\* an operation in a retry list has been dispatched and waits for nothing
LEMMA WaitingOp ==
  ASSUME NEW x \in ContextType, NEW e \in Nat, NEW K, Ops(x, e, K, {}),
         NEW q \in Seq(Request), NEW type, Queue(x, q, type, {}), NEW i \in 1 .. Len(q)
  PROVE  /\ q[i] \in Request /\ q[i].pos \in 0 .. IB - 1
         /\ Dist(x, q[i].pos) < x.load /\ Dist(x, q[i].pos) < e
         /\ x.win[q[i].pos].status = "pending" /\ x.win[q[i].pos].prev = 0
         /\ x.win[q[i].pos].type = type
<1>1. q[i] \in Request
  BY ElementOfSeq
<1>2. PICK p \in 0 .. IB - 1 : p = q[i].pos
  BY <1>1 DEF Request
<1>3. x.win[p].status = "pending" /\ x.win[p].prev = 0 /\ x.win[p].type = type
  BY <1>2 DEF Queue
<1>4. PICK k \in Nat, l \in Nat : k = Dist(x, p) /\ l = x.load
  BY DistNat
<1>5. ~(e <= k /\ k < l) /\ ~(l <= k)
  BY <1>3, <1>4 DEF Ops, Phases
<1>6. k < l /\ k < e
  BY <1>4, <1>5
<1> QED
  BY <1>1, <1>2, <1>3, <1>4, <1>6

\* sending a waiting operation keeps the invariant
LEMMA SentOps ==
  ASSUME NEW x \in ContextType, NEW e \in Nat, NEW K, Ops(x, e, K, {}),
         NEW p \in 0 .. IB - 1, NEW y \in ContextType, OnlyAt(x, y, p),
         Dist(x, p) < x.load, Dist(x, p) < e,
         x.win[p].status = "pending", x.win[p].prev = 0,
         y.win[p].status = "dispatched", Queues(y, {})
  PROVE  Ops(y, e, K, {})
<1>1. y.win[p].prev = 0
  BY DEF OnlyAt
<1>2. Dist(x, p) <= e /\ e = IF Dist(x, p) = e THEN e + 1 ELSE e
  <2>1. PICK k \in Nat : k = Dist(x, p)
    BY Ring, Sizes
  <2> QED
    BY <2>1
<1> QED
  BY <1>1, <1>2, OnlyOps

\* a load sent from the retry list keeps the invariant
LEMMA RetryLoadOps ==
  ASSUME NEW x \in ContextType, NEW e \in Nat, NEW K, Ops(x, e, K, {}), NEW i \in 1 .. Len(x.ldq)
  PROVE  LET y == [SendLd(x, x.ldq[i]) EXCEPT !.ldq = Without(@, i), !.hasComplete = TRUE]
         IN  y \in ContextType /\ Ops(y, e, K, {}) /\ Still(x, y)
<1>1. x.ldq \in Seq(Request) /\ x.stq \in Seq(Request)
  BY DEF ContextType
<1>2. Queue(x, x.ldq, "LOAD", {}) /\ Queue(x, x.stq, "STORE", {})
  BY DEF Ops, Queues
<1>3. PICK r \in Request, p \in 0 .. IB - 1 :
        /\ r = x.ldq[i] /\ p = r.pos /\ Dist(x, p) < x.load /\ Dist(x, p) < e
        /\ x.win[p].status = "pending" /\ x.win[p].prev = 0 /\ x.win[p].type = "LOAD"
  <2>1. /\ x.ldq[i] \in Request /\ x.ldq[i].pos \in 0 .. IB - 1
        /\ Dist(x, x.ldq[i].pos) < x.load /\ Dist(x, x.ldq[i].pos) < e
        /\ x.win[x.ldq[i].pos].status = "pending" /\ x.win[x.ldq[i].pos].prev = 0
        /\ x.win[x.ldq[i].pos].type = "LOAD"
    BY <1>1, <1>2, WaitingOp
  <2> QED
    BY <2>1
<1>4. PICK z \in ContextType : z = SendLd(x, r) /\ SentAt(x, z, p)
  BY <1>3, SendLdDoes
<1>5. PICK q \in Seq(Request) : q = Without(x.ldq, i)
  BY <1>1, WithoutIs
<1> DEFINE y == [z EXCEPT !.ldq = q, !.hasComplete = TRUE]
<1>6. [SendLd(x, x.ldq[i]) EXCEPT !.ldq = Without(@, i), !.hasComplete = TRUE] = y
  <2>1. z.ldq = x.ldq /\ z = SendLd(x, x.ldq[i])
    BY <1>3, <1>4 DEF SentAt, SameQueues
  <2> QED
    BY ONLY <1>5, <2>1
<1>7. y \in ContextType /\ Still(z, y) /\ y.win = z.win /\ y.ldq = q /\ y.stq = z.stq
  <2>1. y \in ContextType
    BY <1>4, <1>5 DEF ContextType
  <2>2. /\ y.head = z.head /\ y.load = z.load /\ y.fetched = z.fetched /\ y.cpu = z.cpu
        /\ y.done = z.done /\ y.panic = z.panic
    BY <1>4 DEF ContextType
  <2>3. y.win = z.win /\ y.ldq = q /\ y.stq = z.stq
    BY <1>4 DEF ContextType
  <2> QED
    BY <2>1, <2>2, <2>3 DEF Still
<1> HIDE DEF y
<1>8. OnlyAt(x, y, p) /\ y.win[p].status = "dispatched" /\ y.stq = x.stq
  <2>1. OnlyAt(z, y, p)
    BY <1>7, StillOnly
  <2>2. OnlyAt(x, y, p)
    BY <1>4, <2>1, OnlyAtTrans DEF SentAt
  <2> QED
    BY <1>4, <1>7, <2>2 DEF SentAt, SameQueues
<1>9. \A k \in 0 .. IB - 1 : k # p => y.win[k] = x.win[k]
  BY <1>8 DEF OnlyAt
<1>10. Queue(y, q, "LOAD", {})
  BY SMTT(30), <1>1, <1>2, <1>3, <1>5, <1>7, <1>8, <1>9, QueueShrunk
<1>11. Queue(x, x.stq, "STORE", {p})
  BY SMTT(30), <1>2, <1>3 DEF Queue
<1>12. Queue(y, x.stq, "STORE", {})
  BY <1>1, <1>7, <1>8, <1>9, <1>11, QueueKept
<1>13. Queues(y, {})
  BY <1>7, <1>8, <1>10, <1>12 DEF Queues
<1>14. Ops(y, e, K, {})
  BY <1>3, <1>7, <1>8, <1>13, SentOps
<1> QED
  BY <1>6, <1>7, <1>8, <1>14 DEF OnlyAt

\* a store sent from the retry list keeps the invariant
LEMMA RetryStoreOps ==
  ASSUME NEW x \in ContextType, NEW e \in Nat, NEW K, Ops(x, e, K, {}), NEW i \in 1 .. Len(x.stq)
  PROVE  LET y == [SendSt(x, x.stq[i]) EXCEPT !.stq = Without(@, i), !.hasComplete = TRUE]
         IN  y \in ContextType /\ Ops(y, e, K, {}) /\ Still(x, y)
<1>1. x.ldq \in Seq(Request) /\ x.stq \in Seq(Request)
  BY DEF ContextType
<1>2. Queue(x, x.ldq, "LOAD", {}) /\ Queue(x, x.stq, "STORE", {})
  BY DEF Ops, Queues
<1>3. PICK r \in Request, p \in 0 .. IB - 1 :
        /\ r = x.stq[i] /\ p = r.pos /\ Dist(x, p) < x.load /\ Dist(x, p) < e
        /\ x.win[p].status = "pending" /\ x.win[p].prev = 0 /\ x.win[p].type = "STORE"
  <2>1. /\ x.stq[i] \in Request /\ x.stq[i].pos \in 0 .. IB - 1
        /\ Dist(x, x.stq[i].pos) < x.load /\ Dist(x, x.stq[i].pos) < e
        /\ x.win[x.stq[i].pos].status = "pending" /\ x.win[x.stq[i].pos].prev = 0
        /\ x.win[x.stq[i].pos].type = "STORE"
    BY <1>1, <1>2, WaitingOp
  <2> QED
    BY <2>1
<1>4. PICK z \in ContextType : z = SendSt(x, r) /\ SentAt(x, z, p)
  BY <1>3, SendStDoes
<1>5. PICK q \in Seq(Request) : q = Without(x.stq, i)
  BY <1>1, WithoutIs
<1> DEFINE y == [z EXCEPT !.stq = q, !.hasComplete = TRUE]
<1>6. [SendSt(x, x.stq[i]) EXCEPT !.stq = Without(@, i), !.hasComplete = TRUE] = y
  <2>1. z.stq = x.stq /\ z = SendSt(x, x.stq[i])
    BY <1>3, <1>4 DEF SentAt, SameQueues
  <2> QED
    BY ONLY <1>5, <2>1
<1>7. y \in ContextType /\ Still(z, y) /\ y.win = z.win /\ y.stq = q /\ y.ldq = z.ldq
  <2>1. y \in ContextType
    BY <1>4, <1>5 DEF ContextType
  <2>2. /\ y.head = z.head /\ y.load = z.load /\ y.fetched = z.fetched /\ y.cpu = z.cpu
        /\ y.done = z.done /\ y.panic = z.panic
    BY <1>4 DEF ContextType
  <2>3. y.win = z.win /\ y.stq = q /\ y.ldq = z.ldq
    BY <1>4 DEF ContextType
  <2> QED
    BY <2>1, <2>2, <2>3 DEF Still
<1> HIDE DEF y
<1>8. OnlyAt(x, y, p) /\ y.win[p].status = "dispatched" /\ y.ldq = x.ldq
  <2>1. OnlyAt(z, y, p)
    BY <1>7, StillOnly
  <2>2. OnlyAt(x, y, p)
    BY <1>4, <2>1, OnlyAtTrans DEF SentAt
  <2> QED
    BY <1>4, <1>7, <2>2 DEF SentAt, SameQueues
<1>9. \A k \in 0 .. IB - 1 : k # p => y.win[k] = x.win[k]
  BY <1>8 DEF OnlyAt
<1>10. Queue(y, q, "STORE", {})
  BY <1>1, <1>2, <1>3, <1>5, <1>7, <1>8, <1>9, QueueShrunk
<1>11. Queue(x, x.ldq, "LOAD", {p})
  BY <1>2, <1>3 DEF Queue
<1>12. Queue(y, x.ldq, "LOAD", {})
  BY <1>1, <1>7, <1>8, <1>9, <1>11, QueueKept
<1>13. Queues(y, {})
  BY <1>7, <1>8, <1>10, <1>12 DEF Queues
<1>14. Ops(y, e, K, {})
  BY <1>3, <1>7, <1>8, <1>13, SentOps
<1> QED
  BY <1>6, <1>7, <1>8, <1>14 DEF OnlyAt

(***************************************************************************)
(* A sent operation whose answer has come is marked completed, and its     *)
(* children are to be told.                                                *)
(***************************************************************************)
LEMMA QueueAside ==
  ASSUME NEW x, NEW p, NEW q, NEW type, Queue(x, q, type, {}),
         ~(x.win[p].status = "pending" /\ x.win[p].prev = 0 /\ x.win[p].type = type)
  PROVE  Queue(x, q, type, {p})
BY DEF Queue

\* completing an operation keeps the invariant, its children to be told
LEMMA MarkOps ==
  ASSUME NEW x \in ContextType, NEW e \in Nat, Ops(x, e, <<>>, {}), NEW p \in 0 .. IB - 1,
         x.win[p].status = "dispatched", x.win[p].complete \in 1 .. x.cpu
  PROVE  LET y == [x EXCEPT !.win[p].status = "completed"]
         IN  /\ y \in ContextType /\ OnlyAt(x, y, p) /\ y.win[p].status = "completed"
             /\ Ops(y, e, Children(x, p), {})
             /\ Dist(x, p) < x.load /\ Dist(x, p) < e
<1>1. x.win \in [0 .. IB - 1 -> Op] /\ x.win[p] \in Op /\ x.ldq \in Seq(Request) /\ x.stq \in Seq(Request)
  BY DEF ContextType
<1>2. PICK o \in Op : o = [x.win[p] EXCEPT !.status = "completed"]
  BY <1>1 DEF Op
<1>3. /\ o.status = "completed" /\ o.next = x.win[p].next /\ o.type = x.win[p].type
      /\ o.prev = x.win[p].prev /\ o.complete = x.win[p].complete
  BY <1>1, <1>2 DEF Op
<1> DEFINE y == [x EXCEPT !.win = [x.win EXCEPT ![p] = o]]
<1>4. [x EXCEPT !.win[p].status = "completed"] = y
  BY <1>1, <1>2 DEF ContextType
<1>5. y \in ContextType /\ OnlyAt(x, y, p) /\ SameQueues(x, y) /\ y.win[p] = o
  BY <1>3, SetOp
<1> HIDE DEF y
<1>6. /\ \A q : Dist(y, q) = Dist(x, q)
      /\ y.load = x.load /\ y.head = x.head /\ y.cpu = x.cpu /\ (y.panic <=> x.panic)
      /\ \A q \in 0 .. IB - 1 : q # p => y.win[q] = x.win[q]
  BY <1>5 DEF Dist, OnlyAt, Still
<1>7. Dist(x, p) < x.load /\ Dist(x, p) < e
  <2>1. PICK k \in Nat, l \in Nat : k = Dist(x, p) /\ l = x.load
    BY DistNat
  <2>2. ~(e <= k /\ k < l) /\ ~(l <= k)
    BY <2>1 DEF Ops, Phases
  <2>3. k < l /\ k < e
    BY <2>1, <2>2
  <2> QED
    BY <2>1, <2>3
<1>8. Aligned(y) /\ Pattern(y) /\ y.panic = FALSE
  <2>1. Aligned(y)
    BY <1>6 DEF Ops, Aligned
  <2>2. Pattern(y)
    BY <1>5 DEF Ops, Pattern, OnlyAt
  <2>3. y.panic \in BOOLEAN /\ x.panic = FALSE
    BY <1>5 DEF Ops, ContextType
  <2> QED
    BY <1>6, <2>1, <2>2, <2>3
<1>9. Phases(y, e)
  <2>1. ASSUME NEW q \in 0 .. IB - 1
        PROVE  /\ Dist(y, q) < e => y.win[q].status # "issued"
               /\ e <= Dist(y, q) /\ Dist(y, q) < y.load => y.win[q].status = "issued"
               /\ y.load <= Dist(y, q) => y.win[q].status = "completed"
    <3>1. CASE q = p
      <4>1. Dist(x, p) \in Nat /\ x.load \in Nat
        BY DistNat
      <4> QED
        BY <1>3, <1>5, <1>6, <1>7, <3>1, <4>1
    <3>2. CASE q # p
      BY <1>6, <3>2 DEF Ops, Phases
    <3> QED
      BY <3>1, <3>2
  <2> QED
    BY <2>1 DEF Phases
<1>10. Sent(y)
  <2>1. ASSUME NEW q \in 0 .. IB - 1, Dist(y, q) < y.load
        PROVE  /\ y.win[q].status \in {"dispatched", "completed"} => y.win[q].prev = 0
               /\ y.win[q].status = "completed" => y.win[q].complete \in 1 .. y.cpu
    <3>1. CASE q = p
      <4>1. x.win[p].prev = 0
        BY <1>7 DEF Ops, Sent
      <4> QED
        BY <1>3, <1>5, <1>6, <3>1, <4>1
    <3>2. CASE q # p
      BY <1>6, <2>1, <3>2 DEF Ops, Sent
    <3> QED
      BY <3>1, <3>2
  <2> QED
    BY <2>1 DEF Sent
<1>11. Queues(y, {})
  <2>1. Queue(x, x.ldq, "LOAD", {p}) /\ Queue(x, x.stq, "STORE", {p})
    BY QueueAside DEF Ops, Queues
  <2>2. y.win[p].status # "pending"
    BY <1>3, <1>5
  <2>3. Queue(y, x.ldq, "LOAD", {}) /\ Queue(y, x.stq, "STORE", {})
    BY <1>1, <1>5, <1>6, <2>1, <2>2, QueueKept
  <2> QED
    BY <1>5, <2>3 DEF Queues, SameQueues
<1>12. Counts(y, Children(x, p))
  <2>1. Aligned(x) /\ Pattern(x)
    BY DEF Ops
  <2>2. /\ x.win[p].status # "completed" /\ y.win[p].status = "completed"
        /\ y.win[p].next = x.win[p].next
    BY <1>3, <1>5
  <2>3. ASSUME NEW r \in 0 .. IB - 1, Dist(y, r) < y.load
        PROVE  y.win[r].prev = Cardinality(Parents(y, r)) + Cardinality(Told(Children(x, p), r))
    <3>1. Cardinality(Parents(x, r))
            = Cardinality(Parents(y, r)) + Cardinality(Told(Children(x, p), r))
      BY <1>5, <1>6, <1>7, <2>1, <2>2, MarkCounts
    <3>2. x.win[r].prev = Cardinality(Parents(x, r)) + Cardinality(Told(<<>>, r))
      BY <1>6, <2>3 DEF Ops, Counts
    <3>3. Cardinality(Told(<<>>, r)) = 0
      <4>1. Told(<<>>, r) = {}
        BY DEF Told
      <4> QED
        BY <4>1, FS_EmptySet
    <3>4. Cardinality(Parents(x, r)) \in Nat
      BY ParentsFinite
    <3>5. y.win[r].prev = x.win[r].prev
      BY <1>5 DEF OnlyAt
    <3> QED
      BY <3>1, <3>2, <3>3, <3>4, <3>5
  <2> QED
    BY <2>3 DEF Counts
<1>13. \A n \in 1 .. Len(Children(x, p)) : Dist(y, Children(x, p)[n]) < y.load
  BY <1>6, <1>7, ChildrenAre DEF Ops
<1>14. Ops(y, e, Children(x, p), {})
  BY <1>8, <1>9, <1>10, <1>11, <1>12, <1>13 DEF Ops
<1> QED
  BY <1>3, <1>4, <1>5, <1>7, <1>14

(***************************************************************************)
(* Telling a child that one parent less keeps it waiting.                  *)
(***************************************************************************)
OneLess(x, p) == [x EXCEPT !.win[p].prev = @ - 1]

\* counting a notification keeps the invariant but for the operation told
LEMMA TellOps ==
  ASSUME NEW x \in ContextType, NEW e \in Nat, NEW K \in Seq(0 .. IB - 1), K # <<>>,
         Ops(x, e, K, {}), NEW p \in 0 .. IB - 1, p = Head(K)
  PROVE  /\ OneLess(x, p) \in ContextType /\ Still(x, OneLess(x, p))
         /\ Ops(OneLess(x, p), e, Tail(K), {p})
         /\ Dist(x, p) < x.load /\ Dist(x, p) \in Nat
         /\ x.win[p].prev \in Nat \ {0} /\ x.win[p].status \in {"issued", "pending"}
         /\ OneLess(x, p).win[p].status = x.win[p].status
         /\ OneLess(x, p).win[p].prev > 0 \/ x.win[p].status # "pending" =>
              Ops(OneLess(x, p), e, Tail(K), {})
<1>1. x.win \in [0 .. IB - 1 -> Op] /\ x.win[p] \in Op /\ x.ldq \in Seq(Request) /\ x.stq \in Seq(Request)
  BY DEF ContextType
<1>2. PICK len \in Nat : len = Len(K) /\ len >= 1 /\ K[1] = p
  BY LenProperties, EmptySeq, HeadTailProperties
<1>3. Dist(x, p) < x.load /\ Dist(x, p) \in Nat
  BY <1>2, DistNat DEF Ops
<1>4. \A r : Cardinality(Told(K, r)) = Cardinality(Told(Tail(K), r)) + (IF p = r THEN 1 ELSE 0)
  BY TailCounts
<1>5. Tail(K) \in Seq(0 .. IB - 1)
  BY HeadTailProperties
<1>6. ASSUME NEW r PROVE Cardinality(Parents(x, r)) \in Nat /\ Cardinality(Told(Tail(K), r)) \in Nat
  BY <1>5, ParentsFinite, ToldFinite
<1>7. PICK n \in Nat : n = x.win[p].prev /\ n > 0
  <2>1. x.win[p].prev = Cardinality(Parents(x, p)) + Cardinality(Told(K, p))
    BY <1>3 DEF Ops, Counts
  <2>2. PICK a \in Nat, b \in Nat : a = Cardinality(Parents(x, p)) /\ b = Cardinality(Told(Tail(K), p))
    BY <1>6
  <2>3. Cardinality(Told(K, p)) = b + 1
    BY <1>4, <2>2
  <2> QED
    BY <2>1, <2>2, <2>3
<1>8. x.win[p].status \in {"issued", "pending"}
  BY <1>1, <1>3, <1>7 DEF Ops, Sent, Op
<1>9. PICK o \in Op : o = [x.win[p] EXCEPT !.prev = n - 1]
  <2>1. PICK m \in Nat : m = n - 1
    BY <1>7
  <2>2. [x.win[p] EXCEPT !.prev = m] \in Op
    BY <1>1, <2>1 DEF Op
  <2> QED
    BY <2>1, <2>2
<1>10. /\ o.prev = n - 1 /\ o.next = x.win[p].next /\ o.type = x.win[p].type
       /\ o.status = x.win[p].status
  BY <1>1, <1>9 DEF Op
<1>11. PICK w \in [0 .. IB - 1 -> Op] : w = [x.win EXCEPT ![p] = o]
  BY <1>1, <1>9
<1> DEFINE y == [x EXCEPT !.win = w]
<1>12. OneLess(x, p) = y
  BY <1>1, <1>7, <1>9, <1>11 DEF ContextType, OneLess
<1>13. y \in ContextType /\ Still(x, y) /\ SameQueues(x, y) /\ y.win = w
  BY <1>11 DEF ContextType, Still, SameQueues
<1> HIDE DEF y
<1>14. /\ \A q : Dist(y, q) = Dist(x, q)
       /\ y.load = x.load /\ y.head = x.head /\ y.cpu = x.cpu /\ (y.panic <=> x.panic)
       /\ \A q \in 0 .. IB - 1 : q # p => y.win[q] = x.win[q]
       /\ y.win[p] = o
  BY <1>1, <1>11, <1>13 DEF Dist, Still
<1>15. \A q \in 0 .. IB - 1 : /\ y.win[q].next = x.win[q].next /\ y.win[q].type = x.win[q].type
                              /\ y.win[q].status = x.win[q].status
  BY <1>10, <1>14
<1>16. Aligned(y) /\ Pattern(y) /\ y.panic = FALSE
  <2>1. Aligned(y)
    BY <1>14 DEF Ops, Aligned
  <2>2. Pattern(y)
    BY <1>15 DEF Ops, Pattern
  <2>3. y.panic \in BOOLEAN /\ x.panic = FALSE
    BY <1>13 DEF Ops, ContextType
  <2> QED
    BY <1>14, <2>1, <2>2, <2>3
<1>17. Phases(y, e)
  BY <1>14, <1>15 DEF Ops, Phases
<1>18. Sent(y)
  <2>1. ASSUME NEW q \in 0 .. IB - 1, Dist(y, q) < y.load
        PROVE  /\ y.win[q].status \in {"dispatched", "completed"} => y.win[q].prev = 0
               /\ y.win[q].status = "completed" => y.win[q].complete \in 1 .. y.cpu
    <3>1. CASE q = p
      BY <1>8, <1>15, <3>1
    <3>2. CASE q # p
      BY <1>14, <2>1, <3>2 DEF Ops, Sent
    <3> QED
      BY <3>1, <3>2
  <2> QED
    BY <2>1 DEF Sent
<1>19. Queues(x, {p})
  <2>1. Queue(x, x.ldq, "LOAD", {}) /\ Queue(x, x.stq, "STORE", {}) /\ x.win[p].prev # 0
    BY <1>7 DEF Ops, Queues
  <2>2. Queue(x, x.ldq, "LOAD", {p}) /\ Queue(x, x.stq, "STORE", {p})
    BY <2>1, QueueAside
  <2> QED
    BY <2>2 DEF Queues
<1>20. Queues(y, {p})
  <2>1. ASSUME NEW q \in Seq(Request), NEW i \in 1 .. Len(q) PROVE q[i].pos \in 0 .. IB - 1
    <3>1. q[i] \in Request
      BY ElementOfSeq
    <3> QED
      BY <3>1 DEF Request
  <2>2. ASSUME NEW q \in Seq(Request), NEW type, Queue(x, q, type, {p}) PROVE Queue(y, q, type, {p})
    BY <1>14, <2>1, <2>2 DEF Queue
  <2> QED
    BY <1>1, <1>13, <1>19, <2>2 DEF Queues, SameQueues
<1>21. Counts(y, Tail(K))
  <2>1. ASSUME NEW r \in 0 .. IB - 1, Dist(y, r) < y.load
        PROVE  y.win[r].prev = Cardinality(Parents(y, r)) + Cardinality(Told(Tail(K), r))
    <3>1. Parents(y, r) = Parents(x, r)
      <4>1. ASSUME NEW q \in 0 .. IB - 1
            PROVE  /\ y.win[q].next = x.win[q].next
                   /\ (Dist(y, q) < y.load /\ y.win[q].status # "completed")
                        <=> (Dist(x, q) < x.load /\ x.win[q].status # "completed")
        BY <1>14, <1>15
      <4> QED
        BY <1>13, <4>1, ParentsSame
    <3>2. x.win[r].prev = Cardinality(Parents(x, r)) + Cardinality(Told(K, r))
      BY <1>14, <2>1 DEF Ops, Counts
    <3>3. PICK a \in Nat, b \in Nat : a = Cardinality(Parents(x, r)) /\ b = Cardinality(Told(Tail(K), r))
      BY <1>6
    <3>4. CASE r = p
      <4>1. Cardinality(Told(K, r)) = b + 1
        BY <1>4, <3>3, <3>4
      <4>2. n = a + (b + 1) /\ y.win[r].prev = n - 1
        BY <1>7, <1>10, <1>14, <3>2, <3>3, <3>4, <4>1
      <4>3. n - 1 = a + b
        BY <3>3, <4>2
      <4> QED
        BY <3>1, <3>3, <4>2, <4>3
    <3>5. CASE r # p
      <4>1. Cardinality(Told(K, r)) = b
        BY <1>4, <3>3, <3>5
      <4> QED
        BY <1>14, <3>1, <3>2, <3>3, <3>5, <4>1
    <3> QED
      BY <3>4, <3>5
  <2> QED
    BY <2>1 DEF Counts
<1>22. \A i \in 1 .. Len(Tail(K)) : Dist(y, Tail(K)[i]) < y.load
  <2>1. /\ Len(Tail(K)) = len - 1 /\ \A i \in 1 .. Len(Tail(K)) : Tail(K)[i] = K[i + 1]
    BY <1>2, HeadTailProperties
  <2>2. \A i \in 1 .. len : Dist(x, K[i]) < x.load
    BY <1>2 DEF Ops
  <2> QED
    BY <1>2, <1>14, <2>1, <2>2
<1>23. Ops(y, e, Tail(K), {p})
  BY <1>16, <1>17, <1>18, <1>20, <1>21, <1>22 DEF Ops
<1>24. ASSUME y.win[p].prev > 0 \/ x.win[p].status # "pending" PROVE Ops(y, e, Tail(K), {})
  <2>1. ~(y.win[p].status = "pending" /\ y.win[p].prev = 0)
    BY <1>10, <1>14, <1>24
  <2>2. Queue(x, x.ldq, "LOAD", {p}) /\ Queue(x, x.stq, "STORE", {p})
    BY <1>19 DEF Queues
  <2>3. Queue(y, x.ldq, "LOAD", {}) /\ Queue(y, x.stq, "STORE", {})
    BY <1>1, <1>13, <1>14, <2>1, <2>2, QueueKept
  <2>4. Queues(y, {})
    BY <1>13, <2>3 DEF Queues, SameQueues
  <2> QED
    BY <1>16, <1>17, <1>18, <1>21, <1>22, <2>4 DEF Ops
<1>25. x.win[p].prev \in Nat \ {0} /\ y.win[p].status = x.win[p].status
  BY <1>7, <1>15
<1> QED
  BY <1>3, <1>8, <1>12, <1>13, <1>23, <1>24, <1>25

\* a notification keeps the invariant
LEMMA NotifyOps ==
  ASSUME NEW x \in ContextType, NEW e \in Nat, NEW K \in Seq(0 .. IB - 1), K # <<>>,
         Ops(x, e, K, {})
  PROVE  /\ Notify(x, Head(K)) \in ContextType /\ Still(x, Notify(x, Head(K)))
         /\ Ops(Notify(x, Head(K)), e, Tail(K), {})
<1>1. PICK p \in 0 .. IB - 1 : p = Head(K)
  BY HeadTailProperties
<1>2. PICK y : y = OneLess(x, p)
  OBVIOUS
<1>3. /\ y \in ContextType /\ Still(x, y) /\ Ops(y, e, Tail(K), {p})
      /\ Dist(x, p) < x.load /\ Dist(x, p) \in Nat
      /\ x.win[p].prev \in Nat \ {0} /\ x.win[p].status \in {"issued", "pending"}
      /\ y.win[p].status = x.win[p].status
      /\ y.win[p].prev > 0 \/ x.win[p].status # "pending" => Ops(y, e, Tail(K), {})
  BY ZenonT(30), <1>1, <1>2, TellOps
<1>4. Notify(x, p) = IF y.win[p].prev = 0 /\ y.win[p].status = "pending" THEN Dispatch(y, p) ELSE y
  BY <1>2, <1>3 DEF Notify, OneLess
<1>5. CASE y.win[p].prev = 0 /\ y.win[p].status = "pending"
  <2>1. Dist(y, p) = Dist(x, p) /\ y.load = x.load
    BY <1>3 DEF Still, Dist
  <2>2. Dist(x, p) < e
    <3>1. PICK k \in Nat, l \in Nat : k = Dist(x, p) /\ l = x.load
      BY DistNat
    <3>2. ~(e <= k /\ k < l)
      BY <1>3, <1>5, <3>1 DEF Ops, Phases
    <3> QED
      BY <1>3, <3>1, <3>2
  <2>3. Dist(y, p) <= e /\ e = IF Dist(y, p) = e THEN e + 1 ELSE e
    BY <1>3, <2>1, <2>2
  <2>4. Ops(Dispatch(y, p), e, Tail(K), {})
    BY <1>3, <1>5, <2>1, <2>3, DispatchOps
  <2>5. Dispatch(y, p) \in ContextType /\ Still(y, Dispatch(y, p))
    BY <1>3, DispatchDoes DEF Effect, OnlyAt
  <2>6. Still(x, Dispatch(y, p))
    BY <1>3, <2>5 DEF Still
  <2> QED
    BY <1>1, <1>4, <1>5, <2>4, <2>5, <2>6
<1>6. CASE ~(y.win[p].prev = 0 /\ y.win[p].status = "pending")
  <2>1. y.win[p].prev > 0 \/ x.win[p].status # "pending"
    <3>1. y.win[p].prev \in Nat
      BY <1>3 DEF ContextType, Op
    <3> QED
      BY <1>3, <1>6, <3>1
  <2> QED
    BY <1>1, <1>3, <1>4, <1>6, <2>1
<1> QED
  BY <1>5, <1>6

(***************************************************************************)
(* retire_head, in its three parts: the head leaves, the window is         *)
(* refilled, the operation that enters the reorder buffer is dispatched.   *)
(***************************************************************************)
HeadLeaves(x) == [x EXCEPT !.head = After(x, @), !.load = @ - 1]

\* when the head leaves, all others are one nearer to it
LEMMA LeaveDoes ==
  ASSUME NEW x \in ContextType, x.load >= 1
  PROVE  /\ HeadLeaves(x) \in ContextType /\ SameQueues(x, HeadLeaves(x))
         /\ HeadLeaves(x).win = x.win /\ HeadLeaves(x).load = x.load - 1
         /\ HeadLeaves(x).head = After(x, x.head)
         /\ HeadLeaves(x).fetched = x.fetched /\ HeadLeaves(x).cpu = x.cpu
         /\ (HeadLeaves(x).done <=> x.done) /\ (HeadLeaves(x).panic <=> x.panic)
         /\ \A q \in 0 .. IB - 1 :
              Dist(HeadLeaves(x), q) = IF q = x.head THEN IB - 1 ELSE Dist(x, q) - 1
<1>1. IB \in Nat \ {0} /\ x.head \in 0 .. IB - 1 /\ x.ib = IB /\ x.load \in 0 .. IB
  BY Sizes DEF ContextType
<1>2. PICK h \in 0 .. IB - 1 : h = After(x, x.head) /\ h = IF x.head + 1 = IB THEN 0 ELSE x.head + 1
  BY <1>1 DEF After
<1>3. PICK l \in 0 .. IB : l = x.load - 1
  BY <1>1
<1> DEFINE y == [x EXCEPT !.head = h, !.load = l]
<1>4. HeadLeaves(x) = y
  BY <1>2, <1>3 DEF HeadLeaves, ContextType
<1>5. y \in ContextType
  BY <1>2, <1>3 DEF ContextType
<1>6. /\ SameQueues(x, y) /\ y.win = x.win /\ y.load = l /\ y.head = h
      /\ y.fetched = x.fetched /\ y.cpu = x.cpu
      /\ (y.done <=> x.done) /\ (y.panic <=> x.panic)
  BY DEF ContextType, SameQueues
<1> HIDE DEF y
<1>7. \A q \in 0 .. IB - 1 : Dist(y, q) = IF q = x.head THEN IB - 1 ELSE Dist(x, q) - 1
  BY <1>1, <1>2, <1>6 DEF Dist
<1> QED
  BY <1>2, <1>3, <1>4, <1>5, <1>6, <1>7

\* the head leaving keeps the invariant
LEMMA LeaveOps ==
  ASSUME NEW x \in ContextType, NEW e \in Nat \ {0}, NEW K \in Seq(0 .. IB - 1),
         Ops(x, e, K, {}), x.load >= 1, x.win[x.head].status = "completed",
         \A n \in 1 .. Len(K) : K[n] # x.head
  PROVE  Ops(HeadLeaves(x), e - 1, K, {})
<1>1. IB \in Nat \ {0} /\ x.head \in 0 .. IB - 1 /\ x.ib = IB /\ x.load \in 0 .. IB
  BY Sizes DEF ContextType
<1>2. PICK y \in ContextType :
        /\ y = HeadLeaves(x) /\ SameQueues(x, y) /\ y.win = x.win /\ y.load = x.load - 1
        /\ y.head = After(x, x.head) /\ y.fetched = x.fetched /\ y.cpu = x.cpu
        /\ (y.done <=> x.done) /\ (y.panic <=> x.panic)
        /\ \A q \in 0 .. IB - 1 : Dist(y, q) = IF q = x.head THEN IB - 1 ELSE Dist(x, q) - 1
  BY LeaveDoes
<1>3. Aligned(y)
  <2>1. PICK a \in Nat : a = x.head + x.load /\ Multiple(a, W)
    BY <1>1 DEF Ops, Aligned
  <2>2. y.head + y.load = a \/ (y.head + y.load = a - IB /\ IB <= a)
    <3>1. PICK h \in 0 .. IB - 1, l \in 0 .. IB : h = x.head /\ l = x.load /\ l >= 1 /\ a = h + l
      BY <1>1, <2>1
    <3>2. y.load = l - 1 /\ y.head = IF h + 1 = IB THEN 0 ELSE h + 1
      BY <1>1, <1>2, <3>1 DEF After
    <3>3. CASE h + 1 = IB
      BY <1>1, <3>1, <3>2, <3>3
    <3>4. CASE h + 1 # IB
      BY SMTT(30), <1>1, <3>1, <3>2, <3>4
    <3> QED
      BY <3>3, <3>4
  <2>3. CASE y.head + y.load = a
    BY <2>1, <2>3 DEF Aligned
  <2>4. CASE y.head + y.load = a - IB /\ IB <= a
    BY <1>1, <2>1, <2>4, Sizes, MultipleLess DEF Aligned
  <2> QED
    BY <2>2, <2>3, <2>4
<1>4. Pattern(y) /\ y.panic = FALSE
  <2>1. Pattern(y)
    BY <1>2 DEF Ops, Pattern
  <2>2. y.panic \in BOOLEAN /\ x.panic = FALSE
    BY DEF Ops, ContextType
  <2> QED
    BY <1>2, <2>1, <2>2
<1>5. ASSUME NEW q \in 0 .. IB - 1
      PROVE  /\ q = x.head => ~(Dist(y, q) < y.load)
             /\ q # x.head => /\ Dist(y, q) < y.load <=> Dist(x, q) < x.load
                              /\ Dist(y, q) < e - 1 <=> Dist(x, q) < e
                              /\ e - 1 <= Dist(y, q) <=> e <= Dist(x, q)
                              /\ y.load <= Dist(y, q) <=> x.load <= Dist(x, q)
             /\ Dist(y, q) < y.load => Dist(x, q) < x.load
  <2>1. PICK k \in Nat, l \in Nat : k = Dist(x, q) /\ l = x.load /\ l <= IB
    BY <1>1, DistNat
  <2>2. Dist(y, q) = IF q = x.head THEN IB - 1 ELSE k - 1
    BY <1>2, <2>1
  <2>3. y.load = l - 1
    BY <1>2, <2>1
  <2> QED
    BY <1>1, <2>1, <2>2, <2>3
<1>6. Phases(y, e - 1)
  <2>1. ASSUME NEW q \in 0 .. IB - 1
        PROVE  /\ Dist(y, q) < e - 1 => y.win[q].status # "issued"
               /\ e - 1 <= Dist(y, q) /\ Dist(y, q) < y.load => y.win[q].status = "issued"
               /\ y.load <= Dist(y, q) => y.win[q].status = "completed"
    <3>1. CASE q = x.head
      BY <1>2, <1>5, <3>1
    <3>2. CASE q # x.head
      BY <1>2, <1>5, <3>2 DEF Ops, Phases
    <3> QED
      BY <3>1, <3>2
  <2> QED
    BY <2>1 DEF Phases
<1>7. Sent(y)
  BY <1>2, <1>5 DEF Ops, Sent
<1>8. Queues(y, {})
  <2>1. Queue(x, x.ldq, "LOAD", {}) /\ Queue(x, x.stq, "STORE", {})
    BY DEF Ops, Queues
  <2>2. ASSUME NEW q, NEW type, Queue(x, q, type, {}) PROVE Queue(y, q, type, {})
    BY <1>2, <2>2 DEF Queue
  <2> QED
    BY <1>2, <2>1, <2>2 DEF Queues, SameQueues
<1>9. Counts(y, K)
  <2>1. ASSUME NEW q \in 0 .. IB - 1
        PROVE  /\ y.win[q].next = x.win[q].next
               /\ (Dist(y, q) < y.load /\ y.win[q].status # "completed")
                    <=> (Dist(x, q) < x.load /\ x.win[q].status # "completed")
    BY <1>2, <1>5
  <2>2. ASSUME NEW r PROVE Parents(y, r) = Parents(x, r)
    BY <2>1, ParentsSame
  <2> QED
    BY <1>2, <1>5, <2>2 DEF Ops, Counts
<1>10. \A n \in 1 .. Len(K) : Dist(y, K[n]) < y.load
  <2>1. ASSUME NEW n \in 1 .. Len(K) PROVE K[n] \in 0 .. IB - 1
    BY ElementOfSeq
  <2> QED
    BY <1>5, <2>1 DEF Ops
<1> QED
  BY <1>2, <1>3, <1>4, <1>6, <1>7, <1>8, <1>9, <1>10 DEF Ops

(***************************************************************************)
(* fetch_global_step: the positions it overwrites are those right behind   *)
(* the window.                                                             *)
(***************************************************************************)
Fetched(x, m, p) == x.load <= Dist(x, p) /\ Dist(x, p) < x.load + m

\* an operation just fetched is its template
LEMMA FreshOpType ==
  ASSUME NEW p \in Nat
  PROVE  /\ (p % W) + 1 \in 1 .. W
         /\ FreshOp((p % W) + 1) \in Op
         /\ FreshOp((p % W) + 1).prev = Cardinality(Edges((p % W) + 1))
         /\ FreshOp((p % W) + 1).status = "issued"
         /\ FreshOp((p % W) + 1).next = Step[(p % W) + 1].next
         /\ FreshOp((p % W) + 1).type = Step[(p % W) + 1].type
<1>1. PICK k \in 1 .. W : k = (p % W) + 1
  <2>1. p % W \in 0 .. W - 1 /\ W \in Nat \ {0}
    BY Sizes, DivMod
  <2> QED
    BY <2>1
<1>2. Step[k] \in OpTemplate
  BY ContextConstants DEF W
<1>3. Step[k].prev = Cardinality(Edges(k))
  BY StepIsForward
<1> QED
  BY <1>1, <1>2, <1>3 DEF FreshOp, Op, OpTemplate

\* what fetching whole global steps writes
LEMMA FetchDoes ==
  ASSUME NEW x \in ContextType, Aligned(x), NEW n \in Nat, NEW m \in Nat, m = n * W,
         x.load + m <= IB, x.fetched + n <= Last
  PROVE  LET y == FetchSteps(x, n)
         IN  /\ y \in ContextType /\ SameQueues(x, y)
             /\ y.head = x.head /\ y.load = x.load + m /\ y.fetched = x.fetched + n
             /\ y.cpu = x.cpu /\ (y.done <=> x.done) /\ (y.panic <=> x.panic)
             /\ \A p \in 0 .. IB - 1 :
                  /\ Fetched(x, m, p) <=> Place(x, p) < m
                  /\ y.win[p] = IF Fetched(x, m, p) THEN FreshOp((p % W) + 1) ELSE x.win[p]
<1>1. IB \in Nat \ {0} /\ x.ib = IB /\ x.load \in 0 .. IB /\ Last \in Nat /\ First \in Nat /\ First < Last
  BY Sizes, ThreadConstants DEF ContextType
<1>2. \A p \in 0 .. IB - 1 : Fetched(x, m, p) <=> Place(x, p) < m
  <2>1. ASSUME NEW p \in 0 .. IB - 1 PROVE Fetched(x, m, p) <=> Place(x, p) < m
    <3>1. PICK a \in 0 .. IB - 1, d \in Nat, l \in 0 .. IB :
            /\ a = Place(x, p) /\ d = Dist(x, p) /\ l = x.load
            /\ d = IF a < IB - l THEN a + l ELSE a - (IB - l)
      <4>1. PICK a \in 0 .. IB - 1 : a = Place(x, p)
        BY Places
      <4>2. Dist(x, p) = IF a < IB - x.load THEN a + x.load ELSE a - (IB - x.load)
        BY <4>1, Places
      <4>3. Dist(x, p) \in Nat
        BY DistNat
      <4> QED
        BY <1>1, <4>1, <4>2, <4>3
    <3>2. l + m <= IB
      BY <3>1
    <3>3. (l <= d /\ d < l + m) <=> a < m
      BY <1>1, <3>1, <3>2
    <3> QED
      BY <3>1, <3>3 DEF Fetched
  <2> QED
    BY <2>1
<1> DEFINE w == [p \in 0 .. IB - 1 |-> IF Fetched(x, m, p) THEN FreshOp((p % W) + 1) ELSE x.win[p]]
<1>3. w \in [0 .. IB - 1 -> Op]
  <2>1. ASSUME NEW p \in 0 .. IB - 1
        PROVE  (IF Fetched(x, m, p) THEN FreshOp((p % W) + 1) ELSE x.win[p]) \in Op
    <3>1. x.win[p] \in Op /\ p \in Nat
      BY <1>1 DEF ContextType
    <3> QED
      BY <3>1, FreshOpType
  <2> QED
    BY <2>1
<1>4. [p \in 0 .. x.ib - 1 |-> IF Place(x, p) < n * W THEN FreshOp((Place(x, p) % W) + 1) ELSE x.win[p]] = w
  <2>1. ASSUME NEW p \in 0 .. IB - 1 PROVE Place(x, p) % W = p % W
    BY PlaceInStep
  <2> QED
    BY <1>1, <1>2, <2>1
<1>5. PICK l \in 0 .. IB : l = x.load + m
  BY <1>1
<1>6. PICK f \in First + WindowSteps(Last - First) .. Last : f = x.fetched + n
  <2>1. PICK s \in Nat : s = WindowSteps(Last - First)
    BY Sizes, <1>1
  <2>2. x.fetched \in First + s .. Last
    BY <2>1 DEF ContextType
  <2> QED
    BY <1>1, <2>1, <2>2
<1> DEFINE y == [x EXCEPT !.win = w, !.load = l, !.fetched = f]
<1>7. FetchSteps(x, n) = [x EXCEPT !.win = [p \in 0 .. x.ib - 1 |->
                             IF Place(x, p) < n * W THEN FreshOp((Place(x, p) % W) + 1) ELSE @[p]],
                           !.load = @ + n * W, !.fetched = @ + n]
  BY DEF FetchSteps, Place, Start
<1> HIDE DEF w
<1>8. FetchSteps(x, n) = y
  BY <1>4, <1>5, <1>6, <1>7 DEF ContextType
<1>9. y \in ContextType
  BY <1>3, <1>5, <1>6 DEF ContextType
<1>10. /\ SameQueues(x, y) /\ y.win = w /\ y.load = l /\ y.head = x.head
       /\ y.fetched = f /\ y.cpu = x.cpu
       /\ (y.done <=> x.done) /\ (y.panic <=> x.panic)
  BY DEF ContextType, SameQueues
<1> HIDE DEF y
<1>11. \A p \in 0 .. IB - 1 : y.win[p] = IF Fetched(x, m, p) THEN FreshOp((p % W) + 1) ELSE x.win[p]
  BY <1>10 DEF w
<1> QED
  BY <1>2, <1>5, <1>6, <1>8, <1>9, <1>10, <1>11

\* fetching whole global steps keeps the invariant
LEMMA FetchOps ==
  ASSUME NEW x \in ContextType, NEW e \in Nat, NEW K \in Seq(0 .. IB - 1), Ops(x, e, K, {}),
         e <= x.load, NEW n \in Nat, NEW m \in Nat, m = n * W,
         x.load + m <= IB, x.fetched + n <= Last
  PROVE  Ops(FetchSteps(x, n), e, K, {})
<1>1. IB \in Nat \ {0} /\ W \in Nat \ {0} /\ x.ib = IB /\ x.load \in 0 .. IB /\ x.head \in 0 .. IB - 1
  BY Sizes DEF ContextType
<1>2. Aligned(x) /\ Pattern(x) /\ Multiple(m, W)
  BY DEF Ops, Multiple
<1>3. PICK y \in ContextType :
        /\ y = FetchSteps(x, n) /\ SameQueues(x, y)
        /\ y.head = x.head /\ y.load = x.load + m /\ y.cpu = x.cpu
        /\ (y.done <=> x.done) /\ (y.panic <=> x.panic)
        /\ \A p \in 0 .. IB - 1 :
             /\ Fetched(x, m, p) <=> Place(x, p) < m
             /\ y.win[p] = IF Fetched(x, m, p) THEN FreshOp((p % W) + 1) ELSE x.win[p]
  BY <1>2, FetchDoes
<1>4. Aligned(y)
  <2>1. PICK a \in Nat : a = x.head + x.load /\ Multiple(a, W)
    BY <1>1, <1>2 DEF Aligned
  <2>2. y.head + y.load = a + m
    BY SMTT(30), <1>1, <1>3, <2>1
  <2> QED
    BY <1>1, <1>2, <2>1, <2>2, MultipleLess DEF Aligned
<1>5. ASSUME NEW p \in 0 .. IB - 1
      PROVE  /\ Fetched(x, m, p) => /\ y.win[p].status = "issued"
                                    /\ y.win[p].prev = Cardinality(Edges((p % W) + 1))
                                    /\ y.win[p].next = Step[(p % W) + 1].next
                                    /\ y.win[p].type = Step[(p % W) + 1].type
             /\ ~Fetched(x, m, p) => y.win[p] = x.win[p]
             /\ Dist(y, p) = Dist(x, p)
  <2>1. p \in Nat
    BY <1>1
  <2> QED
    BY <1>3, <2>1, FreshOpType DEF Dist
<1>6. Pattern(y) /\ y.panic = FALSE
  <2>1. Pattern(y)
    BY <1>2, <1>5 DEF Pattern
  <2>2. y.panic \in BOOLEAN /\ x.panic = FALSE
    BY DEF Ops, ContextType
  <2> QED
    BY <1>3, <2>1, <2>2
\* a position of the window has been there before or is a fetched one
<1>7. ASSUME NEW p \in 0 .. IB - 1
      PROVE  /\ Dist(x, p) < x.load => ~Fetched(x, m, p) /\ Dist(y, p) < y.load
             /\ Fetched(x, m, p) => ~(Dist(y, p) < e) /\ e <= Dist(y, p) /\ Dist(y, p) < y.load
             /\ Dist(y, p) < y.load => Fetched(x, m, p) \/ Dist(x, p) < x.load
             /\ y.load <= Dist(y, p) => ~Fetched(x, m, p) /\ x.load <= Dist(x, p)
             /\ ~(Dist(x, p) < x.load) => x.load <= Dist(x, p)
  <2>1. PICK d \in Nat, l \in Nat : d = Dist(x, p) /\ l = x.load
    BY DistNat
  <2> QED
    BY <1>3, <1>5, <2>1 DEF Fetched
<1>8. Phases(y, e)
  <2>1. ASSUME NEW q \in 0 .. IB - 1
        PROVE  /\ Dist(y, q) < e => y.win[q].status # "issued"
               /\ e <= Dist(y, q) /\ Dist(y, q) < y.load => y.win[q].status = "issued"
               /\ y.load <= Dist(y, q) => y.win[q].status = "completed"
    <3>1. CASE Fetched(x, m, q)
      BY <1>5, <1>7, <3>1
    <3>2. CASE ~Fetched(x, m, q)
      BY <1>5, <1>7, <3>2 DEF Ops, Phases
    <3> QED
      BY <3>1, <3>2
  <2> QED
    BY <2>1 DEF Phases
<1>9. Sent(y)
  <2>1. ASSUME NEW q \in 0 .. IB - 1, Dist(y, q) < y.load
        PROVE  /\ y.win[q].status \in {"dispatched", "completed"} => y.win[q].prev = 0
               /\ y.win[q].status = "completed" => y.win[q].complete \in 1 .. y.cpu
    <3>1. CASE Fetched(x, m, q)
      BY <1>5, <3>1
    <3>2. CASE ~Fetched(x, m, q)
      BY <1>3, <1>5, <1>7, <2>1, <3>2 DEF Ops, Sent
    <3> QED
      BY <3>1, <3>2
  <2> QED
    BY <2>1 DEF Sent
<1>10. Queues(y, {})
  <2>1. Queue(x, x.ldq, "LOAD", {}) /\ Queue(x, x.stq, "STORE", {})
        /\ x.ldq \in Seq(Request) /\ x.stq \in Seq(Request)
    BY DEF Ops, Queues, ContextType
  <2>2. ASSUME NEW q \in Seq(Request), NEW type, Queue(x, q, type, {}) PROVE Queue(y, q, type, {})
    <3>1. ASSUME NEW i \in 1 .. Len(q)
          PROVE  q[i].pos \in 0 .. IB - 1 /\ y.win[q[i].pos] = x.win[q[i].pos]
      <4>1. q[i].pos \in 0 .. IB - 1 /\ Dist(x, q[i].pos) < x.load
        BY <2>2, WaitingOp
      <4> QED
        BY <1>5, <1>7, <4>1
    <3>2. ASSUME NEW p \in 0 .. IB - 1, y.win[p].status = "pending" PROVE y.win[p] = x.win[p]
      BY <1>5, <3>2
    <3> QED
      BY <2>2, <3>1, <3>2 DEF Queue
  <2> QED
    BY <1>3, <2>1, <2>2 DEF Queues, SameQueues
\* a global step is fetched whole
<1>11. ASSUME NEW q \in 0 .. IB - 1, NEW d \in Nat, (q % W) + d < W
       PROVE  q + d \in 0 .. IB - 1 /\ (Fetched(x, m, q + d) <=> Fetched(x, m, q))
  <2>1. q + d \in 0 .. IB - 1 /\ Place(x, q + d) = Place(x, q) + d
    BY <1>2, <1>11, SameStep
  <2>2. PICK a \in Nat : a = Place(x, q) /\ a % W = q % W
    <3>1. Place(x, q) \in 0 .. IB - 1
      BY Places
    <3>2. Place(x, q) % W = q % W
      BY <1>2, PlaceInStep
    <3> QED
      BY <1>1, <3>1, <3>2
  <2>3. ASSUME a < m PROVE a + d < m
    <3>1. PICK r \in Nat : r = q % W /\ r = a % W
      BY <1>1, <2>2, DivMod
    <3>2. a + W - (a % W) <= m
      BY <1>1, <1>2, <2>2, <2>3, BlockEnd
    <3>3. r + d < W /\ a + W - r <= m
      BY <1>11, <3>1, <3>2
    <3> QED
      BY SMTT(30), <1>1, <2>2, <3>1, <3>3
  <2>4. a + d < m => a < m
    BY <2>2
  <2> QED
    BY <1>3, <2>1, <2>2, <2>3, <2>4
<1>12. ASSUME NEW r \in 0 .. IB - 1, Dist(x, r) < x.load
       PROVE  Parents(y, r) = Parents(x, r)
  <2>1. ~Fetched(x, m, r)
    BY <1>7, <1>12
  <2>2. ASSUME NEW q \in 0 .. IB - 1, NEW i \in 1 .. W
        PROVE  <<q, i>> \in Parents(y, r) <=> <<q, i>> \in Parents(x, r)
    <3>1. CASE Fetched(x, m, q)
      <4>1. <<q, i>> \notin Parents(x, r)
        BY <1>7, <3>1 DEF Parents
      <4>2. ASSUME <<q, i>> \in Parents(y, r) PROVE FALSE
        <5>1. i <= Len(y.win[q].next) /\ q + y.win[q].next[i] = r
          BY <4>2 DEF Parents
        <5>2. Len(y.win[q].next) \in Nat
          <6>1. y.win[q] \in Op
            BY DEF ContextType
          <6> QED
            BY <6>1, LenProperties DEF Op
        <5>3. i \in 1 .. Len(y.win[q].next)
          BY <1>1, <5>1, <5>2
        <5>4. y.win[q].next[i] \in Nat \ {0} /\ (q % W) + y.win[q].next[i] < W
          BY <1>4, <1>6, <5>3, Child
        <5>5. Fetched(x, m, r)
          BY <1>11, <3>1, <5>1, <5>4
        <5> QED
          BY <2>1, <5>5
      <4> QED
        BY <4>1, <4>2
    <3>2. CASE ~Fetched(x, m, q)
      <4>1. y.win[q] = x.win[q] /\ (Dist(y, q) < y.load <=> Dist(x, q) < x.load)
        BY <1>5, <1>7, <3>2
      <4> QED
        BY <4>1 DEF Parents
    <3> QED
      BY <3>1, <3>2
  <2>3. Parents(y, r) \in SUBSET ((0 .. IB - 1) \X (1 .. W)) /\ Parents(x, r) \in SUBSET ((0 .. IB - 1) \X (1 .. W))
    BY DEF Parents
  <2>4. ASSUME NEW t \in (0 .. IB - 1) \X (1 .. W)
        PROVE  t \in Parents(y, r) <=> t \in Parents(x, r)
    <3>1. PICK q \in 0 .. IB - 1, i \in 1 .. W : t = <<q, i>>
      OBVIOUS
    <3> QED
      BY <2>2, <3>1
  <2> QED
    BY <2>3, <2>4
<1>13. ASSUME NEW r \in 0 .. IB - 1, Fetched(x, m, r)
       PROVE  y.win[r].prev = Cardinality(Parents(y, r)) + Cardinality(Told(K, r))
  <2>1. \A q \in 0 .. IB - 1, d \in Nat :
          (q % W) + d < W /\ r = q + d => Dist(y, q) < y.load /\ y.win[q].status # "completed"
    <3>1. ASSUME NEW q \in 0 .. IB - 1, NEW d \in Nat, (q % W) + d < W, r = q + d
          PROVE  Dist(y, q) < y.load /\ y.win[q].status # "completed"
      <4>1. Fetched(x, m, q)
        BY <1>11, <1>13, <3>1
      <4> QED
        BY <1>5, <1>7, <4>1
    <3> QED
      BY <3>1
  <2>2. Cardinality(Parents(y, r)) = Cardinality(Edges((r % W) + 1))
    BY <1>4, <1>6, <2>1, FreshCounts
  <2>3. Told(K, r) = {}
    <3>1. ~(Dist(x, r) < x.load)
      BY <1>7, <1>13
    <3>2. \A k \in 1 .. Len(K) : Dist(x, K[k]) < x.load
      BY DEF Ops
    <3> QED
      BY <3>1, <3>2 DEF Told
  <2>4. Cardinality(Told(K, r)) = 0
    BY <2>3, FS_EmptySet
  <2>5. y.win[r].prev = Cardinality(Edges((r % W) + 1))
    BY <1>5, <1>13
  <2>6. Cardinality(Parents(y, r)) \in Nat
    BY ParentsFinite
  <2> QED
    BY <2>2, <2>4, <2>5, <2>6
<1>14. Counts(y, K)
  <2>1. ASSUME NEW r \in 0 .. IB - 1, Dist(y, r) < y.load
        PROVE  y.win[r].prev = Cardinality(Parents(y, r)) + Cardinality(Told(K, r))
    <3>1. CASE Fetched(x, m, r)
      BY <1>13, <3>1
    <3>2. CASE ~Fetched(x, m, r)
      <4>1. Dist(x, r) < x.load /\ y.win[r] = x.win[r]
        BY <1>5, <1>7, <2>1, <3>2
      <4> QED
        BY <1>12, <4>1 DEF Ops, Counts
    <3> QED
      BY <3>1, <3>2
  <2> QED
    BY <2>1 DEF Counts
<1>15. \A i \in 1 .. Len(K) : Dist(y, K[i]) < y.load
  <2>1. ASSUME NEW i \in 1 .. Len(K) PROVE K[i] \in 0 .. IB - 1 /\ Dist(x, K[i]) < x.load
    BY ElementOfSeq DEF Ops
  <2> QED
    BY <1>7, <2>1
<1> QED
  BY <1>3, <1>4, <1>6, <1>8, <1>9, <1>10, <1>14, <1>15 DEF Ops

(***************************************************************************)
(* How often retire_head fetches: as often as it fits, and enough to fill  *)
(* the reorder buffer again while global steps are left.                   *)
(***************************************************************************)
LEMMA StepsDo ==
  ASSUME NEW x \in ContextType, NEW n, n = StepsToFetch(x)
  PROVE  /\ n \in Nat /\ x.fetched + n <= Last /\ n * W \in Nat /\ x.load + n * W <= IB
         /\ x.load >= RobDepth \/ x.fetched = Last => n = 0
         /\ x.load = RobDepth - 1 /\ x.fetched # Last => x.load + n * W >= RobDepth
<1>1. /\ IB \in Nat \ {0} /\ W \in Nat \ {0} /\ RobDepth \in Nat \ {0}
      /\ x.ib = IB /\ x.last = Last /\ x.load \in 0 .. IB
  BY Sizes, ContextConstants DEF ContextType
<1>2. PICK f \in Nat : f = x.fetched /\ f <= Last /\ First + WindowSteps(Last - First) <= f /\ Last \in Nat
  <2>1. PICK s \in Nat : s = WindowSteps(Last - First)
    BY Sizes, ThreadConstants
  <2>2. x.fetched \in First + s .. Last
    BY <2>1 DEF ContextType
  <2> QED
    BY <2>1, <2>2, ThreadConstants
<1>3. PICK l \in Nat, room \in Nat : l = x.load /\ room = IB - l
  BY <1>1
<1>4. PICK fit \in Nat, r \in 0 .. W - 1 : fit = room \div W /\ room = fit * W + r
  <2>1. /\ room \div W \in Nat /\ room % W \in 0 .. W - 1
        /\ room = (room \div W) * W + (room % W)
    BY <1>1, <1>3, DivMod
  <2> QED
    BY <2>1
<1>5. PICK fw \in Nat : fw = fit * W
  BY <1>1, <1>4, ProductOrder
<1>6. n = IF l < RobDepth THEN SmallerOf(fit, Last - f) ELSE 0
  BY <1>1, <1>2, <1>3, <1>4 DEF StepsToFetch
<1>7. n \in Nat /\ n <= fit /\ f + n <= Last /\ (l >= RobDepth \/ f = Last => n = 0)
  BY <1>1, <1>2, <1>3, <1>6 DEF SmallerOf
<1>8. PICK nw \in Nat : nw = n * W /\ nw <= fw
  BY <1>1, <1>4, <1>5, <1>7, ProductOrder
<1>9. l + nw <= IB
  BY <1>1, <1>3, <1>4, <1>5, <1>8
<1>10. ASSUME l = RobDepth - 1, f # Last PROVE l + nw >= RobDepth
  <2>1. RobDepth - 1 + W <= IB
    <3>1. PICK s \in Nat : s = WindowSteps(Last - First)
      BY Sizes, ThreadConstants
    <3>2. s # Last - First
      BY <1>2, <1>10, <3>1, ThreadConstants
    <3> QED
      BY <3>1, <3>2, WindowDeep
  <2>2. W <= room
    BY <1>1, <1>3, <1>10, <2>1
  <2>3. fit # 0
    <3>1. ASSUME fit = 0 PROVE FALSE
      <4>1. fw = 0
        BY <1>1, <1>5, <3>1
      <4> QED
        BY <1>1, <1>3, <1>4, <1>5, <2>2, <4>1
    <3> QED
      BY <3>1
  <2>4. n >= 1
    BY <1>1, <1>2, <1>4, <1>6, <1>10, <2>3 DEF SmallerOf
  <2>5. 1 * W <= n * W
    BY <1>1, <1>7, <2>4, ProductOrder
  <2> QED
    BY <1>1, <1>3, <1>8, <1>10, <2>5
<1> QED
  BY <1>2, <1>3, <1>7, <1>8, <1>9, <1>10

\* retire_head keeps the invariant and the reorder buffer filled
LEMMA RetireOps ==
  ASSUME NEW x \in ContextType, NEW K \in Seq(0 .. IB - 1), Ops(x, RobLoad(x), K, {}),
         Refilled(x), x.load >= 1, ~x.done, x.win[x.head].status = "completed",
         \A i \in 1 .. Len(K) : K[i] # x.head
  PROVE  LET y == RetireHead(x)
         IN  /\ y \in ContextType /\ Ops(y, RobLoad(y), K, {}) /\ Refilled(y) /\ DoneWhenEmpty(y)
             /\ y.head = After(x, x.head) /\ RobLoad(y) >= RobLoad(x) - 1
<1>1. IB \in Nat \ {0} /\ RobDepth \in Nat \ {0} /\ x.load \in 0 .. IB
  BY Sizes, ContextConstants DEF ContextType
<1>2. PICK l \in Nat \ {0}, e \in Nat \ {0} :
        /\ l = x.load /\ e = RobLoad(x) /\ e = IF RobDepth < l THEN RobDepth ELSE l
  BY <1>1 DEF RobLoad, SmallerOf
<1>3. PICK c1 \in ContextType :
        /\ c1 = HeadLeaves(x) /\ c1.load = l - 1 /\ c1.head = After(x, x.head)
        /\ c1.fetched = x.fetched /\ (c1.done <=> x.done)
  BY <1>2, LeaveDoes
<1>4. Ops(c1, e - 1, K, {})
  BY <1>2, <1>3, LeaveOps
<1>5. PICK n \in Nat, m \in Nat :
        /\ n = StepsToFetch(c1) /\ m = n * W /\ c1.fetched + n <= Last /\ c1.load + m <= IB
        /\ c1.load >= RobDepth \/ c1.fetched = Last => n = 0 /\ m = 0
        /\ c1.load = RobDepth - 1 /\ c1.fetched # Last => c1.load + m >= RobDepth
  <2>1. PICK n : n = StepsToFetch(c1)
    OBVIOUS
  <2>2. /\ n \in Nat /\ c1.fetched + n <= Last /\ n * W \in Nat /\ c1.load + n * W <= IB
        /\ c1.load >= RobDepth \/ c1.fetched = Last => n = 0
        /\ c1.load = RobDepth - 1 /\ c1.fetched # Last => c1.load + n * W >= RobDepth
    BY <2>1, StepsDo
  <2>3. n = 0 => n * W = 0
    BY Sizes
  <2> QED
    BY <2>1, <2>2, <2>3
<1>6. PICK c2 \in ContextType :
        /\ c2 = FetchSteps(c1, n) /\ c2.head = c1.head /\ c2.load = c1.load + m
        /\ c2.fetched = c1.fetched + n /\ (c2.done <=> c1.done)
  BY <1>4, <1>5, FetchDoes DEF Ops
<1>7. Ops(c2, e - 1, K, {})
  <2>1. e - 1 \in Nat /\ e - 1 <= c1.load
    BY <1>1, <1>2, <1>3
  <2> QED
    BY <1>4, <1>5, <1>6, <2>1, FetchOps
<1>8. x.fetched \in Int /\ c2.load = (l - 1) + m /\ c2.load \in Nat
  <2>1. x.fetched \in Int
    BY Sizes, ThreadConstants DEF ContextType
  <2> QED
    BY <1>2, <1>3, <1>5, <1>6, <2>1
<1>9. \E z \in ContextType :
        /\ z = (IF c2.load >= RobDepth THEN Dispatch(c2, RingAt(c2, RobDepth - 1)) ELSE c2)
        /\ z.head = c2.head /\ z.load = c2.load /\ z.fetched = c2.fetched /\ (z.done <=> c2.done)
        /\ Ops(z, RobLoad(z), K, {}) /\ Refilled(z) /\ RobLoad(z) >= e - 1
  <2>1. CASE c2.load >= RobDepth
    <3>1. e = RobDepth
      <4>1. CASE m = 0
        BY <1>1, <1>2, <1>8, <2>1, <4>1
      <4>2. CASE m # 0
        <5>1. x.fetched # Last
          BY <1>3, <1>5, <4>2
        <5>2. l >= RobDepth
          BY <1>2, <5>1 DEF Refilled
        <5> QED
          BY <1>1, <1>2, <5>2
      <4> QED
        BY <4>1, <4>2
    <3>2. RobDepth - 1 \in 0 .. IB - 1
      <4>1. c2.load \in 0 .. IB
        BY DEF ContextType
      <4> QED
        BY <1>1, <2>1, <4>1
    <3>3. PICK p \in 0 .. IB - 1 : p = RingAt(c2, RobDepth - 1) /\ Dist(c2, p) = RobDepth - 1
      BY <3>2, Ring
    <3>4. Dist(c2, p) = e - 1 /\ Dist(c2, p) < c2.load /\ e - 1 \in Nat
      BY <1>1, <1>8, <2>1, <3>1, <3>3
    <3>5. c2.win[p].status = "issued"
      <4>1. e - 1 <= Dist(c2, p)
        BY <3>4
      <4> QED
        BY <1>7, <3>4, <4>1 DEF Ops, Phases
    <3>6. Ops(c2, e - 1, K, {p})
      <4>1. Queue(c2, c2.ldq, "LOAD", {}) /\ Queue(c2, c2.stq, "STORE", {})
        BY <1>7 DEF Ops, Queues
      <4>2. Queue(c2, c2.ldq, "LOAD", {p}) /\ Queue(c2, c2.stq, "STORE", {p})
        BY <3>5, <4>1, QueueAside
      <4> QED
        BY <1>7, <4>2 DEF Ops, Queues
    <3>7. Ops(Dispatch(c2, p), e, K, {})
      <4>1. Dist(c2, p) <= e - 1 /\ e = (IF Dist(c2, p) = e - 1 THEN (e - 1) + 1 ELSE e - 1)
        BY <1>2, <3>4
      <4> QED
        BY <3>4, <3>5, <3>6, <4>1, DispatchOps
    <3>8. PICK z \in ContextType : z = Dispatch(c2, p) /\ Still(c2, z)
      BY DispatchDoes DEF Effect, OnlyAt
    <3>9. z.head = c2.head /\ z.load = c2.load /\ z.fetched = c2.fetched /\ (z.done <=> c2.done)
      BY <3>8 DEF Still
    <3>10. RobLoad(z) = e /\ Refilled(z)
      BY <1>1, <1>8, <2>1, <3>1, <3>9 DEF RobLoad, SmallerOf, Refilled
    <3> QED
      BY <1>2, <2>1, <3>3, <3>7, <3>8, <3>9, <3>10
  <2>2. CASE ~(c2.load >= RobDepth)
    <3>1. x.fetched = Last
      <4>1. SUFFICES ASSUME x.fetched # Last PROVE FALSE
        OBVIOUS
      <4>2. l >= RobDepth
        BY <1>2, <4>1 DEF Refilled
      <4>3. CASE l = RobDepth
        BY <1>1, <1>2, <1>3, <1>5, <1>6, <2>2, <4>1, <4>3
      <4>4. CASE l > RobDepth
        BY <1>1, <1>2, <1>5, <1>8, <2>2, <4>4
      <4> QED
        BY <1>1, <1>2, <4>2, <4>3, <4>4
    <3>2. n = 0 /\ m = 0
      BY <1>3, <1>5, <3>1
    <3>3. c2.load = l - 1 /\ c2.fetched = Last /\ e = l
      <4>1. c2.load = l - 1 /\ l - 1 < RobDepth
        BY <1>1, <1>2, <1>8, <2>2, <3>2
      <4>2. c2.fetched = Last
        BY <1>3, <1>6, <1>8, <3>1, <3>2
      <4> QED
        BY <1>1, <1>2, <4>1, <4>2
    <3>4. RobLoad(c2) = e - 1
      BY <1>1, <1>2, <2>2, <3>3 DEF RobLoad, SmallerOf
    <3> QED
      BY <1>2, <1>7, <2>2, <3>3, <3>4 DEF Refilled
  <2> QED
    BY <2>1, <2>2
<1>10. PICK c3 \in ContextType :
        /\ c3 = (IF c2.load >= RobDepth THEN Dispatch(c2, RingAt(c2, RobDepth - 1)) ELSE c2)
        /\ c3.head = c2.head /\ c3.load = c2.load /\ c3.fetched = c2.fetched /\ (c3.done <=> c2.done)
        /\ Ops(c3, RobLoad(c3), K, {}) /\ Refilled(c3) /\ RobLoad(c3) >= e - 1
  BY <1>9
<1>11. PICK a \in BOOLEAN : a = (c3.done \/ NothingLeft(c3)) /\ (a <=> NothingLeft(c3))
  <2>1. ~c3.done
    BY <1>3, <1>6, <1>10
  <2> QED
    BY <2>1, Zenon
<1> DEFINE y == [c3 EXCEPT !.done = a]
<1>12. RetireHead(x) = y
  BY <1>3, <1>5, <1>6, <1>10, <1>11, Zenon DEF RetireHead, HeadLeaves
<1>13. y \in ContextType /\ (y.done <=> a)
  BY DEF ContextType
<1>14. /\ y.win = c3.win /\ y.head = c3.head /\ y.load = c3.load /\ y.fetched = c3.fetched
       /\ y.cpu = c3.cpu /\ (y.panic <=> c3.panic) /\ SameQueues(c3, y)
  BY DEF ContextType, SameQueues
<1> HIDE DEF y
<1>15. RobLoad(y) = RobLoad(c3)
  BY <1>14 DEF RobLoad
<1>16. Ops(y, RobLoad(y), K, {})
  <2>1. c3.cpu <= y.cpu
    <3>1. c3.cpu \in Nat
      BY DEF ContextType
    <3> QED
      BY <1>14, <3>1
  <2> QED
    BY <1>10, <1>13, <1>14, <1>15, <2>1, StillOps
<1>17. Refilled(y) /\ DoneWhenEmpty(y)
  <2>1. c3.last = Last
    BY DEF ContextType
  <2> QED
    BY <1>10, <1>11, <1>13, <1>14, <2>1 DEF Refilled, DoneWhenEmpty, NothingLeft
<1>18. y.head = After(x, x.head) /\ RobLoad(y) >= RobLoad(x) - 1
  BY <1>2, <1>3, <1>6, <1>10, <1>14, <1>15
<1> QED
  BY <1>12, <1>13, <1>16, <1>17, <1>18

-----------------------------------------------------------------------------
(***************************************************************************)
(* The remaining pieces: the window as init leaves it, the answer of the   *)
(* memory, the time of the next event, and the ring's successor.           *)
(***************************************************************************)
LEMMA NewContextOps ==
  ASSUME NEW x, x = NewContext(First, Last)
  PROVE  /\ x \in ContextType /\ Ops(x, 0, <<>>, {}) /\ Refilled(x) /\ DoneWhenEmpty(x)
         /\ x.head = 0 /\ ~x.done
<1>1. /\ IB \in Nat \ {0} /\ W \in Nat \ {0} /\ RobDepth \in Nat \ {0} /\ Multiple(IB, W)
      /\ Never \in Nat /\ First \in Nat /\ Last \in Nat /\ First < Last
  BY Sizes, ContextConstants, ThreadConstants
<1>2. PICK s \in Nat : s = WindowSteps(Last - First) /\ s <= Last - First
  BY <1>1, Sizes
<1>3. PICK w : w = [p \in 0 .. IB - 1 |-> FreshOp((p % W) + 1)]
  OBVIOUS
<1>4. w \in [0 .. IB - 1 -> Op]
  <2>1. ASSUME NEW p \in 0 .. IB - 1 PROVE FreshOp((p % W) + 1) \in Op
    <3>1. p \in Nat
      BY <1>1
    <3> QED
      BY <3>1, FreshOpType
  <2> QED
    BY <1>3, <2>1
<1>5. x = [ib |-> IB, win |-> w, head |-> 0, load |-> IB, fetched |-> First + s, last |-> Last,
           cpu |-> 0, alu |-> 1, aluLeft |-> Alu, ld |-> 1, ldLeft |-> Ld, st |-> 1, stLeft |-> St,
           ldq |-> <<>>, stq |-> <<>>,
           hasComplete |-> FALSE, nextEvent |-> Never, done |-> FALSE, panic |-> FALSE]
  BY <1>2, <1>3 DEF NewContext, IB
<1>6. x \in ContextType
  <2>1. First + s \in First + WindowSteps(Last - First) .. Last
    BY <1>1, <1>2
  <2>2. <<>> \in Seq(Request)
    OBVIOUS
  <2> QED
    BY <1>1, <1>4, <1>5, <2>1, <2>2, Positive DEF ContextType
<1>7. /\ x.win = w /\ x.head = 0 /\ x.load = IB /\ x.fetched = First + s
      /\ x.ldq = <<>> /\ x.stq = <<>> /\ ~x.done /\ x.panic = FALSE
  BY <1>5
<1>8. \A p \in 0 .. IB - 1 : Dist(x, p) = p /\ Dist(x, p) < x.load
  BY <1>1, <1>7 DEF Dist
<1>9. ASSUME NEW p \in 0 .. IB - 1
      PROVE  /\ x.win[p].status = "issued"
             /\ x.win[p].prev = Cardinality(Edges((p % W) + 1))
             /\ x.win[p].next = Step[(p % W) + 1].next
             /\ x.win[p].type = Step[(p % W) + 1].type
  <2>1. p \in Nat
    BY <1>1
  <2> QED
    BY <1>3, <1>7, <2>1, FreshOpType
<1>10. Aligned(x) /\ Pattern(x)
  <2>1. x.head + x.load = IB
    BY <1>1, <1>7
  <2> QED
    BY <1>1, <1>9, <2>1 DEF Aligned, Pattern
<1>11. Phases(x, 0) /\ Sent(x)
  <2>1. ASSUME NEW p \in 0 .. IB - 1
        PROVE  ~(Dist(x, p) < 0) /\ ~(x.load <= Dist(x, p))
    BY <1>1, <1>7, <1>8
  <2> QED
    BY <1>9, <2>1 DEF Phases, Sent
<1>12. Queues(x, {})
  BY <1>7, <1>9 DEF Queues, Queue
<1>13. Counts(x, <<>>)
  <2>1. ASSUME NEW p \in 0 .. IB - 1
        PROVE  x.win[p].prev = Cardinality(Parents(x, p)) + Cardinality(Told(<<>>, p))
    <3>1. \A q \in 0 .. IB - 1, d \in Nat :
            (q % W) + d < W /\ p = q + d => Dist(x, q) < x.load /\ x.win[q].status # "completed"
      BY <1>8, <1>9
    <3>2. Cardinality(Parents(x, p)) = Cardinality(Edges((p % W) + 1))
      BY <1>6, <1>10, <3>1, FreshCounts
    <3>3. Told(<<>>, p) = {}
      BY DEF Told
    <3>4. Cardinality(Told(<<>>, p)) = 0
      BY <3>3, FS_EmptySet
    <3>5. Cardinality(Parents(x, p)) \in Nat
      BY ParentsFinite
    <3> QED
      BY <1>9, <3>2, <3>4, <3>5
  <2> QED
    BY <2>1 DEF Counts
<1>14. Ops(x, 0, <<>>, {})
  BY <1>7, <1>10, <1>11, <1>12, <1>13 DEF Ops
<1>15. Refilled(x)
  <2>1. CASE s = Last - First
    BY <1>1, <1>7, <2>1 DEF Refilled
  <2>2. CASE s # Last - First
    <3>1. RobDepth - 1 + W <= IB
      BY <1>2, <2>2, WindowDeep
    <3> QED
      BY <1>1, <1>7, <3>1 DEF Refilled
  <2> QED
    BY <2>1, <2>2
<1>16. DoneWhenEmpty(x)
  BY <1>1, <1>7 DEF DoneWhenEmpty
<1> QED
  BY <1>6, <1>7, <1>14, <1>15, <1>16

\* an answer changes nothing but the time of completion of operations sent
LEMMA AnswerDoes ==
  ASSUME NEW x \in ContextType, NEW line
  PROVE  LET y == CompleteOp(x, line, x.cpu + 1)
         IN  /\ y \in ContextType /\ Still(x, y) /\ SameQueues(x, y)
             /\ \A p \in 0 .. IB - 1 :
                  /\ y.win[p].status = x.win[p].status /\ y.win[p].prev = x.win[p].prev
                  /\ y.win[p].next = x.win[p].next /\ y.win[p].type = x.win[p].type
                  /\ x.win[p].status # "dispatched" => y.win[p] = x.win[p]
<1> DEFINE w == [p \in 0 .. IB - 1 |-> IF p \in Outstanding(x) /\ LineOf(p) = line
                                        THEN [x.win[p] EXCEPT !.complete = x.cpu + 1] ELSE x.win[p]]
           y == [x EXCEPT !.hasComplete = TRUE, !.win = w]
<1>1. x.win \in [0 .. IB - 1 -> Op] /\ x.cpu \in Nat /\ x.ib = IB
  BY DEF ContextType
<1>2. ASSUME NEW p \in 0 .. IB - 1
      PROVE  /\ w[p] \in Op
             /\ w[p].status = x.win[p].status /\ w[p].prev = x.win[p].prev
             /\ w[p].next = x.win[p].next /\ w[p].type = x.win[p].type
             /\ x.win[p].status # "dispatched" => w[p] = x.win[p]
  <2>1. CASE p \in Outstanding(x) /\ LineOf(p) = line
    <3>1. PICK o \in Op : o = x.win[p]
      BY <1>1
    <3>2. o.status = "dispatched"
      BY <2>1, <3>1 DEF Outstanding
    <3>3. PICK t \in Nat : t = x.cpu + 1
      BY <1>1
    <3>4. w[p] = [o EXCEPT !.complete = t]
      BY <2>1, <3>1, <3>3
    <3>5. PICK n \in Op : n = [o EXCEPT !.complete = t]
      BY DEF Op
    <3>6. n.status = o.status /\ n.prev = o.prev /\ n.next = o.next /\ n.type = o.type
      BY <3>5 DEF Op
    <3> HIDE DEF w
    <3> QED
      BY <3>1, <3>2, <3>4, <3>5, <3>6
  <2>2. CASE ~(p \in Outstanding(x) /\ LineOf(p) = line)
    BY <1>1, <2>2
  <2> QED
    BY <2>1, <2>2
<1>3. w \in [0 .. IB - 1 -> Op]
  <2>1. \A p \in 0 .. IB - 1 : w[p] \in Op
    BY <1>2
  <2>2. DOMAIN w = 0 .. IB - 1 /\ w = [p \in 0 .. IB - 1 |-> w[p]]
    OBVIOUS
  <2> HIDE DEF w
  <2> QED
    BY <2>1, <2>2
<1>4. CompleteOp(x, line, x.cpu + 1) = y
  BY <1>1 DEF CompleteOp
<1> HIDE DEF w
<1>5. y \in ContextType /\ Still(x, y) /\ SameQueues(x, y) /\ y.win = w
  BY <1>3 DEF ContextType, Still, SameQueues
<1> HIDE DEF y
<1> QED
  BY <1>2, <1>4, <1>5

\* complete_op keeps the invariant
LEMMA AnswerOps ==
  ASSUME NEW x \in ContextType, NEW e \in Nat, NEW K, Ops(x, e, K, {}), NEW line
  PROVE  LET y == CompleteOp(x, line, x.cpu + 1)
         IN  y \in ContextType /\ Still(x, y) /\ Ops(y, e, K, {})
<1>1. PICK y \in ContextType :
        /\ y = CompleteOp(x, line, x.cpu + 1)
        /\ Still(x, y) /\ SameQueues(x, y)
        /\ \A p \in 0 .. IB - 1 :
             /\ y.win[p].status = x.win[p].status /\ y.win[p].prev = x.win[p].prev
             /\ y.win[p].next = x.win[p].next /\ y.win[p].type = x.win[p].type
             /\ x.win[p].status # "dispatched" => y.win[p] = x.win[p]
  BY AnswerDoes
<1>2. /\ \A q : Dist(y, q) = Dist(x, q)
      /\ y.load = x.load /\ y.head = x.head /\ y.cpu = x.cpu /\ (y.panic <=> x.panic)
  BY <1>1 DEF Dist, Still
<1>3. Aligned(y) /\ Pattern(y) /\ y.panic = FALSE
  <2>1. y.panic \in BOOLEAN
    BY <1>1 DEF ContextType
  <2> QED
    BY <1>1, <1>2, <2>1 DEF Ops, Aligned, Pattern
<1>4. Phases(y, e)
  BY <1>1, <1>2 DEF Ops, Phases
<1>5. Sent(y)
  <2>1. ASSUME NEW p \in 0 .. IB - 1, Dist(y, p) < y.load
        PROVE  /\ y.win[p].status \in {"dispatched", "completed"} => y.win[p].prev = 0
               /\ y.win[p].status = "completed" => y.win[p].complete \in 1 .. y.cpu
    <3>1. /\ x.win[p].status \in {"dispatched", "completed"} => x.win[p].prev = 0
          /\ x.win[p].status = "completed" => x.win[p].complete \in 1 .. x.cpu
      BY <1>2, <2>1 DEF Ops, Sent
    <3> QED
      BY <1>1, <1>2, <3>1
  <2> QED
    BY <2>1 DEF Sent
<1>6. Queues(y, {})
  <2>1. x.ldq \in Seq(Request) /\ x.stq \in Seq(Request)
    BY DEF ContextType
  <2>2. ASSUME NEW q \in Seq(Request), NEW type, Queue(x, q, type, {}) PROVE Queue(y, q, type, {})
    <3>1. ASSUME NEW i \in 1 .. Len(q) PROVE q[i].pos \in 0 .. IB - 1
      <4>1. q[i] \in Request
        BY ElementOfSeq
      <4> QED
        BY <4>1 DEF Request
    <3> QED
      BY <1>1, <2>2, <3>1 DEF Queue
  <2> QED
    BY <1>1, <2>1, <2>2 DEF Ops, Queues, SameQueues
<1>7. Counts(y, K)
  <2>1. ASSUME NEW p PROVE Parents(y, p) = Parents(x, p)
    BY <1>1, <1>2 DEF Parents
  <2> QED
    BY <1>1, <1>2, <2>1 DEF Ops, Counts
<1>8. \A n \in 1 .. Len(K) : Dist(y, K[n]) < y.load
  BY <1>2 DEF Ops
<1>9. Ops(y, e, K, {})
  BY <1>3, <1>4, <1>5, <1>6, <1>7, <1>8 DEF Ops
<1> QED
  BY <1>1, <1>9

\* the earliest of some times is a time
LEMMA EarliestNat ==
  ASSUME NEW T \in SUBSET Nat
  PROVE  EarliestOf(T) \in Nat
<1>1. CASE T = {}
  BY <1>1, ContextConstants DEF EarliestOf
<1>2. CASE T # {}
  <2>1. PICK t \in T : \A u \in T : ~(<<u, t>> \in OpToRel(<, Nat))
    BY <1>2, NatLessThanWellFounded, WFMin
  <2>2. T \subseteq Nat
    OBVIOUS
  <2>3. ASSUME NEW u \in T PROVE t <= u
    <3>1. u \in Nat /\ t \in Nat
      BY <2>2
    <3>2. ~(<<u, t>> \in OpToRel(<, Nat))
      BY <2>1
    <3>3. ~(u < t)
      BY <3>1, <3>2 DEF OpToRel
    <3> QED
      BY <3>1, <3>3
  <2> QED
    BY <1>2, <2>2, <2>3 DEF EarliestOf
<1> QED
  BY <1>1, <1>2

\* the next event of the context is a time
LEMMA EventsNat ==
  ASSUME NEW x \in ContextType
  PROVE  FirstEvent(x) \in Nat /\ NextEventAfter(x) \in Nat
<1>1. ASSUME NEW p \in Rob(x) PROVE EventTime(x.win[p]) \in Nat
  <2>1. p \in 0 .. IB - 1
    BY Positions
  <2>2. x.win[p] \in Op
    BY <2>1 DEF ContextType
  <2> QED
    BY <2>2 DEF EventTime, Op
<1>2. {EventTime(x.win[p]) : p \in Rob(x)} \in SUBSET Nat
  BY <1>1
<1>3. {t \in {EventTime(x.win[p]) : p \in Rob(x)} : x.cpu < t /\ t < Never} \in SUBSET Nat
  BY <1>2
<1> QED
  BY <1>2, <1>3, EarliestNat DEF FirstEvent, NextEventAfter

\* the next position of the ring is one further from the head
LEMMA AfterDist ==
  ASSUME NEW x \in ContextType, NEW p \in 0 .. IB - 1
  PROVE  /\ After(x, p) \in 0 .. IB - 1
         /\ Dist(x, p) + 1 < IB => Dist(x, After(x, p)) = Dist(x, p) + 1
<1>1. IB \in Nat \ {0} /\ x.head \in 0 .. IB - 1 /\ x.ib = IB
  BY Sizes DEF ContextType
<1>2. After(x, p) = IF p + 1 = IB THEN 0 ELSE p + 1
  BY <1>1 DEF After
<1>3. After(x, p) \in 0 .. IB - 1
  BY <1>1, <1>2
<1> QED
  BY <1>1, <1>2, <1>3 DEF Dist

\* what depends on the head, the load and the steps fetched only
LEMMA StillRest ==
  ASSUME NEW x \in ContextType, NEW y \in ContextType, Still(x, y)
  PROVE  /\ RobLoad(y) = RobLoad(x) /\ \A q : Dist(y, q) = Dist(x, q)
         /\ y.head = x.head /\ y.load = x.load /\ (y.done <=> x.done)
         /\ Refilled(x) => Refilled(y)
         /\ DoneWhenEmpty(x) => DoneWhenEmpty(y)
BY DEF Still, RobLoad, Dist, Refilled, DoneWhenEmpty

(***************************************************************************)
(* The clock, the next event and the flag of a completion are not part of  *)
(* what the invariant says of the operations.                              *)
(***************************************************************************)
LEMMA FlagOps ==
  ASSUME NEW x \in ContextType, NEW e, NEW K, Ops(x, e, K, {}), Refilled(x), DoneWhenEmpty(x),
         NEW n \in Nat, NEW y,
         \/ y = [x EXCEPT !.nextEvent = n]
         \/ y = [x EXCEPT !.hasComplete = FALSE]
         \/ y = [x EXCEPT !.cpu = n] /\ x.cpu <= n
  PROVE  /\ y \in ContextType /\ Ops(y, e, K, {}) /\ Refilled(y) /\ DoneWhenEmpty(y)
         /\ y.head = x.head /\ y.load = x.load /\ RobLoad(y) = RobLoad(x)
<1> DEFINE Same == /\ y \in ContextType /\ y.head = x.head /\ y.load = x.load /\ y.win = x.win
                   /\ SameQueues(x, y) /\ (y.panic <=> x.panic) /\ x.cpu <= y.cpu
                   /\ y.fetched = x.fetched /\ (y.done <=> x.done)
<1>1. Same
  <2>1. CASE y = [x EXCEPT !.nextEvent = n]
    <3>1. y \in ContextType
      BY <2>1 DEF ContextType
    <3>2. x.cpu \in Nat /\ y.cpu = x.cpu
      BY <2>1 DEF ContextType
    <3>3. /\ y.head = x.head /\ y.load = x.load /\ y.win = x.win /\ y.fetched = x.fetched
          /\ y.ldq = x.ldq /\ y.stq = x.stq
      BY <2>1 DEF ContextType
    <3>4. (y.panic <=> x.panic) /\ (y.done <=> x.done)
      BY <2>1 DEF ContextType
    <3> QED
      BY <3>1, <3>2, <3>3, <3>4 DEF SameQueues
  <2>2. CASE y = [x EXCEPT !.hasComplete = FALSE]
    <3>1. y \in ContextType
      BY <2>2 DEF ContextType
    <3>2. x.cpu \in Nat /\ y.cpu = x.cpu
      BY <2>2 DEF ContextType
    <3>3. /\ y.head = x.head /\ y.load = x.load /\ y.win = x.win /\ y.fetched = x.fetched
          /\ y.ldq = x.ldq /\ y.stq = x.stq
      BY <2>2 DEF ContextType
    <3>4. (y.panic <=> x.panic) /\ (y.done <=> x.done)
      BY <2>2 DEF ContextType
    <3> QED
      BY <3>1, <3>2, <3>3, <3>4 DEF SameQueues
  <2>3. CASE y = [x EXCEPT !.cpu = n] /\ x.cpu <= n
    BY <2>3 DEF ContextType, SameQueues
  <2> QED
    BY <2>1, <2>2, <2>3
<1>2. Ops(y, e, K, {})
  BY <1>1, StillOps
<1> QED
  BY <1>1, <1>2 DEF Refilled, DoneWhenEmpty, RobLoad

(***************************************************************************)
(* What the type and the loops give the actions to work with.              *)
(***************************************************************************)
LEMMA InvFacts ==
  ASSUME Inv
  PROVE  /\ c \in ContextType /\ pc \in {"window", "idle", "loads", "stores", "scan", "notify"}
         /\ pos \in Nat /\ left \in Nat /\ kids \in Seq(0 .. IB - 1)
         /\ Refilled(c) /\ DoneWhenEmpty(c) /\ Ops(c, Entered, kids, {}) /\ Entered \in Nat
         /\ RobLoad(c) \in 0 .. c.load /\ c.load \in 0 .. IB /\ IB \in Nat
         /\ c.head \in 0 .. IB - 1 /\ c.ib = IB /\ c.cpu \in Nat
BY SMTT(30), Positions, Sizes DEF Inv, TypeOK, Entered, ContextType

\* the invariant holds at the start
LEMMA InitInv ==
  Init => Inv
<1> SUFFICES ASSUME Init PROVE Inv
  OBVIOUS
<1>1. /\ c \in ContextType /\ Ops(c, 0, <<>>, {}) /\ Refilled(c) /\ DoneWhenEmpty(c)
      /\ c.head = 0 /\ ~c.done
  BY NewContextOps DEF Init
<1>2. RobLoad(c) \in Nat
  BY <1>1, Positions
<1> QED
  BY <1>1, <1>2 DEF Init, Inv, TypeOK, Entered, Loops

\* init_window dispatches one operation more
LEMMA WindowOpInv ==
  Inv /\ InitWindowOp => Inv'
<1> SUFFICES ASSUME Inv, InitWindowOp PROVE Inv'
  OBVIOUS
<1>1. /\ c \in ContextType /\ pos \in Nat /\ left \in Nat \ {0} /\ kids \in Seq(0 .. IB - 1)
      /\ Refilled(c) /\ DoneWhenEmpty(c) /\ Ops(c, pos, kids, {})
      /\ RobLoad(c) \in 0 .. c.load /\ c.load \in 0 .. IB /\ IB \in Nat
      /\ c.head = 0 /\ pos + left = RobLoad(c) /\ ~c.done
  BY InvFacts DEF Inv, InitWindowOp, Entered, Loops
<1>2. pos \in 0 .. IB - 1 /\ pos < c.load
  BY <1>1
<1>3. Dist(c, pos) = pos
  BY <1>1, <1>2 DEF Dist
<1>4. c.win[pos].status = "issued"
  BY <1>1, <1>2, <1>3 DEF Ops, Phases
<1>5. Ops(c, pos, kids, {pos})
  <2>1. Queue(c, c.ldq, "LOAD", {pos}) /\ Queue(c, c.stq, "STORE", {pos})
    BY <1>1, <1>4, QueueAside DEF Ops, Queues
  <2> QED
    BY <1>1, <2>1 DEF Ops, Queues
<1>6. Ops(c', pos + 1, kids, {})
  <2>1. pos + 1 \in Nat /\ c.win[pos].status # "completed" /\ Dist(c, pos) <= pos
    BY <1>1, <1>3, <1>4
  <2>2. Ops(Dispatch(c, pos), pos + 1, kids, {})
    BY <1>1, <1>2, <1>3, <1>5, <2>1, DispatchOps
  <2> QED
    BY <2>2 DEF InitWindowOp
<1>7. c' \in ContextType /\ Still(c, c')
  BY <1>1, <1>2, DispatchDoes DEF InitWindowOp, Effect, OnlyAt
<1>8. /\ RobLoad(c)' = RobLoad(c) /\ c'.head = 0 /\ ~c'.done
      /\ Refilled(c)' /\ DoneWhenEmpty(c)'
  BY <1>1, <1>7, StillRest
<1>9. /\ pc' = "window" /\ pos' = pos + 1 /\ left' = left - 1 /\ kids' = kids /\ pc = "window"
  BY DEF InitWindowOp
<1>10. Ops(c, Entered, kids, {})'
  BY <1>6, <1>9 DEF Entered
<1>11. kids = <<>>
  BY <1>9 DEF Inv, Loops
<1> QED
  BY <1>1, <1>7, <1>8, <1>9, <1>10, <1>11 DEF Inv, TypeOK, Loops

\* init_window ends
LEMMA WindowDoneInv ==
  Inv /\ InitWindowDone => Inv'
<1> SUFFICES ASSUME Inv, InitWindowDone PROVE Inv'
  OBVIOUS
<1>1. /\ c \in ContextType /\ pos \in Nat /\ left = 0 /\ kids = <<>>
      /\ Refilled(c) /\ DoneWhenEmpty(c) /\ Ops(c, RobLoad(c), <<>>, {})
      /\ kids' = kids /\ pos' = pos /\ left' = left /\ pc' = "idle"
  <2>1. /\ c \in ContextType /\ pos \in Nat /\ left = 0 /\ pc = "window" /\ kids = <<>>
        /\ pos + left = RobLoad(c) /\ Refilled(c) /\ DoneWhenEmpty(c) /\ Ops(c, pos, kids, {})
    BY InvFacts DEF Inv, InitWindowDone, Entered, Loops
  <2>2. pos = RobLoad(c)
    BY <2>1
  <2> QED
    BY <2>1, <2>2 DEF InitWindowDone
<1>2. PICK n \in Nat : n = FirstEvent(c)
  BY <1>1, EventsNat
<1>3. c' = [c EXCEPT !.nextEvent = n]
  BY <1>2 DEF InitWindowDone
<1>4. /\ c' \in ContextType /\ Ops(c', RobLoad(c), <<>>, {}) /\ RobLoad(c') = RobLoad(c)
      /\ Refilled(c') /\ DoneWhenEmpty(c')
  BY <1>1, <1>3, FlagOps
<1> QED
  BY <1>1, <1>4 DEF Inv, TypeOK, Entered, Loops

\* the memory answers between two calls of advance
LEMMA MemoryAnswersInv ==
  ASSUME NEW line
  PROVE  Inv /\ MemoryAnswers(line) => Inv'
<1> SUFFICES ASSUME Inv, MemoryAnswers(line) PROVE Inv'
  OBVIOUS
<1>1. /\ c \in ContextType
      /\ c' = CompleteOp(c, line, c.cpu + 1) /\ pc = "idle" /\ pc' = "idle"
      /\ pos' = pos /\ left' = left /\ kids' = kids /\ kids = <<>>
      /\ RobLoad(c) \in Nat /\ Ops(c, RobLoad(c), <<>>, {}) /\ Refilled(c) /\ DoneWhenEmpty(c)
  BY InvFacts DEF Inv, Loops, MemoryAnswers, Entered
<1>2. c' \in ContextType /\ Still(c, c') /\ Ops(c', RobLoad(c), <<>>, {})
  BY <1>1, AnswerOps
<1>3. RobLoad(c') = RobLoad(c) /\ Refilled(c') /\ DoneWhenEmpty(c')
  BY <1>1, <1>2, StillRest
<1> QED
  BY <1>1, <1>2, <1>3 DEF Inv, TypeOK, Entered, Loops

\* the engine calls advance
LEMMA BeginAdvanceInv ==
  ASSUME NEW t \in c.cpu + 1 .. SmallerOf(c.cpu + Stride, MaxTime)
  PROVE  Inv /\ BeginAdvance(t) => Inv'
<1> SUFFICES ASSUME Inv, BeginAdvance(t) PROVE Inv'
  OBVIOUS
<1>1. /\ c \in ContextType /\ c.cpu \in Nat /\ pc = "idle" /\ pc' = "loads"
      /\ pos' = 1 /\ left' = left /\ kids' = kids /\ kids = <<>>
      /\ RobLoad(c) \in Nat /\ Ops(c, RobLoad(c), <<>>, {}) /\ Refilled(c) /\ DoneWhenEmpty(c)
      /\ c' = [c EXCEPT !.cpu = t]
  BY InvFacts DEF Inv, Loops, BeginAdvance, Entered
<1>2. t \in Nat /\ c.cpu <= t
  <2>1. SmallerOf(c.cpu + Stride, MaxTime) \in Nat
    BY <1>1, ThreadConstants DEF SmallerOf
  <2> QED
    BY <1>1, <2>1
<1>3. /\ c' \in ContextType /\ Ops(c', RobLoad(c), <<>>, {}) /\ RobLoad(c') = RobLoad(c)
      /\ Refilled(c') /\ DoneWhenEmpty(c')
  BY <1>1, <1>2, FlagOps
<1>4. pc' # "window" /\ pos' \in Nat /\ left' \in Nat
  BY <1>1 DEF Inv, TypeOK
<1> QED
  BY <1>1, <1>3, <1>4 DEF Inv, TypeOK, Entered, Loops

\* a turn of the loop over the waiting loads
LEMMA RetryLoadInv ==
  Inv /\ RetryLoad => Inv'
<1> SUFFICES ASSUME Inv, RetryLoad PROVE Inv'
  OBVIOUS
<1>1. /\ c \in ContextType /\ pc = "loads" /\ pc' = "loads" /\ left' = left /\ kids' = kids
      /\ kids = <<>> /\ pos \in Nat /\ pos >= 1 /\ pos <= Len(c.ldq) /\ c.ldq \in Seq(Request)
      /\ RobLoad(c) \in Nat /\ Ops(c, RobLoad(c), <<>>, {}) /\ Refilled(c) /\ DoneWhenEmpty(c)
  BY InvFacts DEF Inv, Loops, RetryLoad, Entered, ContextType
<1>2. pos \in 1 .. Len(c.ldq)
  BY <1>1, LenProperties
<1>3. c' \in ContextType /\ Still(c, c') /\ Ops(c', RobLoad(c), <<>>, {})
  <2>1. CASE LdPortReady(c, c.ldq[pos])
    <3>1. c' = [SendLd(c, c.ldq[pos]) EXCEPT !.ldq = Without(@, pos), !.hasComplete = TRUE]
      BY <2>1 DEF RetryLoad
    <3> QED
      BY <1>1, <1>2, <3>1, RetryLoadOps
  <2>2. CASE ~LdPortReady(c, c.ldq[pos])
    <3>1. c' = SyncLd(c)
      BY <2>2 DEF RetryLoad
    <3>2. c' \in ContextType /\ Still(c, c') /\ SameQueues(c, c') /\ c'.win = c.win
      BY <1>1, <3>1, SyncDoes
    <3>3. c'.head = c.head /\ c'.load = c.load /\ (c'.panic <=> c.panic) /\ c.cpu <= c'.cpu
      BY <1>1, <3>2 DEF Still, ContextType
    <3> QED
      BY <1>1, <3>2, <3>3, StillOps
  <2> QED
    BY <2>1, <2>2
<1>4. RobLoad(c') = RobLoad(c) /\ Refilled(c') /\ DoneWhenEmpty(c')
  BY <1>1, <1>3, StillRest
<1>5. pos' \in Nat /\ pos' >= 1
  BY <1>1 DEF RetryLoad
<1> QED
  BY <1>1, <1>3, <1>4, <1>5 DEF Inv, TypeOK, Entered, Loops

\* a turn of the loop over the waiting stores
LEMMA RetryStoreInv ==
  Inv /\ RetryStore => Inv'
<1> SUFFICES ASSUME Inv, RetryStore PROVE Inv'
  OBVIOUS
<1>1. /\ c \in ContextType /\ pc = "stores" /\ pc' = "stores" /\ left' = left /\ kids' = kids
      /\ kids = <<>> /\ pos \in Nat /\ pos >= 1 /\ pos <= Len(c.stq) /\ c.stq \in Seq(Request)
      /\ RobLoad(c) \in Nat /\ Ops(c, RobLoad(c), <<>>, {}) /\ Refilled(c) /\ DoneWhenEmpty(c)
  BY InvFacts DEF Inv, Loops, RetryStore, Entered, ContextType
<1>2. pos \in 1 .. Len(c.stq)
  BY <1>1, LenProperties
<1>3. c' \in ContextType /\ Still(c, c') /\ Ops(c', RobLoad(c), <<>>, {})
  <2>1. CASE StPortReady(c, c.stq[pos])
    <3>1. c' = [SendSt(c, c.stq[pos]) EXCEPT !.stq = Without(@, pos), !.hasComplete = TRUE]
      BY <2>1 DEF RetryStore
    <3> QED
      BY <1>1, <1>2, <3>1, RetryStoreOps
  <2>2. CASE ~StPortReady(c, c.stq[pos])
    <3>1. c' = SyncSt(c)
      BY <2>2 DEF RetryStore
    <3>2. c' \in ContextType /\ Still(c, c') /\ SameQueues(c, c') /\ c'.win = c.win
      BY <1>1, <3>1, SyncDoes
    <3>3. c'.head = c.head /\ c'.load = c.load /\ (c'.panic <=> c.panic) /\ c.cpu <= c'.cpu
      BY <1>1, <3>2 DEF Still, ContextType
    <3> QED
      BY <1>1, <3>2, <3>3, StillOps
  <2> QED
    BY <2>1, <2>2
<1>4. RobLoad(c') = RobLoad(c) /\ Refilled(c') /\ DoneWhenEmpty(c')
  BY <1>1, <1>3, StillRest
<1>5. pos' \in Nat /\ pos' >= 1
  BY <1>1 DEF RetryStore
<1> QED
  BY <1>1, <1>3, <1>4, <1>5 DEF Inv, TypeOK, Entered, Loops

\* the steps that only move the program counter
LEMMA TurnInv ==
  Inv /\ (RetryLoadsDone \/ NothingToDo \/ NotifyDone) => Inv'
<1> SUFFICES ASSUME Inv, RetryLoadsDone \/ NothingToDo \/ NotifyDone PROVE Inv'
  OBVIOUS
<1>1. /\ c' = c /\ left' = left /\ kids' = kids /\ kids = <<>>
      /\ pc # "window" /\ pc' # "window"
  BY DEF Inv, Loops, RetryLoadsDone, NothingToDo, NotifyDone
<1>2. TypeOK'
  BY <1>1 DEF Inv, TypeOK, RetryLoadsDone, NothingToDo, NotifyDone
<1>3. Ops(c, Entered, kids, {})' /\ Refilled(c)' /\ DoneWhenEmpty(c)'
  BY <1>1 DEF Inv, Entered
<1>4. Loops'
  BY <1>1 DEF Inv, Loops, RetryLoadsDone, NothingToDo, NotifyDone
<1> QED
  BY <1>2, <1>3, <1>4 DEF Inv

(***************************************************************************)
(* The loop of advance stays inside the reorder buffer: the next turn,     *)
(* with the head where it was and after the head has left.                 *)
(***************************************************************************)
LEMMA NextTurnDist ==
  ASSUME NEW x \in ContextType, NEW y \in ContextType, NEW p \in 0 .. IB - 1,
         NEW l \in Nat \ {0}, Dist(x, p) + l <= RobLoad(x)
  PROVE  /\ After(x, p) \in 0 .. IB - 1 /\ l - 1 \in Nat
         /\ y.head = x.head /\ RobLoad(y) = RobLoad(x) /\ l - 1 > 0 =>
              Dist(y, After(x, p)) + (l - 1) <= RobLoad(y)
         /\ p = x.head /\ y.head = After(x, p) /\ RobLoad(y) >= RobLoad(x) - 1 =>
              Dist(y, After(x, p)) + (l - 1) <= RobLoad(y)
<1>1. PICK d \in Nat, r \in Nat, a \in 0 .. IB - 1, ib \in Nat :
        d = Dist(x, p) /\ r = RobLoad(x) /\ a = After(x, p) /\ ib = IB
  BY DistNat, Positions, AfterDist, Sizes
<1>2. r <= ib
  <2>1. PICK n \in Nat : n = x.load /\ n <= ib
    BY <1>1, Positions
  <2> QED
    BY <1>1, <2>1, Positions
<1>3. d + 1 < ib => Dist(x, a) = d + 1
  BY <1>1, AfterDist
<1>4. d + l <= r
  BY <1>1
<1>5. ASSUME y.head = x.head, RobLoad(y) = RobLoad(x), l - 1 > 0
      PROVE  Dist(y, a) + (l - 1) <= RobLoad(y)
  <2>1. Dist(y, a) = Dist(x, a)
    BY <1>5 DEF Dist
  <2>2. d + 1 < ib
    BY <1>1, <1>2, <1>4, <1>5
  <2> QED
    BY <1>1, <1>3, <1>4, <1>5, <2>1, <2>2
<1>6. ASSUME p = x.head, y.head = a, RobLoad(y) >= RobLoad(x) - 1
      PROVE  Dist(y, a) + (l - 1) <= RobLoad(y)
  <2>1. Dist(y, a) = 0
    BY <1>1, <1>6 DEF Dist
  <2>2. PICK s \in Nat : s = RobLoad(y)
    BY Positions
  <2> QED
    BY <1>1, <1>4, <1>6, <2>1, <2>2
<1> QED
  BY <1>1, <1>5, <1>6

\* the children of a position do not change when the window is refilled
LEMMA ChildrenSame ==
  ASSUME NEW x \in ContextType, NEW y \in ContextType, Pattern(x), Pattern(y),
         NEW p \in 0 .. IB - 1
  PROVE  Children(y, p) = Children(x, p)
<1>1. y.win[p].next = x.win[p].next
  BY DEF Pattern
<1>2. y.ib = x.ib
  BY DEF ContextType
<1> QED
  BY <1>1, <1>2 DEF Children

\* nobody is told of anything once the window is empty
LEMMA EmptyOps ==
  ASSUME NEW x \in ContextType, NEW e, NEW K, Ops(x, e, K, {}), x.load = 0
  PROVE  Ops(x, e, <<>>, {})
<1>1. Counts(x, <<>>)
  <2>1. ASSUME NEW p \in 0 .. IB - 1 PROVE ~(Dist(x, p) < x.load)
    <3>1. PICK d \in Nat : d = Dist(x, p)
      BY DistNat
    <3> QED
      BY <3>1
  <2> QED
    BY <2>1 DEF Counts
<1> QED
  BY <1>1 DEF Ops

\* a turn that completes an operation, retires it at the head, and reads its children
LEMMA FinishOpInv ==
  Inv /\ FinishOp => Inv'
<1> SUFFICES ASSUME Inv, FinishOp PROVE Inv'
  OBVIOUS
<1>1. /\ c \in ContextType /\ pc = "scan" /\ pc' = "notify" /\ kids = <<>>
      /\ left \in Nat \ {0} /\ left' = left - 1 /\ pos \in 0 .. IB - 1 /\ pos' = After(c, pos)
      /\ Dist(c, pos) + left <= RobLoad(c) /\ RobLoad(c) \in 0 .. c.load /\ c.load \in Nat
      /\ Ops(c, RobLoad(c), <<>>, {}) /\ Refilled(c) /\ DoneWhenEmpty(c)
      /\ c.win[pos].status = "dispatched" /\ c.win[pos].complete \in 1 .. c.cpu
  <2>1. c.win[pos].complete \in Nat /\ c.cpu \in Nat
    BY DEF Inv, TypeOK, Loops, FinishOp, ContextType, Op
  <2> QED
    BY <2>1, InvFacts DEF Inv, Loops, FinishOp, NextTurn, Entered, IsFinished
<1> DEFINE x == [c EXCEPT !.win[pos].status = "completed"]
           K == Children(c, pos)
<1>2. /\ x \in ContextType /\ OnlyAt(c, x, pos) /\ x.win[pos].status = "completed"
      /\ Ops(x, RobLoad(c), K, {})
  BY <1>1, MarkOps
<1>3. /\ c' = IF pos = c.head THEN RetireHead(x) ELSE x
      /\ kids' = IF c'.done THEN <<>> ELSE Children(c', pos)
  BY DEF FinishOp
<1> HIDE DEF x
<1>4. /\ RobLoad(x) = RobLoad(c) /\ Refilled(x) /\ DoneWhenEmpty(x)
      /\ x.head = c.head /\ x.load = c.load
  BY <1>1, <1>2, StillRest DEF OnlyAt
<1>5. Dist(c, pos) \in Nat /\ c.load >= 1
  <2>1. PICK d \in Nat, l \in Nat, r \in Nat : d = Dist(c, pos) /\ l = c.load /\ r = RobLoad(c) /\ r <= l
    BY <1>1, DistNat
  <2> QED
    BY <1>1, <2>1
<1>6. /\ K \in Seq(0 .. IB - 1) /\ Len(K) = Len(c.win[pos].next) /\ Len(c.win[pos].next) \in Nat
      /\ \A n \in 1 .. Len(K) : K[n] # pos
  BY <1>1, ChildrenAre DEF Ops
<1> HIDE DEF K
<1>7. /\ c' \in ContextType /\ Ops(c', RobLoad(c'), K, {}) /\ Refilled(c') /\ DoneWhenEmpty(c')
      /\ pos' \in 0 .. IB - 1 /\ left' \in Nat
      /\ left' > 0 => Dist(c', pos') + left' <= RobLoad(c')
  <2>1. CASE pos = c.head
    <3>1. c' = RetireHead(x) /\ ~x.done /\ x.load >= 1 /\ x.win[x.head].status = "completed"
      BY <1>2, <1>3, <1>4, <1>5, <2>1 DEF DoneWhenEmpty
    <3>2. \A n \in 1 .. Len(K) : K[n] # x.head
      BY <1>4, <1>6, <2>1
    <3>3. /\ c' \in ContextType /\ Ops(c', RobLoad(c'), K, {}) /\ Refilled(c')
          /\ DoneWhenEmpty(c') /\ c'.head = After(x, x.head) /\ RobLoad(c') >= RobLoad(x) - 1
      BY <1>2, <1>4, <1>6, <3>1, <3>2, RetireOps
    <3>4. After(x, x.head) = After(c, pos)
      BY <1>1, <1>2, <1>4, <2>1 DEF After, ContextType
    <3> QED
      BY <1>1, <1>4, <2>1, <3>3, <3>4, NextTurnDist
  <2>2. CASE pos # c.head
    <3>1. c' = x
      BY <1>3, <2>2
    <3> QED
      BY <1>1, <1>2, <1>4, <3>1, NextTurnDist
  <2> QED
    BY <2>1, <2>2
<1>8. kids' \in Seq(0 .. IB - 1) /\ Ops(c', RobLoad(c'), kids', {})
  <2>1. CASE c'.done
    <3>1. c'.load = 0 /\ kids' = <<>>
      BY <1>3, <1>7, <2>1 DEF DoneWhenEmpty
    <3> QED
      BY <1>7, <3>1, EmptyOps
  <2>2. CASE ~c'.done
    <3>1. Children(c', pos) = K
      BY <1>1, <1>7, ChildrenSame DEF Ops, K
    <3> QED
      BY <1>3, <1>6, <1>7, <2>2, <3>1
  <2> QED
    BY <2>1, <2>2
<1> QED
  BY <1>1, <1>7, <1>8 DEF Inv, TypeOK, Entered, Loops

\* a turn of the loop over the children
LEMMA NotifyChildInv ==
  Inv /\ NotifyChild => Inv'
<1> SUFFICES ASSUME Inv, NotifyChild PROVE Inv'
  OBVIOUS
<1>1. /\ c \in ContextType /\ pc = "notify" /\ pc' = "notify" /\ kids # <<>>
      /\ kids \in Seq(0 .. IB - 1) /\ kids' = Tail(kids) /\ c' = Notify(c, Head(kids))
      /\ left' = left /\ pos' = pos /\ RobLoad(c) \in Nat
      /\ Ops(c, RobLoad(c), kids, {}) /\ Refilled(c) /\ DoneWhenEmpty(c)
  BY InvFacts DEF NotifyChild, Entered
<1>2. c' \in ContextType /\ Still(c, c') /\ Ops(c', RobLoad(c), Tail(kids), {})
  BY <1>1, NotifyOps
<1>3. /\ RobLoad(c') = RobLoad(c) /\ Refilled(c') /\ DoneWhenEmpty(c')
      /\ \A q : Dist(c', q) = Dist(c, q)
  BY <1>1, <1>2, StillRest
<1>4. kids' \in Seq(0 .. IB - 1)
  BY <1>1, HeadTailProperties
<1>5. Dist(c', pos) = Dist(c, pos)
  BY <1>3
<1> QED
  BY <1>1, <1>2, <1>3, <1>4, <1>5 DEF Inv, TypeOK, Entered, Loops

\* a turn that finds the head completed earlier
LEMMA RetireCompletedInv ==
  Inv /\ RetireCompleted => Inv'
<1> SUFFICES ASSUME Inv, RetireCompleted PROVE Inv'
  OBVIOUS
<1>1. /\ c \in ContextType /\ pc = "scan" /\ pc' = "scan" /\ kids = <<>> /\ kids' = kids
      /\ left \in Nat \ {0} /\ left' = left - 1 /\ pos \in 0 .. IB - 1 /\ pos' = After(c, pos)
      /\ Dist(c, pos) + left <= RobLoad(c) /\ RobLoad(c) \in 0 .. c.load /\ c.load \in Nat
      /\ Ops(c, RobLoad(c), <<>>, {}) /\ Refilled(c) /\ DoneWhenEmpty(c)
      /\ c.win[c.head].status = "completed" /\ pos = c.head /\ c' = RetireHead(c)
  BY InvFacts DEF Inv, Loops, RetireCompleted, NextTurn, Entered
<1>2. c.load >= 1 /\ ~c.done
  <2>1. PICK d \in Nat, l \in Nat, r \in Nat : d = Dist(c, pos) /\ l = c.load /\ r = RobLoad(c) /\ r <= l
    BY <1>1, DistNat
  <2>2. c.load >= 1
    BY <1>1, <2>1
  <2> QED
    BY <1>1, <2>2 DEF DoneWhenEmpty
<1>3. <<>> \in Seq(0 .. IB - 1) /\ \A i \in 1 .. Len(<<>>) : <<>>[i] # c.head
  OBVIOUS
<1>4. /\ c' \in ContextType /\ Ops(c', RobLoad(c'), <<>>, {}) /\ Refilled(c') /\ DoneWhenEmpty(c')
      /\ c'.head = After(c, c.head) /\ RobLoad(c') >= RobLoad(c) - 1
  BY <1>1, <1>2, <1>3, RetireOps
<1>5. /\ pos' \in 0 .. IB - 1 /\ left' \in Nat
      /\ left' > 0 => Dist(c', pos') + left' <= RobLoad(c')
  BY <1>1, <1>4, NextTurnDist
<1> QED
  BY <1>1, <1>4, <1>5 DEF Inv, TypeOK, Entered, Loops

\* a turn that finds nothing to do
LEMMA PassOpInv ==
  Inv /\ PassOp => Inv'
<1> SUFFICES ASSUME Inv, PassOp PROVE Inv'
  OBVIOUS
<1>1. /\ c \in ContextType /\ pc = "scan" /\ pc' = "scan" /\ kids = <<>> /\ kids' = kids /\ c' = c
      /\ left \in Nat \ {0} /\ left' = left - 1 /\ pos \in 0 .. IB - 1 /\ pos' = After(c, pos)
      /\ Dist(c, pos) + left <= RobLoad(c)
      /\ Ops(c, RobLoad(c), <<>>, {}) /\ Refilled(c) /\ DoneWhenEmpty(c)
  BY InvFacts DEF Inv, Loops, PassOp, NextTurn, Entered
<1>2. /\ pos' \in 0 .. IB - 1 /\ left' \in Nat
      /\ left' > 0 => Dist(c, pos') + left' <= RobLoad(c)
  BY <1>1, NextTurnDist
<1> QED
  BY <1>1, <1>2 DEF Inv, TypeOK, Entered, Loops

\* the loop over the reorder buffer begins
LEMMA BeginScanInv ==
  Inv /\ BeginScan => Inv'
<1> SUFFICES ASSUME Inv, BeginScan PROVE Inv'
  OBVIOUS
<1>1. /\ c \in ContextType /\ pc = "stores" /\ pc' = "scan" /\ kids = <<>> /\ kids' = kids
      /\ pos' = c.head /\ left' = RobLoad(c) /\ c' = [c EXCEPT !.hasComplete = FALSE]
      /\ RobLoad(c) \in Nat /\ c.head \in 0 .. IB - 1
      /\ Ops(c, RobLoad(c), <<>>, {}) /\ Refilled(c) /\ DoneWhenEmpty(c)
  BY InvFacts DEF Inv, Loops, BeginScan, Entered
<1>2. /\ c' \in ContextType /\ Ops(c', RobLoad(c), <<>>, {}) /\ RobLoad(c') = RobLoad(c)
      /\ Refilled(c') /\ DoneWhenEmpty(c') /\ c'.head = c.head
  BY <1>1, FlagOps
<1>3. Dist(c', pos') = 0 /\ pos' \in 0 .. IB - 1 /\ pos' \in Nat
  BY <1>1, <1>2 DEF Dist
<1> QED
  BY <1>1, <1>2, <1>3 DEF Inv, TypeOK, Entered, Loops

\* advance returns
LEMMA EndAdvanceInv ==
  Inv /\ EndAdvance => Inv'
<1> SUFFICES ASSUME Inv, EndAdvance PROVE Inv'
  OBVIOUS
<1>1. /\ c \in ContextType /\ pc = "scan" /\ pc' = "idle" /\ kids = <<>> /\ kids' = kids
      /\ pos' = pos /\ left' = left
      /\ Ops(c, RobLoad(c), <<>>, {}) /\ Refilled(c) /\ DoneWhenEmpty(c)
  BY InvFacts DEF Inv, Loops, EndAdvance, Entered
<1>2. PICK n \in Nat : n = NextEventAfter(c)
  BY <1>1, EventsNat
<1>3. c' = [c EXCEPT !.nextEvent = n]
  BY <1>2 DEF EndAdvance
<1>4. /\ c' \in ContextType /\ Ops(c', RobLoad(c), <<>>, {}) /\ RobLoad(c') = RobLoad(c)
      /\ Refilled(c') /\ DoneWhenEmpty(c')
  BY <1>1, <1>3, FlagOps
<1> QED
  BY <1>1, <1>4 DEF Inv, TypeOK, Entered, Loops

(***************************************************************************)
(* The invariant holds in every state a thread reaches.                    *)
(***************************************************************************)
THEOREM InvHolds == Spec => []Inv
<1>1. Inv /\ [Next]_vars => Inv'
  <2> SUFFICES ASSUME Inv, [Next]_vars PROVE Inv'
    OBVIOUS
  <2>1. CASE UNCHANGED vars
    <3>1. c' = c /\ pc' = pc /\ pos' = pos /\ left' = left /\ kids' = kids
      BY <2>1 DEF vars
    <3> QED
      BY <3>1 DEF Inv, TypeOK, Entered, Loops
  <2>2. CASE \E line \in PendingLines(c) : MemoryAnswers(line)
    BY <2>2, MemoryAnswersInv
  <2>3. CASE \E t \in c.cpu + 1 .. SmallerOf(c.cpu + Stride, MaxTime) : BeginAdvance(t)
    BY <2>3, BeginAdvanceInv
  <2> QED
    BY <2>1, <2>2, <2>3, WindowOpInv, WindowDoneInv, RetryLoadInv, RetryStoreInv, TurnInv,
       BeginScanInv, FinishOpInv, NotifyChildInv, RetireCompletedInv, PassOpInv, EndAdvanceInv
       DEF Next
<1> QED
  BY <1>1, InitInv, PTL DEF Spec

-----------------------------------------------------------------------------
(***************************************************************************)
(* The thread keeps its types, and the notification of an operation that   *)
(* waits for nothing, which the code answers with an exit, never happens.  *)
(***************************************************************************)
THEOREM TypeCorrect == Spec => [](TypeOK /\ c.panic = FALSE)
<1>1. Inv => TypeOK /\ c.panic = FALSE
  BY DEF Inv, Ops
<1> QED
  BY <1>1, InvHolds, PTL

(***************************************************************************)
(* An operation waits for exactly its parents that have not completed and  *)
(* the notifications under way: fetch_global_step, retire_head and         *)
(* advance's loop over the children agree on the ring.                     *)
(***************************************************************************)
THEOREM PrevIsParents == Spec => []PrevCountsParents
<1>1. ASSUME Inv PROVE PrevCountsParents
  <2>1. c \in ContextType /\ Aligned(c) /\ Pattern(c) /\ Counts(c, kids)
    BY <1>1 DEF Inv, TypeOK, Ops
  <2>2. ASSUME NEW p \in Live PROVE c.win[p].prev = UnfinishedParents(p) + BusyKids(p)
    <3>1. p \in 0 .. IB - 1 /\ Dist(c, p) < c.load
      BY <2>1, Positions DEF Live
    <3>2. UnfinishedParents(p) = Cardinality(Parents(c, p))
      BY <2>1, ParentsAre
    <3>3. BusyKids(p) = Cardinality(Told(kids, p))
      BY DEF BusyKids, Told
    <3> QED
      BY <2>1, <3>1, <3>2, <3>3 DEF Counts
  <2> QED
    BY <2>2 DEF PrevCountsParents
<1> QED
  BY <1>1, InvHolds, PTL

(***************************************************************************)
(* An operation with an edge to one that has been sent has completed, and  *)
(* the cache answered it: the order in which dispatch sends operations is  *)
(* the data flow of the kernel.                                            *)
(***************************************************************************)
THEOREM DataflowKept == Spec => []DataflowOrder
<1>1. ASSUME Inv PROVE DataflowOrder
  <2>1. /\ c \in ContextType /\ Aligned(c) /\ Pattern(c) /\ Counts(c, kids) /\ Sent(c)
        /\ kids \in Seq(0 .. IB - 1)
    BY <1>1 DEF Inv, TypeOK, Ops
  <2> SUFFICES ASSUME NEW q \in Live, NEW n \in 1 .. W, n <= Len(c.win[q].next),
                      NEW r, r = (q + c.win[q].next[n]) % c.ib,
                      c.win[r].status \in {"dispatched", "completed"}
               PROVE  c.win[q].status = "completed" /\ c.win[q].complete \in 1 .. c.cpu
    BY DEF DataflowOrder
  <2>2. q \in 0 .. IB - 1 /\ Dist(c, q) < c.load
    BY <2>1, Positions DEF Live
  <2>3. n \in 1 .. Len(c.win[q].next)
    <3>1. c.win[q].next \in Seq(Nat)
      BY <2>1, <2>2 DEF ContextType, Op
    <3>2. Len(c.win[q].next) \in Nat
      BY <3>1, LenProperties
    <3> QED
      BY <3>2
  <2>4. r = q + c.win[q].next[n] /\ r \in 0 .. IB - 1 /\ Dist(c, r) < c.load
    BY <2>1, <2>2, <2>3, Child
  <2>5. Cardinality(Parents(c, r)) = 0
    <3>1. PICK a \in Nat, b \in Nat : a = Cardinality(Parents(c, r)) /\ b = Cardinality(Told(kids, r))
      BY <2>1, ParentsFinite, ToldFinite
    <3>2. a + b = 0
      BY <2>1, <2>4, <3>1 DEF Counts, Sent
    <3> QED
      BY <3>1, <3>2
  <2>6. Parents(c, r) = {}
    BY <2>5, ParentsFinite, FS_EmptySet
  <2>7. c.win[q].status = "completed"
    <3>1. <<q, n>> \notin Parents(c, r)
      BY <2>6
    <3> QED
      BY <2>2, <2>4, <3>1 DEF Parents
  <2> QED
    BY <2>1, <2>2, <2>7 DEF Sent
<1> QED
  BY <1>1, InvHolds, PTL

(***************************************************************************)
(* The reorder buffer holds no operation dispatch was not called for: the  *)
(* window retire_head refills is always deep enough.                       *)
(***************************************************************************)
THEOREM RobIsDispatched == Spec => []RobDispatched
<1>1. ASSUME Inv PROVE RobDispatched
  <2>1. c \in ContextType /\ Phases(c, Entered)
    BY <1>1 DEF Inv, TypeOK, Ops
  <2>2. ASSUME pc # "window", NEW p \in Rob(c) PROVE c.win[p].status # "issued"
    <3>1. p \in 0 .. IB - 1 /\ Dist(c, p) < RobLoad(c)
      BY <2>1, Positions
    <3> QED
      BY <2>1, <2>2, <3>1 DEF Phases, Entered
  <2> QED
    BY <2>2 DEF RobDispatched
<1> QED
  BY <1>1, InvHolds, PTL

(***************************************************************************)
(* A thread that is done has no load unanswered and no request waiting for *)
(* its port.                                                               *)
(***************************************************************************)
THEOREM DoneIsDrained == Spec => []DoneMeansDrained
<1>1. ASSUME Inv PROVE DoneMeansDrained
  <2> SUFFICES ASSUME c.done PROVE Outstanding(c) = {} /\ c.ldq = <<>> /\ c.stq = <<>>
    BY DEF DoneMeansDrained
  <2>1. c \in ContextType /\ c.load = 0 /\ Phases(c, Entered) /\ Queues(c, {})
    BY <1>1 DEF Inv, TypeOK, Ops, DoneWhenEmpty
  <2>2. ASSUME NEW p \in 0 .. IB - 1 PROVE c.win[p].status = "completed"
    <3>1. PICK d \in Nat : d = Dist(c, p)
      BY <2>1, DistNat
    <3> QED
      BY <2>1, <3>1 DEF Phases
  <2>3. Outstanding(c) = {}
    BY <2>1, <2>2 DEF Outstanding, ContextType
  <2>4. ASSUME NEW q \in Seq(Request), NEW type, Queue(c, q, type, {}) PROVE q = <<>>
    <3>1. Len(q) \in Nat
      BY LenProperties
    <3>2. ASSUME NEW i \in 1 .. Len(q) PROVE FALSE
      <4>1. q[i].pos \in 0 .. IB - 1
        <5>1. q[i] \in Request
          BY <3>1, ElementOfSeq
        <5> QED
          BY <5>1 DEF Request
      <4> QED
        BY <2>2, <2>4, <4>1 DEF Queue
    <3>3. Len(q) = 0
      BY <3>1, <3>2
    <3> QED
      BY <3>3, EmptySeq
  <2>5. c.ldq \in Seq(Request) /\ c.stq \in Seq(Request)
    BY <2>1 DEF ContextType
  <2> QED
    BY <2>1, <2>3, <2>4, <2>5 DEF Queues
<1> QED
  BY <1>1, InvHolds, PTL
=============================================================================
