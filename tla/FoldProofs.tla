----------------------------- MODULE FoldProofs -----------------------------
(***************************************************************************)
(* What a loop over a sequence, written with FoldLeft, keeps: a property   *)
(* Good(base, seq, i, x) of the value x after i turns.  The operators are  *)
(* constants, so that a module that instantiates this one with a loop of   *)
(* its own and what it keeps has the theorem for them.                     *)
(***************************************************************************)
EXTENDS Integers, SequencesExt, NaturalsInduction, WellFoundedInduction, TLAPS

CONSTANTS
  Op(_, _),         \* the body: the value before and the element, to the value after
  Good(_, _, _, _)  \* what holds, for a first value and a sequence, of the
                    \* number of turns and the value after them

(***************************************************************************)
(* A set of natural numbers has a least element, a bounded one a greatest. *)
(***************************************************************************)
LEMMA Least ==
  ASSUME NEW T \in SUBSET Nat, T # {}
  PROVE  \E x \in T : \A y \in T : x <= y
<1> DEFINE R == {q \in Nat \X Nat : q[1] < q[2]}
<1>1. IsWellFoundedOn(R, Nat)
  BY NatLessThanWellFounded DEF OpToRel
<1>2. \A x, y \in Nat : x < y => <<x, y>> \in R
  OBVIOUS
<1>3. PICK x \in T : \A y \in T : ~(<<y, x>> \in R)
  <2> HIDE DEF R
  <2> QED BY <1>1, WFMin, Zenon
<1>4. ASSUME NEW y \in T PROVE x <= y
  <2>1. x \in Nat /\ y \in Nat
    OBVIOUS
  <2>2. ~(y < x)
    <3> HIDE DEF R
    <3> QED BY <1>2, <1>3, <2>1
  <2> QED BY <2>1, <2>2
<1> QED BY <1>4

\* A set of numbers up to n has a greatest element, which is Max of the set.
LEMMA Greatest ==
  ASSUME NEW n \in Nat, NEW S \in SUBSET (1 .. n), S # {}
  PROVE  Max(S) \in S /\ \A y \in S : y <= Max(S)
<1> DEFINE T == {n - x : x \in S}
<1>1. T \in SUBSET Nat /\ T # {}
  <2>1. \A x \in S : x \in 1 .. n
    OBVIOUS
  <2>2. \A x \in 1 .. n : n - x \in Nat
    OBVIOUS
  <2>3. T \subseteq Nat
    BY <2>1, <2>2
  <2> QED BY <2>3
<1>2. PICK t \in T : \A y \in T : t <= y
  BY <1>1, Least
<1>3. PICK x \in S : t = n - x
  OBVIOUS
<1>4. \A y \in S : y <= x
  <2> TAKE y \in S
  <2>1. t <= n - y
    BY <1>2
  <2>2. x \in Int /\ y \in Int
    OBVIOUS
  <2> QED BY <1>3, <2>1, <2>2
<1>5. \E m \in S : \A y \in S : m >= y
  <2>1. \A y \in S : x >= y
    BY <1>4
  <2> QED BY <2>1
<1>6. Max(S) \in S /\ \A y \in S : Max(S) >= y
  BY <1>5 DEF Max
<1>7. S \subseteq Int
  OBVIOUS
<1> QED BY <1>6, <1>7

(***************************************************************************)
(* The recursive function that FoldLeft computes with: iter[s] takes the   *)
(* greatest index of s last.                                               *)
(***************************************************************************)
Body(base, seq, g, s) ==
  IF s = {} THEN base ELSE Op(g[s \ {Max(s)}], seq[Max(s)])
Solves(base, seq, n, g) ==
  g = [s \in SUBSET (1 .. n) |-> Body(base, seq, g, s)]

\* Without its greatest element a set of indices lies below n + 1.
LEMMA Below ==
  ASSUME NEW n \in Nat, NEW s \in SUBSET (1 .. n + 1), s # {}
  PROVE  s \ {Max(s)} \in SUBSET (1 .. n)
<1>1. Max(s) \in s /\ \A y \in s : y <= Max(s)
  <2>1. n + 1 \in Nat
    OBVIOUS
  <2> QED BY <2>1, Greatest
<1>2. ASSUME NEW y \in s \ {Max(s)} PROVE y \in 1 .. n
  <2>1. y \in 1 .. n + 1 /\ Max(s) \in 1 .. n + 1 /\ y <= Max(s) /\ y # Max(s)
    BY <1>1
  <2> QED BY <2>1
<1> QED BY <1>2

\* For every length there is a function that Solves the recursion.
LEMMA Solvable ==
  ASSUME NEW base, NEW seq, NEW n \in Nat
  PROVE  \E g : Solves(base, seq, n, g)
<1> DEFINE T == {k \in Nat : ~ \E g : Solves(base, seq, k, g)}
<1>1. SUFFICES ASSUME T # {} PROVE FALSE
  OBVIOUS
<1>2. PICK k \in T : \A y \in T : k <= y
  <2>1. T \in SUBSET Nat
    OBVIOUS
  <2> HIDE DEF T
  <2> QED BY <1>1, <2>1, Least
<1>3. CASE k = 0
  <2> DEFINE g == [s \in SUBSET (1 .. 0) |-> base]
  <2>1. \A s \in SUBSET (1 .. 0) : Body(base, seq, g, s) = base
    BY DEF Body
  <2>2. Solves(base, seq, 0, g)
    BY <2>1 DEF Solves
  <2> QED BY <1>3, <2>2
<1>4. CASE k # 0
  <2>1. k - 1 \in Nat /\ ~(k <= k - 1) /\ k = (k - 1) + 1
    BY <1>4
  <2>2. PICK m : m = k - 1
    OBVIOUS
  <2>3. m \in Nat /\ k = m + 1 /\ ~(m \in T)
    BY <1>2, <2>1, <2>2
  <2>4. PICK h : Solves(base, seq, m, h)
    BY <2>3
  <2> DEFINE g == [s \in SUBSET (1 .. m + 1) |-> Body(base, seq, h, s)]
  <2>5. ASSUME NEW s \in SUBSET (1 .. m) PROVE g[s] = h[s]
    <3>1. s \in SUBSET (1 .. m + 1)
      BY <2>3
    <3>2. g[s] = Body(base, seq, h, s)
      BY <3>1
    <3>3. h[s] = Body(base, seq, h, s)
      BY <2>4 DEF Solves
    <3> QED BY <3>2, <3>3
  <2>6. ASSUME NEW s \in SUBSET (1 .. m + 1) PROVE Body(base, seq, g, s) = Body(base, seq, h, s)
    <3>1. CASE s = {}
      BY <3>1 DEF Body
    <3>2. CASE s # {}
      <4>1. s \ {Max(s)} \in SUBSET (1 .. m)
        BY <2>3, <3>2, Below
      <4>2. g[s \ {Max(s)}] = h[s \ {Max(s)}]
        BY <2>5, <4>1
      <4> HIDE DEF g
      <4> QED BY <3>2, <4>2 DEF Body
    <3> QED BY <3>1, <3>2
  <2>7. Solves(base, seq, m + 1, g)
    <3>1. g = [s \in SUBSET (1 .. m + 1) |-> Body(base, seq, g, s)]
      BY <2>6
    <3> QED BY <3>1 DEF Solves
  <2> QED BY <2>3, <2>7
<1> QED BY <1>3, <1>4

(***************************************************************************)
(* A loop keeps what each of its turns keeps.                              *)
(***************************************************************************)
THEOREM FoldKeeps ==
  ASSUME NEW base, NEW S, NEW seq \in Seq(S), Good(base, seq, 0, base),
         \A i \in 1 .. Len(seq) :
           \A x : Good(base, seq, i - 1, x) => Good(base, seq, i, Op(x, seq[i]))
  PROVE  Good(base, seq, Len(seq), FoldLeft(Op, base, seq))
<1> DEFINE N == Len(seq)
           iter == CHOOSE g : g = [s \in SUBSET (DOMAIN seq) |-> Body(base, seq, g, s)]
<1>1. N \in Nat /\ DOMAIN seq = 1 .. N
  OBVIOUS
<1>2. FoldLeft(Op, base, seq) = iter[DOMAIN seq]
  BY DEF FoldLeft, MapThenFoldSet, Body
<1>3. iter = [s \in SUBSET (1 .. N) |-> Body(base, seq, iter, s)]
  <2>1. \E g : g = [s \in SUBSET (DOMAIN seq) |-> Body(base, seq, g, s)]
    <3> HIDE DEF N
    <3>1. \E g : Solves(base, seq, N, g)
      BY <1>1, Solvable
    <3> QED BY <1>1, <3>1 DEF Solves
  <2>2. iter = [s \in SUBSET (DOMAIN seq) |-> Body(base, seq, iter, s)]
    BY <2>1
  <2> HIDE DEF iter
  <2> QED BY <1>1, <2>2
<1> HIDE DEF iter, N
<1> DEFINE T == {k \in Nat : k <= N /\ ~Good(base, seq, k, iter[1 .. k])}
<1>4. SUFFICES ASSUME T # {} PROVE FALSE
  <2>1. T = {} => Good(base, seq, N, iter[1 .. N])
    BY <1>1
  <2> QED BY <1>1, <1>2, <2>1 DEF N
<1>5. PICK k \in T : \A y \in T : k <= y
  <2>1. T \in SUBSET Nat
    OBVIOUS
  <2> HIDE DEF T
  <2> QED BY <1>4, <2>1, Least
<1>6. k \in Nat /\ k <= N /\ ~Good(base, seq, k, iter[1 .. k])
  OBVIOUS
<1>7. 1 .. k \in SUBSET (1 .. N)
  BY <1>1, <1>6
<1>8. iter[1 .. k] = Body(base, seq, iter, 1 .. k)
  BY <1>3, <1>7
<1>9. k # 0
  <2>1. ASSUME k = 0 PROVE FALSE
    <3>1. 1 .. k = {}
      BY <2>1
    <3> QED BY <1>6, <1>8, <2>1, <3>1 DEF Body
  <2> QED BY <2>1
<1>10. PICK m : m = k - 1
  OBVIOUS
<1>11. m \in Nat /\ k = m + 1 /\ m <= N /\ ~(k <= m)
  BY <1>1, <1>6, <1>9, <1>10
<1>12. Good(base, seq, m, iter[1 .. m])
  BY <1>5, <1>11
<1>13. Max(1 .. k) = k /\ 1 .. k # {} /\ (1 .. k) \ {k} = 1 .. m
  <2>1. k \in 1 .. k /\ \A y \in 1 .. k : y <= k
    BY <1>6, <1>9
  <2>2. Max(1 .. k) \in 1 .. k /\ \A y \in 1 .. k : y <= Max(1 .. k)
    BY <1>6, <2>1, Greatest
  <2>3. Max(1 .. k) = k
    BY <1>6, <2>1, <2>2
  <2>4. (1 .. k) \ {k} = 1 .. m
    BY <1>11
  <2> QED BY <2>1, <2>3, <2>4
<1>14. iter[1 .. k] = Op(iter[1 .. m], seq[k])
  <2> HIDE DEF T
  <2> QED BY <1>8, <1>13 DEF Body
<1>15. k \in 1 .. Len(seq)
  BY <1>6, <1>9 DEF N
<1> QED BY <1>6, <1>10, <1>12, <1>14, <1>15
=============================================================================
