---------------------------- MODULE EngineProofs ----------------------------
(***************************************************************************)
(* Proofs about the engine's loop, for every kernel, number of threads and *)
(* number of global steps.                                                 *)
(***************************************************************************)
EXTENDS Engine, FiniteSetTheorems, TLAPS

Fields == {"ib", "win", "head", "load", "fetched", "last", "cpu", "alu", "aluLeft", "ld", "ldLeft",
           "st", "stLeft", "ldq", "stq", "hasComplete", "nextEvent", "done", "panic"}
IsContext(x) == x = [f \in Fields |-> x[f]]

(***************************************************************************)
(* What a call leaves alone that neither fetches nor retires.              *)
(***************************************************************************)
Linked(op) == "next" \in DOMAIN op /\ op.next \in Seq(Nat)
IsList(q) == \E S : q \in Seq(S)
Wired(x) ==
  /\ \A q \in DOMAIN x.win : Linked(x.win[q])
  /\ IsList(x.ldq) /\ IsList(x.stq)

Same(x, y) ==
  /\ IsContext(y)
  /\ DOMAIN y.win = DOMAIN x.win /\ (Wired(x) => Wired(y))
  /\ y.head = x.head
  /\ y.ib = x.ib /\ y.load = x.load /\ y.fetched = x.fetched
  /\ y.last = x.last /\ y.done = x.done

\* A call that changes nothing.
LEMMA SameSelf == ASSUME NEW x, IsContext(x) PROVE Same(x, x)
BY DEF Same

\* Two calls, one after the other.
LEMMA SameTrans ==
  ASSUME NEW x, NEW y, NEW z, Same(x, y), Same(y, z) PROVE Same(x, z)
BY DEF Same

(***************************************************************************)
(* The ports and dispatch.                                                 *)
(***************************************************************************)
LEMMA SetField ==
  ASSUME NEW x, IsContext(x), 
         NEW f \in Fields \ {"ib", "win", "head", "load", "fetched", "last", "done", "ldq", "stq"}, NEW v
  PROVE  Same(x, [x EXCEPT ![f] = v])
BY DEF Same, IsContext, Fields, Wired

\* A call that replaces a retry list.
LEMMA SetQueue ==
  ASSUME NEW x, IsContext(x), NEW q, Wired(x) => IsList(q)
  PROVE  Same(x, [x EXCEPT !.ldq = q]) /\ Same(x, [x EXCEPT !.stq = q])
BY DEF Same, IsContext, Fields, Wired

\* A list stays a list when an element is appended (push_back).
LEMMA AppendList == ASSUME NEW q, NEW r, IsList(q) PROVE IsList(Append(q, r))
<1>1. PICK S : q \in Seq(S)
  BY DEF IsList
<1>2. q \in Seq(S \cup {r})
  BY <1>1
<1>3. Append(q, r) \in Seq(S \cup {r})
  BY <1>2
<1> QED BY <1>3 DEF IsList

\* Assigning one field of one operation in the window.
LEMMA SetOne ==
  ASSUME NEW x, IsContext(x), NEW p, NEW f, f # "next", NEW v
  PROVE  Same(x, [x EXCEPT !.win[p][f] = v])
<1> DEFINE y == [x EXCEPT !.win[p][f] = v]
<1>1. /\ IsContext(y) /\ y.head = x.head /\ y.ib = x.ib /\ y.load = x.load
      /\ y.fetched = x.fetched /\ y.last = x.last /\ y.done = x.done
      /\ y.win = [x.win EXCEPT ![p][f] = v] /\ y.ldq = x.ldq /\ y.stq = x.stq
  BY DEF IsContext, Fields
<1>2. DOMAIN y.win = DOMAIN x.win
  BY <1>1
<1>3. ASSUME Wired(x), NEW q \in DOMAIN x.win PROVE Linked(y.win[q])
  <2>1. CASE q = p
    <3>1. y.win[q] = [x.win[p] EXCEPT ![f] = v]
      BY <1>1, <2>1
    <3>2. Linked(x.win[p])
      BY <1>3, <2>1 DEF Wired
    <3> QED BY <3>1, <3>2 DEF Linked
  <2>2. CASE q # p
    BY <1>1, <1>3, <2>2 DEF Wired
  <2> QED BY <2>1, <2>2
<1> HIDE DEF y
<1>4. Wired(x) => Wired(y)
  BY <1>1, <1>2, <1>3 DEF Wired
<1> QED BY <1>1, <1>2, <1>4 DEF Same, y

\* Assigning two fields of one operation in the window.
LEMMA SetTwo ==
  ASSUME NEW x, IsContext(x), NEW p, NEW s, NEW t
  PROVE  /\ Same(x, [x EXCEPT !.win[p].status = s, !.win[p].complete = t])
         /\ Same(x, [x EXCEPT !.win[p].dispatch = s, !.win[p].comp = t])
         /\ Same(x, [x EXCEPT !.win[p].status = s, !.win[p].dispatch = t])
         /\ Same(x, [x EXCEPT !.win[p].status = s, !.win[p].sent = t])
<1>1. ASSUME NEW f, NEW g, f # "next", g # "next"
      PROVE  Same(x, [x EXCEPT !.win[p][f] = s, !.win[p][g] = t])
  <2> DEFINE y == [x EXCEPT !.win[p][f] = s]
  <2>1. Same(x, y)
    BY <1>1, SetOne
  <2>2. [x EXCEPT !.win[p][f] = s, !.win[p][g] = t] = [y EXCEPT !.win[p][g] = t]
    OBVIOUS
  <2> HIDE DEF y
  <2>3. IsContext(y)
    BY <2>1 DEF Same
  <2>4. Same(y, [y EXCEPT !.win[p][g] = t])
    BY <1>1, <2>3, SetOne
  <2> QED BY <2>1, <2>2, <2>4, SameTrans
<1> QED BY <1>1

\* issueLd: a load is sent or put in the retry list; nothing is fetched.
LEMMA SendLdSame == ASSUME NEW x, NEW r, IsContext(x) PROVE Same(x, SendLd(x, r))
<1> DEFINE now == LargerOf(x.ld, x.cpu)
           lat == IF LineOf(r.pos) \in PendingLines(x) THEN 0 ELSE x.win[r.pos].lat
           t == IF lat = 0 THEN 0 ELSE now + lat
           a == IF x.ldLeft = 1 THEN now + 1 ELSE now
           b == IF x.ldLeft = 1 THEN Ld ELSE x.ldLeft - 1
           u == [x EXCEPT !.win[r.pos].status = "dispatched", !.win[r.pos].sent = now]
           y == [u EXCEPT !.win[r.pos].complete = t]
           z == [y EXCEPT !.ld = a]
<1>1. SendLd(x, r) = [z EXCEPT !.ldLeft = b]
  BY DEF SendLd
<1>2. Same(x, y)
  <2> HIDE DEF now, t
  <2>1. Same(x, u)
    BY SetTwo
  <2>2. Same(u, y)
    <3>1. IsContext(u)
      BY <2>1 DEF Same
    <3> HIDE DEF u
    <3>2. Same(u, [u EXCEPT !.win[r.pos]["complete"] = t])
      BY <3>1, SetOne
    <3> QED BY <3>2
  <2> HIDE DEF u, y
  <2> QED BY <2>1, <2>2, SameTrans
<1>3. Same(y, z)
  <2> HIDE DEF y, a
  <2> QED BY <1>2, SetField DEF Same, Fields
<1>4. Same(z, [z EXCEPT !.ldLeft = b])
  <2> HIDE DEF z, b
  <2> QED BY <1>3, SetField DEF Same, Fields
<1> QED
  <2> HIDE DEF y, z, b
  <2> QED BY <1>1, <1>2, <1>3, <1>4, SameTrans

\* issueSt: a store is sent or put in the retry list; nothing is fetched.
LEMMA SendStSame == ASSUME NEW x, NEW r, IsContext(x) PROVE Same(x, SendSt(x, r))
<1> DEFINE now == LargerOf(x.st, x.cpu)
           a == IF x.stLeft = 1 THEN now + 1 ELSE now
           b == IF x.stLeft = 1 THEN St ELSE x.stLeft - 1
           y == [x EXCEPT !.win[r.pos].status = "dispatched", !.win[r.pos].complete = a]
           z == [y EXCEPT !.st = a]
<1>1. SendSt(x, r) = [z EXCEPT !.stLeft = b]
  BY DEF SendSt
<1>2. Same(x, y)
  <2> HIDE DEF a
  <2> QED BY SetTwo
<1>3. Same(y, z)
  <2> HIDE DEF y, a
  <2> QED BY <1>2, SetField DEF Same, Fields
<1>4. Same(z, [z EXCEPT !.stLeft = b])
  <2> HIDE DEF z, b
  <2> QED BY <1>3, SetField DEF Same, Fields
<1> QED
  <2> HIDE DEF y, z, b
  <2> QED BY <1>1, <1>2, <1>3, <1>4, SameTrans

\* The synchronisation of the ports with the clock.
LEMMA SyncSame ==
  ASSUME NEW x, IsContext(x) PROVE Same(x, SyncLd(x)) /\ Same(x, SyncSt(x))
BY DEF Same, SyncLd, SyncSt, IsContext, Fields, Wired

\* The use of the arithmetic unit.
LEMMA UseAluSame == ASSUME NEW x, NEW n, IsContext(x) PROVE Same(x, UseAlu(x, n))
BY DEF Same, UseAlu, IsContext, Fields, Wired

\* dispatch: an operation that waits for nothing is started.
LEMMA DispatchSame == ASSUME NEW x, NEW p, IsContext(x) PROVE Same(x, Dispatch(x, p))
<1> DEFINE op == x.win[p]
           c1 == IF op.comp = 0 THEN x ELSE UseAlu(x, op.comp)
           t == IF op.comp = 0 THEN x.cpu ELSE c1.alu
           c2 == [c1 EXCEPT !.win[p].dispatch = t, !.win[p].comp = 0]
           r == [pos |-> p, dispatch |-> t]
<1>1. Same(x, c1)
  <2> HIDE DEF op
  <2>1. Same(x, UseAlu(x, op.comp))
    BY UseAluSame
  <2> QED BY <2>1, SameSelf
<1>2. Same(c1, c2)
  <2> HIDE DEF c1, t
  <2>1. IsContext(c1)
    BY <1>1 DEF Same
  <2> QED BY <2>1, SetTwo
<1>3. IsContext(c2)
  BY <1>2 DEF Same
<1>4. Same(x, c2)
  <2> HIDE DEF c1, c2
  <2> QED BY <1>1, <1>2, SameTrans
<1> HIDE DEF c2, t
<1>5. Same(c2, SendLd(c2, r)) /\ Same(c2, SendSt(c2, r))
  <2> HIDE DEF r
  <2> QED BY <1>3, SendLdSame, SendStSame
<1>6. Same(c2, [SyncLd(c2) EXCEPT !.win[p].status = "pending", !.ldq = Append(@, r)])
  <2> HIDE DEF r
  <2>1. Same(c2, SyncLd(c2))
    BY <1>3, SyncSame
  <2> DEFINE y == SyncLd(c2)
             z == [y EXCEPT !.win[p].status = "pending"]
  <2>2. IsContext(y)
    BY <2>1 DEF Same
  <2> HIDE DEF y
  <2>3. Same(y, z)
    BY <2>2, SetOne
  <2>4. [y EXCEPT !.win[p].status = "pending", !.ldq = Append(@, r)] = [z EXCEPT !.ldq = Append(y.ldq, r)]
    BY <2>2 DEF IsContext, Fields
  <2>5. IsContext(z)
    BY <2>3 DEF Same
  <2> HIDE DEF z
  <2>6. Same(z, [z EXCEPT !.ldq = Append(y.ldq, r)])
    <3>1. z.ldq = y.ldq
      BY <2>2 DEF z, IsContext, Fields
    <3>2. Wired(z) => IsList(Append(y.ldq, r))
      BY <3>1, AppendList DEF Wired
    <3> QED BY <2>5, <3>2, SetQueue
  <2> QED BY <2>1, <2>3, <2>4, <2>6, SameTrans DEF y
<1>7. Same(c2, [SyncSt(c2) EXCEPT !.win[p].status = "pending", !.stq = Append(@, r)])
  <2> HIDE DEF r
  <2>1. Same(c2, SyncSt(c2))
    BY <1>3, SyncSame
  <2> DEFINE y == SyncSt(c2)
             z == [y EXCEPT !.win[p].status = "pending"]
  <2>2. IsContext(y)
    BY <2>1 DEF Same
  <2> HIDE DEF y
  <2>3. Same(y, z)
    BY <2>2, SetOne
  <2>4. [y EXCEPT !.win[p].status = "pending", !.stq = Append(@, r)] = [z EXCEPT !.stq = Append(y.stq, r)]
    BY <2>2 DEF IsContext, Fields
  <2>5. IsContext(z)
    BY <2>3 DEF Same
  <2> HIDE DEF z
  <2>6. Same(z, [z EXCEPT !.stq = Append(y.stq, r)])
    <3>1. z.stq = y.stq
      BY <2>2 DEF z, IsContext, Fields
    <3>2. Wired(z) => IsList(Append(y.stq, r))
      BY <3>1, AppendList DEF Wired
    <3> QED BY <2>5, <3>2, SetQueue
  <2> QED BY <2>1, <2>3, <2>4, <2>6, SameTrans DEF y
<1>8. Same(x, [x EXCEPT !.win[p].status = "pending", !.win[p].dispatch = 0])
  BY SetTwo
<1>9. \/ Dispatch(x, p) = [x EXCEPT !.win[p].status = "pending", !.win[p].dispatch = 0]
      \/ Dispatch(x, p) = SendLd(c2, r)
      \/ Dispatch(x, p) = [SyncLd(c2) EXCEPT !.win[p].status = "pending", !.ldq = Append(@, r)]
      \/ Dispatch(x, p) = SendSt(c2, r)
      \/ Dispatch(x, p) = [SyncSt(c2) EXCEPT !.win[p].status = "pending", !.stq = Append(@, r)]
  BY Zenon DEF Dispatch, c2, t
<1> QED BY <1>4, <1>5, <1>6, <1>7, <1>8, <1>9, SameTrans

-----------------------------------------------------------------------------
(***************************************************************************)
(* The loops.  Each is an instance of FoldProofs.                          *)
(***************************************************************************)
StillSame(base, seq, i, x) == IsContext(base) => Same(base, x)

Dispatched(acc, x) == Then(acc, LAMBDA v : Dispatch(v, x))
D == INSTANCE FoldProofs WITH Op <- Dispatched, Good <- StillSame

\* init_window: the loop dispatches the reorder buffer and fetches nothing.
LEMMA InitWindowSame == ASSUME NEW x, IsContext(x), x.load \in Nat PROVE Same(x, InitWindow(x))
<1> DEFINE s == [i \in 1 .. RobLoad(x) |-> i - 1]
           y == FoldLeft(LAMBDA acc, p : Then(acc, LAMBDA v : Dispatch(v, p)), x, s)
<1>1. \A acc, p : Dispatched(acc, p) = Dispatch(acc, p)
  BY DEF Dispatched, Then
<1>2. RobLoad(x) \in Nat /\ s \in Seq(Int)
  BY ContextConstants DEF RobLoad, SmallerOf
<1>3. StillSame(x, s, 0, x)
  BY SameSelf DEF StillSame
<1>4. \A i \in 1 .. Len(s) : \A z : StillSame(x, s, i - 1, z) => StillSame(x, s, i, Dispatched(z, s[i]))
  <2> HIDE DEF s
  <2>1. \A z, p : Same(x, z) => Same(x, Dispatch(z, p))
    BY DispatchSame, SameTrans DEF Same
  <2> QED BY <1>1, <2>1 DEF StillSame
<1>5. StillSame(x, s, Len(s), FoldLeft(Dispatched, x, s))
  <2> HIDE DEF s
  <2> QED BY <1>2, <1>3, <1>4, D!FoldKeeps DEF FoldLeft, D!FoldLeft, MapThenFoldSet, D!MapThenFoldSet, Max, D!Max
<1>6. Same(x, y)
  BY <1>5 DEF StillSame, Dispatched
<1>7. InitWindow(x) = [y EXCEPT !.nextEvent = FirstEvent(y)]
  BY DEF InitWindow, Loop, Then
<1> HIDE DEF y
<1>8. IsContext(y)
  BY <1>6 DEF Same
<1>9. Same(y, [y EXCEPT !.nextEvent = FirstEvent(y)])
  BY <1>8, SetField DEF Fields
<1> QED BY <1>6, <1>7, <1>9, SameTrans

(***************************************************************************)
(* What a context keeps between two calls: its window fits the ring, it    *)
(* does not fetch more than its share, and it is done only when nothing is *)
(* left.                                                                   *)
(***************************************************************************)
Sound(x, last) ==
  /\ IsContext(x)
  /\ DOMAIN x.win = 0 .. x.ib - 1 /\ Wired(x)
  /\ x.ib \in Nat /\ x.head \in Nat /\ x.load \in 0 .. x.ib
  /\ x.last = last /\ x.fetched \in Nat /\ x.fetched <= last
  /\ x.done \in BOOLEAN
  /\ x.done => x.load = 0 /\ x.fetched = last

\* A context stays sound under calls that neither fetch nor retire.
LEMMA SameSound ==
  ASSUME NEW x, NEW y, NEW last, Sound(x, last), Same(x, y)
  PROVE  Sound(y, last)
BY DEF Sound, Same

(***************************************************************************)
(* retire_head: one operation leaves, whole steps come.                    *)
(***************************************************************************)
LEMMA Width == W \in Nat \ {0}
BY ContextConstants DEF W

\* Rounding down to whole steps and the rest.
LEMMA Quotient ==
  ASSUME NEW a \in Nat, NEW b \in Nat \ {0}
  PROVE  a \div b \in Nat /\ (a \div b) * b <= a
OBVIOUS

\* retire_head: one operation leaves, and whole steps come while some are left.
LEMMA RetireSound ==
  ASSUME NEW x, NEW last \in Nat, Sound(x, last), x.load > 0
  PROVE  /\ Sound(RetireHead(x), last) /\ RetireHead(x).load >= x.load - 1
         /\ RetireHead(x).ib = x.ib
<1> DEFINE c1 == [x EXCEPT !.head = After(x, @), !.load = @ - 1]
           n == StepsToFetch(c1)
           c2 == FetchSteps(c1, n)
           c3 == IF c2.load >= RobDepth THEN Dispatch(c2, RingAt(c2, RobDepth - 1)) ELSE c2
<1>1. /\ IsContext(c1) /\ c1.ib = x.ib /\ c1.load = x.load - 1
      /\ c1.fetched = x.fetched /\ c1.last = x.last /\ c1.done = x.done
  BY DEF Sound, IsContext, Fields
<1>2. c1.ib \in Nat /\ c1.load \in 0 .. c1.ib /\ c1.fetched \in Nat /\ c1.fetched <= c1.last
  <2> HIDE DEF c1
  <2> QED BY <1>1 DEF Sound
<1>3. n \in Nat /\ c1.load + n * W <= c1.ib /\ c1.fetched + n <= c1.last
  <2> HIDE DEF c1
  <2>1. PICK q : q = (c1.ib - c1.load) \div W
    OBVIOUS
  <2>2. q \in Nat /\ q * W <= c1.ib - c1.load
    <3>1. c1.ib - c1.load \in Nat
      BY <1>2
    <3> QED BY <2>1, <3>1, Width, Quotient
  <2>3. c1.last \in Nat
    BY <1>1 DEF Sound
  <2>4. (n \in Nat /\ n <= q /\ c1.fetched + n <= c1.last) \/ n = 0
    BY <1>2, <2>1, <2>2, <2>3 DEF StepsToFetch, SmallerOf
  <2>5. n * W <= q * W \/ n = 0
    <3> HIDE DEF n
    <3>1. CASE n = 0
      BY <3>1
    <3>2. CASE n \in Nat /\ n <= q
      <4>1. PICK d \in Nat : q = n + d
        BY <2>2, <3>2
      <4>2. q * W = n * W + d * W /\ d * W \in Nat /\ n * W \in Nat
        BY <3>2, <4>1, Width
      <4> QED BY <4>2
    <3> QED BY <2>4, <3>1, <3>2
  <2> HIDE DEF n
  <2>6. CASE n = 0
    BY <1>2, <2>3, <2>6, Width
  <2>7. CASE n # 0
    <3>1. PICK m : m = n * W
      OBVIOUS
    <3>2. PICK k : k = q * W
      OBVIOUS
    <3>3. m \in Nat /\ k \in Nat
      BY <2>2, <2>4, <2>7, <3>1, <3>2, Width
    <3>4. m <= k /\ k <= c1.ib - c1.load
      BY <2>2, <2>5, <2>7, <3>1, <3>2
    <3>5. c1.load + m <= c1.ib
      BY <1>2, <3>3, <3>4
    <3> QED BY <2>4, <2>7, <3>1, <3>5
  <2> QED BY <2>6, <2>7
<1>4. /\ IsContext(c2) /\ c2.ib = c1.ib /\ c2.load = c1.load + n * W
      /\ c2.fetched = c1.fetched + n /\ c2.last = c1.last /\ c2.done = c1.done
  <2> HIDE DEF c1, n
  <2> QED BY <1>1 DEF FetchSteps, IsContext, Fields
<1>5. /\ DOMAIN c1.win = 0 .. x.ib - 1 /\ Wired(c1) /\ c1.head \in Nat
  <2>1. c1.win = x.win /\ c1.head = After(x, x.head) /\ c1.ldq = x.ldq /\ c1.stq = x.stq
    BY DEF Sound, IsContext, Fields
  <2> HIDE DEF c1
  <2>2. Wired(x) /\ DOMAIN x.win = 0 .. x.ib - 1 /\ x.head \in Nat
    BY DEF Sound
  <2>3. Wired(c1)
    BY <2>1, <2>2 DEF Wired
  <2>4. c1.head \in Nat
    BY <2>1, <2>2 DEF After
  <2> QED BY <2>1, <2>2, <2>3, <2>4
<1>6. /\ DOMAIN c2.win = 0 .. x.ib - 1 /\ Wired(c2) /\ c2.head \in Nat
  <2> HIDE DEF c1, n
  <2> DEFINE start == (c1.head + c1.load) % c1.ib
             place(p) == (p - start + c1.ib) % c1.ib
  <2>1. /\ c2.win = [p \in 0 .. c1.ib - 1 |->
                       IF place(p) < n * W THEN FreshOp((place(p) % W) + 1) ELSE c1.win[p]]
        /\ c2.head = c1.head /\ c2.ldq = c1.ldq /\ c2.stq = c1.stq
    BY <1>1 DEF FetchSteps, IsContext, Fields
  <2> HIDE DEF place
  <2>2. ASSUME NEW p \in 0 .. c1.ib - 1 PROVE Linked(c2.win[p])
    <3>1. CASE c2.win[p] = c1.win[p]
      BY <1>1, <1>5, <3>1 DEF Wired
    <3>2. CASE c2.win[p] = FreshOp((place(p) % W) + 1)
      <4>1. PICK m : m = place(p)
        OBVIOUS
      <4>2. m \in Int
        <5>1. c1.ib \in Nat \ {0} /\ c1.head \in Nat /\ c1.load \in Nat
          BY <1>2, <1>5
        <5>2. start \in Int
          BY <5>1
        <5> HIDE DEF start
        <5> QED BY <4>1, <5>1, <5>2 DEF place
      <4>3. (m % W) + 1 \in 1 .. W
        BY <4>2, Width
      <4>4. Step[(m % W) + 1] \in OpTemplate
        BY <4>3, ContextConstants DEF W
      <4>5. c2.win[p] = FreshOp((m % W) + 1)
        BY <3>2, <4>1
      <4> QED BY <4>4, <4>5 DEF FreshOp, Linked, OpTemplate
    <3> HIDE DEF c2
    <3> QED BY <2>1, <3>1, <3>2
  <2> HIDE DEF c2
  <2> QED BY <1>1, <1>5, <2>1, <2>2 DEF Wired
<1>7. Same(c2, c3)
  <2> HIDE DEF c2
  <2> QED BY <1>4, DispatchSame, SameSelf
<1>8. RetireHead(x) = [c3 EXCEPT !.done = @ \/ NothingLeft(c3)]
  BY DEF RetireHead
<1> HIDE DEF c1, n, c2, c3
<1>9. c3.done \in BOOLEAN /\ c3.done = x.done
  BY <1>1, <1>4, <1>7 DEF Same, Sound
<1>10. PICK b \in BOOLEAN : b = (c3.done \/ NothingLeft(c3))
  OBVIOUS
<1>11. RetireHead(x) = [c3 EXCEPT !.done = b]
  BY <1>8, <1>10
<1>12. /\ IsContext([c3 EXCEPT !.done = b]) /\ [c3 EXCEPT !.done = b].done = b
       /\ [c3 EXCEPT !.done = b].ib = c3.ib /\ [c3 EXCEPT !.done = b].load = c3.load
       /\ [c3 EXCEPT !.done = b].fetched = c3.fetched /\ [c3 EXCEPT !.done = b].last = c3.last
  BY <1>7 DEF Same, IsContext, Fields
<1>13. PICK m \in Nat : m = n * W
  BY <1>3, Width
<1>14. /\ c3.load = c1.load + m /\ c3.fetched = c1.fetched + n /\ c3.ib = c1.ib /\ c3.last = last
       /\ c1.load + m <= c1.ib /\ c1.last = last /\ c1.load = x.load - 1
  BY <1>1, <1>3, <1>4, <1>7, <1>13 DEF Same, Sound
<1>15. ~x.done
  BY DEF Sound
<1>16. b => c3.load = 0 /\ c3.fetched = last
  BY <1>9, <1>10, <1>14, <1>15 DEF NothingLeft
<1>17. c3.ib \in Nat /\ c3.load \in 0 .. c3.ib /\ c3.fetched \in Nat /\ c3.fetched <= last
       /\ c3.load >= x.load - 1
  <2>1. PICK i, k, f, e \in Int : i = c1.ib /\ k = c1.load /\ f = c1.fetched /\ e = n
    BY <1>2, <1>3
  <2>2. i \in Nat /\ k \in 0 .. i /\ f \in Nat /\ e \in Nat /\ k + m <= i /\ f + e <= last
    BY <1>2, <1>3, <1>14, <2>1
  <2>3. c3.ib = i /\ c3.load = k + m /\ c3.fetched = f + e /\ x.load - 1 = k
    BY <1>14, <2>1
  <2> QED BY <1>13, <2>2, <2>3
<1>18. DOMAIN c3.win = 0 .. c3.ib - 1 /\ Wired(c3) /\ c3.head \in Nat
  BY <1>1, <1>7, <1>14, <1>6 DEF Same
<1>19. /\ [c3 EXCEPT !.done = b].win = c3.win /\ [c3 EXCEPT !.done = b].head = c3.head
       /\ [c3 EXCEPT !.done = b].ldq = c3.ldq /\ [c3 EXCEPT !.done = b].stq = c3.stq
  BY <1>7 DEF Same, IsContext, Fields
<1> QED BY <1>1, <1>11, <1>12, <1>14, <1>16, <1>17, <1>18, <1>19 DEF Sound, Wired

(***************************************************************************)
(* Telling the children of a completed operation.                          *)
(***************************************************************************)
LEMMA NotifySame == ASSUME NEW x, NEW p, IsContext(x) PROVE Same(x, Notify(x, p))
<1> DEFINE c1 == [x EXCEPT !.win[p].prev = @ - 1]
<1>1. Same(x, c1) /\ Same(x, [x EXCEPT !.panic = TRUE])
  <2>1. Same(x, c1)
    BY SetOne
  <2>2. Same(x, [x EXCEPT !.panic = TRUE])
    BY SetField DEF Fields
  <2> QED BY <2>1, <2>2
<1>2. \/ Notify(x, p) = [x EXCEPT !.panic = TRUE]
      \/ Notify(x, p) = Dispatch(c1, p)
      \/ Notify(x, p) = c1
  BY DEF Notify
<1> HIDE DEF c1
<1>3. Same(c1, Dispatch(c1, p))
  <2>1. IsContext(c1)
    BY <1>1 DEF Same
  <2> QED BY <2>1, DispatchSame
<1>4. Same(x, Dispatch(c1, p))
  BY <1>1, <1>3, SameTrans
<1> QED BY <1>1, <1>2, <1>4

Notified(acc, x) == Then(acc, LAMBDA v : NotifyUnlessPanic(v, x))
N == INSTANCE FoldProofs WITH Op <- Notified, Good <- StillSame

\* The loop over the children of a completed operation.
LEMMA NotifyAllSame ==
  ASSUME NEW x, NEW p \in DOMAIN x.win, IsContext(x), Wired(x)
  PROVE  Same(x, NotifyAll(x, p))
<1>1. CASE x.done
  BY <1>1, SameSelf DEF NotifyAll
<1>2. CASE ~x.done
  <2>1. PICK s : s = Children(x, p)
    OBVIOUS
  <2>2. s \in Seq({s[i] : i \in DOMAIN s})
    <3>1. Len(x.win[p].next) \in Nat
      BY DEF Wired, Linked
    <3>2. PICK n \in Nat : n = Len(x.win[p].next)
      BY <3>1
    <3>3. DOMAIN s = 1 .. n /\ s = [i \in 1 .. n |-> s[i]]
      BY <2>1, <3>2 DEF Children
    <3> QED BY <3>3
  <2>3. \A acc, k : Notified(acc, k) = NotifyUnlessPanic(acc, k)
    BY DEF Notified, Then
  <2>4. StillSame(x, s, 0, x)
    BY SameSelf DEF StillSame
  <2>5. \A i \in 1 .. Len(s) : \A z : StillSame(x, s, i - 1, z) => StillSame(x, s, i, Notified(z, s[i]))
    <3>1. \A z, k : Same(x, z) => Same(x, NotifyUnlessPanic(z, k))
      BY NotifySame, SameTrans DEF Same, NotifyUnlessPanic
    <3> QED BY <2>3, <3>1 DEF StillSame
  <2>6. StillSame(x, s, Len(s), FoldLeft(Notified, x, s))
    BY <2>2, <2>4, <2>5, N!FoldKeeps DEF FoldLeft, N!FoldLeft, MapThenFoldSet, N!MapThenFoldSet, Max, N!Max
  <2>7. NotifyAll(x, p) = FoldLeft(LAMBDA acc, k : Then(acc, LAMBDA v : NotifyUnlessPanic(v, k)), x, s)
    BY <1>2, <2>1 DEF NotifyAll, Loop
  <2> QED BY <2>6, <2>7 DEF StillSame, Notified
<1> QED BY <1>1, <1>2

(***************************************************************************)
(* One turn of advance's loop over the reorder buffer retires at most one  *)
(* operation.                                                              *)
(***************************************************************************)
LEMMA FinishSound ==
  ASSUME NEW x, NEW last \in Nat, Sound(x, last), x.load > 0, NEW p \in 0 .. x.ib - 1
  PROVE  /\ Sound(Finish(x, p), last) /\ Finish(x, p).load >= x.load - 1
         /\ Finish(x, p).ib = x.ib
<1> DEFINE c1 == [x EXCEPT !.win[p].status = "completed"]
           c2 == IF p = c1.head THEN RetireHead(c1) ELSE c1
<1>1. Same(x, c1)
  BY SetOne DEF Sound
<1>2. Sound(c1, last) /\ c1.load = x.load
  <2> HIDE DEF c1
  <2> QED BY <1>1, SameSound DEF Same
<1>3. Sound(c2, last) /\ c2.load >= x.load - 1 /\ c2.ib = x.ib
  <2> HIDE DEF c1
  <2>1. /\ Sound(RetireHead(c1), last) /\ RetireHead(c1).load >= x.load - 1
        /\ RetireHead(c1).ib = c1.ib
    BY <1>2, RetireSound
  <2>2. c1.load >= x.load - 1 /\ c1.ib = x.ib
    BY <1>1, <1>2 DEF Sound, Same
  <2> QED BY <1>2, <2>1, <2>2
<1>4. Finish(x, p) = NotifyAll(c2, p)
  BY DEF Finish, Then
<1> HIDE DEF c1, c2
<1>6. Same(c2, NotifyAll(c2, p))
  <2>1. IsContext(c2) /\ Wired(c2) /\ p \in DOMAIN c2.win
    BY <1>3 DEF Sound
  <2> QED BY <2>1, NotifyAllSame
<1>7. Sound(NotifyAll(c2, p), last) /\ NotifyAll(c2, p).load = c2.load
      /\ NotifyAll(c2, p).ib = c2.ib
  BY <1>3, <1>6, SameSound DEF Same
<1> QED BY <1>3, <1>4, <1>7

\* One turn of the scan of the reorder buffer.
LEMMA TurnSound ==
  ASSUME NEW x, NEW last \in Nat, Sound(x, last), x.load > 0, NEW p \in 0 .. x.ib - 1
  PROVE  /\ Sound(Turn(x, p), last) /\ Turn(x, p).load >= x.load - 1
         /\ Turn(x, p).ib = x.ib
<1>1. x.load >= x.load - 1
  BY DEF Sound
<1> QED BY <1>1, FinishSound, RetireSound DEF Turn

(***************************************************************************)
(* advance, and what an answer of the memory does to a context before it.  *)
(***************************************************************************)
Scanned(base, seq, i, x) ==
  /\ Sound(x, base.last) /\ x.ib = base.ib
  /\ x.load >= base.load - i

Turned(acc, x) == Then(acc, LAMBDA v : Turn(v, x))
T == INSTANCE FoldProofs WITH Op <- Turned, Good <- Scanned

\* The scan of the reorder buffer.
LEMMA ScanSound ==
  ASSUME NEW x, NEW last \in Nat, Sound(x, last), ~x.done
  PROVE  Sound(Scan(x), last)
<1> DEFINE c0 == [x EXCEPT !.hasComplete = FALSE]
           s == [i \in 1 .. RobLoad(x) |-> RingAt(x, i - 1)]
           y == FoldLeft(LAMBDA acc, p : Then(acc, LAMBDA v : Turn(v, p)), c0, s)
<1>1. Same(x, c0)
  <2>1. IsContext(x)
    BY DEF Sound
  <2> QED BY <2>1, SetField DEF Fields
<1>2. Sound(c0, last) /\ c0.load = x.load /\ c0.ib = x.ib /\ c0.last = last
  <2> HIDE DEF c0
  <2> QED BY <1>1, SameSound DEF Same, Sound
<1>3. PICK n \in Nat : n = RobLoad(x) /\ n <= x.load
  <2>1. x.load \in Nat
    BY DEF Sound
  <2> QED BY <2>1, ContextConstants DEF RobLoad, SmallerOf
<1>4. Len(s) = n /\ s \in Seq(0 .. x.ib - 1) /\ \A i \in 1 .. n : s[i] \in 0 .. x.ib - 1
  <2>1. ASSUME NEW i \in 1 .. n PROVE RingAt(x, i - 1) \in 0 .. x.ib - 1
    <3>1. x.head \in Nat /\ x.ib \in Nat /\ x.load \in 0 .. x.ib
      BY DEF Sound
    <3>2. x.ib > 0
      BY <1>3, <3>1
    <3> QED BY <3>1, <3>2 DEF RingAt
  <2>2. s = [i \in 1 .. n |-> RingAt(x, i - 1)]
    BY <1>3
  <2> HIDE DEF s
  <2> QED BY <2>1, <2>2
<1>5. \A acc, p : Turned(acc, p) = Turn(acc, p)
  BY DEF Turned, Then
<1> HIDE DEF c0, s
<1>6. Scanned(c0, s, 0, c0)
  <2>1. c0.load >= c0.load - 0
    BY <1>2 DEF Sound
  <2> QED BY <1>2, <2>1 DEF Scanned
<1>7. \A i \in 1 .. Len(s) : \A z : Scanned(c0, s, i - 1, z) => Scanned(c0, s, i, Turned(z, s[i]))
  <2> SUFFICES ASSUME NEW i \in 1 .. n, NEW z, Scanned(c0, s, i - 1, z)
               PROVE  Scanned(c0, s, i, Turn(z, s[i]))
    BY <1>4, <1>5
  <2>1. Sound(z, last) /\ z.ib = x.ib /\ z.load >= x.load - (i - 1)
    BY <1>2 DEF Scanned
  <2>2. x.load \in Nat /\ z.load \in Nat
    BY <2>1 DEF Sound
  <2>3. z.load > 0
    BY <1>3, <2>1, <2>2
  <2>4. s[i] \in 0 .. z.ib - 1
    BY <1>4, <2>1
  <2>5. /\ Sound(Turn(z, s[i]), last) /\ Turn(z, s[i]).load >= z.load - 1
        /\ Turn(z, s[i]).ib = z.ib
    BY <2>1, <2>3, <2>4, TurnSound
  <2>6. Turn(z, s[i]).load \in Nat
    BY <2>5 DEF Sound
  <2>7. Turn(z, s[i]).load >= x.load - i
    BY <2>1, <2>2, <2>5, <2>6
  <2> QED BY <1>2, <2>1, <2>5, <2>7 DEF Scanned
<1>8. Scanned(c0, s, Len(s), FoldLeft(Turned, c0, s))
  BY <1>4, <1>6, <1>7, T!FoldKeeps DEF FoldLeft, T!FoldLeft, MapThenFoldSet, T!MapThenFoldSet, Max, T!Max
<1>9. Sound(y, last)
  BY <1>2, <1>8 DEF Scanned, Turned
<1>10. Scan(x) = [y EXCEPT !.nextEvent = NextEventAfter(y)]
  BY DEF Scan, Loop, Then, c0, s
<1> HIDE DEF y
<1>11. Same(y, [y EXCEPT !.nextEvent = NextEventAfter(y)])
  <2>1. IsContext(y)
    BY <1>9 DEF Sound
  <2> QED BY <2>1, SetField DEF Fields
<1> QED BY <1>9, <1>10, <1>11, SameSound

LoadOffered(acc, x) == Then(acc, LAMBDA v : OfferLd(v, x))
L == INSTANCE FoldProofs WITH Op <- LoadOffered, Good <- StillSame

\* The loop over the loads to be sent again.
LEMMA RetryLoadsSame ==
  ASSUME NEW x, IsContext(x), Wired(x)
  PROVE  Same(x, RetryLoads(x))
<1> DEFINE c0 == [x EXCEPT !.ldq = <<>>]
           y == FoldLeft(LAMBDA acc, r : Then(acc, LAMBDA v : OfferLd(v, r)), c0, x.ldq)
<1>1. Same(x, c0)
  <2>1. IsList(<<>>)
    BY DEF IsList
  <2> QED BY <2>1, SetQueue
<1>2. IsContext(c0)
  BY <1>1 DEF Same
<1>3. \A acc, r : LoadOffered(acc, r) = OfferLd(acc, r)
  BY DEF LoadOffered, Then
<1>4. ASSUME NEW z, IsContext(z), NEW r PROVE Same(z, OfferLd(z, r))
  <2>1. Same(z, [SendLd(z, r) EXCEPT !.hasComplete = TRUE])
    <3>1. Same(z, SendLd(z, r))
      BY <1>4, SendLdSame
    <3>2. IsContext(SendLd(z, r))
      BY <3>1 DEF Same
    <3>3. Same(SendLd(z, r), [SendLd(z, r) EXCEPT !.hasComplete = TRUE])
      BY <3>2, SetField DEF Fields
    <3> QED BY <3>1, <3>3, SameTrans
  <2>2. Same(z, [SyncLd(z) EXCEPT !.ldq = Append(@, r)])
    <3>1. Same(z, SyncLd(z))
      BY <1>4, SyncSame
    <3>2. IsContext(SyncLd(z))
      BY <3>1 DEF Same
    <3>3. Wired(SyncLd(z)) => IsList(Append(SyncLd(z).ldq, r))
      BY AppendList DEF Wired
    <3>4. Same(SyncLd(z), [SyncLd(z) EXCEPT !.ldq = Append(@, r)])
      BY <3>2, <3>3, SetQueue
    <3> QED BY <3>1, <3>4, SameTrans
  <2> QED BY <2>1, <2>2 DEF OfferLd
<1>5. PICK S : x.ldq \in Seq(S)
  BY DEF Wired, IsList
<1> HIDE DEF c0
<1>6. StillSame(c0, x.ldq, 0, c0)
  BY <1>2, SameSelf DEF StillSame
<1>7. \A i \in 1 .. Len(x.ldq) : \A z :
        StillSame(c0, x.ldq, i - 1, z) => StillSame(c0, x.ldq, i, LoadOffered(z, x.ldq[i]))
  <2>1. \A z, r : Same(c0, z) => Same(c0, OfferLd(z, r))
    BY <1>4, SameTrans DEF Same
  <2> QED BY <1>2, <1>3, <2>1 DEF StillSame
<1>8. StillSame(c0, x.ldq, Len(x.ldq), FoldLeft(LoadOffered, c0, x.ldq))
  BY <1>5, <1>6, <1>7, L!FoldKeeps DEF FoldLeft, L!FoldLeft, MapThenFoldSet, L!MapThenFoldSet, Max, L!Max
<1>9. Same(c0, y)
  BY <1>2, <1>8 DEF StillSame, LoadOffered
<1>10. RetryLoads(x) = y
  BY DEF RetryLoads, Loop, c0
<1> HIDE DEF y
<1> QED BY <1>1, <1>9, <1>10, SameTrans

StoreOffered(acc, x) == Then(acc, LAMBDA v : OfferSt(v, x))
S == INSTANCE FoldProofs WITH Op <- StoreOffered, Good <- StillSame

\* The loop over the stores to be sent again.
LEMMA RetryStoresSame ==
  ASSUME NEW x, IsContext(x), Wired(x)
  PROVE  Same(x, RetryStores(x))
<1> DEFINE c0 == [x EXCEPT !.stq = <<>>]
           y == FoldLeft(LAMBDA acc, r : Then(acc, LAMBDA v : OfferSt(v, r)), c0, x.stq)
<1>1. Same(x, c0)
  <2>1. IsList(<<>>)
    BY DEF IsList
  <2> QED BY <2>1, SetQueue
<1>2. IsContext(c0)
  BY <1>1 DEF Same
<1>3. \A acc, r : StoreOffered(acc, r) = OfferSt(acc, r)
  BY DEF StoreOffered, Then
<1>4. ASSUME NEW z, IsContext(z), NEW r PROVE Same(z, OfferSt(z, r))
  <2>1. Same(z, [SendSt(z, r) EXCEPT !.hasComplete = TRUE])
    <3>1. Same(z, SendSt(z, r))
      BY <1>4, SendStSame
    <3>2. IsContext(SendSt(z, r))
      BY <3>1 DEF Same
    <3>3. Same(SendSt(z, r), [SendSt(z, r) EXCEPT !.hasComplete = TRUE])
      BY <3>2, SetField DEF Fields
    <3> QED BY <3>1, <3>3, SameTrans
  <2>2. Same(z, [SyncSt(z) EXCEPT !.stq = Append(@, r)])
    <3>1. Same(z, SyncSt(z))
      BY <1>4, SyncSame
    <3>2. IsContext(SyncSt(z))
      BY <3>1 DEF Same
    <3>3. Wired(SyncSt(z)) => IsList(Append(SyncSt(z).stq, r))
      BY AppendList DEF Wired
    <3>4. Same(SyncSt(z), [SyncSt(z) EXCEPT !.stq = Append(@, r)])
      BY <3>2, <3>3, SetQueue
    <3> QED BY <3>1, <3>4, SameTrans
  <2> QED BY <2>1, <2>2 DEF OfferSt
<1>5. PICK R : x.stq \in Seq(R)
  BY DEF Wired, IsList
<1> HIDE DEF c0
<1>6. StillSame(c0, x.stq, 0, c0)
  BY <1>2, SameSelf DEF StillSame
<1>7. \A i \in 1 .. Len(x.stq) : \A z :
        StillSame(c0, x.stq, i - 1, z) => StillSame(c0, x.stq, i, StoreOffered(z, x.stq[i]))
  <2>1. \A z, r : Same(c0, z) => Same(c0, OfferSt(z, r))
    BY <1>4, SameTrans DEF Same
  <2> QED BY <1>2, <1>3, <2>1 DEF StillSame
<1>8. StillSame(c0, x.stq, Len(x.stq), FoldLeft(StoreOffered, c0, x.stq))
  BY <1>5, <1>6, <1>7, S!FoldKeeps DEF FoldLeft, S!FoldLeft, MapThenFoldSet, S!MapThenFoldSet, Max, S!Max
<1>9. Same(c0, y)
  BY <1>2, <1>8 DEF StillSame, StoreOffered
<1>10. RetryStores(x) = y
  BY DEF RetryStores, Loop, c0
<1> HIDE DEF y
<1> QED BY <1>1, <1>9, <1>10, SameTrans

\* Context::advance as the engine calls it.
LEMMA AdvanceSound ==
  ASSUME NEW x, NEW t, NEW last \in Nat, Sound(x, last)
  PROVE  Sound(Advance(x, t), last) /\ (x.done => Advance(x, t).done)
<1>1. CASE x.done
  BY <1>1 DEF Advance
<1>2. CASE ~x.done
  <2> DEFINE c0 == [x EXCEPT !.cpu = t]
             c1 == RetryLoads(c0)
             c2 == RetryStores(c1)
  <2>1. Same(x, c0)
    BY SetField DEF Sound, Fields
  <2> HIDE DEF c0
  <2>2. Sound(c0, last) /\ ~c0.done
    BY <1>2, <2>1, SameSound DEF Same
  <2>3. Same(c0, c1)
    BY <2>2, RetryLoadsSame DEF Sound
  <2> HIDE DEF c1
  <2>4. Sound(c1, last) /\ ~c1.done
    BY <2>2, <2>3, SameSound DEF Same
  <2>5. Same(c1, c2)
    BY <2>4, RetryStoresSame DEF Sound
  <2> HIDE DEF c2
  <2>6. Sound(c2, last) /\ ~c2.done
    BY <2>4, <2>5, SameSound DEF Same
  <2>7. Advance(x, t) = ScanIfDue(c2)
    BY <1>2 DEF Advance, Then, c0, c1, c2
  <2>8. Sound(Scan(c2), last)
    BY <2>6, ScanSound
  <2> QED BY <1>2, <2>6, <2>7, <2>8 DEF ScanIfDue
<1> QED BY <1>1, <1>2

\* The answers of the memory that a context receives between two calls.
LEMMA ToldSame ==
  ASSUME NEW t, NEW answer, IsContext(ctx[t])
  PROVE  Same(ctx[t], Told(t, answer))
<1> DEFINE mine == {p \in Outstanding(ctx[t]) : <<t, LineOf(p)>> \in DOMAIN answer}
           x == ctx[t]
           c1 == [x EXCEPT !.hasComplete = TRUE]
           w == [p \in DOMAIN x.win |->
                   IF p \in mine THEN [x.win[p] EXCEPT !.complete = answer[<<t, LineOf(p)>>]] ELSE x.win[p]]
           y == [c1 EXCEPT !.win = w]
<1>1. Told(t, answer) = x \/ Told(t, answer) = y
  <2>1. c1.win = x.win
    BY DEF IsContext, Fields
  <2>2. Told(t, answer) = IF mine = {} THEN x
          ELSE [x EXCEPT !.hasComplete = TRUE,
                 !.win = [p \in DOMAIN @ |->
                   IF p \in mine THEN [@[p] EXCEPT !.complete = answer[<<t, LineOf(p)>>]] ELSE @[p]]]
    BY DEF Told
  <2> QED BY <2>1, <2>2
<1>2. Same(x, c1)
  BY SetField DEF Fields
<1>3. IsContext(c1) /\ c1.win = x.win
  BY <1>2 DEF IsContext, Fields, Same
<1>4. Same(c1, y)
  <2>1. ASSUME NEW q \in DOMAIN x.win, Linked(x.win[q]) PROVE Linked(w[q])
    <3>1. \A v : Linked([x.win[q] EXCEPT !.complete = v])
      BY <2>1 DEF Linked
    <3> HIDE DEF mine
    <3> QED BY <2>1, <3>1
  <2>2. DOMAIN w = DOMAIN c1.win
    BY <1>3
  <2> HIDE DEF c1, w
  <2>3. /\ IsContext(y) /\ y.win = w /\ y.head = c1.head /\ y.ib = c1.ib /\ y.load = c1.load
        /\ y.fetched = c1.fetched /\ y.last = c1.last /\ y.done = c1.done
        /\ y.ldq = c1.ldq /\ y.stq = c1.stq
    BY <1>3 DEF IsContext, Fields
  <2> HIDE DEF y
  <2>4. Wired(c1) => Wired(y)
    BY <1>3, <2>1, <2>2, <2>3 DEF Wired
  <2> QED BY <2>2, <2>3, <2>4 DEF Same
<1> HIDE DEF c1, y
<1> QED BY <1>1, <1>2, <1>4, SameSelf, SameTrans

-----------------------------------------------------------------------------
(***************************************************************************)
(* init_thread_ctx: the shares of the threads.                             *)
(***************************************************************************)
LEMMA WorkloadCovers ==
  Workload \in Nat \ {0} /\ Total <= NumThreads * Workload
<1>1. PICK q, r : q = Total \div NumThreads /\ r = Total % NumThreads
  OBVIOUS
<1>2. q \in Nat /\ r \in 0 .. NumThreads - 1 /\ Total = NumThreads * q + r
  BY <1>1, EngineConstants
<1>3. Workload = IF r # 0 THEN q + 1 ELSE q
  BY <1>1, <1>2 DEF Workload
<1>4. NumThreads * (q + 1) = NumThreads * q + NumThreads
  BY <1>2, EngineConstants
<1>5. CASE r = 0
  <2>1. Workload = q /\ Total = NumThreads * q
    BY <1>2, <1>3, <1>5, EngineConstants
  <2>2. q # 0
    BY <2>1, EngineConstants
  <2> QED BY <1>2, <2>1, <2>2
<1>6. CASE r # 0
  <2>1. Workload = q + 1
    BY <1>3, <1>6
  <2>2. PICK m \in Nat : m = NumThreads * q
    BY <1>2, EngineConstants
  <2>3. NumThreads * Workload = m + NumThreads /\ Total = m + r
    BY <1>2, <1>4, <2>1, <2>2
  <2> QED BY <1>2, <2>1, <2>2, <2>3, EngineConstants
<1> QED BY <1>5, <1>6

\* The share of a thread is an interval of the global steps.
LEMMA Share ==
  ASSUME NEW t \in Working
  PROVE  FirstStep(t) \in Nat /\ LastStep(t) \in Nat /\ FirstStep(t) < LastStep(t)
<1>1. t \in Nat /\ FirstStep(t) < Total
  BY EngineConstants DEF Working
<1>2. PICK m \in Nat : m = FirstStep(t)
  BY <1>1, WorkloadCovers DEF FirstStep
<1> QED BY <1>1, <1>2, WorkloadCovers, EngineConstants DEF LastStep, SmallerOf

(***************************************************************************)
(* Every global step is in the share of one thread.                        *)
(***************************************************************************)
THEOREM SharesPartition ==
  ASSUME NEW g \in 0 .. Total - 1
  PROVE  \E t \in Working : {u \in Working : g \in ShareOf(u)} = {t}
<1>1. PICK w \in Nat \ {0} : w = Workload /\ Total <= NumThreads * w
  BY WorkloadCovers
<1>2. PICK t, r : t = g \div w /\ r = g % w
  OBVIOUS
<1>3. t \in Nat /\ r \in 0 .. w - 1 /\ g = t * w + r
  <2>1. g \in Nat
    BY EngineConstants
  <2> QED BY <1>1, <1>2, <2>1
<1>4. \A u \in Nat : (u + 1) * w = u * w + w /\ u * w \in Nat
  BY <1>1
<1>5. ASSUME NEW u \in Nat, NEW v \in Nat, u < v PROVE u * w + w <= v * w
  <2>1. PICK d \in Nat : v = u + 1 + d
    <3>1. v - u - 1 \in Nat /\ v = u + 1 + (v - u - 1)
      BY <1>5
    <3> QED BY <3>1
  <2>2. v * w = u * w + w + d * w /\ d * w \in Nat /\ u * w \in Nat
    BY <1>1, <2>1
  <2> QED BY <2>2, <1>1
<1>6. t < NumThreads
  <2>1. SUFFICES ASSUME NumThreads <= t PROVE FALSE
    BY <1>3, EngineConstants
  <2>2. PICK a \in Nat : a = t * w
    BY <1>3, <1>4
  <2>3. PICK b \in Nat : b = NumThreads * w
    BY <1>4, EngineConstants
  <2>4. b <= a
    <3>1. CASE NumThreads = t
      BY <2>2, <2>3, <3>1
    <3>2. CASE NumThreads < t
      <4>1. NumThreads * w + w <= t * w
        BY <1>3, <1>5, <3>2, EngineConstants
      <4> QED BY <1>1, <2>2, <2>3, <4>1
    <3> QED BY <1>3, <2>1, <3>1, <3>2, EngineConstants
  <2>5. g = a + r /\ Total <= b /\ g < Total /\ g \in Nat
    BY <1>1, <1>3, <2>2, <2>3, EngineConstants
  <2> QED BY <1>3, <2>2, <2>3, <2>4, <2>5, EngineConstants
<1>7. t \in Working
  <2>1. PICK a \in Nat : a = t * w
    BY <1>3, <1>4
  <2>2. a < Total
    BY <1>3, <2>1, EngineConstants
  <2> QED BY <1>1, <1>3, <1>6, <2>1, <2>2, EngineConstants DEF Working, FirstStep
<1>8. ASSUME NEW u \in Working PROVE g \in ShareOf(u) <=> u = t
  <2>1. u \in Nat
    BY EngineConstants DEF Working
  <2>2. PICK b \in Nat : b = u * w
    BY <1>4, <2>1
  <2>3. FirstStep(u) = b /\ LastStep(u) = SmallerOf(b + w, Total)
    BY <1>1, <2>2 DEF FirstStep, LastStep
  <2>4. g \in Nat /\ g < Total
    BY EngineConstants
  <2>5. g \in ShareOf(u) <=> b <= g /\ g < b + w
    BY <1>1, <2>2, <2>3, <2>4, EngineConstants DEF ShareOf, SmallerOf
  <2>6. PICK a \in Nat : a = t * w
    BY <1>3, <1>4
  <2>7. a <= g /\ g < a + w
    BY <1>1, <1>3, <2>6
  <2>8. u < t => b + w <= a
    BY <1>3, <1>5, <2>1, <2>2, <2>6
  <2>9. t < u => a + w <= b
    BY <1>3, <1>5, <2>1, <2>2, <2>6
  <2>10. u = t => b = a
    BY <2>2, <2>6
  <2> QED BY <1>1, <1>3, <2>1, <2>2, <2>4, <2>5, <2>6, <2>7, <2>8, <2>9, <2>10
<1> QED BY <1>7, <1>8

\* The window a context is given holds whole steps and no more than its share.
LEMMA WindowFits ==
  ASSUME NEW n \in Nat
  PROVE  WindowSteps(n) \in 0 .. n
<1>1. (4 * RobDepth) \div W \in Nat
  BY ContextConstants, Width
<1> QED BY <1>1 DEF WindowSteps, SmallerOf, LargerOf

\* init_thread_ctx: a context begins sound, done when it has no share.
LEMMA NewSound ==
  ASSUME NEW first \in Nat, NEW last \in Nat, first <= last
  PROVE  Sound(NewContext(first, last), last) /\ ~NewContext(first, last).done
<1> DEFINE x == NewContext(first, last)
<1>1. PICK k \in 0 .. last - first : k = WindowSteps(last - first)
  BY WindowFits
<1>2. PICK ib \in Nat : ib = W * k
  BY Width
<1>3. /\ IsContext(x) /\ x.ib = ib /\ x.load = ib /\ x.head = 0 /\ x.last = last
      /\ x.fetched = first + k /\ x.done = FALSE /\ x.ldq = <<>> /\ x.stq = <<>>
      /\ x.win = [p \in 0 .. ib - 1 |-> FreshOp((p % W) + 1)]
  BY <1>1, <1>2 DEF NewContext, IsContext, Fields
<1>4. ASSUME NEW p \in 0 .. ib - 1 PROVE Linked(FreshOp((p % W) + 1))
  <2>1. (p % W) + 1 \in 1 .. W
    BY Width
  <2>2. Step[(p % W) + 1] \in OpTemplate
    BY <2>1, ContextConstants DEF W
  <2> QED BY <2>2 DEF FreshOp, Linked, OpTemplate
<1> HIDE DEF x
<1>5. Wired(x)
  <2>1. IsList(<<>>)
    BY DEF IsList
  <2> QED BY <1>3, <1>4, <2>1 DEF Wired
<1>6. DOMAIN x.win = 0 .. x.ib - 1
  BY <1>3
<1>7. x.load \in 0 .. x.ib /\ x.fetched \in Nat /\ x.fetched <= last
  BY <1>1, <1>2, <1>3
<1>8. x.ib \in Nat /\ x.head \in Nat /\ x.last = last /\ IsContext(x)
  BY <1>2, <1>3
<1>9. x.done \in BOOLEAN /\ ~x.done
  BY <1>3
<1>10. Sound(x, last) /\ ~x.done
  BY <1>5, <1>6, <1>7, <1>8, <1>9, Zenon DEF Sound
<1> QED BY <1>10 DEF x

-----------------------------------------------------------------------------
(***************************************************************************)
(* The inductive invariant: the contexts are sound, and the threads that   *)
(* are not done are the ones the loop still waits for.                     *)
(***************************************************************************)
Unfinished == {t \in Working : ~ctx[t].done}
ThreadsInv ==
  /\ stepping \in BOOLEAN
  /\ stepping => /\ \A t \in Working : Sound(ctx[t], LastStep(t))
                 /\ finished = NumThreads - Cardinality(Unfinished)

\* There are finitely many threads.
LEMMA WorkingFinite == IsFiniteSet(Working) /\ \A A \in SUBSET Working : IsFiniteSet(A)
<1>1. IsFiniteSet(0 .. NumThreads - 1)
  BY FS_Interval, EngineConstants
<1> QED BY <1>1, FS_Subset DEF Working

\* The start of a kernel: threads without a share are counted as finished.
LEMMA StartInv == ThreadsInv /\ StartKernel => ThreadsInv'
<1> SUFFICES ASSUME StartKernel PROVE ThreadsInv'
  OBVIOUS
<1>1. ASSUME NEW t \in Working
      PROVE  Sound(ctx'[t], LastStep(t)) /\ ~ctx'[t].done
  <2> DEFINE x == NewContext(FirstStep(t), LastStep(t))
  <2>1. Sound(x, LastStep(t)) /\ ~x.done
    BY Share, NewSound
  <2> HIDE DEF x
  <2>2. Same(x, InitWindow(x))
    BY <2>1, InitWindowSame DEF Sound
  <2>3. ctx'[t] = InitWindow(x)
    BY DEF StartKernel, x
  <2> QED BY <2>1, <2>2, <2>3, SameSound DEF Same
<1>2. Unfinished' = Working
  BY <1>1 DEF Unfinished
<1>3. finished' = NumThreads - Cardinality(Working) /\ stepping' = TRUE
  BY DEF StartKernel
<1> QED BY <1>1, <1>2, <1>3 DEF ThreadsInv

\* A turn of the loop: the threads that become done are counted, each once.
LEMMA TurnInv ==
  ASSUME ThreadsInv, NEW answer, LoopTurn(answer)
  PROVE  ThreadsInv'
<1>1. stepping /\ stepping' = TRUE /\ \A t \in Working : Sound(ctx[t], LastStep(t))
  BY DEF ThreadsInv, LoopTurn
<1>2. ASSUME NEW t \in Working
      PROVE  Sound(ctx'[t], LastStep(t)) /\ (ctx[t].done => ctx'[t].done)
  <2>1. Same(ctx[t], Told(t, answer))
    BY <1>1, ToldSame DEF Sound
  <2>2. Sound(Told(t, answer), LastStep(t)) /\ Told(t, answer).done = ctx[t].done
    BY <1>1, <2>1, SameSound DEF Same
  <2>3. ctx'[t] = Advance(Told(t, answer), nextStep)
    BY DEF LoopTurn
  <2>4. LastStep(t) \in Nat
    BY Share
  <2> QED BY <2>2, <2>3, <2>4, AdvanceSound
<1> DEFINE new == NewlyDone(ctx, ctx')
<1>3. new \subseteq Unfinished /\ Unfinished' = Unfinished \ new
  BY <1>2 DEF NewlyDone, Unfinished
<1>4. IsFiniteSet(Unfinished) /\ IsFiniteSet(new)
  BY WorkingFinite DEF Unfinished, NewlyDone
<1>5. finished = NumThreads - Cardinality(Unfinished) /\ finished' = finished + Cardinality(new)
  BY <1>1 DEF ThreadsInv, LoopTurn
<1> HIDE DEF new
<1>6. Cardinality(Unfinished') = Cardinality(Unfinished) - Cardinality(new)
  <2>1. Unfinished \cap new = new
    BY <1>3
  <2> QED BY <1>3, <1>4, <2>1, FS_Difference
<1>7. Cardinality(Unfinished) \in Nat /\ Cardinality(new) \in Nat
  BY <1>4, FS_CardinalityType
<1>8. finished' = NumThreads - Cardinality(Unfinished')
  BY <1>5, <1>6, <1>7, EngineConstants
<1> QED BY <1>1, <1>2, <1>8 DEF ThreadsInv

\* Every step of the loop keeps the invariant.
LEMMA StepInv == ThreadsInv /\ [Next]_vars => ThreadsInv'
<1> SUFFICES ASSUME ThreadsInv, [Next]_vars PROVE ThreadsInv'
  OBVIOUS
<1>1. CASE StartKernel
  BY <1>1, StartInv
<1>2. ASSUME NEW answer \in Answers, LoopTurn(answer) PROVE ThreadsInv'
  BY <1>2, TurnInv
<1>3. CASE EndKernel
  BY <1>3 DEF EndKernel, ThreadsInv
<1>4. CASE UNCHANGED vars
  BY <1>4 DEF vars, ThreadsInv, Unfinished
<1> QED BY <1>1, <1>2, <1>3, <1>4 DEF Next

(***************************************************************************)
(* The contexts of the engine never fetch beyond the share of their        *)
(* thread, a thread is done only when its share is worked off, and the     *)
(* loop counts every thread that is done once.                             *)
(***************************************************************************)
THEOREM SharesKept == Spec => []ThreadsInv
<1>1. Init => ThreadsInv
  BY DEF Init, ThreadsInv
<1> QED BY <1>1, StepInv, PTL DEF Spec

(***************************************************************************)
(* Every global step of a kernel belongs to exactly one thread, and when   *)
(* the loop of the engine ends all of them have been fetched and retired.  *)
(***************************************************************************)
THEOREM EveryStepIsDone == Spec => []EveryStepOnce
<1>1. ThreadsInv => EveryStepOnce
  <2>1. SUFFICES ASSUME ThreadsInv, stepping, finished = NumThreads, NEW t \in Working
                 PROVE  ctx[t].fetched = LastStep(t) /\ ctx[t].load = 0
    BY SharesPartition DEF EveryStepOnce
  <2>2. IsFiniteSet(Unfinished)
    BY WorkingFinite DEF Unfinished
  <2>3. Cardinality(Unfinished) = 0
    BY <2>1, <2>2, FS_CardinalityType, EngineConstants DEF ThreadsInv
  <2>4. Unfinished = {}
    BY <2>2, <2>3, FS_EmptySet
  <2> QED BY <2>1, <2>4 DEF ThreadsInv, Unfinished, Sound
<1> QED BY <1>1, SharesKept, PTL
=============================================================================
