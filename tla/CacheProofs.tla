----------------------------- MODULE CacheProofs -----------------------------
(***************************************************************************)
(* Proofs about CacheHierarchy, for any number of first-level caches,      *)
(* lines, loads and memories, any associativity and any latency, and about *)
(* LruSet, for any associativity, set of tags and length of run.           *)
(***************************************************************************)
EXTENDS CacheHierarchy, LruSet, SequenceTheorems, FunctionTheorems, FiniteSetTheorems, TLAPS

(***************************************************************************)
(* The inductive invariant.  ChainUnbroken needs the types (a request in   *)
(* a queue names the cache it came from), WaitingIsHeld needs them too,    *)
(* and each of the three invariants is needed for the answers of a memory  *)
(* to clear exactly what they should.                                      *)
(***************************************************************************)
MapsInv ==
  /\ MapsOK /\ QueuesOK
  /\ progress \in [Loads -> {"new", "waiting", "answered"}]
  /\ PendingMapsAgree /\ ChainUnbroken /\ WaitingIsHeld

Inv == TypeOK /\ MapsInv

-----------------------------------------------------------------------------
(***************************************************************************)
(* A part of a list of a set is a list of the set, of the length its       *)
(* bounds say.                                                             *)
(***************************************************************************)
LEMMA SubSeqOf ==
  ASSUME NEW S, NEW list \in Seq(S), NEW m \in Nat \ {0}, NEW n \in Int, n <= Len(list), m <= n + 1
  PROVE  /\ SubSeq(list, m, n) \in Seq(S)
         /\ Len(SubSeq(list, m, n)) = n - m + 1
<1>1. \A i \in m .. n : list[i] \in S
  BY ElementOfSeq, LenProperties
<1>2. m \in Int
  OBVIOUS
<1> QED
  BY <1>1, <1>2, SubSeqProperties

(***************************************************************************)
(* Taking a line out of a cache set (the search of Find_and_Update) leaves *)
(* a list of lines that is no longer.                                      *)
(***************************************************************************)
LEMMA WithoutType ==
  ASSUME NEW list \in Seq(Line), NEW a
  PROVE  /\ Without(list, a) \in Seq(Line)
         /\ Len(Without(list, a)) <= Len(list)
<1>0. Len(list) \in Nat
  BY LenProperties
<1>1. CASE ~Holds(list, a)
  BY <1>0, <1>1 DEF Without
<1>2. CASE Holds(list, a)
  <2> DEFINE i == CHOOSE i \in 1 .. Len(list) : list[i].line = a
  <2>1. i \in 1 .. Len(list)
    BY <1>2 DEF Holds
  <2>2. Without(list, a) = SubSeq(list, 1, i - 1) \o SubSeq(list, i + 1, Len(list))
    BY <1>2 DEF Without
  <2> HIDE DEF i
  <2>3. /\ SubSeq(list, 1, i - 1) \in Seq(Line) /\ Len(SubSeq(list, 1, i - 1)) = i - 1
    <3>1. i - 1 \in Int /\ i - 1 <= Len(list) /\ 1 <= (i - 1) + 1
      BY <1>0, <2>1
    <3> QED
      BY <3>1, <2>1, SubSeqOf
  <2>4. /\ SubSeq(list, i + 1, Len(list)) \in Seq(Line)
        /\ Len(SubSeq(list, i + 1, Len(list))) = Len(list) - i
    <3>1. i + 1 \in Nat \ {0} /\ Len(list) \in Int /\ i + 1 <= Len(list) + 1
      BY <1>0, <2>1
    <3> QED
      BY <3>1, <1>0, <2>1, SubSeqOf
  <2>5. /\ Without(list, a) \in Seq(Line)
        /\ Len(Without(list, a)) = (i - 1) + (Len(list) - i)
    BY <2>2, <2>3, <2>4, ConcatProperties
  <2> QED
    BY <1>0, <2>1, <2>5
<1> QED
  BY <1>1, <1>2

(***************************************************************************)
(* An access keeps a cache set within its associativity, and displaces     *)
(* only lines.                                                             *)
(***************************************************************************)
LEMMA UseType ==
  ASSUME NEW c \in Caches, NEW list \in Seq(Line), Len(list) <= AssocOf(c),
         NEW a \in Lines, NEW w \in BOOLEAN
  PROVE  /\ Use(c, list, a, w).list \in Seq(Line)
         /\ Len(Use(c, list, a, w).list) <= AssocOf(c)
         /\ Use(c, list, a, w).out \subseteq Lines
<1> DEFINE rest == Without(list, a)
           room == IF Len(rest) = AssocOf(c) THEN AssocOf(c) - 1 ELSE Len(rest)
           new  == [line |-> a, dirty |-> w \/ IsDirty(list, a)]
<1>1. AssocOf(c) \in Nat \ {0}
  BY CacheConstants DEF AssocOf
<1>2. rest \in Seq(Line) /\ Len(rest) <= AssocOf(c) /\ Len(rest) \in Nat
  BY <1>1, WithoutType, LenProperties
<1>3. room \in Nat /\ room <= Len(rest) /\ room < AssocOf(c)
  BY <1>1, <1>2
<1>4. SubSeq(rest, 1, room) \in Seq(Line) /\ Len(SubSeq(rest, 1, room)) = room
  BY <1>2, <1>3, SubSeqOf
<1>5. new \in Line
  BY DEF Line, IsDirty
<1>6. <<new>> \in Seq(Line) /\ Len(<<new>>) = 1
  BY <1>5
<1>7. /\ <<new>> \o SubSeq(rest, 1, room) \in Seq(Line)
      /\ Len(<<new>> \o SubSeq(rest, 1, room)) = 1 + room
  BY <1>4, <1>6, ConcatProperties
<1>8. room < Len(rest) => rest[Len(rest)].line \in Lines
  <2>1. room < Len(rest) => Len(rest) \in 1 .. Len(rest)
    BY <1>2, <1>3
  <2>2. room < Len(rest) => rest[Len(rest)] \in Line
    BY <1>2, <2>1, ElementOfSeq
  <2> QED
    BY <2>2 DEF Line
<1>9. Use(c, list, a, w) =
        [hit |-> Holds(list, a),
         list |-> <<new>> \o SubSeq(rest, 1, room),
         out |-> IF room < Len(rest) /\ rest[Len(rest)].dirty THEN {rest[Len(rest)].line} ELSE {}]
  BY DEF Use
<1> HIDE DEF rest, room, new
<1> QED
  BY <1>1, <1>3, <1>7, <1>8, <1>9

-----------------------------------------------------------------------------
(***************************************************************************)
(* What AskedBelow and HeldAt contain.                                     *)
(***************************************************************************)
LEMMA AskedIff ==
  \A c, a, q : q \in AskedBelow(c, a) <=>
    \/ \E s \in reqs["L2"][a] : s.from = c /\ q = <<"cache", s>>
    \/ \E i \in 1 .. Len(simq[a]) : simq[a][i].from = c /\ q = <<"simulator", i>>
    \/ \E s \in memq[PageOf[a]] : s.from = c /\ s.line = a /\ q = <<"memory", s>>
BY DEF AskedBelow

(***************************************************************************)
(* A cache that has not asked for a line is in no queue below with it.     *)
(***************************************************************************)
LEMMA AskedNone ==
  ASSUME NEW c, NEW a, AskedBelow(c, a) = {}
  PROVE  /\ \A s \in reqs["L2"][a] : s.from # c
         /\ \A i \in 1 .. Len(simq[a]) : simq[a][i].from # c
         /\ \A s \in memq[PageOf[a]] : ~(s.from = c /\ s.line = a)
<1>1. ASSUME NEW s \in reqs["L2"][a], s.from = c PROVE FALSE
  <2>1. <<"cache", s>> \in AskedBelow(c, a)
    BY <1>1 DEF AskedBelow
  <2> QED
    BY <2>1
<1>2. ASSUME NEW i \in 1 .. Len(simq[a]), simq[a][i].from = c PROVE FALSE
  <2>1. <<"simulator", i>> \in AskedBelow(c, a)
    BY <1>2 DEF AskedBelow
  <2> QED
    BY <2>1
<1>3. ASSUME NEW s \in memq[PageOf[a]], s.from = c, s.line = a PROVE FALSE
  <2>1. <<"memory", s>> \in AskedBelow(c, a)
    BY <1>3 DEF AskedBelow
  <2> QED
    BY <2>1
<1> QED
  BY <1>1, <1>2, <1>3

(***************************************************************************)
(* The converse of AskedNone after a step: in no queue means not asked.    *)
(***************************************************************************)
LEMMA AskedNoneNext ==
  ASSUME NEW c, NEW a,
         \A s \in reqs'["L2"][a] : s.from # c,
         \A i \in 1 .. Len(simq'[a]) : simq'[a][i].from # c,
         \A s \in memq'[PageOf[a]] : ~(s.from = c /\ s.line = a)
  PROVE  AskedBelow(c, a)' = {}
BY DEF AskedBelow

(***************************************************************************)
(* AskedIff after a step.                                                  *)
(***************************************************************************)
LEMMA AskedIffNext ==
  \A c, a, q : q \in AskedBelow(c, a)' <=>
    \/ \E s \in reqs'["L2"][a] : s.from = c /\ q = <<"cache", s>>
    \/ \E i \in 1 .. Len(simq'[a]) : simq'[a][i].from = c /\ q = <<"simulator", i>>
    \/ \E s \in memq'[PageOf[a]] : s.from = c /\ s.line = a /\ q = <<"memory", s>>
BY DEF AskedBelow

(***************************************************************************)
(* After a step, a cache found once in the simulator's queue of a line and *)
(* in no other queue has asked exactly there.                              *)
(***************************************************************************)
LEMMA AskedSimulatorNext ==
  ASSUME NEW c, NEW a, NEW k,
         \A s \in reqs'["L2"][a] : s.from # c,
         \A s \in memq'[PageOf[a]] : ~(s.from = c /\ s.line = a),
         \A i : i \in 1 .. Len(simq'[a]) /\ simq'[a][i].from = c <=> i = k
  PROVE  AskedBelow(c, a)' = {<<"simulator", k>>}
<1>1. ASSUME NEW q, q \in AskedBelow(c, a)' PROVE q = <<"simulator", k>>
  <2>1. PICK i \in 1 .. Len(simq'[a]) : simq'[a][i].from = c /\ q = <<"simulator", i>>
    BY <1>1, AskedIffNext
  <2>2. i = k
    BY <2>1
  <2> QED
    BY <2>1, <2>2
<1>2. k \in 1 .. Len(simq'[a]) /\ simq'[a][k].from = c
  OBVIOUS
<1>3. <<"simulator", k>> \in AskedBelow(c, a)'
  BY <1>2, AskedIffNext
<1> QED
  BY ONLY <1>1, <1>3

(***************************************************************************)
(* Caches and memories start with nothing on its way.                      *)
(***************************************************************************)
LEMMA InitInv == Init => Inv
<1> SUFFICES ASSUME Init PROVE Inv
  OBVIOUS
<1>1. TypeOK
  <2>1. TagsOK
    <3>1. \A c \in Caches : tags[c] = <<>> /\ Len(tags[c]) = 0 /\ AssocOf(c) \in Nat
      BY CacheConstants DEF Init, AssocOf
    <3> QED
      BY <3>1, EmptySeq DEF Init, TagsOK
  <2>2. MapsOK
    BY CacheConstants DEF Init, MapsOK, Caches
  <2>3. QueuesOK
    BY EmptySeq DEF Init, QueuesOK
  <2>4. progress \in [Loads -> {"new", "waiting", "answered"}]
    BY DEF Init
  <2>5. unsaved \subseteq Lines /\ now \in Nat \ {0} /\ stores \in Nat /\ warmups \in Nat
    BY DEF Init
  <2>6. panic \in BOOLEAN
    BY DEF Init
  <2> QED
    BY <2>1, <2>2, <2>3, <2>4, <2>5, <2>6 DEF TypeOK
<1>2. PendingMapsAgree
  BY CacheConstants DEF Init, PendingMapsAgree, Caches
<1>3. ChainUnbroken
  <2>1. ASSUME NEW c \in Caches, NEW a \in Lines PROVE AskedBelow(c, a) = {} /\ delay[c][a] # 0
    BY CacheConstants DEF Init, AskedBelow, Caches, Pages
  <2> QED
    BY <2>1 DEF ChainUnbroken
<1>4. WaitingIsHeld
  BY DEF Init, WaitingIsHeld, HeldAt, Caches
<1> QED
  BY <1>1, <1>2, <1>3, <1>4 DEF Inv, MapsInv, TypeOK

-----------------------------------------------------------------------------
(***************************************************************************)
(* Steps that ask nobody and answer nobody.                                *)
(***************************************************************************)
LEMMA QuietStep ==
  ASSUME MapsInv,
         UNCHANGED <<reqs, simq, memq>>,
         delay' \in [Caches -> [Lines -> Nat \cup {Absent}]],
         \A c \in Caches, a \in Lines : delay'[c][a] = 0 <=> delay[c][a] = 0,
         progress' \in [Loads -> {"new", "waiting", "answered"}],
         \A r \in Loads : progress'[r] = "waiting" <=> progress[r] = "waiting"
  PROVE  MapsInv'
<1>1. MapsOK' /\ QueuesOK'
  BY DEF MapsInv, MapsOK, QueuesOK
<1>2. PendingMapsAgree'
  BY DEF MapsInv, PendingMapsAgree
<1>3. ChainUnbroken'
  <2>1. \A c \in Caches, a \in Lines : AskedBelow(c, a)' = AskedBelow(c, a)
    BY DEF AskedBelow
  <2>2. SUFFICES ASSUME NEW c \in Caches, NEW a \in Lines
                 PROVE  IF delay'[c][a] = 0
                        THEN \E q \in AskedBelow(c, a)' : AskedBelow(c, a)' = {q}
                        ELSE AskedBelow(c, a)' = {}
    BY DEF ChainUnbroken
  <2> QED
    BY <2>1 DEF MapsInv, ChainUnbroken
<1>4. WaitingIsHeld'
  <2>1. \A r \in Loads : HeldAt(r)' = HeldAt(r)
    BY DEF HeldAt
  <2> QED
    BY <2>1 DEF MapsInv, WaitingIsHeld
<1> QED
  BY <1>1, <1>2, <1>3, <1>4 DEF MapsInv

(***************************************************************************)
(* A load that begins to wait at a first-level cache is held there.        *)
(***************************************************************************)
LEMMA LoadIsHeld ==
  ASSUME MapsInv, NEW x \in L1s, NEW a \in Lines, NEW r \in Loads,
         progress[r] = "new",
         progress' = [progress EXCEPT ![r] = "waiting"],
         \A y \in L1s, b \in Lines :
           reqs'[y][b] = IF y = x /\ b = a THEN reqs[x][a] \cup {r} ELSE reqs[y][b]
  PROVE  WaitingIsHeld'
<1>1. HeldAt(r)' = {<<x, a>>}
  <2>1. HeldAt(r) = {}
    BY DEF MapsInv, WaitingIsHeld
  <2>2. ASSUME NEW y \in L1s, NEW b \in Lines PROVE r \in reqs'[y][b] <=> y = x /\ b = a
    <3>1. <<y, b>> \notin HeldAt(r)
      BY <2>1
    <3>2. r \notin reqs[y][b]
      BY <3>1 DEF HeldAt
    <3> QED
      BY <3>2
  <2> QED
    BY <2>2 DEF HeldAt
<1>2. ASSUME NEW o \in Loads, o # r PROVE HeldAt(o)' = HeldAt(o)
  <2>1. \A y \in L1s, b \in Lines : o \in reqs'[y][b] <=> o \in reqs[y][b]
    BY <1>2
  <2> QED
    BY <2>1 DEF HeldAt
<1>3. progress'[r] = "waiting" /\ \A o \in Loads : o # r => progress'[o] = progress[o]
  BY DEF MapsInv
<1>4. SUFFICES ASSUME NEW o \in Loads
               PROVE  IF progress'[o] = "waiting" THEN \E q \in HeldAt(o)' : HeldAt(o)' = {q}
                                                  ELSE HeldAt(o)' = {}
  BY DEF WaitingIsHeld
<1>5. IF progress[o] = "waiting" THEN \E q \in HeldAt(o) : HeldAt(o) = {q} ELSE HeldAt(o) = {}
  BY DEF MapsInv, WaitingIsHeld
<1>6. CASE o = r
  BY ONLY <1>1, <1>3, <1>6
<1>7. CASE o # r
  BY ONLY <1>2, <1>3, <1>5, <1>7, o \in Loads
<1> QED
  BY <1>6, <1>7

(***************************************************************************)
(* A load joins those that wait for the line already.                      *)
(***************************************************************************)
LEMMA JoinStep ==
  ASSUME MapsInv, NEW x \in L1s, NEW a \in Lines, NEW r \in Loads,
         progress[r] = "new", delay[x][a] = 0,
         reqs' = [reqs EXCEPT ![x][a] = @ \cup {r}],
         progress' = [progress EXCEPT ![r] = "waiting"],
         UNCHANGED <<delay, simq, memq>>
  PROVE  MapsInv'
<1>0. x \in Caches /\ x # "L2"
  BY CacheConstants DEF Caches
<1>1. \A c \in Caches, b \in Lines :
        reqs'[c][b] = IF c = x /\ b = a THEN reqs[x][a] \cup {r} ELSE reqs[c][b]
  BY <1>0 DEF MapsInv, MapsOK
<1>2. MapsOK' /\ QueuesOK'
  <2>1. reqs' \in [Caches -> [Lines -> SUBSET (Loads \cup Sender)]]
    BY <1>0 DEF MapsInv, MapsOK
  <2>2. \A y \in L1s, b \in Lines : reqs'[y][b] \subseteq Loads
    BY <1>1 DEF MapsInv, MapsOK, Caches
  <2>3. \A b \in Lines : reqs'["L2"][b] = reqs["L2"][b]
    BY <1>0, <1>1 DEF Caches
  <2> QED
    BY <2>1, <2>2, <2>3 DEF MapsInv, MapsOK, QueuesOK
<1>3. PendingMapsAgree'
  BY <1>1 DEF MapsInv, PendingMapsAgree
<1>4. ChainUnbroken'
  <2>1. ASSUME NEW c \in Caches, NEW b \in Lines PROVE AskedBelow(c, b)' = AskedBelow(c, b)
    <3>1. reqs'["L2"][b] = reqs["L2"][b]
      BY <1>0, <1>1 DEF Caches
    <3> QED
      BY <3>1 DEF AskedBelow
  <2> QED
    BY <2>1 DEF MapsInv, ChainUnbroken
<1>5. WaitingIsHeld'
  <2>1. \A y \in L1s, b \in Lines :
          reqs'[y][b] = IF y = x /\ b = a THEN reqs[x][a] \cup {r} ELSE reqs[y][b]
    BY <1>1 DEF Caches
  <2> QED
    BY ONLY <2>1, LoadIsHeld, MapsInv, x \in L1s, a \in Lines, r \in Loads,
       progress[r] = "new", progress' = [progress EXCEPT ![r] = "waiting"]
<1>6. progress' \in [Loads -> {"new", "waiting", "answered"}]
  BY DEF MapsInv
<1> QED
  BY <1>2, <1>3, <1>4, <1>5, <1>6 DEF MapsInv

(***************************************************************************)
(* A first-level cache begins to wait for a line, and what it asked is     *)
(* recorded once below; the second level may begin to wait as well.        *)
(***************************************************************************)
LEMMA AskStep ==
  ASSUME MapsInv, NEW x \in L1s, NEW a \in Lines, NEW r \in Loads,
         progress[r] = "new", delay[x][a] # 0,
         MapsOK', QueuesOK',
         progress' = [progress EXCEPT ![r] = "waiting"],
         \E q : AskedBelow(x, a)' = {q},
         \A y \in L1s, b \in Lines :
           /\ reqs'[y][b] = IF y = x /\ b = a THEN {r} ELSE reqs[y][b]
           /\ delay'[y][b] = IF y = x /\ b = a THEN 0 ELSE delay[y][b]
           /\ y # x \/ b # a => AskedBelow(y, b)' = AskedBelow(y, b),
         \A b \in Lines :
           /\ reqs'["L2"][b] # {} <=> delay'["L2"][b] = 0
           /\ \/ /\ AskedBelow("L2", b)' = AskedBelow("L2", b)
                 /\ delay'["L2"][b] = 0 <=> delay["L2"][b] = 0
              \/ /\ \E q : AskedBelow("L2", b)' = {q}
                 /\ delay'["L2"][b] = 0
  PROVE  MapsInv'
<1>0. x \in Caches /\ x # "L2"
  BY CacheConstants DEF Caches
<1>1. PendingMapsAgree'
  <2>1. ASSUME NEW y \in L1s, NEW b \in Lines PROVE reqs'[y][b] # {} <=> delay'[y][b] = 0
    BY DEF MapsInv, PendingMapsAgree, Caches
  <2> QED
    BY <2>1 DEF PendingMapsAgree, Caches
<1>2. ChainUnbroken'
  <2>1. SUFFICES ASSUME NEW c \in Caches, NEW b \in Lines
                 PROVE  IF delay'[c][b] = 0
                        THEN \E k \in AskedBelow(c, b)' : AskedBelow(c, b)' = {k}
                        ELSE AskedBelow(c, b)' = {}
    BY DEF ChainUnbroken
  <2>2. IF delay[c][b] = 0
        THEN \E k \in AskedBelow(c, b) : AskedBelow(c, b) = {k} ELSE AskedBelow(c, b) = {}
    BY DEF MapsInv, ChainUnbroken
  <2>3. CASE c \in L1s
    BY <2>2, <2>3
  <2>4. CASE c = "L2"
    BY <2>2, <2>4
  <2> QED
    BY <2>3, <2>4 DEF Caches
<1>3. WaitingIsHeld'
  <2>1. reqs[x][a] = {}
    BY <1>0 DEF MapsInv, PendingMapsAgree
  <2>2. \A y \in L1s, b \in Lines :
          reqs'[y][b] = IF y = x /\ b = a THEN reqs[x][a] \cup {r} ELSE reqs[y][b]
    BY <2>1
  <2> QED
    BY ONLY <2>2, LoadIsHeld, MapsInv, x \in L1s, a \in Lines, r \in Loads,
       progress[r] = "new", progress' = [progress EXCEPT ![r] = "waiting"]
<1>4. progress' \in [Loads -> {"new", "waiting", "answered"}]
  BY DEF MapsInv
<1> QED
  BY <1>1, <1>2, <1>3, <1>4 DEF MapsInv

-----------------------------------------------------------------------------
(***************************************************************************)
(* The loads.                                                              *)
(***************************************************************************)
LEMMA SettleStep ==
  ASSUME progress \in [Loads -> {"new", "waiting", "answered"}], NEW r \in Loads,
         progress[r] = "new", NEW n, Settle(r, n)
  PROVE  /\ n = 0 => progress' = [progress EXCEPT ![r] = "waiting"]
         /\ n # 0 => /\ progress' \in [Loads -> {"new", "waiting", "answered"}]
                     /\ \A o \in Loads : progress'[o] = "waiting" <=> progress[o] = "waiting"
BY DEF Settle

(***************************************************************************)
(* A completion time computed from the delay map is positive, so never     *)
(* taken for "wait".                                                       *)
(***************************************************************************)
LEMMA LaterPositive ==
  ASSUME NEW n \in Nat \ {0}, NEW m \in Nat, NEW l \in Nat
  PROVE  Later(n, m) + l \in Nat /\ Later(n, m) + l # 0
BY DEF Later

(***************************************************************************)
(* A load that joins a line on its way (src/engine/ar_cacheobj.cpp:95-113) *)
(* keeps the invariant of the maps.                                        *)
(***************************************************************************)
LEMMA LoadPendingMaps ==
  ASSUME Inv, NEW x \in L1s, NEW r \in Loads, NEW a \in Lines,
         progress[r] = "new", LoadPending(x, r, a)
  PROVE  MapsInv'
<1>0. MapsInv /\ now \in Nat \ {0} /\ x \in Caches
  BY DEF Inv, TypeOK, Caches
<1>1. CASE delay[x][a] = 0
  <2>1. reqs' = [reqs EXCEPT ![x][a] = @ \cup {r}] /\ Settle(r, 0)
    BY <1>1 DEF LoadPending
  <2>2. progress' = [progress EXCEPT ![r] = "waiting"]
    BY <1>0, <2>1, SettleStep DEF MapsInv
  <2> QED
    BY <1>0, <1>1, <2>1, <2>2, JoinStep DEF LoadPending
<1>2. CASE delay[x][a] # 0
  <2> DEFINE n == Later(now, delay[x][a]) + L1Latency
  <2>1. delay[x][a] \in Nat
    BY <1>0 DEF MapsInv, MapsOK, LoadPending
  <2>2. n # 0
    BY <1>0, <2>1, LaterPositive, CacheConstants
  <2>3. reqs' = reqs /\ Settle(r, n)
    BY <1>2 DEF LoadPending
  <2> HIDE DEF n
  <2>4. /\ progress' \in [Loads -> {"new", "waiting", "answered"}]
        /\ \A o \in Loads : progress'[o] = "waiting" <=> progress[o] = "waiting"
    BY <1>0, <2>2, <2>3, SettleStep DEF MapsInv
  <2>5. UNCHANGED <<delay, reqs, simq, memq>>
    BY <2>3 DEF LoadPending
  <2> QED
    BY <1>0, <2>4, <2>5, QuietStep DEF MapsInv, MapsOK
<1> QED
  BY <1>1, <1>2

(***************************************************************************)
(* A load that hits its first-level cache keeps the invariant of the maps. *)
(***************************************************************************)
LEMMA LoadHitMaps ==
  ASSUME Inv, NEW x \in L1s, NEW r \in Loads, NEW a \in Lines,
         progress[r] = "new", LoadHit(x, r, a)
  PROVE  MapsInv'
<1>0. MapsInv /\ now \in Nat \ {0}
  BY DEF Inv, TypeOK
<1>1. now + L1Latency # 0 /\ Settle(r, now + L1Latency)
  BY <1>0, CacheConstants DEF LoadHit
<1>2. /\ progress' \in [Loads -> {"new", "waiting", "answered"}]
      /\ \A o \in Loads : progress'[o] = "waiting" <=> progress[o] = "waiting"
  BY <1>0, <1>1, SettleStep DEF MapsInv
<1>3. UNCHANGED <<delay, reqs, simq, memq>>
  BY DEF LoadHit
<1> QED
  BY <1>0, <1>2, <1>3, QuietStep DEF MapsInv, MapsOK

(***************************************************************************)
(* MemObj::load answers 0 exactly when the memory has a simulator.         *)
(***************************************************************************)
LEMMA MemAnswerCases ==
  ASSUME NEW a \in Lines, NEW t \in Nat \ {0}
  PROVE  /\ PageOf[a] \in SimPages => MemAnswer(a, t) = 0
         /\ PageOf[a] \notin SimPages => MemAnswer(a, t) \in Nat \ {0}
BY CacheConstants DEF MemAnswer

(***************************************************************************)
(* A first-level miss without a second level keeps the invariant of the    *)
(* maps.                                                                   *)
(***************************************************************************)
LEMMA LoadFromMemoryMaps ==
  ASSUME Inv, NEW x \in L1s, NEW r \in Loads, NEW a \in Lines,
         progress[r] = "new", LoadFromMemory(x, r, a)
  PROVE  MapsInv'
<1> DEFINE s == [from |-> x, line |-> a, l1 |-> x, load |-> r]
           n == MemAnswer(a, now + L1Latency)
           p == PageOf[a]
<1>0. /\ MapsInv /\ now \in Nat \ {0} /\ x \in Caches /\ x # "L2" /\ p \in Pages
      /\ ~HasL2 /\ delay[x][a] = Absent /\ Absent # 0
  BY CacheConstants DEF Inv, TypeOK, Caches, Pages, LoadFromMemory, Misses
<1>1. /\ delay' = [delay EXCEPT ![x][a] = n]
      /\ reqs' = IF n = 0 THEN [reqs EXCEPT ![x][a] = {r}] ELSE reqs
      /\ memq' = MemQueue(s) /\ simq' = simq /\ Settle(r, n)
  BY DEF LoadFromMemory
<1>2. now + L1Latency \in Nat \ {0}
  BY <1>0, CacheConstants
<1>3. n \in Nat /\ (n = 0 <=> p \in SimPages)
  BY <1>2, MemAnswerCases
<1>4. s \in SenderTo(a) /\ s.line = a /\ s.from = x
  BY <1>0 DEF SenderTo, Sender
<1>5. MemQueue(s) = IF p \in SimPages THEN [memq EXCEPT ![p] = @ \cup {s}] ELSE memq
  BY DEF MemQueue
<1> HIDE DEF n, s
<1>6. delay' \in [Caches -> [Lines -> Nat \cup {Absent}]]
  BY <1>0, <1>1, <1>3 DEF MapsInv, MapsOK
<1>7. \A c \in Caches, b \in Lines :
        delay'[c][b] = IF c = x /\ b = a THEN n ELSE delay[c][b]
  BY <1>0, <1>1 DEF MapsInv, MapsOK
<1>8. CASE n # 0
  <2>1. UNCHANGED <<reqs, simq, memq>>
    BY <1>1, <1>3, <1>5, <1>8
  <2>2. /\ progress' \in [Loads -> {"new", "waiting", "answered"}]
        /\ \A o \in Loads : progress'[o] = "waiting" <=> progress[o] = "waiting"
    BY <1>0, <1>1, <1>8, SettleStep DEF MapsInv
  <2>3. \A c \in Caches, b \in Lines : delay'[c][b] = 0 <=> delay[c][b] = 0
    BY <1>0, <1>7, <1>8
  <2> QED
    BY <1>0, <1>6, <2>1, <2>2, <2>3, QuietStep
<1>9. CASE n = 0
  <2>1. reqs' = [reqs EXCEPT ![x][a] = {r}] /\ memq' = [memq EXCEPT ![p] = @ \cup {s}]
    BY <1>1, <1>3, <1>5, <1>9
  <2>2. \A c \in Caches, b \in Lines :
          reqs'[c][b] = IF c = x /\ b = a THEN {r} ELSE reqs[c][b]
    BY <1>0, <2>1 DEF MapsInv, MapsOK
  <2>3. \A k \in Pages : memq'[k] = IF k = p THEN memq[p] \cup {s} ELSE memq[k]
    BY <1>0, <2>1 DEF MapsInv, QueuesOK
  <2>4. MapsOK'
    <3>1. reqs' \in [Caches -> [Lines -> SUBSET (Loads \cup Sender)]]
      BY <1>0, <2>1 DEF MapsInv, MapsOK
    <3>2. \A y \in L1s, b \in Lines : reqs'[y][b] \subseteq Loads
      BY <2>2 DEF MapsInv, MapsOK, Inv, Caches
    <3>3. \A b \in Lines : reqs'["L2"][b] \subseteq SenderTo(b)
      BY <1>0, <2>2 DEF MapsInv, MapsOK, Caches
    <3> QED
      BY <1>6, <3>1, <3>2, <3>3 DEF MapsOK
  <2>5. QueuesOK'
    <3>1. memq' \in [Pages -> SUBSET Sender]
      BY <1>0, <1>4, <2>1 DEF MapsInv, QueuesOK, SenderTo
    <3>2. \A k \in Pages : \A o \in memq'[k] :
            PageOf[o.line] = k /\ o.from = IF HasL2 THEN "L2" ELSE o.l1
      BY <1>0, <1>4, <2>3 DEF MapsInv, QueuesOK, SenderTo
    <3> QED
      BY <1>0, <1>1, <3>1, <3>2 DEF MapsInv, QueuesOK
  <2>6. progress' = [progress EXCEPT ![r] = "waiting"]
    BY <1>0, <1>1, <1>9, SettleStep DEF MapsInv
  <2>7. AskedBelow(x, a)' = {<<"memory", s>>}
    <3>1. AskedBelow(x, a) = {}
      BY <1>0 DEF MapsInv, ChainUnbroken
    <3>2. \A q : q \in AskedBelow(x, a)' <=> q \in AskedBelow(x, a) \/ q = <<"memory", s>>
      BY <1>0, <1>1, <1>4, <2>2, <2>3, AskedIff, AskedIffNext DEF Caches
    <3> QED
      BY <3>1, <3>2
  <2>8. ASSUME NEW c \in Caches, NEW b \in Lines, c # x \/ b # a
        PROVE  AskedBelow(c, b)' = AskedBelow(c, b)
    <3>1. PageOf[b] \in Pages
      BY DEF Pages
    <3>2. \A q : q \in AskedBelow(c, b)' <=> q \in AskedBelow(c, b)
      BY <1>0, <1>1, <1>4, <2>2, <2>3, <2>8, <3>1, AskedIff, AskedIffNext DEF Caches
    <3> QED
      BY <3>2
  <2>9. \A y \in L1s, b \in Lines :
          /\ reqs'[y][b] = IF y = x /\ b = a THEN {r} ELSE reqs[y][b]
          /\ delay'[y][b] = IF y = x /\ b = a THEN 0 ELSE delay[y][b]
          /\ y # x \/ b # a => AskedBelow(y, b)' = AskedBelow(y, b)
    BY <1>7, <1>9, <2>2, <2>8 DEF Caches
  <2>10. \A b \in Lines :
           /\ reqs'["L2"][b] # {} <=> delay'["L2"][b] = 0
           /\ \/ /\ AskedBelow("L2", b)' = AskedBelow("L2", b)
                 /\ delay'["L2"][b] = 0 <=> delay["L2"][b] = 0
              \/ /\ \E q : AskedBelow("L2", b)' = {q}
                 /\ delay'["L2"][b] = 0
    <3>1. \A b \in Lines : reqs'["L2"][b] = reqs["L2"][b] /\ delay'["L2"][b] = delay["L2"][b]
      BY <1>0, <1>7, <2>2 DEF Caches
    <3>2. \A b \in Lines : AskedBelow("L2", b)' = AskedBelow("L2", b)
      BY <1>0, <2>8 DEF Caches
    <3>3. \A b \in Lines : reqs["L2"][b] # {} <=> delay["L2"][b] = 0
      BY <1>0 DEF MapsInv, PendingMapsAgree, Caches
    <3> QED
      BY <3>1, <3>2, <3>3
  <2>11. delay[x][a] # 0 /\ \E q : AskedBelow(x, a)' = {q}
    BY <1>0, <2>7
  <2> QED
    BY ONLY <1>0, <2>4, <2>5, <2>6, <2>9, <2>10, <2>11, AskStep,
       x \in L1s, a \in Lines, r \in Loads, progress[r] = "new"
<1> QED
  BY <1>8, <1>9

(***************************************************************************)
(* What a load that goes to the second level does to the maps: the answer  *)
(* n is known, or the request waits there, at its simulator or in a        *)
(* memory.                                                                 *)
(***************************************************************************)
Request(x, r, a) == [from |-> x, line |-> a, l1 |-> x, load |-> r]

(***************************************************************************)
(* A first-level miss with a second level is answered at once, or waits    *)
(* for the second level, its simulator, or the memory.                     *)
(***************************************************************************)
LEMMA LoadThroughL2Cases ==
  ASSUME Inv, NEW x \in L1s, NEW r \in Loads, NEW a \in Lines,
         progress[r] = "new", LoadThroughL2(x, r, a)
  PROVE  LET s == Request(x, r, a) IN
         \/ \E n \in Nat \ {0} :
              /\ UNCHANGED <<reqs, simq, memq>>
              /\ \/ delay' = [delay EXCEPT ![x][a] = n]
                 \/ delay["L2"][a] = Absent /\ delay' = [delay EXCEPT ![x][a] = n, !["L2"][a] = n]
              /\ Settle(r, n)
         \/ /\ delay["L2"][a] = 0
            /\ delay' = [delay EXCEPT ![x][a] = 0]
            /\ reqs' = [reqs EXCEPT ![x][a] = {r}, !["L2"][a] = @ \cup {s}]
            /\ UNCHANGED <<simq, memq>> /\ Settle(r, 0)
         \/ /\ delay["L2"][a] = Absent
            /\ delay' = [delay EXCEPT ![x][a] = 0]
            /\ reqs' = [reqs EXCEPT ![x][a] = {r}]
            /\ simq' = [simq EXCEPT ![a] = Append(@, s)]
            /\ UNCHANGED memq /\ Settle(r, 0)
         \/ /\ delay["L2"][a] = Absent
            /\ delay' = [delay EXCEPT ![x][a] = 0, !["L2"][a] = 0]
            /\ reqs' = [reqs EXCEPT ![x][a] = {r}, !["L2"][a] = {s}]
            /\ memq' = [memq EXCEPT ![PageOf[a]] = @ \cup {[s EXCEPT !.from = "L2"]}]
            /\ UNCHANGED simq /\ Settle(r, 0)
<1> DEFINE s == Request(x, r, a)
           t == now + L1Latency
           wait == delay["L2"][a]
           low == Use("L2", tags["L2"], a, FALSE)
<1>0. /\ wait \in Nat \cup {Absent} /\ t \in Nat \ {0} /\ Absent \notin Nat
      /\ L2Latency \in Nat
  BY CacheConstants DEF Inv, TypeOK, MapsOK, Caches
<1>1. CASE wait # Absent
  <2> DEFINE n == IF wait = 0 THEN 0 ELSE Later(t, wait) + L2Latency
  <2>1. /\ delay' = [delay EXCEPT ![x][a] = n]
        /\ reqs' = IF n = 0 THEN [reqs EXCEPT ![x][a] = {r}, !["L2"][a] = @ \cup {s}] ELSE reqs
        /\ UNCHANGED <<simq, memq>> /\ Settle(r, n)
    BY <1>1 DEF LoadThroughL2, Request
  <2>2. CASE wait = 0
    BY <2>1, <2>2
  <2>3. CASE wait # 0
    <3>1. n \in Nat \ {0}
      BY <1>0, <1>1, <2>3, LaterPositive
    <3> QED
      BY <2>1, <3>1
  <2> QED
    BY <2>2, <2>3
<1>2. CASE wait = Absent /\ low.hit
  <2> DEFINE n == IF SimL2 THEN 0 ELSE t + L2Latency
  <2>1. /\ delay' = [delay EXCEPT ![x][a] = n]
        /\ reqs' = IF n = 0 THEN [reqs EXCEPT ![x][a] = {r}] ELSE reqs
        /\ simq' = IF SimL2 THEN [simq EXCEPT ![a] = Append(@, s)] ELSE simq
        /\ UNCHANGED memq /\ Settle(r, n)
    BY <1>2 DEF LoadThroughL2, Request
  <2>2. CASE SimL2
    BY <1>2, <2>1, <2>2
  <2>3. CASE ~SimL2
    <3>1. n \in Nat \ {0}
      BY <1>0, <2>3
    <3> QED
      BY <2>1, <2>3, <3>1
  <2> QED
    BY <2>2, <2>3
<1>3. CASE wait = Absent /\ ~low.hit
  <2> DEFINE u == t + (IF SimL2 THEN 0 ELSE L2Latency)
             n == MemAnswer(a, u)
             m == [s EXCEPT !.from = "L2"]
  <2>1. /\ delay' = [delay EXCEPT ![x][a] = n, !["L2"][a] = n]
        /\ reqs' = IF n = 0 THEN [reqs EXCEPT ![x][a] = {r}, !["L2"][a] = {s}] ELSE reqs
        /\ memq' = MemQueue(m)
        /\ UNCHANGED simq /\ Settle(r, n)
    BY <1>3 DEF LoadThroughL2, Request
  <2>2. u \in Nat \ {0}
    BY <1>0
  <2>3. m.line = a
    BY DEF Request
  <2>4. /\ PageOf[a] \in SimPages =>
             n = 0 /\ MemQueue(m) = [memq EXCEPT ![PageOf[a]] = @ \cup {m}]
        /\ PageOf[a] \notin SimPages => n \in Nat \ {0} /\ MemQueue(m) = memq
    <3> HIDE DEF u, m
    <3> QED
      BY <2>2, <2>3, MemAnswerCases DEF MemQueue
  <2> HIDE DEF n
  <2>5. CASE PageOf[a] \in SimPages
    BY <1>3, <2>1, <2>4, <2>5
  <2>6. CASE PageOf[a] \notin SimPages
    BY <1>3, <2>1, <2>4, <2>6
  <2> QED
    BY <2>5, <2>6
<1> QED
  BY <1>1, <1>2, <1>3

(***************************************************************************)
(* A request that waits at the second level for a line on its way there.   *)
(***************************************************************************)
LEMMA WaitAtL2Maps ==
  ASSUME Inv, NEW x \in L1s, NEW r \in Loads, NEW a \in Lines,
         progress[r] = "new", delay[x][a] = Absent, delay["L2"][a] = 0,
         delay' = [delay EXCEPT ![x][a] = 0],
         reqs' = [reqs EXCEPT ![x][a] = {r}, !["L2"][a] = @ \cup {Request(x, r, a)}],
         UNCHANGED <<simq, memq>>, Settle(r, 0)
  PROVE  MapsInv'
<1> DEFINE s == Request(x, r, a)
<1>0. /\ MapsInv /\ x \in Caches /\ "L2" \in Caches /\ x # "L2" /\ Absent # 0
      /\ x \in L1s /\ a \in Lines /\ simq' = simq /\ memq' = memq
      /\ delay[x][a] = Absent /\ delay["L2"][a] = 0
  BY CacheConstants DEF Inv, Caches
<1>1. s \in SenderTo(a) /\ s.line = a /\ s.from = x
  BY <1>0 DEF SenderTo, Sender, Request
<1> HIDE DEF s
<1>2. /\ \A c \in Caches, b \in Lines :
           delay'[c][b] = IF c = x /\ b = a THEN 0 ELSE delay[c][b]
      /\ reqs'["L2"][a] = reqs["L2"][a] \cup {s}
      /\ \A b \in Lines : b # a => reqs'["L2"][b] = reqs["L2"][b]
      /\ \A y \in L1s, b \in Lines :
           reqs'[y][b] = IF y = x /\ b = a THEN {r} ELSE reqs[y][b]
  <2>1. \A y \in L1s : y \in Caches /\ y # "L2"
    BY CacheConstants DEF Caches
  <2>2. MapsOK
    BY <1>0 DEF MapsInv
  <2>3. \A c \in Caches, b \in Lines :
          delay'[c][b] = IF c = x /\ b = a THEN 0 ELSE delay[c][b]
    BY <1>0, <2>2 DEF MapsOK
  <2>4. /\ reqs'["L2"][a] = reqs["L2"][a] \cup {s}
        /\ \A b \in Lines : b # a => reqs'["L2"][b] = reqs["L2"][b]
    BY <1>0, <2>2 DEF MapsOK, s
  <2>5. \A y \in L1s, b \in Lines :
          reqs'[y][b] = IF y = x /\ b = a THEN {r} ELSE reqs[y][b]
    BY <1>0, <2>1, <2>2 DEF MapsOK
  <2> QED
    BY ONLY <2>3, <2>4, <2>5
<1>3. MapsOK' /\ QueuesOK'
  <2>1. reqs' \in [Caches -> [Lines -> SUBSET (Loads \cup Sender)]]
    <3>1. reqs \in [Caches -> [Lines -> SUBSET (Loads \cup Sender)]]
      BY <1>0 DEF MapsInv, MapsOK
    <3>2. s \in Sender
      BY <1>1 DEF SenderTo
    <3>3. reqs' = [reqs EXCEPT ![x][a] = {r}, !["L2"][a] = @ \cup {s}]
      BY DEF s
    <3> QED
      BY ONLY <1>0, <3>1, <3>2, <3>3, r \in Loads
  <2>2. delay' \in [Caches -> [Lines -> Nat \cup {Absent}]]
    BY <1>0 DEF MapsInv, MapsOK
  <2>3. \A y \in L1s, b \in Lines : reqs'[y][b] \subseteq Loads
    BY ONLY <1>0, <1>2 DEF MapsInv, MapsOK
  <2>4. ASSUME NEW b \in Lines PROVE reqs'["L2"][b] \subseteq SenderTo(b)
    <3>1. CASE b = a
      BY ONLY <1>0, <1>1, <1>2, <3>1 DEF MapsInv, MapsOK
    <3>2. CASE b # a
      BY ONLY <1>0, <1>2, <3>2 DEF MapsInv, MapsOK
    <3> QED
      BY ONLY <3>1, <3>2
  <2> QED
    BY ONLY <1>0, <2>1, <2>2, <2>3, <2>4 DEF MapsInv, MapsOK, QueuesOK
<1>4. progress' = [progress EXCEPT ![r] = "waiting"]
  BY <1>0, SettleStep DEF MapsInv
<1>5. \E q : AskedBelow(x, a)' = {q}
  <2>1. AskedBelow(x, a) = {}
    BY ONLY <1>0 DEF MapsInv, ChainUnbroken
  <2>2. \A q : q \in AskedBelow(x, a)' <=> q \in AskedBelow(x, a) \/ q = <<"cache", s>>
    BY ONLY <1>0, <1>1, <1>2, AskedIff, AskedIffNext
  <2>3. AskedBelow(x, a)' = {<<"cache", s>>}
    BY ONLY <2>1, <2>2
  <2> QED
    BY ONLY <2>3
<1>6. ASSUME NEW c \in Caches, NEW b \in Lines, c # x \/ b # a
      PROVE  AskedBelow(c, b)' = AskedBelow(c, b)
  <2>1. \A q : q \in AskedBelow(c, b)' <=> q \in AskedBelow(c, b)
    BY ONLY <1>0, <1>1, <1>2, <1>6, AskedIff, AskedIffNext
  <2> QED
    BY ONLY <2>1
<1>7. \A y \in L1s, b \in Lines :
        /\ reqs'[y][b] = IF y = x /\ b = a THEN {r} ELSE reqs[y][b]
        /\ delay'[y][b] = IF y = x /\ b = a THEN 0 ELSE delay[y][b]
        /\ y # x \/ b # a => AskedBelow(y, b)' = AskedBelow(y, b)
  BY ONLY <1>2, <1>6, CacheConstants DEF Caches
<1>8. \A b \in Lines :
        /\ reqs'["L2"][b] # {} <=> delay'["L2"][b] = 0
        /\ \/ /\ AskedBelow("L2", b)' = AskedBelow("L2", b)
              /\ delay'["L2"][b] = 0 <=> delay["L2"][b] = 0
           \/ /\ \E q : AskedBelow("L2", b)' = {q}
              /\ delay'["L2"][b] = 0
  <2>1. \A b \in Lines : AskedBelow("L2", b)' = AskedBelow("L2", b)
    BY ONLY <1>0, <1>6
  <2>2. \A b \in Lines : reqs["L2"][b] # {} <=> delay["L2"][b] = 0
    BY ONLY <1>0 DEF MapsInv, PendingMapsAgree
  <2> QED
    BY ONLY <1>0, <1>2, <2>1, <2>2
<1>9. delay[x][a] # 0
  BY ONLY <1>0
<1> QED
  BY ONLY <1>0, <1>3, <1>4, <1>5, <1>7, <1>8, <1>9, AskStep,
     x \in L1s, a \in Lines, r \in Loads, progress[r] = "new"

(***************************************************************************)
(* A request that hits the second level and waits for its simulator.       *)
(***************************************************************************)
LEMMA WaitForSimulatorMaps ==
  ASSUME Inv, NEW x \in L1s, NEW r \in Loads, NEW a \in Lines,
         progress[r] = "new", delay[x][a] = Absent,
         delay' = [delay EXCEPT ![x][a] = 0],
         reqs' = [reqs EXCEPT ![x][a] = {r}],
         simq' = [simq EXCEPT ![a] = Append(@, Request(x, r, a))],
         UNCHANGED memq, Settle(r, 0)
  PROVE  MapsInv'
<1> DEFINE s == Request(x, r, a)
           n == Len(simq[a])
<1>0. /\ MapsInv /\ x \in Caches /\ "L2" \in Caches /\ x # "L2" /\ Absent # 0
      /\ x \in L1s /\ a \in Lines /\ memq' = memq /\ delay[x][a] = Absent
  BY CacheConstants DEF Inv, Caches
<1>1. s \in SenderTo(a) /\ s \in Sender /\ s.line = a /\ s.from = x
  BY <1>0 DEF SenderTo, Sender, Request
<1>2. /\ simq[a] \in Seq(Sender) /\ n \in Nat
      /\ \A b \in Lines : b # a => simq'[b] = simq[b]
      /\ simq' \in [Lines -> Seq(Sender)]
      /\ simq'[a] = Append(simq[a], s)
  BY <1>1, LenProperties, AppendProperties DEF MapsInv, QueuesOK, Inv
<1>3. /\ Len(simq'[a]) = n + 1 /\ simq'[a][n + 1] = s
      /\ \A i \in 1 .. n : simq'[a][i] = simq[a][i]
  BY <1>1, <1>2, AppendProperties
<1> HIDE DEF s, n
<1>4. \A c \in Caches, b \in Lines :
        /\ delay'[c][b] = IF c = x /\ b = a THEN 0 ELSE delay[c][b]
        /\ reqs'[c][b] = IF c = x /\ b = a THEN {r} ELSE reqs[c][b]
  BY <1>0 DEF MapsInv, MapsOK
<1>5. MapsOK' /\ QueuesOK'
  <2>1. reqs' \in [Caches -> [Lines -> SUBSET (Loads \cup Sender)]]
    BY <1>0 DEF MapsInv, MapsOK
  <2>2. delay' \in [Caches -> [Lines -> Nat \cup {Absent}]]
    BY <1>0 DEF MapsInv, MapsOK
  <2>3. \A y \in L1s, b \in Lines : reqs'[y][b] \subseteq Loads
    BY <1>0, <1>4, CacheConstants DEF MapsInv, MapsOK, Caches
  <2>4. \A b \in Lines : reqs'["L2"][b] \subseteq SenderTo(b)
    BY <1>0, <1>4 DEF MapsInv, MapsOK
  <2>5. \A b \in Lines : \A i \in 1 .. Len(simq'[b]) : simq'[b][i] \in SenderTo(b)
    <3>1. SUFFICES ASSUME NEW i \in 1 .. n + 1 PROVE simq'[a][i] \in SenderTo(a)
      BY <1>0, <1>2, <1>3 DEF MapsInv, QueuesOK
    <3>2. i \in 1 .. n \/ i = n + 1
      BY <1>2
    <3> QED
      BY <1>0, <1>1, <1>3, <3>2 DEF MapsInv, QueuesOK, n
  <2> QED
    BY <1>0, <1>2, <2>1, <2>2, <2>3, <2>4, <2>5 DEF MapsInv, MapsOK, QueuesOK
<1>6. progress' = [progress EXCEPT ![r] = "waiting"]
  BY <1>0, SettleStep DEF MapsInv
<1>7. \E q : AskedBelow(x, a)' = {q}
  <2>1. AskedBelow(x, a) = {}
    BY <1>0 DEF MapsInv, ChainUnbroken
  <2>2. \A i \in 1 .. n : simq[a][i].from # x
    BY ONLY <2>1, AskedNone DEF n
  <2>3. \A i \in 1 .. n + 1 : simq'[a][i].from = x <=> i = n + 1
    <3>1. \A i \in 1 .. n + 1 : i \in 1 .. n \/ i = n + 1
      BY <1>2
    <3>2. n + 1 \notin 1 .. n
      BY <1>2
    <3> QED
      BY <1>1, <1>3, <2>2, <3>1, <3>2
  <2>4. n + 1 \in 1 .. n + 1
    BY <1>2
  <2>5. \A i : i \in 1 .. Len(simq'[a]) /\ simq'[a][i].from = x <=> i = n + 1
    BY ONLY <1>3, <2>3, <2>4
  <2>6. reqs'["L2"][a] = reqs["L2"][a]
    BY ONLY <1>0, <1>4
  <2>7. \A q : q \in AskedBelow(x, a)' <=> q = <<"simulator", n + 1>>
    <3>1. /\ \A o \in reqs["L2"][a] : o.from # x
          /\ \A o \in memq[PageOf[a]] : ~(o.from = x /\ o.line = a)
      BY ONLY <2>1, AskedNone
    <3>2. \A q : q \in AskedBelow(x, a)' <=>
            \E i \in 1 .. Len(simq'[a]) : simq'[a][i].from = x /\ q = <<"simulator", i>>
      BY ONLY <1>0, <2>6, <3>1, AskedIffNext
    <3> QED
      BY ONLY <2>5, <3>2
  <2>8. AskedBelow(x, a)' = {<<"simulator", n + 1>>}
    BY ONLY <2>7
  <2> QED
    BY ONLY <2>8
<1>8. ASSUME NEW c \in Caches, NEW b \in Lines, c # x \/ b # a
      PROVE  AskedBelow(c, b)' = AskedBelow(c, b)
  <2>1. reqs'["L2"][b] = reqs["L2"][b]
    BY <1>0, <1>4
  <2>2. CASE b # a
    BY <1>2, <2>1, <2>2 DEF AskedBelow
  <2>3. CASE b = a
    <3>1. c # x
      BY <1>8, <2>3
    <3>2. \A i : i \in 1 .. n + 1 <=> i \in 1 .. n \/ i = n + 1
      BY <1>2
    <3>3. \A i : /\ i \in 1 .. Len(simq'[b]) /\ simq'[b][i].from = c
                 <=> i \in 1 .. Len(simq[b]) /\ simq[b][i].from = c
      BY <1>1, <1>3, <2>3, <3>1, <3>2 DEF n
    <3>4. \A q : q \in AskedBelow(c, b)' <=> q \in AskedBelow(c, b)
      BY <2>1, <3>3, AskedIff, AskedIffNext
    <3> QED
      BY <3>4
  <2> QED
    BY <2>2, <2>3
<1>9. \A y \in L1s, b \in Lines :
        /\ reqs'[y][b] = IF y = x /\ b = a THEN {r} ELSE reqs[y][b]
        /\ delay'[y][b] = IF y = x /\ b = a THEN 0 ELSE delay[y][b]
        /\ y # x \/ b # a => AskedBelow(y, b)' = AskedBelow(y, b)
  BY <1>4, <1>8 DEF Caches
<1>10. \A b \in Lines :
         /\ reqs'["L2"][b] # {} <=> delay'["L2"][b] = 0
         /\ \/ /\ AskedBelow("L2", b)' = AskedBelow("L2", b)
               /\ delay'["L2"][b] = 0 <=> delay["L2"][b] = 0
            \/ /\ \E q : AskedBelow("L2", b)' = {q}
               /\ delay'["L2"][b] = 0
  <2>1. \A b \in Lines : AskedBelow("L2", b)' = AskedBelow("L2", b)
    BY <1>0, <1>8
  <2>2. \A b \in Lines : reqs["L2"][b] # {} <=> delay["L2"][b] = 0
    BY <1>0 DEF MapsInv, PendingMapsAgree
  <2> QED
    BY <1>0, <1>4, <2>1, <2>2
<1>11. delay[x][a] # 0
  BY <1>0
<1> QED
  BY ONLY <1>0, <1>5, <1>6, <1>7, <1>9, <1>10, <1>11, AskStep,
     x \in L1s, a \in Lines, r \in Loads, progress[r] = "new"

(***************************************************************************)
(* A request the second level passes on to a memory's simulator.           *)
(***************************************************************************)
LEMMA WaitForMemoryMaps ==
  ASSUME Inv, HasL2, NEW x \in L1s, NEW r \in Loads, NEW a \in Lines,
         progress[r] = "new", delay[x][a] = Absent, delay["L2"][a] = Absent,
         delay' = [delay EXCEPT ![x][a] = 0, !["L2"][a] = 0],
         reqs' = [reqs EXCEPT ![x][a] = {r}, !["L2"][a] = {Request(x, r, a)}],
         memq' = [memq EXCEPT ![PageOf[a]] = @ \cup {[Request(x, r, a) EXCEPT !.from = "L2"]}],
         UNCHANGED simq, Settle(r, 0)
  PROVE  MapsInv'
<1> DEFINE s == Request(x, r, a)
           m == [Request(x, r, a) EXCEPT !.from = "L2"]
           p == PageOf[a]
<1>0. /\ MapsInv /\ x \in Caches /\ "L2" \in Caches /\ x # "L2" /\ Absent # 0 /\ p \in Pages
      /\ x \in L1s /\ a \in Lines /\ r \in Loads /\ simq' = simq /\ HasL2
      /\ delay[x][a] = Absent /\ delay["L2"][a] = Absent /\ p = PageOf[a]
  BY CacheConstants DEF Inv, Caches, Pages
<1>1. /\ s \in SenderTo(a) /\ s.line = a /\ s.from = x
      /\ m \in Sender /\ m.line = a /\ m.from = "L2"
  BY <1>0 DEF SenderTo, Sender, Request
<1>2. /\ \A y \in L1s, b \in Lines :
           /\ delay'[y][b] = IF y = x /\ b = a THEN 0 ELSE delay[y][b]
           /\ reqs'[y][b] = IF y = x /\ b = a THEN {r} ELSE reqs[y][b]
      /\ delay'["L2"][a] = 0 /\ reqs'["L2"][a] = {s}
      /\ \A b \in Lines : b # a => /\ delay'["L2"][b] = delay["L2"][b]
                                   /\ reqs'["L2"][b] = reqs["L2"][b]
  <2>1. \A y \in L1s : y \in Caches /\ y # "L2"
    BY CacheConstants DEF Caches
  <2>2. MapsOK
    BY <1>0 DEF MapsInv
  <2>3. \A y \in L1s, b \in Lines :
          delay'[y][b] = IF y = x /\ b = a THEN 0 ELSE delay[y][b]
    BY <1>0, <2>1, <2>2 DEF MapsOK
  <2>4. \A y \in L1s, b \in Lines :
          reqs'[y][b] = IF y = x /\ b = a THEN {r} ELSE reqs[y][b]
    BY <1>0, <2>1, <2>2 DEF MapsOK
  <2>5. /\ delay'["L2"][a] = 0
        /\ \A b \in Lines : b # a => delay'["L2"][b] = delay["L2"][b]
    BY <1>0, <2>2 DEF MapsOK
  <2>6. /\ reqs'["L2"][a] = {s}
        /\ \A b \in Lines : b # a => reqs'["L2"][b] = reqs["L2"][b]
    BY <1>0, <2>2 DEF MapsOK
  <2> QED
    BY ONLY <2>3, <2>4, <2>5, <2>6
<1>3. \A k \in Pages : memq'[k] = IF k = p THEN memq[p] \cup {m} ELSE memq[k]
  BY <1>0 DEF MapsInv, QueuesOK
<1>4. MapsOK' /\ QueuesOK'
  <2>1. reqs' \in [Caches -> [Lines -> SUBSET (Loads \cup Sender)]]
    <3>1. reqs \in [Caches -> [Lines -> SUBSET (Loads \cup Sender)]]
      BY <1>0 DEF MapsInv, MapsOK
    <3>2. s \in Sender
      BY <1>1 DEF SenderTo
    <3>3. reqs' = [reqs EXCEPT ![x][a] = {r}, !["L2"][a] = {s}]
      BY <1>0
    <3> QED
      BY ONLY <1>0, <3>1, <3>2, <3>3, r \in Loads
  <2>2. delay' \in [Caches -> [Lines -> Nat \cup {Absent}]]
    BY <1>0 DEF MapsInv, MapsOK
  <2>3. \A y \in L1s, b \in Lines : reqs'[y][b] \subseteq Loads
    BY ONLY <1>0, <1>2 DEF MapsInv, MapsOK
  <2>4. ASSUME NEW b \in Lines PROVE reqs'["L2"][b] \subseteq SenderTo(b)
    <3>1. CASE b = a
      BY ONLY <1>1, <1>2, <3>1
    <3>2. CASE b # a
      BY ONLY <1>0, <1>2, <3>2 DEF MapsInv, MapsOK
    <3> QED
      BY ONLY <3>1, <3>2
  <2>5. memq' \in [Pages -> SUBSET Sender]
    BY <1>0, <1>1 DEF MapsInv, QueuesOK
  <2> HIDE DEF m, s
  <2>6. \A k \in Pages : \A o \in memq'[k] :
          PageOf[o.line] = k /\ o.from = IF HasL2 THEN "L2" ELSE o.l1
    BY ONLY <1>0, <1>1, <1>3 DEF MapsInv, QueuesOK
  <2> QED
    BY ONLY <1>0, <2>1, <2>2, <2>3, <2>4, <2>5, <2>6 DEF MapsInv, MapsOK, QueuesOK
<1> HIDE DEF s, m
<1>5. progress' = [progress EXCEPT ![r] = "waiting"]
  BY <1>0, SettleStep DEF MapsInv
<1>6. reqs["L2"][a] = {} /\ AskedBelow("L2", a) = {} /\ AskedBelow(x, a) = {}
  BY ONLY <1>0 DEF MapsInv, ChainUnbroken, PendingMapsAgree
<1>7. AskedBelow(x, a)' = {<<"cache", s>>} /\ AskedBelow("L2", a)' = {<<"memory", m>>}
  <2>1. \A q : q \in AskedBelow(x, a)' <=> q = <<"cache", s>>
    BY ONLY <1>0, <1>1, <1>2, <1>3, <1>6, AskedIff, AskedIffNext
  <2>2. \A q : q \in AskedBelow("L2", a)' <=> q = <<"memory", m>>
    <3>1. /\ \A o \in memq[p] : ~(o.from = "L2" /\ o.line = a)
          /\ \A i \in 1 .. Len(simq[a]) : simq[a][i].from # "L2"
      BY ONLY <1>0, <1>6, AskedNone
    <3>2. \A o \in memq'[p] : o.from = "L2" /\ o.line = a <=> o = m
      BY ONLY <1>0, <1>1, <1>3, <3>1
    <3>3. m \in memq'[p] /\ \A o \in reqs'["L2"][a] : o.from # "L2"
      BY ONLY <1>0, <1>1, <1>2, <1>3
    <3> QED
      BY ONLY <1>0, <3>1, <3>2, <3>3, AskedIffNext
  <2> QED
    BY ONLY <2>1, <2>2
<1>8. ASSUME NEW c \in Caches, NEW b \in Lines, (c # x /\ c # "L2") \/ b # a
      PROVE  AskedBelow(c, b)' = AskedBelow(c, b)
  <2>1. PageOf[b] \in Pages
    BY ONLY DEF Pages
  <2>2. CASE b # a
    <3>1. \A q : q \in AskedBelow(c, b)' <=> q \in AskedBelow(c, b)
      BY ONLY <1>0, <1>1, <1>2, <1>3, <2>1, <2>2, AskedIff, AskedIffNext
    <3> QED
      BY ONLY <3>1
  <2>3. CASE b = a /\ c # x /\ c # "L2"
    <3>1. \A q : q \in AskedBelow(c, b)' <=> q \in AskedBelow(c, b)
      BY ONLY <1>0, <1>1, <1>2, <1>3, <1>6, <2>1, <2>3, AskedIff, AskedIffNext
    <3> QED
      BY ONLY <3>1
  <2> QED
    BY ONLY <1>8, <2>2, <2>3
<1>9. \A y \in L1s, b \in Lines :
        /\ reqs'[y][b] = IF y = x /\ b = a THEN {r} ELSE reqs[y][b]
        /\ delay'[y][b] = IF y = x /\ b = a THEN 0 ELSE delay[y][b]
        /\ y # x \/ b # a => AskedBelow(y, b)' = AskedBelow(y, b)
  <2>1. \A y \in L1s : y \in Caches /\ y # "L2"
    BY ONLY CacheConstants DEF Caches
  <2> QED
    BY ONLY <1>2, <1>8, <2>1
<1>10. \A b \in Lines :
         /\ reqs'["L2"][b] # {} <=> delay'["L2"][b] = 0
         /\ \/ /\ AskedBelow("L2", b)' = AskedBelow("L2", b)
               /\ delay'["L2"][b] = 0 <=> delay["L2"][b] = 0
            \/ /\ \E q : AskedBelow("L2", b)' = {q}
               /\ delay'["L2"][b] = 0
  <2>1. SUFFICES ASSUME NEW b \in Lines
                 PROVE /\ reqs'["L2"][b] # {} <=> delay'["L2"][b] = 0
                       /\ \/ /\ AskedBelow("L2", b)' = AskedBelow("L2", b)
                             /\ delay'["L2"][b] = 0 <=> delay["L2"][b] = 0
                          \/ /\ \E q : AskedBelow("L2", b)' = {q}
                             /\ delay'["L2"][b] = 0
    OBVIOUS
  <2>2. CASE b = a
    BY ONLY <1>0, <1>2, <1>7, <2>2
  <2>3. CASE b # a
    <3>1. reqs["L2"][b] # {} <=> delay["L2"][b] = 0
      BY ONLY <1>0 DEF MapsInv, PendingMapsAgree
    <3> QED
      BY ONLY <1>0, <1>2, <1>8, <2>3, <3>1
  <2> QED
    BY ONLY <2>2, <2>3
<1>11. delay[x][a] # 0 /\ \E q : AskedBelow(x, a)' = {q}
  BY ONLY <1>0, <1>7
<1> QED
  BY ONLY <1>0, <1>4, <1>5, <1>9, <1>10, <1>11, AskStep,
     x \in L1s, a \in Lines, r \in Loads, progress[r] = "new"

(***************************************************************************)
(* A first-level miss with a second level keeps the invariant of the maps. *)
(***************************************************************************)
LEMMA LoadThroughL2Maps ==
  ASSUME Inv, NEW x \in L1s, NEW r \in Loads, NEW a \in Lines,
         progress[r] = "new", LoadThroughL2(x, r, a)
  PROVE  MapsInv'
<1> DEFINE s == Request(x, r, a)
<1>0. /\ MapsInv /\ HasL2 /\ delay[x][a] = Absent /\ Absent \notin Nat
      /\ x \in Caches /\ "L2" \in Caches
  BY CacheConstants DEF Inv, LoadThroughL2, Misses, Caches
<1>1. ASSUME NEW n \in Nat \ {0}, UNCHANGED <<reqs, simq, memq>>, Settle(r, n),
             \/ delay' = [delay EXCEPT ![x][a] = n]
             \/ delay["L2"][a] = Absent /\ delay' = [delay EXCEPT ![x][a] = n, !["L2"][a] = n]
      PROVE  MapsInv'
  <2>1. /\ delay' \in [Caches -> [Lines -> Nat \cup {Absent}]]
        /\ \A c \in Caches, b \in Lines : delay'[c][b] = 0 <=> delay[c][b] = 0
    <3>1. CASE delay' = [delay EXCEPT ![x][a] = n]
      BY <1>0, <3>1 DEF MapsInv, MapsOK
    <3>2. CASE delay["L2"][a] = Absent /\ delay' = [delay EXCEPT ![x][a] = n, !["L2"][a] = n]
      <4>1. n # 0 /\ delay["L2"][a] # 0 /\ delay[x][a] # 0
        BY <1>0, <3>2
      <4>2. delay \in [Caches -> [Lines -> Nat \cup {Absent}]]
        BY <1>0 DEF MapsInv, MapsOK
      <4>3. delay' \in [Caches -> [Lines -> Nat \cup {Absent}]]
        BY ONLY <1>0, <3>2, <4>2, n \in Nat \ {0}
      <4>4. \A c \in Caches, b \in Lines :
              delay'[c][b] = IF b = a /\ c \in {x, "L2"} THEN n ELSE delay[c][b]
        BY ONLY <1>0, <3>2, <4>2, a \in Lines
      <4> QED
        BY ONLY <4>1, <4>3, <4>4
    <3> QED
      BY <1>1, <3>1, <3>2
  <2>2. /\ progress' \in [Loads -> {"new", "waiting", "answered"}]
        /\ \A o \in Loads : progress'[o] = "waiting" <=> progress[o] = "waiting"
    BY <1>0, <1>1, SettleStep DEF MapsInv
  <2> QED
    BY <1>0, <1>1, <2>1, <2>2, QuietStep
<1>2. ASSUME delay["L2"][a] = 0, delay' = [delay EXCEPT ![x][a] = 0],
             reqs' = [reqs EXCEPT ![x][a] = {r}, !["L2"][a] = @ \cup {s}],
             UNCHANGED <<simq, memq>>, Settle(r, 0)
      PROVE  MapsInv'
  BY <1>0, <1>2, WaitAtL2Maps
<1>3. ASSUME delay' = [delay EXCEPT ![x][a] = 0], reqs' = [reqs EXCEPT ![x][a] = {r}],
             simq' = [simq EXCEPT ![a] = Append(@, s)], UNCHANGED memq, Settle(r, 0)
      PROVE  MapsInv'
  BY <1>0, <1>3, WaitForSimulatorMaps
<1>4. ASSUME delay["L2"][a] = Absent,
             delay' = [delay EXCEPT ![x][a] = 0, !["L2"][a] = 0],
             reqs' = [reqs EXCEPT ![x][a] = {r}, !["L2"][a] = {s}],
             memq' = [memq EXCEPT ![PageOf[a]] = @ \cup {[s EXCEPT !.from = "L2"]}],
             UNCHANGED simq, Settle(r, 0)
      PROVE  MapsInv'
  BY <1>0, <1>4, WaitForMemoryMaps
<1>5. \/ \E n \in Nat \ {0} :
           /\ UNCHANGED <<reqs, simq, memq>>
           /\ \/ delay' = [delay EXCEPT ![x][a] = n]
              \/ delay["L2"][a] = Absent /\ delay' = [delay EXCEPT ![x][a] = n, !["L2"][a] = n]
           /\ Settle(r, n)
      \/ /\ delay["L2"][a] = 0
         /\ delay' = [delay EXCEPT ![x][a] = 0]
         /\ reqs' = [reqs EXCEPT ![x][a] = {r}, !["L2"][a] = @ \cup {s}]
         /\ UNCHANGED <<simq, memq>> /\ Settle(r, 0)
      \/ /\ delay["L2"][a] = Absent
         /\ delay' = [delay EXCEPT ![x][a] = 0]
         /\ reqs' = [reqs EXCEPT ![x][a] = {r}]
         /\ simq' = [simq EXCEPT ![a] = Append(@, s)]
         /\ UNCHANGED memq /\ Settle(r, 0)
      \/ /\ delay["L2"][a] = Absent
         /\ delay' = [delay EXCEPT ![x][a] = 0, !["L2"][a] = 0]
         /\ reqs' = [reqs EXCEPT ![x][a] = {r}, !["L2"][a] = {s}]
         /\ memq' = [memq EXCEPT ![PageOf[a]] = @ \cup {[s EXCEPT !.from = "L2"]}]
         /\ UNCHANGED simq /\ Settle(r, 0)
  BY LoadThroughL2Cases
<1> HIDE DEF s
<1> QED
  BY ONLY <1>1, <1>2, <1>3, <1>4, <1>5, Zenon

-----------------------------------------------------------------------------
(***************************************************************************)
(* The answers.                                                            *)
(***************************************************************************)
LEMMA ArriveMaps ==
  ASSUME MapsInv, NEW pairs \in SUBSET (L1s \X Lines), NEW l2 \in SUBSET Lines, Arrive(pairs, l2)
  PROVE  /\ MapsOK' /\ PendingMapsAgree' /\ WaitingIsHeld'
         /\ progress' \in [Loads -> {"new", "waiting", "answered"}]
         /\ \A x \in L1s, a \in Lines :
              /\ delay'[x][a] = IF <<x, a>> \in pairs THEN Absent ELSE delay[x][a]
              /\ reqs'[x][a] = IF <<x, a>> \in pairs THEN {} ELSE reqs[x][a]
         /\ \A a \in Lines :
              /\ delay'["L2"][a] = IF a \in l2 THEN Absent ELSE delay["L2"][a]
              /\ reqs'["L2"][a] = IF a \in l2 THEN {} ELSE reqs["L2"][a]
<1> DEFINE here == pairs \cup ({"L2"} \X l2)
           done == UNION {reqs[q[1]][q[2]] : q \in pairs}
<1>0. /\ "L2" \notin L1s /\ Absent # 0 /\ "L2" \in Caches
      /\ \A x \in L1s : x \in Caches
  BY CacheConstants DEF Caches
<1>1. /\ delay' = [c \in Caches |-> [a \in Lines |->
                     IF <<c, a>> \in here THEN Absent ELSE delay[c][a]]]
      /\ reqs' = [c \in Caches |-> [a \in Lines |->
                     IF <<c, a>> \in here THEN {} ELSE reqs[c][a]]]
      /\ progress' = [r \in Loads |-> IF r \in done THEN "answered" ELSE progress[r]]
  BY DEF Arrive
<1>2. /\ \A x \in L1s, a \in Lines : <<x, a>> \in here <=> <<x, a>> \in pairs
      /\ \A a \in Lines : <<"L2", a>> \in here <=> a \in l2
  BY <1>0
<1>3. \A r : r \in done <=> \E x \in L1s, a \in Lines : <<x, a>> \in pairs /\ r \in reqs[x][a]
  <2>1. \A q \in pairs : q[1] \in L1s /\ q[2] \in Lines /\ q = <<q[1], q[2]>>
    OBVIOUS
  <2>2. ASSUME NEW r \in done
        PROVE  \E x \in L1s, a \in Lines : <<x, a>> \in pairs /\ r \in reqs[x][a]
    <3>1. PICK q \in pairs : r \in reqs[q[1]][q[2]]
      OBVIOUS
    <3> QED
      BY <2>1, <3>1
  <2>3. ASSUME NEW r, NEW x \in L1s, NEW a \in Lines, <<x, a>> \in pairs, r \in reqs[x][a]
        PROVE  r \in done
    BY <2>3
  <2> QED
    BY <2>2, <2>3
<1> HIDE DEF here, done
<1>4. \A c \in Caches, a \in Lines :
        /\ delay'[c][a] = IF <<c, a>> \in here THEN Absent ELSE delay[c][a]
        /\ reqs'[c][a] = IF <<c, a>> \in here THEN {} ELSE reqs[c][a]
  BY ONLY <1>1
<1>5. /\ \A x \in L1s, a \in Lines :
           /\ delay'[x][a] = IF <<x, a>> \in pairs THEN Absent ELSE delay[x][a]
           /\ reqs'[x][a] = IF <<x, a>> \in pairs THEN {} ELSE reqs[x][a]
      /\ \A a \in Lines :
           /\ delay'["L2"][a] = IF a \in l2 THEN Absent ELSE delay["L2"][a]
           /\ reqs'["L2"][a] = IF a \in l2 THEN {} ELSE reqs["L2"][a]
  BY ONLY <1>0, <1>2, <1>4
<1>6. MapsOK'
  <2>1. delay' \in [Caches -> [Lines -> Nat \cup {Absent}]]
    <3>1. \A c \in Caches, a \in Lines : delay[c][a] \in Nat \cup {Absent}
      BY DEF MapsInv, MapsOK
    <3> QED
      BY ONLY <1>1, <3>1
  <2>2. reqs' \in [Caches -> [Lines -> SUBSET (Loads \cup Sender)]]
    <3>1. \A c \in Caches, a \in Lines : reqs[c][a] \in SUBSET (Loads \cup Sender)
      BY DEF MapsInv, MapsOK
    <3> QED
      BY ONLY <1>1, <3>1
  <2>3. \A x \in L1s, a \in Lines : reqs'[x][a] \subseteq Loads
    BY ONLY <1>5, MapsInv DEF MapsInv, MapsOK
  <2>4. \A a \in Lines : reqs'["L2"][a] \subseteq SenderTo(a)
    BY ONLY <1>5, MapsInv DEF MapsInv, MapsOK
  <2> QED
    BY ONLY <2>1, <2>2, <2>3, <2>4 DEF MapsOK
<1>7. PendingMapsAgree'
  <2>1. ASSUME NEW c \in Caches, NEW a \in Lines PROVE reqs'[c][a] # {} <=> delay'[c][a] = 0
    <3>1. reqs[c][a] # {} <=> delay[c][a] = 0
      BY DEF MapsInv, PendingMapsAgree
    <3> QED
      BY ONLY <1>0, <1>4, <2>1, <3>1
  <2> QED
    BY <2>1 DEF PendingMapsAgree
<1>8. progress' \in [Loads -> {"new", "waiting", "answered"}]
  BY ONLY <1>1, MapsInv DEF MapsInv
<1>9. WaitingIsHeld'
  <2>1. ASSUME NEW r \in Loads, r \in done PROVE progress'[r] # "waiting" /\ HeldAt(r)' = {}
    <3>1. PICK x \in L1s, a \in Lines : <<x, a>> \in pairs /\ r \in reqs[x][a]
      BY <1>3, <2>1
    <3>2. <<x, a>> \in HeldAt(r)
      BY <3>1 DEF HeldAt
    <3>3. HeldAt(r) = {<<x, a>>}
      BY <3>2 DEF MapsInv, WaitingIsHeld
    <3>4. ASSUME NEW y \in L1s, NEW b \in Lines, r \in reqs'[y][b] PROVE FALSE
      <4>1. <<y, b>> \notin pairs /\ r \in reqs[y][b]
        BY <1>5, <3>4
      <4>2. <<y, b>> \in HeldAt(r)
        BY <4>1 DEF HeldAt
      <4> QED
        BY <3>1, <3>3, <4>1, <4>2
    <3>5. HeldAt(r)' = {}
      BY <3>4 DEF HeldAt
    <3> QED
      BY <1>1, <2>1, <3>5
  <2>2. ASSUME NEW r \in Loads, r \notin done
        PROVE  progress'[r] = progress[r] /\ HeldAt(r)' = HeldAt(r)
    <3>1. \A x \in L1s, a \in Lines : r \in reqs'[x][a] <=> r \in reqs[x][a]
      BY ONLY <1>3, <1>5, <2>2
    <3> QED
      BY <1>1, <2>2, <3>1 DEF HeldAt
  <2> QED
    BY <2>1, <2>2 DEF MapsInv, WaitingIsHeld
<1> QED
  BY ONLY <1>5, <1>6, <1>7, <1>8, <1>9

(***************************************************************************)
(* What only leaves queues adds no question.                               *)
(***************************************************************************)
LEMMA AskedShrinks ==
  ASSUME NEW c, NEW a,
         reqs'["L2"][a] \subseteq reqs["L2"][a], simq'[a] = simq[a],
         memq'[PageOf[a]] \subseteq memq[PageOf[a]]
  PROVE  AskedBelow(c, a)' \subseteq AskedBelow(c, a)
BY DEF AskedBelow

(***************************************************************************)
(* An answer of a memory (MemObj::start_complete) keeps the invariant of   *)
(* the maps: it clears the lines that wait for it at every level, and no   *)
(* other.                                                                  *)
(***************************************************************************)
LEMMA MemoryAnswersMaps ==
  ASSUME Inv, NEW p \in Pages, MemoryAnswers(p)
  PROVE  MapsInv'
<1> DEFINE l2 == L2Arrivals(p)
           pairs == L1Arrivals(p)
<1>0. /\ MapsInv /\ "L2" \notin L1s /\ Absent # 0 /\ "L2" \in Caches
      /\ \A x \in L1s : x \in Caches /\ x # "L2"
  BY CacheConstants DEF Inv, Caches
<1>1. Arrive(pairs, l2) /\ memq' = [memq EXCEPT ![p] = {}] /\ simq' = simq
  BY DEF MemoryAnswers
<1>2. \A a : a \in l2 <=> \E s \in memq[p] : s.from = "L2" /\ s.line = a
  BY DEF L2Arrivals
<1>3. \A x, a : <<x, a>> \in pairs <=>
        \/ \E s \in memq[p] : s.from # "L2" /\ s.l1 = x /\ s.line = a
        \/ \E b \in l2 : \E s \in reqs["L2"][b] : s.l1 = x /\ s.line = a
  BY DEF L1Arrivals
<1>4. /\ \A s \in memq[p] : /\ PageOf[s.line] = p /\ s.line \in Lines /\ s.l1 \in L1s
                            /\ s.from = "L2" \/ s.from = s.l1
      /\ \A b \in Lines : \A s \in reqs["L2"][b] : s.line = b /\ s.from = s.l1 /\ s.l1 \in L1s
  BY <1>0 DEF MapsInv, MapsOK, QueuesOK, SenderTo, Sender
<1>5. l2 \in SUBSET Lines
  BY <1>2, <1>4
<1>6. pairs \in SUBSET (L1s \X Lines)
  <2>1. ASSUME NEW q \in pairs PROVE q \in L1s \X Lines
    <3>1. PICK s \in {o \in memq[p] : o.from # "L2"} \cup UNION {reqs["L2"][a] : a \in l2} :
            q = <<s.l1, s.line>>
      BY DEF L1Arrivals
    <3>2. s.l1 \in L1s /\ s.line \in Lines
      BY <1>4, <1>5, <3>1
    <3> QED
      BY <3>1, <3>2
  <2> QED
    BY <2>1
<1>7. /\ \A k \in Pages : memq'[k] = IF k = p THEN {} ELSE memq[k]
      /\ memq' \in [Pages -> SUBSET Sender]
  BY <1>0, <1>1 DEF MapsInv, QueuesOK
<1> HIDE DEF l2, pairs
<1>8. /\ MapsOK' /\ PendingMapsAgree' /\ WaitingIsHeld'
      /\ progress' \in [Loads -> {"new", "waiting", "answered"}]
      /\ \A x \in L1s, a \in Lines :
           delay'[x][a] = IF <<x, a>> \in pairs THEN Absent ELSE delay[x][a]
      /\ \A a \in Lines :
           /\ delay'["L2"][a] = IF a \in l2 THEN Absent ELSE delay["L2"][a]
           /\ reqs'["L2"][a] = IF a \in l2 THEN {} ELSE reqs["L2"][a]
  <2>1. /\ MapsOK' /\ PendingMapsAgree' /\ WaitingIsHeld'
        /\ progress' \in [Loads -> {"new", "waiting", "answered"}]
        /\ \A x \in L1s, a \in Lines :
             /\ delay'[x][a] = IF <<x, a>> \in pairs THEN Absent ELSE delay[x][a]
             /\ reqs'[x][a] = IF <<x, a>> \in pairs THEN {} ELSE reqs[x][a]
        /\ \A a \in Lines :
             /\ delay'["L2"][a] = IF a \in l2 THEN Absent ELSE delay["L2"][a]
             /\ reqs'["L2"][a] = IF a \in l2 THEN {} ELSE reqs["L2"][a]
    <3>1. MapsInv
      BY ONLY <1>0
    <3>2. Arrive(pairs, l2)
      BY ONLY <1>1
    <3> QED
      BY ONLY <1>5, <1>6, <3>1, <3>2, ArriveMaps, ZenonT(60)
  <2>2. \A x \in L1s, a \in Lines :
          delay'[x][a] = IF <<x, a>> \in pairs THEN Absent ELSE delay[x][a]
    <3> TAKE x \in L1s, a \in Lines
    <3> QED
      BY ONLY <2>1, x \in L1s, a \in Lines
  <2> QED
    BY ONLY <2>1, <2>2
<1>9. QueuesOK'
  BY <1>0, <1>1, <1>7 DEF MapsInv, QueuesOK
<1>10. ASSUME NEW c \in Caches, NEW a \in Lines
       PROVE  AskedBelow(c, a)' \subseteq AskedBelow(c, a)
  <2>1. PageOf[a] \in Pages
    BY DEF Pages
  <2>2. reqs'["L2"][a] \subseteq reqs["L2"][a] /\ memq'[PageOf[a]] \subseteq memq[PageOf[a]]
    BY <1>7, <1>8, <2>1
  <2> QED
    BY <1>1, <2>2, AskedShrinks
<1>11. ASSUME NEW c \in Caches, NEW a \in Lines
       PROVE  IF delay[c][a] = 0 THEN \E q \in AskedBelow(c, a) : AskedBelow(c, a) = {q}
              ELSE AskedBelow(c, a) = {}
  BY <1>0 DEF MapsInv, ChainUnbroken
<1>12. ASSUME NEW x \in L1s, NEW a \in Lines, <<x, a>> \in pairs
       PROVE  AskedBelow(x, a)' = {}
  <2>1. \E q \in AskedBelow(x, a) : q \notin AskedBelow(x, a)'
    <3>1. CASE \E s \in memq[p] : s.from # "L2" /\ s.l1 = x /\ s.line = a
      <4>1. PICK s \in memq[p] : s.from = x /\ s.line = a
        BY <1>4, <3>1
      <4>2. PageOf[a] = p /\ memq'[PageOf[a]] = {}
        BY <1>4, <1>7, <4>1
      <4>3. <<"memory", s>> \in AskedBelow(x, a)
        BY <4>1, <4>2, AskedIff
      <4>4. <<"memory", s>> \notin AskedBelow(x, a)'
        BY ONLY <4>2, AskedIffNext
      <4> QED
        BY <4>3, <4>4
    <3>2. CASE \E b \in l2 : \E s \in reqs["L2"][b] : s.l1 = x /\ s.line = a
      <4>1. PICK s \in reqs["L2"][a] : s.from = x
        BY <1>4, <1>5, <3>2
      <4>2. a \in l2
        BY <1>4, <1>5, <3>2
      <4>3. reqs'["L2"][a] = {}
        BY <1>8, <4>2
      <4>4. <<"cache", s>> \in AskedBelow(x, a)
        BY <4>1, AskedIff
      <4>5. <<"cache", s>> \notin AskedBelow(x, a)'
        BY ONLY <4>3, AskedIffNext
      <4> QED
        BY <4>4, <4>5
    <3> QED
      BY <1>3, <1>12, <3>1, <3>2
  <2> QED
    BY <1>0, <1>10, <1>11, <2>1
<1>13. ASSUME NEW x \in L1s, NEW a \in Lines, <<x, a>> \notin pairs
       PROVE  AskedBelow(x, a)' = AskedBelow(x, a)
  <2>1. \A s \in reqs["L2"][a] : s.from = x => s \in reqs'["L2"][a]
    <3>1. ASSUME NEW s \in reqs["L2"][a], s.from = x PROVE a \notin l2
      BY <1>3, <1>4, <1>13, <3>1
    <3> QED
      BY <1>8, <3>1
  <2>2. \A s \in memq[PageOf[a]] : s.from = x /\ s.line = a => s \in memq'[PageOf[a]]
    <3>1. ASSUME NEW s \in memq[PageOf[a]], s.from = x, s.line = a PROVE PageOf[a] # p
      BY <1>0, <1>3, <1>4, <1>13, <3>1
    <3>2. PageOf[a] \in Pages
      BY DEF Pages
    <3> QED
      BY <1>7, <3>1, <3>2
  <2>3. \A q : q \in AskedBelow(x, a) => q \in AskedBelow(x, a)'
    BY <1>1, <2>1, <2>2, AskedIff, AskedIffNext
  <2> QED
    BY <1>0, <1>10, <2>3
<1>14. ASSUME NEW a \in Lines, a \in l2 PROVE AskedBelow("L2", a)' = {}
  <2>1. PICK s \in memq[p] : s.from = "L2" /\ s.line = a
    BY <1>2, <1>14
  <2>2. PageOf[a] = p /\ memq'[PageOf[a]] = {}
    BY <1>4, <1>7, <2>1
  <2>3. <<"memory", s>> \in AskedBelow("L2", a)
    BY <2>1, <2>2, AskedIff
  <2>4. <<"memory", s>> \notin AskedBelow("L2", a)'
    BY ONLY <2>2, AskedIffNext
  <2> QED
    BY <1>0, <1>10, <1>11, <2>3, <2>4
<1>15. ASSUME NEW a \in Lines, a \notin l2 PROVE AskedBelow("L2", a)' = AskedBelow("L2", a)
  <2>1. reqs'["L2"][a] = reqs["L2"][a]
    BY <1>8, <1>15
  <2>2. \A s \in memq[PageOf[a]] : s.from = "L2" /\ s.line = a => s \in memq'[PageOf[a]]
    <3>1. ASSUME NEW s \in memq[PageOf[a]], s.from = "L2", s.line = a PROVE PageOf[a] # p
      BY <1>2, <1>15, <3>1
    <3>2. PageOf[a] \in Pages
      BY DEF Pages
    <3> QED
      BY <1>7, <3>1, <3>2
  <2>3. \A q : q \in AskedBelow("L2", a) => q \in AskedBelow("L2", a)'
    BY <1>1, <2>1, <2>2, AskedIff, AskedIffNext
  <2> QED
    BY <1>0, <1>10, <2>3
<1>16. ChainUnbroken'
  <2>1. SUFFICES ASSUME NEW c \in Caches, NEW a \in Lines
                 PROVE  IF delay'[c][a] = 0
                        THEN \E q \in AskedBelow(c, a)' : AskedBelow(c, a)' = {q}
                        ELSE AskedBelow(c, a)' = {}
    BY DEF ChainUnbroken
  <2>2. CASE c \in L1s
    <3>1. CASE <<c, a>> \in pairs
      BY <1>0, <1>8, <1>12, <2>2, <3>1
    <3>2. CASE <<c, a>> \notin pairs
      <4>1. delay'[c][a] = delay[c][a] /\ AskedBelow(c, a)' = AskedBelow(c, a)
        BY <1>8, <1>13, <2>2, <3>2
      <4> QED
        BY <1>11, <4>1
    <3> QED
      BY <3>1, <3>2
  <2>3. CASE c = "L2"
    BY <1>0, <1>8, <1>11, <1>14, <1>15, <2>3
  <2> QED
    BY <2>2, <2>3 DEF Caches
<1> QED
  BY <1>8, <1>9, <1>16 DEF MapsInv

(***************************************************************************)
(* An answer of the second level's simulator (CacheObj::start_complete)    *)
(* keeps the invariant of the maps.                                        *)
(***************************************************************************)
LEMMA L2AnswersMaps ==
  ASSUME Inv, NEW a \in Lines, L2Answers(a)
  PROVE  MapsInv'
<1> DEFINE n == Len(simq[a])
<1>0. /\ MapsInv /\ "L2" \notin L1s /\ Absent # 0 /\ "L2" \in Caches
      /\ \A y \in L1s : y \in Caches /\ y # "L2"
  BY CacheConstants DEF Inv, Caches
<1>1. /\ Arrive({<<Head(simq[a]).l1, a>>}, {}) /\ simq' = [simq EXCEPT ![a] = Tail(@)]
      /\ memq' = memq /\ simq[a] # <<>>
  BY DEF L2Answers
<1>2. simq[a] \in Seq(Sender) /\ n \in Nat \ {0} /\ Head(simq[a]) = simq[a][1]
  BY <1>0, <1>1, LenProperties, EmptySeq DEF MapsInv, QueuesOK
<1>3. PICK x \in L1s : x = Head(simq[a]).l1 /\ simq[a][1].from = x
  BY <1>0, <1>2 DEF MapsInv, QueuesOK, SenderTo, Sender
<1> DEFINE pairs == {<<x, a>>}
<1>4. /\ Tail(simq[a]) \in Seq(Sender) /\ Len(Tail(simq[a])) = n - 1
      /\ \A i \in 1 .. n - 1 : Tail(simq[a])[i] = simq[a][i + 1]
  BY <1>1, <1>2, HeadTailProperties
<1>5. /\ simq' \in [Lines -> Seq(Sender)] /\ simq'[a] = Tail(simq[a])
      /\ \A b \in Lines : b # a => simq'[b] = simq[b]
  BY <1>0, <1>1, <1>4 DEF MapsInv, QueuesOK
<1> HIDE DEF n
<1>6. pairs \in SUBSET (L1s \X Lines) /\ {} \in SUBSET Lines
  BY <1>3
<1>7. /\ MapsOK' /\ PendingMapsAgree' /\ WaitingIsHeld'
      /\ progress' \in [Loads -> {"new", "waiting", "answered"}]
      /\ \A y \in L1s, b \in Lines :
           delay'[y][b] = IF y = x /\ b = a THEN Absent ELSE delay[y][b]
      /\ \A b \in Lines : /\ delay'["L2"][b] = delay["L2"][b]
                          /\ reqs'["L2"][b] = reqs["L2"][b]
  <2>1. /\ MapsOK' /\ PendingMapsAgree' /\ WaitingIsHeld'
        /\ progress' \in [Loads -> {"new", "waiting", "answered"}]
        /\ \A y \in L1s, b \in Lines :
             /\ delay'[y][b] = IF <<y, b>> \in pairs THEN Absent ELSE delay[y][b]
             /\ reqs'[y][b] = IF <<y, b>> \in pairs THEN {} ELSE reqs[y][b]
        /\ \A b \in Lines :
             /\ delay'["L2"][b] = delay["L2"][b]
             /\ reqs'["L2"][b] = reqs["L2"][b]
    <3> DEFINE none == {}
    <3>1. none \in SUBSET Lines /\ Arrive(pairs, none)
      BY <1>1, <1>3
    <3>2. \A b : b \in none <=> FALSE
      OBVIOUS
    <3> HIDE DEF pairs, none
    <3>3. /\ MapsOK' /\ PendingMapsAgree' /\ WaitingIsHeld'
          /\ progress' \in [Loads -> {"new", "waiting", "answered"}]
          /\ \A y \in L1s, b \in Lines :
               /\ delay'[y][b] = IF <<y, b>> \in pairs THEN Absent ELSE delay[y][b]
               /\ reqs'[y][b] = IF <<y, b>> \in pairs THEN {} ELSE reqs[y][b]
          /\ \A b \in Lines :
               /\ delay'["L2"][b] = IF b \in none THEN Absent ELSE delay["L2"][b]
               /\ reqs'["L2"][b] = IF b \in none THEN {} ELSE reqs["L2"][b]
      BY ONLY <1>0, <1>6, <3>1, ArriveMaps
    <3> QED
      BY ONLY <3>2, <3>3
  <2>2. \A y, b : <<y, b>> \in pairs <=> y = x /\ b = a
    OBVIOUS
  <2> QED
    BY ONLY <2>1, <2>2
<1>17. reqs'["L2"][a] = reqs["L2"][a] /\ memq' = memq
  BY <1>1, <1>7
<1>8. QueuesOK'
  <2>1. ASSUME NEW b \in Lines, NEW i \in 1 .. Len(simq'[b]) PROVE simq'[b][i] \in SenderTo(b)
    <3>1. CASE b # a
      BY <1>0, <1>5, <2>1, <3>1 DEF MapsInv, QueuesOK
    <3>2. CASE b = a
      <4>1. i \in 1 .. n - 1 /\ i + 1 \in 1 .. n
        BY <1>2, <1>4, <1>5, <2>1, <3>2
      <4>2. simq'[b][i] = simq[a][i + 1]
        BY <1>4, <1>5, <3>2, <4>1
      <4> QED
        BY <1>0, <3>2, <4>1, <4>2 DEF MapsInv, QueuesOK, n
    <3> QED
      BY <3>1, <3>2
  <2> QED
    BY <1>0, <1>1, <1>5, <2>1 DEF MapsInv, QueuesOK
<1>9. ASSUME NEW c \in Caches, NEW b \in Lines
      PROVE  IF delay[c][b] = 0 THEN \E q \in AskedBelow(c, b) : AskedBelow(c, b) = {q}
             ELSE AskedBelow(c, b) = {}
  BY <1>0 DEF MapsInv, ChainUnbroken
<1>10. ASSUME NEW c \in Caches, NEW b \in Lines, b # a
       PROVE  AskedBelow(c, b)' = AskedBelow(c, b)
  BY <1>1, <1>5, <1>7, <1>10 DEF AskedBelow
<1>11. \A i : i \in 1 .. Len(simq'[a]) <=> i \in 1 .. n - 1
  BY <1>4, <1>5
<1>12. \A i \in 1 .. n - 1 : simq'[a][i] = simq[a][i + 1] /\ i + 1 \in 1 .. n /\ i + 1 # 1
  BY <1>2, <1>4, <1>5
<1>13. AskedBelow(x, a)' = {}
  <2>1. <<"simulator", 1>> \in AskedBelow(x, a)
    <3>1. 1 \in 1 .. Len(simq[a])
      BY <1>2 DEF n
    <3> QED
      BY <1>3, <3>1 DEF AskedBelow
  <2>2. AskedBelow(x, a) = {<<"simulator", 1>>}
    BY <1>0, <1>3, <1>9, <2>1
  <2>3. \A s \in reqs["L2"][a] : s.from # x
    <3>1. ASSUME NEW s \in reqs["L2"][a], s.from = x PROVE FALSE
      <4>1. <<"cache", s>> \in AskedBelow(x, a)
        BY <3>1, AskedIff
      <4> QED
        BY <2>2, <4>1
    <3> QED
      BY <3>1
  <2>4. \A s \in memq[PageOf[a]] : ~(s.from = x /\ s.line = a)
    <3>1. ASSUME NEW s \in memq[PageOf[a]], s.from = x, s.line = a PROVE FALSE
      <4>1. <<"memory", s>> \in AskedBelow(x, a)
        BY <3>1, AskedIff
      <4> QED
        BY <2>2, <4>1
    <3> QED
      BY <3>1
  <2>5. \A i \in 1 .. n : simq[a][i].from = x => i = 1
    <3>1. ASSUME NEW i \in 1 .. n, simq[a][i].from = x PROVE i = 1
      <4>1. <<"simulator", i>> \in AskedBelow(x, a)
        BY <3>1, AskedIff DEF n
      <4> QED
        BY <2>2, <4>1
    <3> QED
      BY <3>1
  <2>6. \A i \in 1 .. Len(simq'[a]) : simq'[a][i].from # x
    BY ONLY <1>11, <1>12, <2>5
  <2> QED
    BY ONLY <1>17, <2>3, <2>4, <2>6, AskedNoneNext
<1>14. ASSUME NEW c \in Caches, c # x, delay[c][a] # 0 PROVE AskedBelow(c, a)' = {}
  <2>1. AskedBelow(c, a) = {}
    BY <1>9, <1>14
  <2>2. /\ \A s \in reqs["L2"][a] : s.from # c
        /\ \A i \in 1 .. n : simq[a][i].from # c
        /\ \A s \in memq[PageOf[a]] : ~(s.from = c /\ s.line = a)
    BY <2>1, AskedNone DEF n
  <2>3. \A i \in 1 .. Len(simq'[a]) : simq'[a][i].from # c
    BY ONLY <1>11, <1>12, <2>2
  <2> QED
    BY ONLY <1>17, <2>2, <2>3, AskedNoneNext
<1>15. ASSUME NEW c \in Caches, c # x, delay[c][a] = 0
       PROVE  \E q \in AskedBelow(c, a)' : AskedBelow(c, a)' = {q}
  <2>1. PICK q : AskedBelow(c, a) = {q}
    BY <1>9, <1>15
  <2>2. CASE \E i \in 1 .. n : simq[a][i].from = c /\ q = <<"simulator", i>>
    <3>1. PICK i \in 1 .. n : simq[a][i].from = c /\ q = <<"simulator", i>>
      BY <2>2
    <3>2. i # 1 /\ i - 1 \in 1 .. n - 1 /\ (i - 1) + 1 = i
      BY <1>2, <1>3, <1>15, <3>1
    <3>3. \A j \in 1 .. n : simq[a][j].from = c => j = i
      <4>1. ASSUME NEW j \in 1 .. n, simq[a][j].from = c PROVE j = i
        <5>1. <<"simulator", j>> \in AskedBelow(c, a)
          BY <4>1, AskedIff DEF n
        <5> QED
          BY <2>1, <3>1, <5>1
      <4> QED
        BY <4>1
    <3>4. /\ \A s \in reqs["L2"][a] : s.from # c
          /\ \A s \in memq[PageOf[a]] : ~(s.from = c /\ s.line = a)
      <4>1. ASSUME NEW s \in reqs["L2"][a], s.from = c PROVE FALSE
        <5>1. <<"cache", s>> \in AskedBelow(c, a)
          BY <4>1, AskedIff
        <5> QED
          BY <2>1, <3>1, <5>1
      <4>2. ASSUME NEW s \in memq[PageOf[a]], s.from = c, s.line = a PROVE FALSE
        <5>1. <<"memory", s>> \in AskedBelow(c, a)
          BY <4>2, AskedIff
        <5> QED
          BY <2>1, <3>1, <5>1
      <4> QED
        BY <4>1, <4>2
    <3>5. \A j \in 1 .. n - 1 : j + 1 = i => j = i - 1
      BY <1>2, <3>1
    <3>6. \A j : j \in 1 .. Len(simq'[a]) /\ simq'[a][j].from = c <=> j = i - 1
      BY ONLY <1>11, <1>12, <3>1, <3>2, <3>3, <3>5
    <3>7. /\ \A s \in reqs'["L2"][a] : s.from # c
          /\ \A s \in memq'[PageOf[a]] : ~(s.from = c /\ s.line = a)
      BY ONLY <1>17, <3>4
    <3>8. AskedBelow(c, a)' = {<<"simulator", i - 1>>}
      BY ONLY <3>6, <3>7, AskedSimulatorNext
    <3> QED
      BY ONLY <3>8
  <2>3. CASE ~\E i \in 1 .. n : simq[a][i].from = c /\ q = <<"simulator", i>>
    <3>1. \A i \in 1 .. n : simq[a][i].from # c
      <4>1. ASSUME NEW i \in 1 .. n, simq[a][i].from = c PROVE FALSE
        <5>1. <<"simulator", i>> \in AskedBelow(c, a)
          BY <4>1, AskedIff DEF n
        <5> QED
          BY <2>1, <2>3, <4>1, <5>1
      <4> QED
        BY <4>1
    <3>2. \A i \in 1 .. Len(simq'[a]) : simq'[a][i].from # c
      BY ONLY <1>11, <1>12, <3>1
    <3>3. \A k : k \in AskedBelow(c, a)' <=> k \in AskedBelow(c, a)
      BY ONLY <1>17, <3>1, <3>2, AskedIff, AskedIffNext DEF n
    <3>4. AskedBelow(c, a)' = {q}
      BY ONLY <2>1, <3>3
    <3> QED
      BY ONLY <3>4
  <2> QED
    BY <2>2, <2>3
<1>16. ChainUnbroken'
  <2>1. SUFFICES ASSUME NEW c \in Caches, NEW b \in Lines
                 PROVE  IF delay'[c][b] = 0
                        THEN \E q \in AskedBelow(c, b)' : AskedBelow(c, b)' = {q}
                        ELSE AskedBelow(c, b)' = {}
    BY DEF ChainUnbroken
  <2>2. delay'[c][b] = IF c = x /\ b = a THEN Absent ELSE delay[c][b]
    BY <1>0, <1>3, <1>7 DEF Caches
  <2>3. CASE b # a
    BY <1>9, <1>10, <2>2, <2>3
  <2>4. CASE b = a /\ c = x
    <3>1. delay'[c][b] # 0 /\ AskedBelow(c, b)' = {}
      <4>1. AskedBelow(c, b)' = AskedBelow(x, a)'
        BY ONLY <2>4
      <4>2. delay'[c][b] = Absent
        BY ONLY <2>2, <2>4
      <4> QED
        BY ONLY <1>0, <1>13, <4>1, <4>2
    <3> QED
      BY ONLY <3>1
  <2>5. CASE b = a /\ c # x
    BY <1>14, <1>15, <2>2, <2>5
  <2> QED
    BY <2>3, <2>4, <2>5
<1> QED
  BY <1>7, <1>8, <1>16 DEF MapsInv

-----------------------------------------------------------------------------
(***************************************************************************)
(* The rest of the state: the lines held, the history and the counters.    *)
(***************************************************************************)
OthersOK ==
  /\ TagsOK /\ unsaved \subseteq Lines
  /\ now \in Nat \ {0} /\ stores \in Nat /\ warmups \in Nat /\ panic \in BOOLEAN

(***************************************************************************)
(* Replacing the set of one cache, or of one and the second level, by      *)
(* lists that fit keeps TagsOK.                                            *)
(***************************************************************************)
LEMMA TagsExcept ==
  ASSUME TagsOK, NEW c \in Caches, NEW list \in Seq(Line), Len(list) <= AssocOf(c)
  PROVE  /\ tags' = [tags EXCEPT ![c] = list] => TagsOK'
         /\ \A low \in Seq(Line) :
              Len(low) <= AssocOf("L2") /\ tags' = [tags EXCEPT ![c] = list, !["L2"] = low] => TagsOK'
<1>1. ASSUME tags' = [tags EXCEPT ![c] = list] PROVE TagsOK'
  <2>1. tags' \in [Caches -> Seq(Line)] /\ \A d \in Caches : tags'[d] = IF d = c THEN list ELSE tags[d]
    BY <1>1 DEF TagsOK
  <2> QED
    BY <2>1 DEF TagsOK, AssocOf
<1>2. ASSUME NEW low \in Seq(Line), Len(low) <= AssocOf("L2"),
             tags' = [tags EXCEPT ![c] = list, !["L2"] = low]
      PROVE  TagsOK'
  <2>1. /\ tags' \in [Caches -> Seq(Line)]
        /\ \A d \in Caches : tags'[d] = IF d = "L2" THEN low ELSE IF d = c THEN list ELSE tags[d]
    BY <1>2 DEF TagsOK, Caches
  <2> QED
    BY <1>2, <2>1 DEF TagsOK, AssocOf
<1> QED
  BY <1>1, <1>2

(***************************************************************************)
(* MayPanic offers Booleans.                                               *)
(***************************************************************************)
LEMMA MayPanicType ==
  ASSUME NEW hit PROVE MayPanic(hit) \subseteq BOOLEAN
BY DEF MayPanic

(***************************************************************************)
(* UseType for the set of a cache.                                         *)
(***************************************************************************)
LEMMA UseAt ==
  ASSUME TagsOK, NEW c \in Caches, NEW a \in Lines, NEW w \in BOOLEAN
  PROVE  /\ Use(c, tags[c], a, w).list \in Seq(Line)
         /\ Len(Use(c, tags[c], a, w).list) <= AssocOf(c)
         /\ Use(c, tags[c], a, w).out \subseteq Lines
BY UseType DEF TagsOK

(***************************************************************************)
(* A write-back keeps the second level within its associativity.           *)
(***************************************************************************)
LEMMA WriteBackType ==
  ASSUME NEW list \in Seq(Line), Len(list) <= AssocOf("L2"), NEW out, NEW a \in Lines
  PROVE  /\ WriteBack(list, out, a).list \in Seq(Line)
         /\ Len(WriteBack(list, out, a).list) <= AssocOf("L2")
         /\ WriteBack(list, out, a).out \subseteq Lines
<1>1. "L2" \in Caches
  BY DEF Caches
<1> QED
  BY <1>1, UseType DEF WriteBack

(***************************************************************************)
(* A load keeps the types of everything but the maps.                      *)
(***************************************************************************)
LEMMA LoadOthers ==
  ASSUME Inv, NEW x \in L1s, NEW r \in Loads, NEW a \in Lines, Load(x, r, a)
  PROVE  OthersOK'
<1>0. /\ TagsOK /\ x \in Caches /\ "L2" \in Caches
      /\ unsaved \subseteq Lines /\ panic \in BOOLEAN
  BY DEF Inv, TypeOK, Caches
<1>1. now' \in Nat \ {0} /\ stores' \in Nat /\ warmups' \in Nat
  BY DEF Inv, TypeOK, Load
<1>2. CASE LoadPending(x, r, a)
  <2>1. tags' = tags /\ unsaved' = unsaved /\ panic' = panic
    BY <1>2 DEF LoadPending
  <2> QED
    BY <1>0, <1>1, <2>1 DEF OthersOK, TagsOK
<1>3. CASE LoadHit(x, r, a)
  <2>1. tags' = [tags EXCEPT ![x] = Use(x, tags[x], a, FALSE).list]
    BY <1>0, <1>3 DEF LoadHit, TagsOK
  <2>2. TagsOK'
    BY <1>0, <2>1, UseAt, TagsExcept
  <2> QED
    BY <1>0, <1>1, <1>3, <2>2 DEF OthersOK, LoadHit
<1>4. CASE LoadFromMemory(x, r, a)
  <2>1. tags' = [tags EXCEPT ![x] = Use(x, tags[x], a, FALSE).list]
    BY <1>4 DEF LoadFromMemory
  <2>2. TagsOK'
    BY <1>0, <2>1, UseAt, TagsExcept
  <2>3. unsaved' \subseteq Lines /\ panic' = panic
    BY <1>0, <1>4 DEF LoadFromMemory
  <2> QED
    BY <1>0, <1>1, <2>2, <2>3 DEF OthersOK
<1>5. CASE LoadThroughL2(x, r, a)
  <2> DEFINE own == Use(x, tags[x], a, FALSE)
  <2>1. \E low \in {tags["L2"], Use("L2", tags["L2"], a, FALSE).list} :
          LET wb == WriteBack(low, own.out, a)
          IN  /\ tags' = [tags EXCEPT ![x] = own.list, !["L2"] = wb.list]
              /\ unsaved' \subseteq unsaved
              /\ panic' \in MayPanic(wb.hit)
    BY <1>5 DEF LoadThroughL2
  <2>2. PICK low \in {tags["L2"], Use("L2", tags["L2"], a, FALSE).list} :
          LET wb == WriteBack(low, own.out, a)
          IN  /\ tags' = [tags EXCEPT ![x] = own.list, !["L2"] = wb.list]
              /\ unsaved' \subseteq unsaved
              /\ panic' \in MayPanic(wb.hit)
    BY <2>1
  <2>3. low \in Seq(Line) /\ Len(low) <= AssocOf("L2")
    BY <1>0, UseAt DEF TagsOK
  <2>4. TagsOK'
    BY <1>0, <2>2, <2>3, UseAt, WriteBackType, TagsExcept
  <2> QED
    BY <1>0, <1>1, <2>2, <2>4, MayPanicType DEF OthersOK
<1> QED
  BY <1>2, <1>3, <1>4, <1>5 DEF Load

(***************************************************************************)
(* A store keeps the types of everything but the maps.                     *)
(***************************************************************************)
LEMMA StoreOthers ==
  ASSUME Inv, NEW x \in L1s, NEW a \in Lines, Store(x, a)
  PROVE  OthersOK'
<1>0. /\ TagsOK /\ x \in Caches /\ "L2" \in Caches
      /\ unsaved \subseteq Lines /\ panic \in BOOLEAN
  BY DEF Inv, TypeOK, Caches
<1>1. now' \in Nat \ {0} /\ stores' \in Nat /\ warmups' \in Nat
  BY DEF Inv, TypeOK, Store
<1> DEFINE own == Use(x, tags[x], a, TRUE)
           low == Use("L2", tags["L2"], a, TRUE)
<1>2. /\ \/ tags' = [tags EXCEPT ![x] = own.list]
         \/ tags' = [tags EXCEPT ![x] = own.list, !["L2"] = low.list]
      /\ unsaved' \subseteq unsaved \cup {a}
      /\ panic' = panic \/ \E hit : panic' \in MayPanic(hit)
  BY DEF Store, StoreBelow
<1>3. TagsOK'
  BY <1>0, <1>2, UseAt, TagsExcept
<1> QED
  BY <1>0, <1>1, <1>2, <1>3, MayPanicType DEF OthersOK

(***************************************************************************)
(* A warm-up access keeps the types of everything but the maps.            *)
(***************************************************************************)
LEMMA WarmupOthers ==
  ASSUME Inv, NEW x \in L1s, NEW a \in Lines, NEW w \in BOOLEAN, Warmup(x, a, w)
  PROVE  OthersOK'
<1>0. TagsOK /\ x \in Caches /\ "L2" \in Caches
  BY DEF Inv, TypeOK, Caches
<1> DEFINE own == Use(x, tags[x], a, w)
           low == Use("L2", tags["L2"], a, w)
<1>1. /\ \/ tags' = [tags EXCEPT ![x] = own.list]
         \/ tags' = [tags EXCEPT ![x] = own.list, !["L2"] = low.list]
      /\ unsaved' \subseteq unsaved
  BY DEF Warmup
<1>2. TagsOK'
  BY <1>0, <1>1, UseAt, TagsExcept
<1> QED
  BY <1>1, <1>2 DEF OthersOK, Inv, TypeOK, Warmup

-----------------------------------------------------------------------------
(***************************************************************************)
(* Every step keeps the invariant.                                         *)
(***************************************************************************)
LEMMA StepInv == Inv /\ [Next]_vars => Inv'
<1> SUFFICES ASSUME Inv, [Next]_vars PROVE Inv'
  OBVIOUS
<1>0. MapsInv /\ OthersOK
  BY DEF Inv, TypeOK, OthersOK
<1>1. SUFFICES MapsInv' /\ OthersOK'
  BY DEF Inv, TypeOK, OthersOK, MapsInv
<1>2. ASSUME UNCHANGED <<delay, reqs, simq, memq, progress>> PROVE MapsInv'
  BY <1>0, <1>2, QuietStep DEF MapsInv, MapsOK
<1>3. ASSUME NEW x \in L1s, NEW a \in Lines, NEW r \in Loads, Load(x, r, a)
      PROVE  MapsInv' /\ OthersOK'
  BY <1>3, LoadPendingMaps, LoadHitMaps, LoadFromMemoryMaps, LoadThroughL2Maps, LoadOthers DEF Load
<1>4. ASSUME NEW x \in L1s, NEW a \in Lines, Store(x, a) PROVE MapsInv' /\ OthersOK'
  BY <1>2, <1>4, StoreOthers DEF Store
<1>5. ASSUME NEW x \in L1s, NEW a \in Lines, NEW w \in BOOLEAN, Warmup(x, a, w)
      PROVE  MapsInv' /\ OthersOK'
  BY <1>2, <1>5, WarmupOthers DEF Warmup
<1>6. ASSUME NEW p \in Pages, MemoryAnswers(p) PROVE MapsInv' /\ OthersOK'
  <2>1. UNCHANGED <<tags, unsaved, now, stores, warmups, panic>>
    BY <1>6 DEF MemoryAnswers
  <2> QED
    BY <1>0, <1>6, <2>1, MemoryAnswersMaps DEF OthersOK, TagsOK
<1>7. ASSUME NEW a \in Lines, L2Answers(a) PROVE MapsInv' /\ OthersOK'
  <2>1. UNCHANGED <<tags, unsaved, now, stores, warmups, panic>>
    BY <1>7 DEF L2Answers
  <2> QED
    BY <1>0, <1>7, <2>1, L2AnswersMaps DEF OthersOK, TagsOK
<1>8. CASE Tick
  <2>1. UNCHANGED <<tags, unsaved, stores, warmups, panic>> /\ now' = now + 1
    BY <1>8 DEF Tick
  <2> QED
    BY <1>0, <1>2, <1>8, <2>1 DEF OthersOK, TagsOK, Tick
<1>9. CASE UNCHANGED vars
  BY <1>0, <1>2, <1>9 DEF OthersOK, TagsOK, vars
<1> QED
  BY <1>3, <1>4, <1>5, <1>6, <1>7, <1>8, <1>9 DEF Next

(***************************************************************************)
(* The inductive invariant of the caches holds in every state: types,      *)
(* agreement of the pending maps, the chain of questions below each        *)
(* waiting line, and one place for each waiting load.                      *)
(***************************************************************************)
THEOREM InvHolds == Spec => []Inv
BY InitInv, StepInv, PTL DEF Spec

(***************************************************************************)
(* The maps and queues of CacheObj and MemObj keep their types, and no     *)
(* cache set outgrows its associativity.                                   *)
(***************************************************************************)
THEOREM TypeCorrect == Spec => []TypeOK
<1>1. Inv => TypeOK
  BY DEF Inv
<1> QED
  BY <1>1, InvHolds, PTL

(***************************************************************************)
(* The asserts of prop_complete (src/engine/ar_cacheobj.cpp:274 and 278)   *)
(* never fail: the delay map and the request map list the same lines as    *)
(* waiting.                                                                *)
(***************************************************************************)
THEOREM PendingMapsAlwaysAgree == Spec => []PendingMapsAgree
<1>1. Inv => PendingMapsAgree
  BY DEF Inv, MapsInv
<1> QED
  BY <1>1, InvHolds, PTL

(***************************************************************************)
(* A cache that waits for a line has asked for it exactly once below, and  *)
(* no answer reaches a cache that does not wait for it.                    *)
(***************************************************************************)
THEOREM AskedExactlyOnce == Spec => []ChainUnbroken
<1>1. Inv => ChainUnbroken
  BY DEF Inv, MapsInv
<1> QED
  BY <1>1, InvHolds, PTL

(***************************************************************************)
(* A load that was told to wait is recorded at exactly one place, and one  *)
(* that has its answer at none.                                            *)
(***************************************************************************)
THEOREM WaitingLoadsAreHeld == Spec => []WaitingIsHeld
<1>1. Inv => WaitingIsHeld
  BY DEF Inv, MapsInv
<1> QED
  BY <1>1, InvHolds, PTL

-----------------------------------------------------------------------------
(***************************************************************************)
(* Taking a line out of a cache set leaves the other entries where they    *)
(* can be found, and one entry less.                                       *)
(***************************************************************************)
LEMMA WithoutKeeps ==
  ASSUME NEW list \in Seq(Line), NEW a
  PROVE  /\ \A k \in 1 .. Len(list) : list[k].line # a =>
              \E m \in 1 .. Len(Without(list, a)) : Without(list, a)[m] = list[k]
         /\ Holds(list, a) => Len(Without(list, a)) < Len(list)
<1>0. Len(list) \in Nat
  BY LenProperties
<1>1. CASE ~Holds(list, a)
  BY <1>1 DEF Without
<1>2. CASE Holds(list, a)
  <2> DEFINE i == CHOOSE i \in 1 .. Len(list) : list[i].line = a
             front == SubSeq(list, 1, i - 1)
             back == SubSeq(list, i + 1, Len(list))
  <2>1. i \in 1 .. Len(list) /\ list[i].line = a
    BY <1>2 DEF Holds
  <2>2. Without(list, a) = front \o back
    BY <1>2 DEF Without
  <2> HIDE DEF i
  <2>3. /\ front \in Seq(Line) /\ Len(front) = i - 1
        /\ \A k \in 1 .. i - 1 : front[k] = list[k]
    <3>1. i - 1 \in Int /\ i - 1 <= Len(list) /\ 1 <= (i - 1) + 1
      BY <1>0, <2>1
    <3>2. \A k \in 1 .. i - 1 : front[k] = list[1 + k - 1]
      BY <1>0, <2>1, <3>1, SubSeqProperties, ElementOfSeq
    <3> QED
      BY <2>1, <3>1, <3>2, SubSeqOf
  <2>4. /\ back \in Seq(Line) /\ Len(back) = Len(list) - i
        /\ \A k \in 1 .. Len(list) - i : back[k] = list[i + k]
    <3>1. i + 1 \in Nat \ {0} /\ Len(list) \in Int /\ i + 1 <= Len(list) + 1
      BY <1>0, <2>1
    <3>2. back \in Seq(Line) /\ Len(back) = Len(list) - i
      BY <3>1, <1>0, <2>1, SubSeqOf
    <3>3. \A k \in 1 .. Len(back) : back[k] = list[(i + 1) + k - 1]
      BY <1>0, <2>1, <3>1, <3>2, SubSeqProperties, ElementOfSeq
    <3>4. \A k \in 1 .. Len(back) : (i + 1) + k - 1 = i + k
      BY <1>0, <2>1, <3>2
    <3> QED
      BY <3>2, <3>3, <3>4
  <2> HIDE DEF front, back
  <2>5. /\ Len(Without(list, a)) = Len(list) - 1
        /\ \A m \in 1 .. Len(list) - 1 :
             Without(list, a)[m] = IF m <= i - 1 THEN front[m] ELSE back[m - (i - 1)]
    <3>1. /\ Len(front \o back) = Len(front) + Len(back)
          /\ \A m \in 1 .. Len(front) + Len(back) :
               (front \o back)[m] = IF m <= Len(front) THEN front[m] ELSE back[m - Len(front)]
      BY <2>3, <2>4, ConcatProperties
    <3> QED
      BY <1>0, <2>1, <2>2, <2>3, <2>4, <3>1
  <2>6. ASSUME NEW k \in 1 .. Len(list), list[k].line # a
        PROVE  \E m \in 1 .. Len(Without(list, a)) : Without(list, a)[m] = list[k]
    <3>1. CASE k < i
      <4>1. k \in 1 .. i - 1 /\ k \in 1 .. Len(list) - 1
        BY <1>0, <2>1, <3>1
      <4> QED
        BY <2>3, <2>5, <4>1
    <3>2. CASE k > i
      <4>1. /\ k - 1 \in 1 .. Len(list) - 1 /\ ~(k - 1 <= i - 1)
            /\ (k - 1) - (i - 1) = k - i /\ k - i \in 1 .. Len(list) - i /\ i + (k - i) = k
        BY <1>0, <2>1, <3>2
      <4>2. Without(list, a)[k - 1] = back[k - i]
        BY <2>5, <4>1
      <4> QED
        BY <2>4, <2>5, <4>1, <4>2
    <3> QED
      BY <2>1, <2>6, <3>1, <3>2
  <2> QED
    BY <1>0, <2>5, <2>6
<1> QED
  BY <1>1, <1>2

(***************************************************************************)
(* An access loses no dirty line of a cache set: it keeps it, or reports   *)
(* it as displaced (lookup_evict_update returns its dirty bit).  A store   *)
(* leaves its line dirty, and a hit displaces nothing.                     *)
(***************************************************************************)
LEMMA UseKeepsDirty ==
  ASSUME NEW c \in Caches, NEW list \in Seq(Line), Len(list) <= AssocOf(c),
         NEW a \in Lines, NEW w \in BOOLEAN
  PROVE  /\ \A b : IsDirty(list, b) =>
              IsDirty(Use(c, list, a, w).list, b) \/ b \in Use(c, list, a, w).out
         /\ w => IsDirty(Use(c, list, a, w).list, a)
         /\ Holds(list, a) => Use(c, list, a, w).out = {}
<1> DEFINE rest == Without(list, a)
           room == IF Len(rest) = AssocOf(c) THEN AssocOf(c) - 1 ELSE Len(rest)
           new  == [line |-> a, dirty |-> w \/ IsDirty(list, a)]
           kept == SubSeq(rest, 1, room)
           out  == IF room < Len(rest) /\ rest[Len(rest)].dirty THEN {rest[Len(rest)].line} ELSE {}
<1>1. AssocOf(c) \in Nat \ {0}
  BY CacheConstants DEF AssocOf
<1>2. rest \in Seq(Line) /\ Len(rest) <= AssocOf(c) /\ Len(rest) \in Nat /\ Len(list) \in Nat
  BY <1>1, WithoutType, LenProperties
<1>3. room \in Nat /\ room <= Len(rest) /\ room >= Len(rest) - 1
  BY <1>1, <1>2
<1>4. Holds(list, a) => room = Len(rest)
  BY <1>1, <1>2, WithoutKeeps
<1>5. \A k \in 1 .. Len(list) : list[k].line # a => \E m \in 1 .. Len(rest) : rest[m] = list[k]
  BY WithoutKeeps
<1>6. Use(c, list, a, w).list = <<new>> \o kept /\ Use(c, list, a, w).out = out
  BY DEF Use
<1> HIDE DEF rest, room
<1>7. kept \in Seq(Line) /\ Len(kept) = room /\ \A m \in 1 .. room : kept[m] = rest[m]
  <2>1. kept \in Seq(Line) /\ Len(kept) = room
    BY <1>2, <1>3, SubSeqOf
  <2>2. \A m \in 1 .. room : kept[m] = rest[1 + m - 1]
    BY <1>2, <1>3, <2>1, SubSeqProperties, ElementOfSeq
  <2> QED
    BY <1>3, <2>1, <2>2
<1>8. /\ Len(<<new>> \o kept) = 1 + room /\ (<<new>> \o kept)[1] = new
      /\ \A m \in 1 .. room : (<<new>> \o kept)[m + 1] = kept[m]
  <2>1. <<new>> \in Seq(Line) /\ Len(<<new>>) = 1 /\ <<new>>[1] = new
    BY DEF Line, IsDirty
  <2> HIDE DEF new, kept
  <2>2. /\ Len(<<new>> \o kept) = Len(<<new>>) + Len(kept)
        /\ \A m \in 1 .. Len(<<new>>) + Len(kept) :
             (<<new>> \o kept)[m] = IF m <= Len(<<new>>) THEN <<new>>[m] ELSE kept[m - Len(<<new>>)]
    BY <1>7, <2>1, ConcatProperties
  <2> QED
    BY <1>3, <1>7, <2>1, <2>2
<1>9. IsDirty(list, a) \/ w => IsDirty(<<new>> \o kept, a)
  <2>1. 1 \in 1 .. Len(<<new>> \o kept)
    BY <1>3, <1>8
  <2>2. new.line = a /\ (IsDirty(list, a) \/ w => new.dirty)
    BY Zenon
  <2> HIDE DEF new, kept
  <2> QED
    BY <1>8, <2>1, <2>2 DEF IsDirty
<1>10. ASSUME NEW b, IsDirty(list, b), b # a
       PROVE  IsDirty(<<new>> \o kept, b) \/ b \in out
  <2>1. PICK k \in 1 .. Len(list) : list[k].line = b /\ list[k].dirty
    BY <1>10 DEF IsDirty
  <2>2. PICK m \in 1 .. Len(rest) : rest[m] = list[k]
    BY <1>5, <1>10, <2>1
  <2>3. rest[m].line = b /\ rest[m].dirty
    BY <2>1, <2>2
  <2>4. CASE m <= room
    <3>1. m \in 1 .. room /\ m + 1 \in 1 .. Len(<<new>> \o kept)
      BY <1>3, <1>8, <2>4
    <3>2. (<<new>> \o kept)[m + 1] = rest[m]
      BY <1>7, <1>8, <3>1
    <3> HIDE DEF new, kept
    <3> QED
      BY <2>3, <3>1, <3>2 DEF IsDirty
  <2>5. CASE ~(m <= room)
    <3>1. m = Len(rest) /\ room < Len(rest)
      BY <1>2, <1>3, <2>5
    <3> QED
      BY <2>3, <3>1
  <2> QED
    BY <2>4, <2>5
<1>11. Holds(list, a) => out = {}
  BY <1>2, <1>4
<1> HIDE DEF new, kept, out
<1> QED
  BY <1>6, <1>9, <1>10, <1>11

(***************************************************************************)
(* Where there is no second level, a step that uses the line a at x keeps  *)
(* the data tracked if what it displaces is saved and no other line than   *)
(* the one it stores is added to the unsaved.                              *)
(***************************************************************************)
LEMMA UseTracked ==
  ASSUME TagsOK, DirtyDataTracked, NEW x \in L1s, NEW a \in Lines, NEW w \in BOOLEAN,
         tags' = [tags EXCEPT ![x] = Use(x, tags[x], a, w).list],
         \A b \in unsaved' : /\ b \in unsaved \/ (w /\ b = a)
                             /\ b \notin Use(x, tags[x], a, w).out
  PROVE  DirtyDataTracked'
<1> DEFINE own == Use(x, tags[x], a, w)
<1>1. x \in Caches /\ tags[x] \in Seq(Line) /\ Len(tags[x]) <= AssocOf(x)
  BY DEF TagsOK, Caches
<1>2. /\ \A b : IsDirty(tags[x], b) => IsDirty(own.list, b) \/ b \in own.out
      /\ w => IsDirty(own.list, a)
  BY <1>1, UseKeepsDirty
<1>3. \A c \in Caches : tags'[c] = IF c = x THEN own.list ELSE tags[c]
  BY DEF TagsOK
<1> HIDE DEF own
<1>4. ASSUME NEW b \in unsaved' PROVE \E c \in Caches : IsDirty(tags'[c], b)
  <2>1. b \notin own.out
    BY <1>4 DEF own
  <2>2. CASE w /\ b = a
    BY <1>1, <1>2, <1>3, <2>2
  <2>3. CASE b \in unsaved
    <3>1. PICK c \in Caches : IsDirty(tags[c], b)
      BY <2>3 DEF DirtyDataTracked
    <3> QED
      BY <1>1, <1>2, <1>3, <2>1, <3>1
  <2> QED
    BY <1>4, <2>2, <2>3
<1>5. \A c \in Caches : \A b : IsDirty(tags'[c], b) <=> IsDirty(tags[c], b)'
  BY DEF IsDirty
<1> QED
  BY <1>4 DEF DirtyDataTracked, IsDirty

(***************************************************************************)
(* Every step of a machine without a second level keeps the data of the    *)
(* stored lines tracked.                                                   *)
(***************************************************************************)
LEMMA StepTracked ==
  ASSUME ~HasL2, TagsOK, DirtyDataTracked, [Next]_vars PROVE DirtyDataTracked'
<1>1. ASSUME NEW x \in L1s, NEW a \in Lines, NEW r \in Loads, Load(x, r, a)
      PROVE  DirtyDataTracked'
  <2>1. CASE LoadPending(x, r, a)
    BY <2>1 DEF LoadPending, DirtyDataTracked
  <2>2. CASE LoadHit(x, r, a)
    <3>1. Use(x, tags[x], a, FALSE).out = {}
      BY <2>2, UseKeepsDirty DEF TagsOK, Caches, LoadHit
    <3>2. /\ tags' = [tags EXCEPT ![x] = Use(x, tags[x], a, FALSE).list]
          /\ unsaved' = unsaved
      BY <2>2 DEF LoadHit, TagsOK, Caches
    <3> QED
      BY <3>1, <3>2, UseTracked
  <2>3. CASE LoadFromMemory(x, r, a)
    <3>1. /\ tags' = [tags EXCEPT ![x] = Use(x, tags[x], a, FALSE).list]
          /\ unsaved' = unsaved \ Use(x, tags[x], a, FALSE).out
      BY <2>3 DEF LoadFromMemory
    <3> QED
      BY <3>1, UseTracked
  <2> QED
    BY <1>1, <2>1, <2>2, <2>3 DEF Load, LoadThroughL2
<1>2. ASSUME NEW x \in L1s, NEW a \in Lines, Store(x, a) PROVE DirtyDataTracked'
  <2>1. /\ tags' = [tags EXCEPT ![x] = Use(x, tags[x], a, TRUE).list]
        /\ unsaved' = (unsaved \cup {a}) \ Use(x, tags[x], a, TRUE).out
    BY <1>2 DEF Store, StoreBelow
  <2> QED
    BY <2>1, UseTracked
<1>3. ASSUME NEW x \in L1s, NEW a \in Lines, NEW w \in BOOLEAN, Warmup(x, a, w)
      PROVE  DirtyDataTracked'
  <2>1. /\ tags' = [tags EXCEPT ![x] = Use(x, tags[x], a, w).list]
        /\ unsaved' = unsaved \ Use(x, tags[x], a, w).out
    BY <1>3 DEF Warmup
  <2> QED
    BY <2>1, UseTracked
<1>4. ASSUME UNCHANGED <<tags, unsaved>> PROVE DirtyDataTracked'
  BY <1>4 DEF DirtyDataTracked
<1> QED
  BY <1>1, <1>2, <1>3, <1>4 DEF Next, MemoryAnswers, L2Answers, Tick, vars

(***************************************************************************)
(* On a machine without a second level (the H_* models) the write-backs    *)
(* of load and store lose nothing (src/engine/ar_cacheobj.cpp:165-169 and  *)
(* 221-225): the data of a stored line is in its cache or in a memory.     *)
(* With a second level this is not so, see StoreBelow and WriteBack.       *)
(***************************************************************************)
THEOREM PrivateDataTracked == ASSUME ~HasL2 PROVE Spec => []DirtyDataTracked
<1>1. Init => DirtyDataTracked
  BY DEF Init, DirtyDataTracked
<1>2. TypeOK /\ DirtyDataTracked /\ [Next]_vars => DirtyDataTracked'
  BY StepTracked DEF TypeOK
<1>3. Spec => []TypeOK
  BY TypeCorrect
<1> QED
  BY <1>1, <1>2, <1>3, PTL DEF Spec

-----------------------------------------------------------------------------
(***************************************************************************)
(* A cache set: its invariants, and that it implements LruPolicy.          *)
(***************************************************************************)

LruInv == LruTypeOK /\ UniqueTags /\ RecencyOrder

(***************************************************************************)
(* The constructor of CACHE_SET::LRU establishes the invariant.            *)
(***************************************************************************)
LEMMA LruInitInv == LruInit => LruInv
<1> SUFFICES ASSUME LruInit PROVE LruInv
  OBVIOUS
<1>1. \A i \in Ways : /\ blocks[i] \in Block
                       /\ blocks[i].valid = FALSE
                       /\ blocks[i].dirty = FALSE
                       /\ blocks[i].tag = 0
  <2> SUFFICES ASSUME NEW i \in Ways
               PROVE  /\ blocks[i] \in Block
                      /\ blocks[i].valid = FALSE /\ blocks[i].dirty = FALSE
                      /\ blocks[i].tag = 0
    OBVIOUS
  <2>1. PICK v \in {FALSE}, d \in {FALSE}, g \in {0}, n \in 0 .. MaxTimestamp :
          blocks[i] = [valid |-> v, dirty |-> d, tag |-> g, timestamp |-> n]
    BY DEF LruInit
  <2> QED BY <2>1 DEF Block
<1>2. blocks \in [Ways -> Block]
  BY <1>1 DEF LruInit
<1>3. LruTypeOK
  BY <1>2, LruConstants DEF LruInit, LruTypeOK, Result
<1>4. ValidWays = {}
  BY <1>1 DEF ValidWays
<1> QED BY <1>1, <1>3, <1>4 DEF LruInv, UniqueTags, RecencyOrder

(***************************************************************************)
(* A hit is on a valid block, and on the only block with the tag.          *)
(***************************************************************************)
LEMMA HitIsValid ==
  ASSUME LruInv, NEW t \in Tags, NEW i \in Ways, IsMatch(i, t)
  PROVE  /\ blocks[i].valid
         /\ \A j \in Ways : blocks[j].tag = t => j = i
  BY LruConstants DEF LruInv, LruTypeOK, UniqueTags, RecencyOrder, ValidWays, IsMatch, Block

(***************************************************************************)
(* A hit keeps the invariant: it moves one block to the new, unused        *)
(* timestamp.                                                              *)
(***************************************************************************)
LEMMA HitInv ==
  ASSUME LruInv, NEW t \in Tags, NEW w \in BOOLEAN, AccessHit(t, w)
  PROVE  LruInv'
<1>1. PICK i \in Ways :
        /\ IsMatch(i, t)
        /\ blocks' = [blocks EXCEPT ![i] =
             [valid |-> w \/ blocks[i].valid, dirty |-> w \/ blocks[i].dirty,
              tag |-> t, timestamp |-> timestamp + 1]]
        /\ \E d \in BOOLEAN, a \in Tags \cup {NoTag} :
             result' = [hit |-> TRUE, valid |-> w \/ blocks[i].valid, dirty |-> d, addr |-> a]
  BY DEF AccessHit, NewTime
<1>2. blocks[i].valid /\ blocks[i].tag = t
  BY <1>1, HitIsValid DEF IsMatch
<1>3. timestamp' = timestamp + 1 /\ timestamp' \in 0 .. MaxTimestamp /\ timestamp \in 0 .. MaxTimestamp
  BY LruConstants DEF AccessHit, NewTime, LruInv, LruTypeOK
<1>4. blocks \in [Ways -> Block]
  BY DEF LruInv, LruTypeOK
<1>5. blocks'[i] = [valid |-> w \/ blocks[i].valid, dirty |-> w \/ blocks[i].dirty,
                    tag |-> t, timestamp |-> timestamp + 1]
  BY <1>1, <1>4
<1>a. blocks'[i] \in Block /\ blocks'[i].valid /\ blocks'[i].tag = t
      /\ blocks'[i].timestamp = timestamp + 1
  <2>1. (w \/ blocks[i].valid) \in BOOLEAN /\ (w \/ blocks[i].dirty) \in BOOLEAN
    OBVIOUS
  <2>2. blocks[i] \in Block
    BY <1>4
  <2> QED BY <1>2, <1>3, <1>5, <2>1, <2>2 DEF Block
<1>6. \A j \in Ways \ {i} : blocks'[j] = blocks[j]
  BY <1>1, <1>4
<1>7. LruTypeOK'
  <2>2. blocks' \in [Ways -> Block]
    BY <1>1, <1>4, <1>6, <1>a
  <2>3. result' \in Result
    <3>1. PICK d \in BOOLEAN, a \in Tags \cup {NoTag} :
            result' = [hit |-> TRUE, valid |-> w \/ blocks[i].valid, dirty |-> d, addr |-> a]
      BY <1>1
    <3>2. (w \/ blocks[i].valid) = TRUE
      BY <1>2
    <3> QED BY <3>1, <3>2, LruConstants DEF Result
  <2> QED BY <1>3, <2>2, <2>3 DEF LruTypeOK
<1>8. ValidWays' = ValidWays
  BY <1>2, <1>a, <1>6 DEF ValidWays
<1>9. \A j \in Ways : blocks'[j].tag = blocks[j].tag
  BY <1>2, <1>a, <1>6
<1>10. UniqueTags'
  BY <1>8, <1>9 DEF LruInv, UniqueTags, ValidWays
<1>11. RecencyOrder'
  <2>1. \A j \in ValidWays : blocks[j].timestamp \in 0 .. timestamp
    BY <1>3, <1>4 DEF LruInv, RecencyOrder, ValidWays, Block
  <2>2. \A j, k \in ValidWays : blocks'[j].timestamp = blocks'[k].timestamp => j = k
    BY <1>3, <1>6, <1>a, <2>1 DEF LruInv, RecencyOrder, ValidWays
  <2>3. \A j \in ValidWays : blocks'[j].timestamp <= timestamp' /\ blocks'[j].tag \in Tags
    BY <1>3, <1>6, <1>a, <2>1 DEF LruInv, RecencyOrder, ValidWays
  <2>4. \A j \in Ways \ ValidWays : blocks'[j].tag = 0 /\ ~blocks'[j].dirty
    BY <1>2, <1>6 DEF LruInv, RecencyOrder, ValidWays
  <2> QED BY <1>8, <2>2, <2>3, <2>4 DEF RecencyOrder
<1> QED BY <1>7, <1>10, <1>11 DEF LruInv

(***************************************************************************)
(* A miss keeps the invariant: the tag it brings in was not in the set.    *)
(***************************************************************************)
LEMMA MissInv ==
  ASSUME LruInv, NEW t \in Tags, NEW w \in BOOLEAN, AccessMiss(t, w)
  PROVE  LruInv'
<1>1. PICK i \in Ways :
        /\ IsVictim(i)
        /\ blocks' = [blocks EXCEPT ![i] =
             [valid |-> TRUE, dirty |-> w, tag |-> t, timestamp |-> timestamp + 1]]
        /\ result' = [hit |-> FALSE, valid |-> blocks[i].valid, dirty |-> blocks[i].dirty,
                      addr |-> IF blocks[i].valid THEN blocks[i].tag ELSE NoTag]
  BY DEF AccessMiss, NewTime
<1>2. timestamp' = timestamp + 1 /\ timestamp' \in 0 .. MaxTimestamp /\ timestamp \in 0 .. MaxTimestamp
  BY LruConstants DEF AccessMiss, NewTime, LruInv, LruTypeOK
<1>3. blocks \in [Ways -> Block]
  BY DEF LruInv, LruTypeOK
<1>4. blocks'[i] = [valid |-> TRUE, dirty |-> w, tag |-> t, timestamp |-> timestamp + 1]
  BY <1>1, <1>3
<1>5. \A j \in Ways \ {i} : blocks'[j] = blocks[j]
  BY <1>1, <1>3
<1>6. LruTypeOK'
  <2>1. blocks'[i] \in Block
    BY <1>2, <1>4, LruConstants DEF Block
  <2>2. blocks' \in [Ways -> Block]
    BY <1>1, <1>3, <1>5, <2>1
  <2>3. result' \in Result
    BY <1>1, <1>3, LruConstants DEF Result, Block
  <2> QED BY <1>2, <2>2, <2>3 DEF LruTypeOK
<1>7. ValidWays' = ValidWays \cup {i}
  BY <1>3, <1>4, <1>5 DEF ValidWays, Block
<1>8. \A j \in Ways : blocks[j].tag # t
  BY DEF AccessMiss, NewTime, NoMatch
<1>9. UniqueTags'
  BY <1>4, <1>5, <1>7, <1>8 DEF LruInv, UniqueTags, ValidWays
<1>10. RecencyOrder'
  BY <1>2, <1>3, <1>4, <1>5, <1>7 DEF LruInv, RecencyOrder, ValidWays, Block
<1> QED BY <1>6, <1>9, <1>10 DEF LruInv

(***************************************************************************)
(* Every access keeps the invariant.                                       *)
(***************************************************************************)
LEMMA LruStepInv == LruInv /\ [LruNext]_lruVars => LruInv'
<1> SUFFICES ASSUME LruInv, [LruNext]_lruVars PROVE LruInv'
  OBVIOUS
<1>1. CASE UNCHANGED lruVars
  BY <1>1 DEF LruInv, lruVars, LruTypeOK, UniqueTags, RecencyOrder, ValidWays
<1>2. ASSUME NEW t \in Tags, NEW w \in BOOLEAN, AccessHit(t, w)
      PROVE  LruInv'
  BY <1>2, HitInv
<1>3. ASSUME NEW t \in Tags, NEW w \in BOOLEAN, AccessMiss(t, w)
      PROVE  LruInv'
  BY <1>3, MissInv
<1> QED BY <1>1, <1>2, <1>3 DEF LruNext

(***************************************************************************)
(* The set keeps its type in every run.                                    *)
(***************************************************************************)
THEOREM LruTypeCorrect == LruSpec => []LruTypeOK
<1>1. LruInv => LruTypeOK
  BY DEF LruInv
<1> QED BY LruInitInv, LruStepInv, <1>1, PTL DEF LruSpec

(***************************************************************************)
(* No line is ever held twice by a set.                                    *)
(***************************************************************************)
THEOREM NoLineHeldTwice == LruSpec => []UniqueTags
<1>1. LruInv => UniqueTags
  BY DEF LruInv
<1> QED BY LruInitInv, LruStepInv, <1>1, PTL DEF LruSpec

(***************************************************************************)
(* Timestamps order the blocks in use by their last use, strictly.         *)
(***************************************************************************)
THEOREM TimestampsOrderUse == LruSpec => []RecencyOrder
<1>1. LruInv => RecencyOrder
  BY DEF LruInv
<1> QED BY LruInitInv, LruStepInv, <1>1, PTL DEF LruSpec

-----------------------------------------------------------------------------
(***************************************************************************)
(* Refinement.  The resident tags are the image of the valid ways under a  *)
(* one-to-one map, so the set is full exactly when every way is in use.    *)
(***************************************************************************)
LEMMA WaysFinite == IsFiniteSet(Ways) /\ Cardinality(Ways) = Assoc
  BY LruConstants, FS_Interval DEF Ways

(***************************************************************************)
(* The set holds as many lines as it has valid blocks.                     *)
(***************************************************************************)
LEMMA ResidentCount ==
  ASSUME LruInv
  PROVE  Cardinality(residentTags) = Cardinality(ValidWays)
<1> DEFINE tagOf == [i \in ValidWays |-> blocks[i].tag]
<1>1. IsFiniteSet(ValidWays)
  BY WaysFinite, FS_Subset DEF ValidWays
<1>2. tagOf \in Bijection(ValidWays, residentTags)
  BY DEF LruInv, UniqueTags, residentTags, Bijection, Injection, Surjection, IsInjective
<1> QED BY <1>1, <1>2, FS_Bijection DEF ExistsBijection

(***************************************************************************)
(* It holds Assoc lines when every block is valid, and fewer otherwise.    *)
(***************************************************************************)
LEMMA FullIffAllValid ==
  ASSUME LruInv
  PROVE  /\ (\A i \in Ways : blocks[i].valid) => Cardinality(residentTags) = Assoc
         /\ (\E i \in Ways : ~blocks[i].valid) => Cardinality(residentTags) < Assoc
<1>1. ValidWays \subseteq Ways /\ IsFiniteSet(ValidWays)
      /\ Cardinality(ValidWays) <= Assoc /\ Cardinality(ValidWays) \in Nat
      /\ (Cardinality(ValidWays) = Assoc => ValidWays = Ways)
  BY WaysFinite, FS_Subset, FS_CardinalityType DEF ValidWays
<1>2. CASE \A i \in Ways : blocks[i].valid
  BY <1>2, ResidentCount, WaysFinite DEF ValidWays
<1>3. CASE \E i \in Ways : ~blocks[i].valid
  <2>1. ValidWays # Ways
    BY <1>3 DEF ValidWays
  <2> QED BY <1>1, <1>3, <2>1, ResidentCount, LruConstants
<1> QED BY <1>2, <1>3

(***************************************************************************)
(* The order of the tags is that of the timestamps of their ways.          *)
(***************************************************************************)
OrdersAgree ==
  /\ \A j, k \in ValidWays : <<blocks[j].tag, blocks[k].tag>> \in olderTags
                             <=> blocks[j].timestamp < blocks[k].timestamp
  /\ olderTags \subseteq residentTags \X residentTags

(***************************************************************************)
(* The order of last use of two lines is that of their blocks' timestamps. *)
(***************************************************************************)
LEMMA OlderWays == LruInv => OrdersAgree
<1> SUFFICES ASSUME LruInv PROVE OrdersAgree
  OBVIOUS
<1>1. \A j, k \in ValidWays : blocks[j].tag = blocks[k].tag => j = k
  BY DEF LruInv, UniqueTags
<1> QED BY <1>1 DEF OrdersAgree, olderTags, residentTags

(***************************************************************************)
(* Orders on the resident lines that agree on all pairs of blocks are      *)
(* equal.                                                                  *)
(***************************************************************************)
LEMMA SameOrder ==
  ASSUME NEW P, NEW Q,
         P \subseteq residentTags \X residentTags, Q \subseteq residentTags \X residentTags,
         \A j, k \in ValidWays : <<blocks[j].tag, blocks[k].tag>> \in P
                                 <=> <<blocks[j].tag, blocks[k].tag>> \in Q
  PROVE  P = Q
<1>1. \A a, b \in residentTags : <<a, b>> \in P <=> <<a, b>> \in Q
  BY DEF residentTags
<1> QED BY <1>1

(***************************************************************************)
(* A hit of the code is a hit of the policy.                               *)
(***************************************************************************)
LEMMA HitRefines ==
  ASSUME LruInv, NEW t \in Tags, NEW w \in BOOLEAN, AccessHit(t, w)
  PROVE  Policy!Hit(t, w)
<1>1. PICK i \in Ways :
        /\ IsMatch(i, t)
        /\ blocks' = [blocks EXCEPT ![i] =
             [valid |-> w \/ blocks[i].valid, dirty |-> w \/ blocks[i].dirty,
              tag |-> t, timestamp |-> timestamp + 1]]
        /\ \E d \in BOOLEAN, a \in Tags \cup {NoTag} :
             result' = [hit |-> TRUE, valid |-> w \/ blocks[i].valid, dirty |-> d, addr |-> a]
  BY DEF AccessHit, NewTime
<1>2. i \in ValidWays /\ blocks[i].tag = t
  BY <1>1, HitIsValid DEF IsMatch, ValidWays
<1>3. /\ blocks'[i] = [valid |-> w \/ blocks[i].valid, dirty |-> w \/ blocks[i].dirty,
                       tag |-> t, timestamp |-> timestamp + 1]
      /\ \A j \in Ways \ {i} : blocks'[j] = blocks[j]
  BY <1>1 DEF LruInv, LruTypeOK
<1>4. blocks'[i].valid /\ blocks'[i].tag = t /\ blocks'[i].timestamp = timestamp + 1
      /\ (blocks'[i].dirty <=> w \/ blocks[i].dirty)
  <2>1. /\ blocks'[i].valid = (w \/ blocks[i].valid)
        /\ blocks'[i].dirty = (w \/ blocks[i].dirty)
        /\ blocks'[i].tag = t
        /\ blocks'[i].timestamp = timestamp + 1
    BY <1>3
  <2> QED BY <1>2, <2>1 DEF ValidWays
<1>5. ValidWays' = ValidWays
  BY <1>2, <1>3, <1>4 DEF ValidWays
<1>6. \A j \in ValidWays : blocks'[j].tag = blocks[j].tag
  BY <1>2, <1>3, <1>4 DEF ValidWays
<1>7. residentTags' = residentTags
  BY <1>5, <1>6 DEF residentTags
<1>8. dirtyTags' = IF w THEN dirtyTags \cup {t} ELSE dirtyTags
  BY <1>2, <1>3, <1>4, <1>5, <1>6 DEF dirtyTags, ValidWays
<1>9. olderTags' = Policy!OrderAfterUse(residentTags, t)
  <2>1. \A j \in ValidWays : blocks[j].timestamp \in Int /\ blocks[j].timestamp <= timestamp
    BY DEF LruInv, LruTypeOK, RecencyOrder, ValidWays, Block
  <2>2. \A j \in ValidWays : j # i => blocks[j].tag # t
    BY <1>2 DEF LruInv, UniqueTags
  <2>3. timestamp \in Int
    BY DEF LruInv, LruTypeOK
  <2>4. \A j, k \in ValidWays : blocks'[j].timestamp < blocks'[k].timestamp <=>
             \/ j # i /\ k # i /\ blocks[j].timestamp < blocks[k].timestamp
             \/ j # i /\ k = i
    BY <1>3, <1>4, <2>1, <2>3 DEF ValidWays
  <2>5. /\ \A j, k \in ValidWays : <<blocks[j].tag, blocks[k].tag>> \in olderTags'
                                   <=> blocks'[j].timestamp < blocks'[k].timestamp
        /\ olderTags' \subseteq residentTags \X residentTags
    <3>1. LruInv'
      BY HitInv
    <3>2. OrdersAgree'
      BY <3>1, OlderWays, PTL
    <3> QED BY <1>5, <1>6, <1>7, <3>2 DEF OrdersAgree
  <2>6. \A j, k \in ValidWays :
          <<blocks[j].tag, blocks[k].tag>> \in Policy!OrderAfterUse(residentTags, t) <=>
             \/ j # i /\ k # i /\ blocks[j].timestamp < blocks[k].timestamp
             \/ j # i /\ k = i
    BY <1>2, <2>2, OlderWays DEF OrdersAgree, Policy!OrderAfterUse, residentTags
  <2>7. Policy!OrderAfterUse(residentTags, t) \subseteq residentTags \X residentTags
    BY <1>2, OlderWays DEF OrdersAgree, Policy!OrderAfterUse, residentTags
  <2> QED BY <2>4, <2>5, <2>6, <2>7, SameOrder
<1>10. outcomeOfLast' = [hit |-> TRUE, victim |-> NoTag, writeback |-> FALSE]
  <2>1. result'.hit = TRUE
    BY <1>1
  <2> QED BY <2>1 DEF outcomeOfLast
<1>11. t \in residentTags
  BY <1>2 DEF residentTags
<1> QED BY <1>7, <1>8, <1>9, <1>10, <1>11 DEF Policy!Hit

(***************************************************************************)
(* A miss of the code is a fill or a replacement of the policy.            *)
(***************************************************************************)
LEMMA MissRefines ==
  ASSUME LruInv, NEW t \in Tags, NEW w \in BOOLEAN, AccessMiss(t, w)
  PROVE  Policy!Fill(t, w) \/ Policy!Replace(t, w)
<1>1. PICK i \in Ways :
        /\ IsVictim(i)
        /\ blocks' = [blocks EXCEPT ![i] =
             [valid |-> TRUE, dirty |-> w, tag |-> t, timestamp |-> timestamp + 1]]
        /\ result' = [hit |-> FALSE, valid |-> blocks[i].valid, dirty |-> blocks[i].dirty,
                      addr |-> IF blocks[i].valid THEN blocks[i].tag ELSE NoTag]
  BY DEF AccessMiss, NewTime
<1>2. /\ blocks'[i] = [valid |-> TRUE, dirty |-> w, tag |-> t, timestamp |-> timestamp + 1]
      /\ \A j \in Ways \ {i} : blocks'[j] = blocks[j]
  BY <1>1 DEF LruInv, LruTypeOK
<1>3. \A j \in Ways : blocks[j].tag # t
  BY DEF AccessMiss, NewTime, NoMatch
<1>4. ValidWays' = (ValidWays \ {i}) \cup {i}
  BY <1>2 DEF ValidWays
<1>5. t \notin residentTags
  BY <1>3 DEF residentTags, ValidWays
<1> DEFINE kept == {blocks[j].tag : j \in ValidWays \ {i}}
<1>6. residentTags' = kept \cup {t} /\ t \notin kept
  BY <1>2, <1>3, <1>4 DEF residentTags, ValidWays
<1>7. \A j \in ValidWays : j # i => blocks[j].timestamp \in Int /\ blocks[j].timestamp <= timestamp
  BY DEF LruInv, LruTypeOK, RecencyOrder, ValidWays, Block
<1>8. \A j, k \in ValidWays' : blocks'[j].timestamp < blocks'[k].timestamp <=>
           \/ j # i /\ k # i /\ blocks[j].timestamp < blocks[k].timestamp
           \/ j # i /\ k = i
  BY <1>2, <1>4, <1>7 DEF LruInv, LruTypeOK, ValidWays
<1>9. OrdersAgree /\ OrdersAgree'
  <2>1. LruInv'
    BY MissInv
  <2> QED BY <2>1, OlderWays, PTL
<1>10. olderTags' = Policy!OrderAfterUse(kept, t)
  <2>1. \A j, k \in ValidWays' : <<blocks'[j].tag, blocks'[k].tag>> \in olderTags' <=>
           \/ j # i /\ k # i /\ blocks[j].timestamp < blocks[k].timestamp
           \/ j # i /\ k = i
    BY <1>8, <1>9 DEF OrdersAgree
  <2>2. \A j, k \in ValidWays' :
          <<blocks'[j].tag, blocks'[k].tag>> \in Policy!OrderAfterUse(kept, t) <=>
           \/ j # i /\ k # i /\ blocks[j].timestamp < blocks[k].timestamp
           \/ j # i /\ k = i
    <3>1. \A j \in ValidWays' : j # i => j \in ValidWays /\ blocks'[j].tag = blocks[j].tag
                                         /\ blocks[j].tag \in kept /\ blocks[j].tag # t
      BY <1>2, <1>3, <1>4 DEF ValidWays
    <3>2. blocks'[i].tag = t /\ t \notin kept
      BY <1>2, <1>6
    <3>3. \A j, k \in ValidWays : <<blocks[j].tag, blocks[k].tag>> \in olderTags
                                     <=> blocks[j].timestamp < blocks[k].timestamp
      BY <1>9 DEF OrdersAgree
    <3>4. \A u, v : <<u, v>> \in Policy!OrderAfterUse(kept, t) <=>
             /\ u \in kept /\ u # t
             /\ (v \in kept /\ v # t /\ <<u, v>> \in olderTags) \/ v = t
      BY ONLY DEF Policy!OrderAfterUse
    <3> SUFFICES ASSUME NEW j \in ValidWays', NEW k \in ValidWays'
                 PROVE  <<blocks'[j].tag, blocks'[k].tag>> \in Policy!OrderAfterUse(kept, t) <=>
                          \/ j # i /\ k # i /\ blocks[j].timestamp < blocks[k].timestamp
                          \/ j # i /\ k = i
      OBVIOUS
    <3>5. CASE j = i
      BY ONLY <3>2, <3>4, <3>5
    <3>6. CASE j # i /\ k = i
      BY ONLY <3>1, <3>2, <3>4, <3>6, j \in ValidWays'
    <3>7. CASE j # i /\ k # i
      BY ONLY <3>1, <3>3, <3>4, <3>7, j \in ValidWays', k \in ValidWays'
    <3> QED BY <3>5, <3>6, <3>7
  <2>3. olderTags' \subseteq residentTags' \X residentTags'
    BY <1>9 DEF OrdersAgree
  <2>4. Policy!OrderAfterUse(kept, t) \subseteq residentTags' \X residentTags'
    BY <1>6 DEF Policy!OrderAfterUse
  <2>5. residentTags' = {blocks'[j].tag : j \in ValidWays'}
    BY DEF residentTags
  <2> HIDE DEF kept
  <2>6. \A a, b \in residentTags' :
          <<a, b>> \in olderTags' <=> <<a, b>> \in Policy!OrderAfterUse(kept, t)
    <3> SUFFICES ASSUME NEW a \in residentTags', NEW b \in residentTags'
                 PROVE  <<a, b>> \in olderTags' <=> <<a, b>> \in Policy!OrderAfterUse(kept, t)
      OBVIOUS
    <3>1. PICK j \in ValidWays', k \in ValidWays' : a = blocks'[j].tag /\ b = blocks'[k].tag
      BY ONLY <2>5, a \in residentTags', b \in residentTags'
    <3> QED BY ONLY <2>1, <2>2, <3>1
  <2>7. \A e \in residentTags' \X residentTags' :
          e \in olderTags' <=> e \in Policy!OrderAfterUse(kept, t)
    BY ONLY <2>6
  <2> QED BY ONLY <2>3, <2>4, <2>7
<1>11. CASE FirstInvalid(i)
  <2>1. i \notin ValidWays /\ kept = residentTags
    BY <1>11 DEF FirstInvalid, ValidWays, residentTags
  <2>2. Cardinality(residentTags) < Assoc
    BY <1>11, FullIffAllValid DEF FirstInvalid
  <2>3. dirtyTags' = IF w THEN dirtyTags \cup {t} ELSE dirtyTags
    BY <1>2, <1>4, <2>1 DEF dirtyTags, ValidWays
  <2>4. outcomeOfLast' = Policy!NothingYet
    <3>1. result'.hit = FALSE /\ result'.valid = blocks[i].valid /\ ~blocks[i].valid
      BY <1>1, <1>11 DEF FirstInvalid
    <3>2. (~result'.hit /\ result'.valid /\ result'.dirty) = FALSE
      BY <3>1
    <3>3. (IF result'.hit \/ ~result'.valid THEN NoTag ELSE result'.addr) = NoTag
      BY <3>1
    <3> QED BY <3>1, <3>2, <3>3, Zenon DEF outcomeOfLast, Policy!NothingYet
  <2>5. residentTags' = residentTags \cup {t}
    BY <1>6, <2>1
  <2>6. olderTags' = Policy!OrderAfterUse(residentTags, t)
    BY <1>10, <2>1
  <2> QED BY <1>5, <2>2, <2>3, <2>4, <2>5, <2>6, Zenon DEF Policy!Fill, Policy!Cardinality, Cardinality
<1>12. CASE Oldest(i)
  <2> DEFINE v == blocks[i].tag
  <2>1. i \in ValidWays /\ v \in residentTags /\ ValidWays = Ways
    BY <1>12 DEF Oldest, ValidWays, residentTags
  <2>2. Cardinality(residentTags) = Assoc
    BY <1>12, FullIffAllValid DEF Oldest
  <2>3. kept = residentTags \ {v}
    BY <2>1 DEF LruInv, UniqueTags, residentTags
  <2>4. \A u \in residentTags \ {v} : <<v, u>> \in olderTags
    <3>1. \A j \in ValidWays : j # i => blocks[i].timestamp < blocks[j].timestamp
      BY <1>12, <2>1 DEF Oldest, LruInv, RecencyOrder, LruTypeOK, Block
    <3> QED BY <1>9, <2>1, <3>1 DEF OrdersAgree, residentTags
  <2>5. dirtyTags' = (dirtyTags \ {v}) \cup (IF w THEN {t} ELSE {})
    <3>1. \A j \in ValidWays : j # i => blocks[j].tag # v
      BY <2>1 DEF LruInv, UniqueTags
    <3> QED BY <1>2, <1>4, <2>1, <3>1 DEF dirtyTags, ValidWays
  <2>6. outcomeOfLast' = [hit |-> FALSE, victim |-> v, writeback |-> v \in dirtyTags]
    <3>1. result'.hit = FALSE /\ result'.valid = blocks[i].valid
          /\ result'.dirty = blocks[i].dirty /\ blocks[i].valid /\ result'.addr = v
      BY <1>1, <2>1 DEF ValidWays
    <3>2. v \in dirtyTags <=> blocks[i].dirty
      BY <2>1 DEF dirtyTags, LruInv, UniqueTags
    <3>3. blocks[i].dirty \in BOOLEAN /\ blocks[i].valid = TRUE
      BY <2>1 DEF LruInv, LruTypeOK, Block, ValidWays
    <3>4. (~result'.hit /\ result'.valid /\ result'.dirty) = (v \in dirtyTags)
      BY <3>1, <3>2, <3>3
    <3>5. (IF result'.hit \/ ~result'.valid THEN NoTag ELSE result'.addr) = v
      BY <3>1
    <3> QED BY <3>1, <3>4, <3>5, Zenon DEF outcomeOfLast
  <2>7. residentTags' = (residentTags \ {v}) \cup {t}
    BY <1>6, <2>3
  <2>8. olderTags' = Policy!OrderAfterUse(residentTags \ {v}, t)
    BY <1>10, <2>3
  <2>9. \E x \in residentTags :
          /\ \A u \in residentTags \ {x} : <<x, u>> \in olderTags
          /\ residentTags' = (residentTags \ {x}) \cup {t}
          /\ dirtyTags' = (dirtyTags \ {x}) \cup (IF w THEN {t} ELSE {})
          /\ olderTags' = Policy!OrderAfterUse(residentTags \ {x}, t)
          /\ outcomeOfLast' = [hit |-> FALSE, victim |-> x, writeback |-> x \in dirtyTags]
    <3> HIDE DEF v
    <3> QED BY <2>1, <2>4, <2>5, <2>6, <2>7, <2>8, Zenon
  <2> QED BY <1>5, <2>2, <2>9, Zenon DEF Policy!Replace, Policy!Cardinality, Cardinality
<1> QED BY <1>1, <1>11, <1>12 DEF IsVictim

(***************************************************************************)
(* An empty set is the policy's initial state.                             *)
(***************************************************************************)
LEMMA InitRefines == LruInit => Policy!PolicyInit
<1> SUFFICES ASSUME LruInit PROVE Policy!PolicyInit
  OBVIOUS
<1>1. ValidWays = {}
  <2>1. \A i \in Ways : blocks[i].valid \in {FALSE}
    BY DEF LruInit
  <2> QED BY <2>1 DEF ValidWays
<1>2. residentTags = {} /\ dirtyTags = {} /\ olderTags = {}
  BY <1>1 DEF residentTags, dirtyTags, olderTags
<1>3. outcomeOfLast = Policy!NothingYet
  BY DEF LruInit, outcomeOfLast, Policy!NothingYet
<1> QED BY <1>2, <1>3 DEF Policy!PolicyInit

(***************************************************************************)
(* Every access of the code is a step of the policy.                       *)
(***************************************************************************)
LEMMA StepRefines == LruInv /\ [LruNext]_lruVars => [Policy!PolicyNext]_(Policy!policyVars)
<1> SUFFICES ASSUME LruInv, [LruNext]_lruVars
             PROVE  [Policy!PolicyNext]_(Policy!policyVars)
  OBVIOUS
<1>1. CASE UNCHANGED lruVars
  BY <1>1 DEF lruVars, Policy!policyVars, residentTags, dirtyTags, olderTags, outcomeOfLast, ValidWays
<1>2. ASSUME NEW t \in Tags, NEW w \in BOOLEAN, AccessHit(t, w)
      PROVE  Policy!PolicyNext
  BY <1>2, HitRefines DEF Policy!PolicyNext
<1>3. ASSUME NEW t \in Tags, NEW w \in BOOLEAN, AccessMiss(t, w)
      PROVE  Policy!PolicyNext
  BY <1>3, MissRefines DEF Policy!PolicyNext
<1> QED BY <1>1, <1>2, <1>3 DEF LruNext

(***************************************************************************)
(* CACHE_SET::LRU implements the least-recently-used policy: the victim    *)
(* reported to the caller is always the line used longest ago, with its    *)
(* dirty bit, and nothing else ever leaves the set.                        *)
(***************************************************************************)
THEOREM LruImplementsPolicy == LruSpec => ImplementsPolicy
<1>1. LruSpec => []LruInv
  BY LruInitInv, LruStepInv, PTL DEF LruSpec
<1> QED BY <1>1, InitRefines, StepRefines, PTL DEF LruSpec, ImplementsPolicy, Policy!PolicySpec
=============================================================================
