---------------------------- MODULE MemSimProofs ----------------------------
(***************************************************************************)
(* Proofs about a memory object over its simulator, for any number of      *)
(* lines, any lengths of the queues and any number of loads.               *)
(*                                                                         *)
(* The inductive invariant says where the one request of a line with       *)
(* waiting loads is - in pending_ld_map or in the simulator - and that     *)
(* what is in the simulator is not ahead of the clock, of the target of    *)
(* the call to advance and, between two calls, of the engine's time.       *)
(***************************************************************************)
EXTENDS MemSim, SequenceTheorems, FiniteSetTheorems, TLAPS

Request == [at : Nat, addr : Line]
LoadRecord == [id : Nat, at : Nat]
AnswerRecord == [id : Nat, at : Nat, done : Nat]

TypeOK ==
  /\ simulator \in {"Ramulator", "NVDSim", "DRAMSim2"}
  /\ waiting \in [Line -> SUBSET LoadRecord] /\ log \in SUBSET AnswerRecord
  /\ ldq \in Seq(Request) /\ stq \in Seq(Request)
  /\ sent \in [Line -> Seq(Nat)]
  /\ reading \in [Line -> {0, 1}] /\ writing \in 0 .. WriteRoom
  /\ clock \in Nat /\ target \in Nat /\ now \in Nat /\ event \in Nat
  /\ pc \in {"window", "idle", "ticks"}
  /\ issued \in Nat /\ stored \in Nat /\ kernel \in Nat
  /\ aborted \in BOOLEAN

\* the reads in the simulator
InSimulator == UNION {{a} \X (1 .. reading[a]) : a \in Line}
QueueHolds == IsFiniteSet(InSimulator) /\ Cardinality(InSimulator) <= ReadRoom

OneRequest ==
  /\ \A i, j \in 1 .. Len(ldq) : ldq[i].addr = ldq[j].addr => i = j
  /\ \A i \in 1 .. Len(ldq) : reading[ldq[i].addr] = 0

QueuedForLoad ==
  \A i \in 1 .. Len(ldq) : \E r \in waiting[ldq[i].addr] : r.at = ldq[i].at

\* the latest time at which the simulator has been offered requests
Reached == IF pc = "ticks" THEN target ELSE now
ReadForLoad ==
  \A a \in Line : reading[a] = 1 => \E r \in waiting[a] : r.at <= clock /\ r.at <= Reached

NothingForgotten ==
  \A a \in Line : waiting[a] # {} =>
    reading[a] = 1 \/ \E i \in 1 .. Len(ldq) : ldq[i].addr = a

FreshIds ==
  /\ \A a \in Line : \A r \in waiting[a] : r.id <= issued
  /\ \A l \in log : l.id <= issued

Recorded == simulator # "DRAMSim2" => \A a \in Line : Len(sent[a]) = reading[a]

Inv ==
  /\ TypeOK
  /\ simulator # "DRAMSim2" => ~aborted
  /\ ~aborted =>
       /\ QueueHolds /\ OneRequest /\ QueuedForLoad /\ ReadForLoad /\ NothingForgotten
       /\ FreshIds /\ Recorded

-----------------------------------------------------------------------------
(***************************************************************************)
(* The requests of a queue are for lines.                                  *)
(***************************************************************************)
LEMMA RequestsTyped ==
  ASSUME NEW q \in Seq(Request), NEW i \in 1 .. Len(q)
  PROVE  q[i].addr \in Line /\ q[i].at \in Nat
<1>1. q[i] \in Request
  BY ElementOfSeq
<1> QED
  BY <1>1 DEF Request

(***************************************************************************)
(* What is due is a prefix of the queue.                                   *)
(***************************************************************************)
LEMMA DueIsPrefix ==
  ASSUME NEW q \in Seq(Request), NEW time \in Nat
  PROVE  /\ Due(q, time) \in 0 .. Len(q)
         /\ \A i \in 1 .. Due(q, time) : q[i].at <= time
<1> DEFINE D == {i \in 1 .. Len(q) : \A j \in 1 .. i : q[j].at <= time}
<1>1. Len(q) \in Nat
  BY LenProperties
<1>2. IsFiniteSet(1 .. Len(q)) /\ Cardinality(1 .. Len(q)) = Len(q)
  BY <1>1, FS_Interval
<1>3. IsFiniteSet(D) /\ Cardinality(D) \in 0 .. Len(q)
  BY <1>1, <1>2, FS_Subset, FS_CardinalityType
<1>4. ASSUME NEW i \in 1 .. Cardinality(D) PROVE i \in 1 .. Len(q) /\ i \in D
  <2>0. PICK c \in 0 .. Len(q) : c = Cardinality(D)
    BY <1>3
  <2>1. i \in 1 .. Len(q) /\ i <= c
    BY <1>1, <2>0
  <2>2. SUFFICES ASSUME i \notin D PROVE FALSE
    OBVIOUS
  <2>3. D \subseteq 1 .. i - 1
    BY <2>1, <2>2
  <2>4. Cardinality(D) <= i - 1
    <3>1. IsFiniteSet(1 .. i - 1) /\ Cardinality(1 .. i - 1) = i - 1
      BY <2>1, FS_Interval
    <3> QED
      BY <2>3, <3>1, FS_Subset
  <2> QED
    BY <2>0, <2>1, <2>4
<1>5. ASSUME NEW i \in 1 .. Cardinality(D) PROVE q[i].at <= time
  BY <1>4
<1> QED
  BY <1>3, <1>5 DEF Due

(***************************************************************************)
(* What the simulator accepts is due, and it has room for it.              *)
(***************************************************************************)
LEMMA AcceptedIsDue ==
  ASSUME NEW q \in Seq(Request), NEW time \in Nat, NEW room \in Nat
  PROVE  /\ Accepted(q, time, room) \in 0 .. Len(q)
         /\ Accepted(q, time, room) <= room
         /\ \A i \in 1 .. Accepted(q, time, room) : q[i].at <= time
<1>1. Len(q) \in Nat /\ Due(q, time) \in 0 .. Len(q)
  BY LenProperties, DueIsPrefix
<1>2. PICK d \in 0 .. Len(q) : d = Due(q, time)
  BY <1>1
<1>3. PICK n \in 0 .. d : n = Accepted(q, time, room) /\ n <= room
  BY <1>1, <1>2 DEF Accepted, SmallerOf
<1>4. \A i \in 1 .. d : q[i].at <= time
  BY <1>2, DueIsPrefix
<1> QED
  BY <1>1, <1>2, <1>3, <1>4

(***************************************************************************)
(* A request is put into the queue before one of those that are in it.     *)
(***************************************************************************)
LEMMA EnqueueInserts ==
  ASSUME NEW q \in Seq(Request), NEW r \in Request
  PROVE  /\ Enqueue(q, r) \in Seq(Request)
         /\ Len(Enqueue(q, r)) = Len(q) + 1
         /\ \E k \in 0 .. Len(q) : \A i \in 1 .. Len(q) + 1 :
              Enqueue(q, r)[i] = IF i <= k THEN q[i] ELSE IF i = k + 1 THEN r ELSE q[i - 1]
<1> DEFINE k == Cardinality({i \in 1 .. Len(q) : q[i].at <= r.at})
<1>1. Len(q) \in Nat
  BY LenProperties
<1>2. k \in 0 .. Len(q)
  <2>1. IsFiniteSet(1 .. Len(q)) /\ Cardinality(1 .. Len(q)) = Len(q)
    BY <1>1, FS_Interval
  <2> QED
    BY <1>1, <2>1, FS_Subset, FS_CardinalityType
<1> HIDE DEF k
<1> DEFINE before == SubSeq(q, 1, k)
           after == SubSeq(q, k + 1, Len(q))
<1>3. /\ before \in Seq(Request) /\ Len(before) = k
      /\ \A i \in 1 .. k : before[i] = q[i]
  BY <1>1, <1>2, SubSeqProperties
<1>4. /\ after \in Seq(Request) /\ Len(after) = Len(q) - k
      /\ \A i \in 1 .. Len(q) - k : after[i] = q[k + i]
  BY <1>1, <1>2, SubSeqProperties
<1>5. <<r>> \in Seq(Request) /\ Len(<<r>>) = 1 /\ <<r>>[1] = r
  OBVIOUS
<1> HIDE DEF before, after
<1>6. /\ before \o <<r>> \in Seq(Request) /\ Len(before \o <<r>>) = k + 1
      /\ \A i \in 1 .. k + 1 : (before \o <<r>>)[i] = IF i <= k THEN q[i] ELSE r
  BY <1>2, <1>3, <1>5, ConcatProperties
<1> DEFINE head == before \o <<r>>
<1> HIDE DEF head
<1>7. head \in Seq(Request) /\ Len(head) = k + 1
      /\ \A i \in 1 .. k + 1 : head[i] = IF i <= k THEN q[i] ELSE r
  BY <1>6 DEF head
<1> DEFINE whole == head \o after
<1> HIDE DEF whole
<1>8. /\ whole \in Seq(Request) /\ Len(whole) = Len(q) + 1
      /\ \A i \in 1 .. Len(q) + 1 :
           whole[i] = IF i <= k + 1 THEN head[i] ELSE after[i - (k + 1)]
  <2>1. /\ whole \in Seq(Request) /\ Len(whole) = Len(head) + Len(after)
        /\ \A i \in 1 .. Len(head) + Len(after) :
             whole[i] = IF i <= Len(head) THEN head[i] ELSE after[i - Len(head)]
    BY <1>4, <1>7, ConcatProperties DEF whole
  <2>2. Len(head) = k + 1 /\ Len(head) + Len(after) = Len(q) + 1
    BY <1>1, <1>2, <1>4, <1>7
  <2> QED
    BY <2>1, <2>2
<1>9. \A i \in 1 .. Len(q) + 1 :
        whole[i] = IF i <= k THEN q[i] ELSE IF i = k + 1 THEN r ELSE q[i - 1]
  <2> TAKE i \in 1 .. Len(q) + 1
  <2>1. CASE i <= k + 1
    <3>1. i \in 1 .. k + 1 /\ whole[i] = head[i]
      BY <1>2, <1>8, <2>1
    <3> QED
      BY <1>2, <1>7, <3>1
  <2>2. CASE i > k + 1
    <3>1. PICK j \in 1 .. Len(q) - k : j = i - (k + 1)
      BY <1>1, <1>2, <2>2
    <3>2. whole[i] = after[j] /\ k + j = i - 1
      BY <1>2, <1>8, <2>2, <3>1
    <3>3. after[j] = q[i - 1]
      BY <1>4, <3>2
    <3> QED
      BY <1>2, <2>2, <3>2, <3>3
  <2> QED
    BY <1>2, <2>1, <2>2
<1>10. Enqueue(q, r) = whole
  BY DEF Enqueue, k, head, before, after, whole
<1> QED
  BY <1>2, <1>8, <1>9, <1>10

(***************************************************************************)
(* The next tick is behind the clock.                                      *)
(***************************************************************************)
LEMMA NextTickAhead ==
  ASSUME TypeOK
  PROVE  NextTick \in Nat /\ NextTick > clock
<1>1. CpuTicks \in Nat \ {0} /\ clock \in Nat
  BY MemSimConstants DEF TypeOK
<1>2. PICK n \in Nat, m \in 0 .. CpuTicks - 1 :
        clock + CpuTicks = n * CpuTicks + m /\ n = (clock + CpuTicks) \div CpuTicks
  <2>1. /\ (clock + CpuTicks) \div CpuTicks \in Nat
        /\ (clock + CpuTicks) % CpuTicks \in 0 .. CpuTicks - 1
        /\ clock + CpuTicks = ((clock + CpuTicks) \div CpuTicks) * CpuTicks
                              + ((clock + CpuTicks) % CpuTicks)
    BY <1>1
  <2> QED
    BY <2>1
<1>3. NextTick = n * CpuTicks
  BY <1>2 DEF NextTick
<1>4. PICK p \in Nat : p = n * CpuTicks
  BY <1>1
<1> QED
  BY ONLY <1>1, <1>2, <1>3, <1>4

(***************************************************************************)
(* The times get_next_event announces.                                     *)
(***************************************************************************)
LEMMA NextEventNat ==
  ASSUME NEW time \in Nat, NEW q \in Seq(Request)
  PROVE  NextEvent(time, q) \in Nat
<1>1. CpuTicks \in Nat \ {0}
  BY MemSimConstants
<1>2. (time \div CpuTicks + 1) * CpuTicks \in Nat
  BY <1>1
<1>3. ASSUME q # <<>> PROVE q[1].at \in Nat
  <2>1. 1 \in 1 .. Len(q)
    BY <1>3, EmptySeq, LenProperties
  <2>2. q[1] \in Request
    BY <2>1, ElementOfSeq
  <2> QED
    BY <2>2 DEF Request
<1> QED
  BY <1>2, <1>3 DEF NextEvent, LargerOf

(***************************************************************************)
(* What a round of insertion leaves in pending_ld_map and puts into the    *)
(* simulator.                                                              *)
(***************************************************************************)
LEMMA LoadsInserted ==
  ASSUME TypeOK, QueueHolds, OneRequest, NEW time \in Nat
  PROVE  /\ LoadsIn(time) \in 0 .. Len(ldq)
         /\ LoadsIn(time) <= ReadRoom - Cardinality(InSimulator)
         /\ \A i \in 1 .. LoadsIn(time) : ldq[i].at <= time
         /\ SubSeq(ldq, LoadsIn(time) + 1, Len(ldq)) \in Seq(Request)
         /\ Len(SubSeq(ldq, LoadsIn(time) + 1, Len(ldq))) = Len(ldq) - LoadsIn(time)
         /\ \A i \in 1 .. Len(ldq) - LoadsIn(time) :
              SubSeq(ldq, LoadsIn(time) + 1, Len(ldq))[i] = ldq[LoadsIn(time) + i]
<1>1. PICK room \in Nat : room = ReadRoom - TotalReading /\ TotalReading = Cardinality(InSimulator)
  <2>1. TotalReading = Cardinality(InSimulator)
    BY DEF TotalReading, InSimulator
  <2>2. TotalReading \in Nat /\ TotalReading <= ReadRoom /\ ReadRoom \in Nat
    BY <2>1, FS_CardinalityType, MemSimConstants DEF QueueHolds
  <2> QED
    BY <2>1, <2>2
<1>2. ldq \in Seq(Request) /\ Len(ldq) \in Nat
  BY LenProperties DEF TypeOK
<1>3. /\ LoadsIn(time) \in 0 .. Len(ldq) /\ LoadsIn(time) <= room
      /\ \A i \in 1 .. LoadsIn(time) : ldq[i].at <= time
  BY <1>1, <1>2, AcceptedIsDue DEF LoadsIn
<1>4. PICK n \in 0 .. Len(ldq) : n = LoadsIn(time)
  BY <1>3
<1>5. /\ SubSeq(ldq, n + 1, Len(ldq)) \in Seq(Request)
      /\ Len(SubSeq(ldq, n + 1, Len(ldq))) = Len(ldq) - n
      /\ \A i \in 1 .. Len(ldq) - n : SubSeq(ldq, n + 1, Len(ldq))[i] = ldq[n + i]
  BY <1>2, SubSeqProperties
<1> QED
  BY <1>1, <1>3, <1>4, <1>5

LEMMA StoresInserted ==
  ASSUME TypeOK, NEW time \in Nat
  PROVE  /\ StoresIn(time) \in Nat /\ writing + StoresIn(time) \in 0 .. WriteRoom
         /\ SubSeq(stq, StoresIn(time) + 1, Len(stq)) \in Seq(Request)
<1>1. stq \in Seq(Request) /\ Len(stq) \in Nat /\ writing \in 0 .. WriteRoom /\ WriteRoom \in Nat
  BY LenProperties, MemSimConstants DEF TypeOK
<1>2. StoresIn(time) \in 0 .. Len(stq) /\ StoresIn(time) <= WriteRoom - writing
  <2>1. PICK room \in Nat : room = WriteRoom - writing
    BY <1>1
  <2>2. Accepted(stq, time, room) \in 0 .. Len(stq) /\ Accepted(stq, time, room) <= room
    BY <1>1, AcceptedIsDue
  <2> QED
    BY <2>1, <2>2 DEF StoresIn
<1>3. PICK n \in 0 .. Len(stq) : n = StoresIn(time)
  BY <1>2
<1>4. SubSeq(stq, n + 1, Len(stq)) \in Seq(Request)
  BY <1>1, SubSeqProperties
<1> QED
  BY <1>1, <1>2, <1>3, <1>4

(***************************************************************************)
(* A line has one read in the simulator after the insertion if it had one  *)
(* before or its request was inserted, and no line has two.                *)
(***************************************************************************)
LEMMA ReadsInserted ==
  ASSUME TypeOK, QueueHolds, OneRequest, NEW time \in Nat
  PROVE  /\ ReadingAfter(time) \in [Line -> {0, 1}]
         /\ \A a \in Line : ReadsOf(time, a) \in {0, 1}
         /\ \A a \in Line : ReadingAfter(time)[a] = reading[a] + ReadsOf(time, a)
         /\ \A a \in Line : ReadingAfter(time)[a] = 1 <=>
              reading[a] = 1 \/ \E i \in 1 .. LoadsIn(time) : ldq[i].addr = a
<1>1. Len(ldq) \in Nat /\ LoadsIn(time) \in 0 .. Len(ldq)
  BY LoadsInserted, LenProperties DEF TypeOK
<1>2. ASSUME NEW a \in Line
      PROVE  /\ reading[a] + ReadsOf(time, a) \in {0, 1} /\ ReadsOf(time, a) \in {0, 1}
             /\ reading[a] + ReadsOf(time, a) = 1 <=>
                  reading[a] = 1 \/ \E i \in 1 .. LoadsIn(time) : ldq[i].addr = a
  <2> DEFINE I == {i \in 1 .. LoadsIn(time) : ldq[i].addr = a}
  <2>1. ReadsOf(time, a) = Cardinality(I)
    BY DEF ReadsOf
  <2>2. reading[a] \in {0, 1}
    BY DEF TypeOK
  <2>3. CASE I = {}
    BY <2>1, <2>2, <2>3, FS_EmptySet
  <2>4. CASE I # {}
    <3>1. PICK i \in I : TRUE
      BY <2>4
    <3>2. i \in 1 .. Len(ldq) /\ ldq[i].addr = a
      BY <1>1
    <3>3. I = {i}
      BY <1>1, <3>2 DEF OneRequest
    <3>4. reading[a] = 0
      BY <3>2 DEF OneRequest
    <3>5. Cardinality(I) = 1
      BY <3>3, FS_Singleton
    <3> QED
      BY <2>1, <3>1, <3>2, <3>4, <3>5
  <2> QED
    BY <2>3, <2>4
<1> QED
  BY <1>2 DEF ReadingAfter

(***************************************************************************)
(* The insertion times recorded for a line: one for each read inserted,    *)
(* unless the adapter is the one that records none.                        *)
(***************************************************************************)
LEMMA TimesInserted ==
  ASSUME TypeOK, QueueHolds, OneRequest, NEW time \in Nat
  PROVE  /\ SentAfter(time) \in [Line -> Seq(Nat)]
         /\ simulator # "DRAMSim2" =>
              \A a \in Line : Len(SentAfter(time)[a]) = Len(sent[a]) + ReadsOf(time, a)
<1>1. ASSUME NEW a \in Line
      PROVE  /\ SentAfter(time)[a] \in Seq(Nat)
             /\ simulator # "DRAMSim2" =>
                  Len(SentAfter(time)[a]) = Len(sent[a]) + ReadsOf(time, a)
  <2> DEFINE n == IF simulator = "DRAMSim2" THEN 0 ELSE ReadsOf(time, a)
             times == [i \in 1 .. n |-> time]
  <2>1. n \in Nat
    BY ReadsInserted
  <2> HIDE DEF n
  <2>2. times \in Seq(Nat) /\ Len(times) = n
    BY <2>1, IsASeq, LenProperties
  <2> HIDE DEF times
  <2>3. sent[a] \in Seq(Nat)
    BY DEF TypeOK
  <2>4. sent[a] \o times \in Seq(Nat) /\ Len(sent[a] \o times) = Len(sent[a]) + n
    BY <2>2, <2>3, ConcatProperties
  <2>5. SentAfter(time)[a] = sent[a] \o times
    BY DEF SentAfter, n, times
  <2> QED
    BY <2>4, <2>5 DEF n
<1>2. SentAfter(time) = [a \in Line |-> SentAfter(time)[a]]
  BY DEF SentAfter
<1> QED
  BY <1>1, <1>2

(***************************************************************************)
(* The simulator's read queue has room for what is inserted.               *)
(***************************************************************************)
LEMMA RoomForReads ==
  ASSUME TypeOK, QueueHolds, OneRequest, NEW time \in Nat,
         NEW r \in [Line -> {0, 1}], \A a \in Line : r[a] <= ReadingAfter(time)[a]
  PROVE  /\ IsFiniteSet(UNION {{a} \X (1 .. r[a]) : a \in Line})
         /\ Cardinality(UNION {{a} \X (1 .. r[a]) : a \in Line}) <= ReadRoom
<1> DEFINE n == LoadsIn(time)
           New == {<<ldq[i].addr, 1>> : i \in 1 .. n}
           Then == UNION {{a} \X (1 .. r[a]) : a \in Line}
<1>1. n \in Nat /\ n <= ReadRoom - Cardinality(InSimulator)
  <2>1. ldq \in Seq(Request) /\ Len(ldq) \in Nat
    BY LenProperties DEF TypeOK
  <2>2. LoadsIn(time) \in 0 .. Len(ldq) /\ LoadsIn(time) <= ReadRoom - Cardinality(InSimulator)
    BY LoadsInserted
  <2> QED
    BY ONLY <2>1, <2>2 DEF n
<1> HIDE DEF n
<1>2. IsFiniteSet(New) /\ Cardinality(New) <= n
  <2> DEFINE f == [i \in 1 .. n |-> <<ldq[i].addr, 1>>]
  <2>1. f \in Surjection(1 .. n, New)
    BY DEF Surjection
  <2>2. IsFiniteSet(1 .. n) /\ Cardinality(1 .. n) = n
    BY <1>1, FS_Interval
  <2> HIDE DEF f, New
  <2> QED
    BY <2>1, <2>2, FS_Surjection
<1>3. Then \subseteq InSimulator \cup New
  <2> SUFFICES ASSUME NEW a \in Line, NEW k \in 1 .. r[a]
               PROVE  <<a, k>> \in InSimulator \cup New
    OBVIOUS
  <2>1. k = 1 /\ r[a] = 1
    OBVIOUS
  <2>2. ReadingAfter(time)[a] = 1
    BY <2>1, ReadsInserted
  <2>3. CASE reading[a] = 1
    BY <2>1, <2>3 DEF InSimulator
  <2>4. CASE \E i \in 1 .. LoadsIn(time) : ldq[i].addr = a
    BY <2>1, <2>4 DEF n
  <2> QED
    BY <2>2, <2>3, <2>4, ReadsInserted
<1> HIDE DEF New, Then
<1>4. /\ IsFiniteSet(InSimulator \cup New)
      /\ Cardinality(InSimulator \cup New) <= Cardinality(InSimulator) + Cardinality(New)
  <2>1. IsFiniteSet(InSimulator \cap New)
    BY FS_Intersection DEF QueueHolds
  <2>2. /\ Cardinality(InSimulator \cap New) \in Nat /\ Cardinality(InSimulator) \in Nat
        /\ Cardinality(New) \in Nat
    BY <1>2, <2>1, FS_CardinalityType DEF QueueHolds
  <2>3. /\ IsFiniteSet(InSimulator \cup New)
        /\ Cardinality(InSimulator \cup New) =
             Cardinality(InSimulator) + Cardinality(New) - Cardinality(InSimulator \cap New)
    BY <1>2, FS_Union DEF QueueHolds
  <2> QED
    BY <2>2, <2>3
<1>5. IsFiniteSet(Then) /\ Cardinality(Then) <= Cardinality(InSimulator \cup New)
  BY <1>3, <1>4, FS_Subset
<1>6. /\ Cardinality(Then) \in Nat /\ Cardinality(InSimulator \cup New) \in Nat
      /\ Cardinality(InSimulator) \in Nat /\ Cardinality(New) \in Nat /\ ReadRoom \in Nat
  BY <1>2, <1>4, <1>5, FS_CardinalityType, MemSimConstants DEF QueueHolds
<1>7. Cardinality(Then) <= ReadRoom
  BY <1>1, <1>2, <1>4, <1>5, <1>6
<1> QED
  BY <1>5, <1>7 DEF Then

-----------------------------------------------------------------------------
(***************************************************************************)
(* The initial states.                                                     *)
(***************************************************************************)
LEMMA InitInv ==
  ASSUME Init
  PROVE  Inv
<1>1. TypeOK
  <2>1. <<>> \in Seq(Request) /\ <<>> \in Seq(Nat)
    BY EmptySeq
  <2>2. simulator \in {"Ramulator", "NVDSim", "DRAMSim2"} /\ 0 \in 0 .. WriteRoom
    BY MemSimConstants DEF Init
  <2>3. /\ waiting \in [Line -> SUBSET LoadRecord] /\ sent \in [Line -> Seq(Nat)]
        /\ reading \in [Line -> {0, 1}]
    BY <2>1 DEF Init
  <2> QED
    BY <2>1, <2>2, <2>3 DEF Init, TypeOK
<1>2. ldq = <<>> /\ Len(ldq) = 0
  BY EmptySeq DEF Init
<1>3. InSimulator = {} /\ \A a \in Line : reading[a] = 0 /\ Len(sent[a]) = 0
  BY EmptySeq DEF Init, InSimulator
<1>4. QueueHolds
  BY <1>3, FS_EmptySet, MemSimConstants DEF QueueHolds
<1>5. OneRequest /\ QueuedForLoad
  BY <1>2 DEF OneRequest, QueuedForLoad
<1>6. ReadForLoad /\ Recorded
  BY <1>3 DEF ReadForLoad, Recorded
<1>7. NothingForgotten /\ FreshIds /\ ~aborted
  BY DEF Init, NothingForgotten, FreshIds
<1> QED
  BY <1>1, <1>4, <1>5, <1>6, <1>7 DEF Inv

(***************************************************************************)
(* A load joins those that wait for its line, or is the first and puts a   *)
(* request into pending_ld_map.                                            *)
(***************************************************************************)
LEMMA LoadInv ==
  ASSUME Inv, NEW a \in Line, NEW at \in Nat, Load(a, at)
  PROVE  Inv'
<1> USE DEF Load
<1>1. TypeOK /\ ~aborted /\ ~aborted'
  BY DEF Inv, ThreadsRun
<1>2. QueueHolds /\ OneRequest /\ QueuedForLoad /\ ReadForLoad /\ NothingForgotten /\ FreshIds /\ Recorded
  BY <1>1 DEF Inv
<1> DEFINE r == [id |-> issued + 1, at |-> at]
           q == [at |-> at, addr |-> a]
<1>3. r \in LoadRecord /\ q \in Request /\ issued \in Nat /\ waiting' = [waiting EXCEPT ![a] = @ \cup {r}]
  BY <1>1 DEF TypeOK, LoadRecord, Request
<1>4. waiting' \in [Line -> SUBSET LoadRecord]
  BY <1>1, <1>3 DEF TypeOK
<1>5. ldq \in Seq(Request) /\ Len(ldq) \in Nat /\ waiting \in [Line -> SUBSET LoadRecord]
  BY <1>1, LenProperties DEF TypeOK
<1>6. PICK k \in 0 .. Len(ldq) :
        /\ Enqueue(ldq, q) \in Seq(Request) /\ Len(Enqueue(ldq, q)) = Len(ldq) + 1
        /\ \A i \in 1 .. Len(ldq) + 1 : Enqueue(ldq, q)[i] =
             IF i <= k THEN ldq[i] ELSE IF i = k + 1 THEN q ELSE ldq[i - 1]
  BY <1>3, <1>5, EnqueueInserts
<1> DEFINE new == Enqueue(ldq, q)
<1>7. ldq' = IF FirstOf(a) THEN new ELSE ldq
  OBVIOUS
<1>8. TypeOK'
  BY <1>1, <1>3, <1>4, <1>6, <1>7 DEF TypeOK
<1> HIDE DEF new, Load
<1>9. \A b \in Line : waiting[b] \subseteq waiting'[b]
  BY <1>3, <1>5
<1>10. UNCHANGED <<reading, clock, now, target, pc, sent, simulator, log>> /\ issued' = issued + 1
  BY DEF Load
<1>11. ASSUME FirstOf(a)
       PROVE  reading[a] = 0 /\ \A i \in 1 .. Len(ldq) : ldq[i].addr # a
  <2>1. reading[a] # 1
    BY <1>2, <1>11 DEF FirstOf, ReadForLoad
  <2>2. ASSUME NEW i \in 1 .. Len(ldq), ldq[i].addr = a PROVE FALSE
    BY <1>2, <1>11, <2>2 DEF FirstOf, QueuedForLoad
  <2> QED
    BY <1>1, <2>1, <2>2 DEF TypeOK
<1>12. QueueHolds'
  BY <1>2, <1>10 DEF QueueHolds, InSimulator
<1>13. OneRequest' /\ QueuedForLoad'
  <2>1. CASE ~FirstOf(a)
    <3>1. ldq' = ldq
      BY <1>7, <2>1
    <3>2. \A i \in 1 .. Len(ldq) : ldq[i].addr \in Line
      BY <1>5, RequestsTyped
    <3> QED
      BY <1>2, <1>9, <1>10, <3>1, <3>2 DEF OneRequest, QueuedForLoad
  <2>2. CASE FirstOf(a)
    <3>1. ldq' = new /\ Len(new) = Len(ldq) + 1
      BY <1>6, <1>7, <2>2 DEF new
    <3>2. ASSUME NEW i \in 1 .. Len(ldq) + 1
          PROVE  \/ i = k + 1 /\ new[i] = q
                 \/ i <= k /\ i \in 1 .. Len(ldq) /\ new[i] = ldq[i]
                 \/ i > k + 1 /\ i - 1 \in 1 .. Len(ldq) /\ new[i] = ldq[i - 1]
      <4>1. new[i] = IF i <= k THEN ldq[i] ELSE IF i = k + 1 THEN q ELSE ldq[i - 1]
        BY <1>6 DEF new
      <4> QED
        BY <1>5, <4>1
    <3>3. q.addr = a /\ q.at = at
      OBVIOUS
    <3> HIDE DEF q
    <3>4. ASSUME NEW i \in 1 .. Len(ldq) + 1, NEW j \in 1 .. Len(ldq) + 1,
                 new[i].addr = new[j].addr
          PROVE  i = j
      <4>1. \A m, n \in 1 .. Len(ldq) : ldq[m].addr = ldq[n].addr => m = n
        BY <1>2 DEF OneRequest
      <4>2. \A m \in 1 .. Len(ldq) : ldq[m].addr # a
        BY <1>11, <2>2
      <4>3. CASE i = k + 1
        BY <3>2, <3>3, <3>4, <4>2, <4>3
      <4>4. CASE j = k + 1
        BY <3>2, <3>3, <3>4, <4>2, <4>4
      <4>5. CASE i # k + 1 /\ j # k + 1
        <5>1. PICK m \in 1 .. Len(ldq) :
                new[i] = ldq[m] /\ ((i <= k /\ m = i) \/ (i > k + 1 /\ m = i - 1))
          BY <3>2, <4>5
        <5>2. PICK n \in 1 .. Len(ldq) :
                new[j] = ldq[n] /\ ((j <= k /\ n = j) \/ (j > k + 1 /\ n = j - 1))
          BY <3>2, <4>5
        <5>3. m = n
          BY <3>4, <4>1, <5>1, <5>2
        <5> QED
          BY <1>5, <5>1, <5>2, <5>3
      <4> QED
        BY <4>3, <4>4, <4>5
    <3>5. ASSUME NEW i \in 1 .. Len(ldq) + 1
          PROVE  reading[new[i].addr] = 0 /\ \E x \in waiting'[new[i].addr] : x.at = new[i].at
      <4>1. CASE new[i] = q
        <5>1. r \in waiting'[a] /\ r.at = at
          BY <1>3, <1>5
        <5> QED
          BY <1>11, <2>2, <3>3, <4>1, <5>1
      <4>2. CASE \E m \in 1 .. Len(ldq) : new[i] = ldq[m]
        <5>1. PICK m \in 1 .. Len(ldq) : new[i] = ldq[m]
          BY <4>2
        <5>2. ldq[m].addr \in Line
          BY <1>5, RequestsTyped
        <5> QED
          BY <1>2, <1>9, <5>1, <5>2 DEF OneRequest, QueuedForLoad
      <4> QED
        BY <3>2, <4>1, <4>2
    <3> QED
      BY <1>10, <3>1, <3>4, <3>5 DEF OneRequest, QueuedForLoad
  <2> QED
    BY <2>1, <2>2
<1>14. ReadForLoad' /\ Recorded'
  BY <1>2, <1>9, <1>10 DEF ReadForLoad, Recorded, Reached
<1>15. NothingForgotten'
  <2> SUFFICES ASSUME NEW b \in Line, waiting'[b] # {}
               PROVE  reading[b] = 1 \/ \E i \in 1 .. Len(ldq') : ldq'[i].addr = b
    BY <1>10 DEF NothingForgotten
  <2>1. CASE ~FirstOf(a)
    BY <1>2, <1>3, <1>5, <1>7, <2>1 DEF NothingForgotten, FirstOf
  <2>2. CASE FirstOf(a)
    <3>1. ldq' = new /\ Len(ldq') = Len(ldq) + 1
      BY <1>6, <1>7, <2>2 DEF new
    <3>2. CASE b = a
      <4>1. ldq'[k + 1] = q
        BY <1>5, <1>6, <3>1 DEF new
      <4> QED
        BY <1>5, <3>1, <3>2, <4>1
    <3>3. CASE b # a
      <4>1. waiting[b] # {}
        BY <1>3, <1>5, <3>3
      <4>2. CASE reading[b] = 1
        BY <4>2
      <4>3. CASE \E i \in 1 .. Len(ldq) : ldq[i].addr = b
        <5>1. PICK i \in 1 .. Len(ldq) : ldq[i].addr = b
          BY <4>3
        <5>2. CASE i <= k
          BY <1>5, <1>6, <3>1, <5>1, <5>2 DEF new
        <5>3. CASE i > k
          <6>1. i + 1 \in 1 .. Len(ldq) + 1 /\ new[i + 1] = ldq[i]
            BY <1>5, <1>6, <5>3 DEF new
          <6> QED
            BY <3>1, <5>1, <6>1
        <5> QED
          BY <1>5, <5>2, <5>3
      <4> QED
        BY <1>2, <4>1, <4>2, <4>3 DEF NothingForgotten
    <3> QED
      BY <3>2, <3>3
  <2> QED
    BY <2>1, <2>2
<1>16. FreshIds'
  <2>1. \A b \in Line : \A x \in waiting'[b] : x.id <= issued + 1
    <3> TAKE b \in Line
    <3> TAKE x \in waiting'[b]
    <3>1. CASE x \in waiting[b]
      <4>1. x.id \in Nat
        BY <1>5, <3>1 DEF LoadRecord
      <4> QED
        BY <1>2, <1>3, <3>1, <4>1 DEF FreshIds
    <3>2. CASE x = r
      BY <1>3, <3>2
    <3> QED
      BY <1>3, <1>5, <3>1, <3>2
  <2>2. \A l \in log : l.id <= issued + 1
    <3> TAKE l \in log
    <3>1. l.id \in Nat
      BY <1>1 DEF TypeOK, AnswerRecord
    <3> QED
      BY <1>2, <1>3, <3>1 DEF FreshIds
  <2> QED
    BY <1>10, <2>1, <2>2 DEF FreshIds
<1> QED
  BY <1>1, <1>8, <1>12, <1>13, <1>14, <1>15, <1>16 DEF Inv

(***************************************************************************)
(* Stores keep to a queue of their own.                                    *)
(***************************************************************************)
LEMMA StoreInv ==
  ASSUME Inv, NEW a \in Line, NEW at \in Nat, Store(a, at)
  PROVE  Inv'
<1>1. TypeOK
  BY DEF Inv
<1>2. Enqueue(stq, [at |-> at, addr |-> a]) \in Seq(Request)
  BY <1>1, EnqueueInserts DEF TypeOK, Request
<1>3. TypeOK'
  BY <1>1, <1>2 DEF TypeOK, Store
<1>4. /\ UNCHANGED <<simulator, waiting, log, ldq, sent, reading, clock, target, now, pc, issued, aborted>>
  BY DEF Store
<1> QED
  BY <1>3, <1>4 DEF Inv, QueueHolds, InSimulator, OneRequest, QueuedForLoad, ReadForLoad, Reached,
                    NothingForgotten, FreshIds, Recorded

\* pending_ld_map after a round of insertion
Rest(time) == SubSeq(ldq, LoadsIn(time) + 1, Len(ldq))

(***************************************************************************)
(* A round of insertion keeps every line's request, in the queue or in the *)
(* simulator.                                                              *)
(***************************************************************************)
LEMMA InsertionKeeps ==
  ASSUME Inv, ~aborted, NEW time \in Nat
  PROVE  /\ Rest(time) \in Seq(Request)
         /\ \A i, j \in 1 .. Len(Rest(time)) : Rest(time)[i].addr = Rest(time)[j].addr => i = j
         /\ \A i \in 1 .. Len(Rest(time)) :
              /\ Rest(time)[i].addr \in Line /\ ReadingAfter(time)[Rest(time)[i].addr] = 0
              /\ \E r \in waiting[Rest(time)[i].addr] : r.at = Rest(time)[i].at
         /\ \A a \in Line : ReadingAfter(time)[a] = 1 =>
              \E r \in waiting[a] : r.at <= time \/ (r.at <= clock /\ r.at <= Reached)
         /\ \A a \in Line : waiting[a] # {} =>
              ReadingAfter(time)[a] = 1 \/ \E i \in 1 .. Len(Rest(time)) : Rest(time)[i].addr = a
<1> DEFINE rest == Rest(time)
<1>0. rest = SubSeq(ldq, LoadsIn(time) + 1, Len(ldq))
  BY DEF Rest
<1> HIDE DEF rest
<1>1. TypeOK /\ QueueHolds /\ OneRequest /\ QueuedForLoad /\ ReadForLoad /\ NothingForgotten
  BY DEF Inv
<1>2. ldq \in Seq(Request) /\ Len(ldq) \in Nat
  BY <1>1, LenProperties DEF TypeOK
<1>3. PICK n \in 0 .. Len(ldq) : n = LoadsIn(time)
  BY <1>1, LoadsInserted
<1>4. /\ rest \in Seq(Request) /\ Len(rest) = Len(ldq) - n
      /\ \A i \in 1 .. Len(rest) : rest[i] = ldq[n + i]
      /\ \A i \in 1 .. n : ldq[i].at <= time
  BY <1>0, <1>1, <1>3, LoadsInserted
<1>5. \A i \in 1 .. Len(rest) : n + i \in 1 .. Len(ldq)
  BY <1>2, <1>4
<1>6. /\ ReadingAfter(time) \in [Line -> {0, 1}]
      /\ \A a \in Line : ReadingAfter(time)[a] = 1 <=>
              reading[a] = 1 \/ \E i \in 1 .. n : ldq[i].addr = a
  BY <1>1, <1>3, ReadsInserted
<1>7. \A i, j \in 1 .. Len(rest) : rest[i].addr = rest[j].addr => i = j
  <2> SUFFICES ASSUME NEW i \in 1 .. Len(rest), NEW j \in 1 .. Len(rest), rest[i].addr = rest[j].addr
               PROVE  i = j
    OBVIOUS
  <2>1. n + i = n + j
    BY <1>1, <1>4, <1>5 DEF OneRequest
  <2> QED
    BY <1>2, <1>4, <2>1
<1>8. ASSUME NEW i \in 1 .. Len(rest)
      PROVE  /\ rest[i].addr \in Line /\ ReadingAfter(time)[rest[i].addr] = 0
             /\ \E r \in waiting[rest[i].addr] : r.at = rest[i].at
  <2>1. rest[i] = ldq[n + i] /\ n + i \in 1 .. Len(ldq) /\ n + i > n
    BY <1>2, <1>4, <1>5
  <2>2. rest[i].addr \in Line
    BY <1>4, RequestsTyped
  <2>3. reading[rest[i].addr] = 0
    BY <1>1, <2>1 DEF OneRequest
  <2>4. ~ \E j \in 1 .. n : ldq[j].addr = rest[i].addr
    BY <1>1, <1>2, <1>3, <2>1 DEF OneRequest
  <2>5. PICK a \in Line : a = rest[i].addr
    BY <2>2
  <2>6. ReadingAfter(time)[rest[i].addr] = 0
    BY <1>6, <2>3, <2>4, <2>5
  <2> QED
    BY <1>1, <2>1, <2>2, <2>6 DEF QueuedForLoad
<1>9. ASSUME NEW a \in Line, ReadingAfter(time)[a] = 1
      PROVE  \E r \in waiting[a] : r.at <= time \/ (r.at <= clock /\ r.at <= Reached)
  <2>1. CASE reading[a] = 1
    BY <1>1, <2>1 DEF ReadForLoad
  <2>2. CASE \E i \in 1 .. n : ldq[i].addr = a
    <3>1. PICK i \in 1 .. n : ldq[i].addr = a
      BY <2>2
    <3>2. i \in 1 .. Len(ldq) /\ ldq[i].at <= time
      BY <1>2, <1>4
    <3> QED
      BY <1>1, <3>1, <3>2 DEF QueuedForLoad
  <2> QED
    BY <1>6, <1>9, <2>1, <2>2
<1>10. ASSUME NEW a \in Line, waiting[a] # {}
       PROVE  ReadingAfter(time)[a] = 1 \/ \E i \in 1 .. Len(rest) : rest[i].addr = a
  <2>1. CASE reading[a] = 1
    BY <1>6, <2>1
  <2>2. CASE \E i \in 1 .. Len(ldq) : ldq[i].addr = a
    <3>1. PICK i \in 1 .. Len(ldq) : ldq[i].addr = a
      BY <2>2
    <3>2. CASE i <= n
      BY <1>2, <1>6, <3>1, <3>2
    <3>3. CASE i > n
      <4>1. PICK j \in 1 .. Len(rest) : n + j = i
        BY <1>2, <1>4, <3>3
      <4> QED
        BY <1>4, <3>1, <4>1
    <3>4. i <= n \/ i > n
      BY <1>2
    <3> QED
      BY <3>2, <3>3, <3>4
  <2> QED
    BY <1>1, <1>10, <2>1, <2>2 DEF NothingForgotten
<1> QED
  BY <1>4, <1>7, <1>8, <1>9, <1>10 DEF rest

(***************************************************************************)
(* A tick at a time that is not behind the clock and not after the target. *)
(***************************************************************************)
LEMMA TickInv ==
  ASSUME Inv, NEW time \in Nat, NEW lines \in SUBSET Line, NEW written \in 0 .. WriteRoom,
         Tick(time, lines, written), clock <= time, clock' \in Nat, time <= clock'
  PROVE  Inv'
<1>1. /\ TypeOK /\ ~aborted /\ QueueHolds /\ OneRequest /\ QueuedForLoad /\ ReadForLoad
      /\ NothingForgotten /\ FreshIds /\ Recorded
  BY DEF Inv, Tick
<1>2. /\ pc = "ticks" /\ pc' = "ticks" /\ time <= target /\ target \in Nat /\ clock \in Nat
      /\ \A a \in lines : ReadingAfter(time)[a] > 0
      /\ UNCHANGED <<simulator, target, now, event, issued, stored, kernel>>
  BY <1>1 DEF Tick, TypeOK
<1>3. /\ ReadingAfter(time) \in [Line -> {0, 1}]
      /\ \A a \in Line : ReadingAfter(time)[a] = reading[a] + ReadsOf(time, a)
  BY <1>1, ReadsInserted
<1>4. /\ SentAfter(time) \in [Line -> Seq(Nat)]
      /\ simulator # "DRAMSim2" =>
           \A a \in Line : Len(SentAfter(time)[a]) = ReadingAfter(time)[a]
  BY <1>1, <1>3, TimesInserted DEF Recorded
<1>5. /\ ldq' \in Seq(Request)
      /\ \A i, j \in 1 .. Len(ldq') : ldq'[i].addr = ldq'[j].addr => i = j
      /\ \A i \in 1 .. Len(ldq') :
           /\ ldq'[i].addr \in Line /\ ReadingAfter(time)[ldq'[i].addr] = 0
           /\ \E r \in waiting[ldq'[i].addr] : r.at = ldq'[i].at
      /\ \A a \in Line : ReadingAfter(time)[a] = 1 =>
           \E r \in waiting[a] : r.at <= time \/ (r.at <= clock /\ r.at <= Reached)
      /\ \A a \in Line : waiting[a] # {} =>
           ReadingAfter(time)[a] = 1 \/ \E i \in 1 .. Len(ldq') : ldq'[i].addr = a
  <2>1. ldq' = Rest(time)
    BY DEF Tick, Insert, Rest
  <2>2. /\ Rest(time) \in Seq(Request)
        /\ \A i, j \in 1 .. Len(Rest(time)) : Rest(time)[i].addr = Rest(time)[j].addr => i = j
        /\ \A i \in 1 .. Len(Rest(time)) :
             /\ Rest(time)[i].addr \in Line /\ ReadingAfter(time)[Rest(time)[i].addr] = 0
             /\ \E r \in waiting[Rest(time)[i].addr] : r.at = Rest(time)[i].at
    BY <1>1, InsertionKeeps
  <2>3. /\ \A a \in Line : ReadingAfter(time)[a] = 1 =>
             \E r \in waiting[a] : r.at <= time \/ (r.at <= clock /\ r.at <= Reached)
        /\ \A a \in Line : waiting[a] # {} =>
             ReadingAfter(time)[a] = 1 \/ \E i \in 1 .. Len(Rest(time)) : Rest(time)[i].addr = a
    BY <1>1, InsertionKeeps
  <2> QED
    BY <2>1, <2>2, <2>3
<1>6. /\ reading' = [a \in Line |-> ReadingAfter(time)[a] - (IF a \in lines THEN 1 ELSE 0)]
      /\ writing' = writing + StoresIn(time) - written /\ written <= writing + StoresIn(time)
      /\ ProcessReadRequests(lines, time)
  BY DEF Tick
<1>7. \A a \in lines : ReadingAfter(time)[a] = 1
  BY <1>2, <1>3
<1>8. /\ reading' \in [Line -> {0, 1}]
      /\ \A a \in Line : a \in lines => reading'[a] = 0
      /\ \A a \in Line : a \notin lines => reading'[a] = ReadingAfter(time)[a]
  BY <1>3, <1>6, <1>7
<1>9. simulator # "DRAMSim2" => ~aborted'
  <2> SUFFICES ASSUME simulator # "DRAMSim2", NEW a \in lines, SentAfter(time)[a] = <<>>
               PROVE  FALSE
    BY <1>6 DEF ProcessReadRequests
  <2>1. Len(SentAfter(time)[a]) = 1
    BY <1>4, <1>7
  <2> QED
    BY <2>1, EmptySeq
<1>10. TypeOK'
  <2>1. /\ writing' \in 0 .. WriteRoom /\ stq' \in Seq(Request)
    <3>1. /\ StoresIn(time) \in Nat /\ writing + StoresIn(time) \in 0 .. WriteRoom
          /\ SubSeq(stq, StoresIn(time) + 1, Len(stq)) \in Seq(Request)
      BY <1>1, StoresInserted
    <3>2. PICK m \in 0 .. WriteRoom : m = writing + StoresIn(time)
      BY <3>1
    <3>3. writing' = m - written /\ written <= m
      <4>1. writing \in Nat /\ StoresIn(time) \in Nat /\ written \in Nat
        BY <1>1, <3>1, MemSimConstants DEF TypeOK
      <4> QED
        BY <1>6, <3>2, <4>1
    <3>4. writing' \in 0 .. WriteRoom
      BY <3>3, MemSimConstants
    <3> QED
      BY <3>1, <3>4 DEF Tick, Insert
  <2>2. sent' \in [Line -> Seq(Nat)]
    <3>1. \A a \in Line : SentAfter(time)[a] # <<>> => Tail(SentAfter(time)[a]) \in Seq(Nat)
      BY <1>4, HeadTailProperties
    <3> QED
      BY <1>4, <1>6, <3>1 DEF ProcessReadRequests
  <2>3. waiting' \in [Line -> SUBSET LoadRecord] /\ log' \in SUBSET AnswerRecord /\ aborted' \in BOOLEAN
    <3>1. waiting \in [Line -> SUBSET LoadRecord] /\ log \in SUBSET AnswerRecord
      BY <1>1 DEF TypeOK
    <3>2. \A r \in UNION {waiting[a] : a \in lines} : [id |-> r.id, at |-> r.at, done |-> time] \in AnswerRecord
      BY <3>1 DEF LoadRecord, AnswerRecord
    <3>3. waiting' \in [Line -> SUBSET LoadRecord]
      BY <1>6, <3>1 DEF ProcessReadRequests
    <3>4. log' \in SUBSET AnswerRecord
      BY <1>6, <3>1, <3>2 DEF ProcessReadRequests
    <3> QED
      BY <1>6, <3>3, <3>4 DEF ProcessReadRequests
  <2> QED
    BY <1>1, <1>2, <1>5, <1>8, <2>1, <2>2, <2>3 DEF TypeOK
<1> SUFFICES ASSUME ~aborted'
             PROVE  /\ QueueHolds' /\ OneRequest' /\ QueuedForLoad' /\ ReadForLoad' /\ NothingForgotten'
                    /\ FreshIds' /\ Recorded'
  BY <1>2, <1>9, <1>10 DEF Inv
<1>11. /\ waiting' = [a \in Line |-> IF a \in lines THEN {} ELSE waiting[a]]
       /\ log' = log \cup {[id |-> r.id, at |-> r.at, done |-> time] : r \in UNION {waiting[a] : a \in lines}}
       /\ \A a \in lines : SentAfter(time)[a] # <<>>
       /\ sent' = [a \in Line |-> IF a \in lines /\ SentAfter(time)[a] # <<>>
                                  THEN Tail(SentAfter(time)[a]) ELSE SentAfter(time)[a]]
  BY <1>6 DEF ProcessReadRequests
<1>12. QueueHolds'
  <2>1. \A a \in Line : reading'[a] <= ReadingAfter(time)[a]
    BY <1>3, <1>7, <1>8
  <2> QED
    BY <1>1, <1>8, <2>1, RoomForReads DEF QueueHolds, InSimulator
<1>13. \A i \in 1 .. Len(ldq') : ldq'[i].addr \in Line /\ ldq'[i].addr \notin lines
  BY <1>5, <1>7
<1>14. OneRequest' /\ QueuedForLoad'
  BY <1>5, <1>8, <1>11, <1>13 DEF OneRequest, QueuedForLoad
<1>15. ReadForLoad'
  <2> SUFFICES ASSUME NEW a \in Line, reading'[a] = 1
               PROVE  \E r \in waiting'[a] : r.at <= clock' /\ r.at <= target
    BY <1>2 DEF ReadForLoad, Reached
  <2>1. a \notin lines /\ ReadingAfter(time)[a] = 1
    BY <1>8
  <2>2. PICK r \in waiting[a] : r.at <= time \/ (r.at <= clock /\ r.at <= Reached)
    BY <1>5, <2>1
  <2>3. r.at \in Nat /\ Reached = target
    BY <1>1, <1>2 DEF TypeOK, LoadRecord, Reached
  <2>4. r.at <= clock' /\ r.at <= target
    BY <1>2, <2>2, <2>3
  <2> QED
    BY <1>11, <2>1, <2>4
<1>16. NothingForgotten'
  BY <1>5, <1>8, <1>11 DEF NothingForgotten
<1>17. FreshIds'
  <2>1. issued' = issued
    BY <1>2
  <2>2. \A l \in log' : l.id <= issued
    BY <1>1, <1>11 DEF FreshIds
  <2> QED
    BY <1>1, <1>11, <2>1, <2>2 DEF FreshIds
<1>18. Recorded'
  <2> SUFFICES ASSUME simulator # "DRAMSim2", NEW a \in Line
               PROVE  Len(sent'[a]) = reading'[a]
    BY <1>2 DEF Recorded
  <2>1. Len(SentAfter(time)[a]) = ReadingAfter(time)[a]
    BY <1>4
  <2>2. CASE a \in lines
    <3>1. SentAfter(time)[a] # <<>> /\ SentAfter(time)[a] \in Seq(Nat)
      BY <1>4, <1>11, <2>2
    <3>2. Len(Tail(SentAfter(time)[a])) = Len(SentAfter(time)[a]) - 1
      BY <3>1, HeadTailProperties
    <3> QED
      BY <1>7, <1>8, <1>11, <2>1, <2>2, <3>1, <3>2
  <2>3. CASE a \notin lines
    BY <1>8, <1>11, <2>1, <2>3
  <2> QED
    BY <2>2, <2>3
<1> QED
  BY <1>12, <1>14, <1>15, <1>16, <1>17, <1>18

(***************************************************************************)
(* The end of advance, with a last round of insertion or without.          *)
(***************************************************************************)
LEMMA EndInv ==
  ASSUME Inv, RamulatorEnd \/ NVMSimEnd \/ DramSimEnd
  PROVE  Inv'
<1>1. End
  BY DEF RamulatorEnd, NVMSimEnd, DramSimEnd
<1>2. /\ TypeOK /\ ~aborted /\ QueueHolds /\ OneRequest /\ QueuedForLoad /\ ReadForLoad
      /\ NothingForgotten /\ FreshIds /\ Recorded
  BY <1>1 DEF Inv, End
<1>3. /\ Reached = target /\ target \in Nat /\ Reached' = target /\ clock' = target
      /\ UNCHANGED <<simulator, waiting, log, target, issued, stored, kernel, aborted>>
      /\ now' = target /\ event' = NextEvent(target, ldq') /\ pc' = "idle"
  BY <1>1, <1>2 DEF End, TypeOK, Reached
<1>4. /\ ldq' \in Seq(Request) /\ stq' \in Seq(Request) /\ writing' \in 0 .. WriteRoom
      /\ reading' \in [Line -> {0, 1}] /\ sent' \in [Line -> Seq(Nat)]
      /\ OneRequest' /\ QueuedForLoad' /\ NothingForgotten' /\ Recorded' /\ QueueHolds'
      /\ \A a \in Line : reading'[a] = 1 => \E r \in waiting[a] : r.at <= target
  <2>1. CASE RamulatorEnd
    <3>1. /\ ldq' = Rest(target) /\ reading' = ReadingAfter(target) /\ sent' = SentAfter(target)
          /\ stq' = SubSeq(stq, StoresIn(target) + 1, Len(stq)) /\ writing' = writing + StoresIn(target)
      BY <2>1 DEF RamulatorEnd, Insert, Rest
    <3>2. stq' \in Seq(Request) /\ writing' \in 0 .. WriteRoom
      BY <1>2, <1>3, <3>1, StoresInserted
    <3>3. /\ ReadingAfter(target) \in [Line -> {0, 1}]
          /\ \A a \in Line : ReadingAfter(target)[a] = reading[a] + ReadsOf(target, a)
      BY <1>2, <1>3, ReadsInserted
    <3>4. /\ SentAfter(target) \in [Line -> Seq(Nat)]
          /\ simulator # "DRAMSim2" =>
               \A a \in Line : Len(SentAfter(target)[a]) = ReadingAfter(target)[a]
      BY <1>2, <1>3, <3>3, TimesInserted DEF Recorded
    <3>5. /\ Rest(target) \in Seq(Request)
          /\ \A i, j \in 1 .. Len(Rest(target)) : Rest(target)[i].addr = Rest(target)[j].addr => i = j
          /\ \A i \in 1 .. Len(Rest(target)) :
               /\ Rest(target)[i].addr \in Line /\ ReadingAfter(target)[Rest(target)[i].addr] = 0
               /\ \E r \in waiting[Rest(target)[i].addr] : r.at = Rest(target)[i].at
      BY <1>2, <1>3, InsertionKeeps
    <3>6. /\ \A a \in Line : ReadingAfter(target)[a] = 1 =>
               \E r \in waiting[a] : r.at <= target \/ (r.at <= clock /\ r.at <= Reached)
          /\ \A a \in Line : waiting[a] # {} =>
               \/ ReadingAfter(target)[a] = 1
               \/ \E i \in 1 .. Len(Rest(target)) : Rest(target)[i].addr = a
      BY <1>2, <1>3, InsertionKeeps
    <3>7. QueueHolds'
      <4>1. \A a \in Line : ReadingAfter(target)[a] <= ReadingAfter(target)[a]
        BY <3>3
      <4> QED
        BY <1>2, <1>3, <3>1, <3>3, <4>1, RoomForReads DEF QueueHolds, InSimulator
    <3>8. OneRequest' /\ QueuedForLoad'
      BY <1>3, <3>1, <3>5 DEF OneRequest, QueuedForLoad
    <3>9. NothingForgotten' /\ Recorded'
      BY <1>3, <3>1, <3>4, <3>6 DEF NothingForgotten, Recorded
    <3> QED
      BY <1>3, <3>1, <3>2, <3>3, <3>4, <3>5, <3>6, <3>7, <3>8, <3>9
  <2>2. CASE NVMSimEnd \/ DramSimEnd
    <3>1. UNCHANGED <<ldq, stq, writing, reading, sent>>
      BY <2>2 DEF NVMSimEnd, DramSimEnd
    <3>2. /\ ldq' \in Seq(Request) /\ stq' \in Seq(Request) /\ writing' \in 0 .. WriteRoom
          /\ reading' \in [Line -> {0, 1}] /\ sent' \in [Line -> Seq(Nat)]
      BY <1>2, <3>1 DEF TypeOK
    <3>3. OneRequest' /\ QueuedForLoad' /\ NothingForgotten' /\ Recorded'
      BY <1>2, <1>3, <3>1 DEF OneRequest, QueuedForLoad, NothingForgotten, Recorded
    <3>4. QueueHolds'
      BY <1>2, <3>1 DEF QueueHolds, InSimulator
    <3>5. \A a \in Line : reading'[a] = 1 => \E r \in waiting[a] : r.at <= target
      BY <1>2, <1>3, <3>1 DEF ReadForLoad
    <3> QED
      BY <3>2, <3>3, <3>4, <3>5
  <2> QED
    BY <2>1, <2>2
<1>5. event' \in Nat
  BY <1>3, <1>4, NextEventNat
<1>6. TypeOK'
  BY <1>2, <1>3, <1>4, <1>5 DEF TypeOK
<1>7. ReadForLoad' /\ FreshIds'
  BY <1>2, <1>3, <1>4 DEF ReadForLoad, FreshIds
<1> QED
  BY <1>2, <1>3, <1>4, <1>6, <1>7 DEF Inv

(***************************************************************************)
(* Between the calls: the engine asks for the next event, calls advance    *)
(* for a later time, or starts another kernel at time 0, when nothing      *)
(* waits.                                                                  *)
(***************************************************************************)
LEMMA AnnounceInv ==
  ASSUME Inv, Announce
  PROVE  Inv'
<1>1. TypeOK
  BY DEF Inv
<1>2. event' \in Nat
  BY <1>1, NextEventNat DEF Announce, TypeOK
<1>3. TypeOK'
  BY <1>1, <1>2 DEF TypeOK, Announce, queues
<1>4. /\ UNCHANGED <<simulator, waiting, log, ldq, sent, reading, clock, target, now, issued, aborted>>
      /\ Reached' = Reached
  BY DEF Announce, queues, Reached
<1> QED
  BY <1>3, <1>4 DEF Inv, QueueHolds, InSimulator, OneRequest, QueuedForLoad, ReadForLoad,
                    NothingForgotten, FreshIds, Recorded

LEMMA BeginAdvanceInv ==
  ASSUME Inv, NEW n \in Nat, n > now, BeginAdvance(n)
  PROVE  Inv'
<1>1. TypeOK /\ ~aborted /\ now \in Nat /\ clock \in Nat
  BY DEF Inv, BeginAdvance, TypeOK
<1>2. clock' \in Nat /\ clock <= clock'
  BY <1>1, NextTickAhead DEF BeginAdvance
<1>3. TypeOK'
  BY <1>1, <1>2 DEF TypeOK, BeginAdvance, queues
<1>4. /\ UNCHANGED <<simulator, waiting, log, ldq, sent, reading, now, issued, aborted>>
      /\ Reached = now /\ Reached' = n
  BY DEF BeginAdvance, queues, Reached
<1>5. ReadForLoad'
  <2> SUFFICES ASSUME NEW a \in Line, reading[a] = 1
               PROVE  \E r \in waiting[a] : r.at <= clock' /\ r.at <= n
    BY <1>4 DEF ReadForLoad
  <2>1. PICK r \in waiting[a] : r.at <= clock /\ r.at <= now
    BY <1>1, <1>4 DEF Inv, ReadForLoad
  <2>2. r.at \in Nat
    BY <1>1 DEF TypeOK, LoadRecord
  <2> QED
    BY <1>1, <1>2, <2>1, <2>2
<1> QED
  BY <1>1, <1>3, <1>4, <1>5 DEF Inv, QueueHolds, InSimulator, OneRequest, QueuedForLoad,
                          NothingForgotten, FreshIds, Recorded

LEMMA NextKernelInv ==
  ASSUME Inv, NextKernel
  PROVE  Inv'
<1>1. TypeOK /\ ~aborted /\ ReadForLoad
  BY DEF Inv, NextKernel
<1>2. TypeOK'
  BY <1>1 DEF TypeOK, NextKernel, queues
<1>3. /\ UNCHANGED <<simulator, waiting, log, ldq, sent, reading, clock, target, issued, aborted>>
      /\ \A a \in Line : waiting[a] = {}
  BY DEF NextKernel, queues
<1>4. ReadForLoad'
  BY <1>1, <1>3 DEF ReadForLoad
<1> QED
  BY <1>2, <1>3, <1>4 DEF Inv, QueueHolds, InSimulator, OneRequest, QueuedForLoad,
                          NothingForgotten, FreshIds, Recorded

(***************************************************************************)
(* The ticks of the three adapters are ticks at such a time.               *)
(***************************************************************************)
LEMMA AdapterTicks ==
  ASSUME Inv, NEW lines \in SUBSET Line, NEW written \in 0 .. WriteRoom,
         RamulatorTick(lines, written) \/ NVMSimTick(lines, written) \/ DramSimTick(lines, written)
  PROVE  \E time \in Nat : /\ Tick(time, lines, written)
                           /\ clock <= time /\ clock' \in Nat /\ time <= clock'
<1>1. TypeOK /\ clock \in Nat /\ CpuTicks \in Nat
  BY MemSimConstants DEF Inv, TypeOK
<1>2. CASE RamulatorTick(lines, written) \/ NVMSimTick(lines, written)
  <2>1. Tick(clock, lines, written) /\ clock' = clock + CpuTicks
    BY <1>2 DEF RamulatorTick, NVMSimTick
  <2>2. clock <= clock /\ clock' \in Nat /\ clock <= clock'
    BY <1>1, <2>1
  <2> QED
    BY <1>1, <2>1, <2>2
<1>3. CASE DramSimTick(lines, written)
  <2>1. NextTick \in Nat /\ clock <= NextTick
    BY <1>1, NextTickAhead
  <2>2. Tick(NextTick, lines, written) /\ clock' = NextTick
    BY <1>3 DEF DramSimTick
  <2>3. clock' \in Nat /\ NextTick <= clock'
    BY <2>1, <2>2
  <2> QED
    BY <2>1, <2>2, <2>3
<1> QED
  BY <1>2, <1>3

(***************************************************************************)
(* Every step keeps the invariant.                                         *)
(***************************************************************************)
LEMMA NextInv ==
  ASSUME Inv, [Next]_vars
  PROVE  Inv'
<1>1. TypeOK /\ now \in Nat /\ Far \in Nat
  BY MemSimConstants DEF Inv, TypeOK
<1>2. ASSUME NEW a \in Line, NEW at \in now .. now + Far, Load(a, at) \/ Store(a, at)
      PROVE  Inv'
  <2>1. at \in Nat
    BY <1>1
  <2> QED
    BY <1>2, <2>1, LoadInv, StoreInv
<1>3. ASSUME NEW n \in now + 1 .. SmallerOf(event, MaxTime), BeginAdvance(n)
      PROVE  Inv'
  <2>1. SmallerOf(event, MaxTime) \in Nat
    BY <1>1, MemSimConstants DEF SmallerOf, TypeOK
  <2>2. n \in Nat /\ n > now
    BY <1>1, <2>1
  <2> QED
    BY <1>3, <2>2, BeginAdvanceInv
<1>4. ASSUME NEW lines \in SUBSET Line, NEW written \in 0 .. WriteRoom,
             RamulatorTick(lines, written) \/ NVMSimTick(lines, written) \/ DramSimTick(lines, written)
      PROVE  Inv'
  <2>1. PICK time \in Nat : /\ Tick(time, lines, written)
                            /\ clock <= time /\ clock' \in Nat /\ time <= clock'
    BY <1>4, AdapterTicks
  <2> QED
    BY <2>1, TickInv
<1>5. CASE UNCHANGED vars
  <2>1. /\ UNCHANGED <<simulator, waiting, log, ldq, stq, sent, reading, writing, clock, target, now>>
        /\ UNCHANGED <<event, pc, issued, stored, kernel, aborted>>
    BY <1>5 DEF vars, queues
  <2>2. TypeOK'
    BY <1>1, <2>1 DEF TypeOK
  <2>3. Reached' = Reached /\ InSimulator' = InSimulator
    BY <2>1 DEF Reached, InSimulator
  <2> QED
    BY <2>1, <2>2, <2>3 DEF Inv, QueueHolds, OneRequest, QueuedForLoad, ReadForLoad, NothingForgotten,
                            FreshIds, Recorded
<1>6. CASE Announce \/ NextKernel
  BY <1>6, AnnounceInv, NextKernelInv
<1>7. CASE RamulatorEnd \/ NVMSimEnd \/ DramSimEnd
  BY <1>7, EndInv
<1> QED
  BY <1>2, <1>3, <1>4, <1>5, <1>6, <1>7 DEF Next

-----------------------------------------------------------------------------
(***************************************************************************)
(* The types hold, and the assertion of process_read_requests, that an     *)
(* insertion was recorded for the read that is answered                    *)
(* (src/engine/ar_memsim.cpp:91), does not fail under the adapters for     *)
(* Ramulator and NVDIMMSim.                                                *)
(***************************************************************************)
AssertionHolds == simulator # "DRAMSim2" => ~aborted

(***************************************************************************)
(* A line with waiting loads has its one request in pending_ld_map or in   *)
(* the simulator, and none of either is there for a line without           *)
(* (MemObj::load and start_complete, src/engine/ar_memobj.cpp).            *)
(***************************************************************************)
NoneForgotten ==
  ~aborted => \A a \in Line :
    (waiting[a] # {}) <=> (reading[a] = 1 \/ \E i \in 1 .. Len(ldq) : ldq[i].addr = a)

(***************************************************************************)
(* The inductive invariant, and what follows from it for every number of   *)
(* lines, loads and kernels, tick length and queue lengths.                *)
(***************************************************************************)
THEOREM InvHolds == Spec => []Inv
<1>1. Init => Inv
  BY InitInv
<1>2. Inv /\ [Next]_vars => Inv'
  BY NextInv
<1> QED
  BY <1>1, <1>2, PTL DEF Spec

THEOREM TypeCorrect == Spec => [](TypeOK /\ AssertionHolds)
<1>1. Inv => TypeOK /\ AssertionHolds
  BY DEF Inv, AssertionHolds
<1> QED
  BY <1>1, InvHolds, PTL

THEOREM LoadsKept == Spec => []NoneForgotten
<1>1. Inv => NoneForgotten
  <2> SUFFICES ASSUME Inv, ~aborted, NEW a \in Line
               PROVE  (waiting[a] # {}) <=> (reading[a] = 1 \/ \E i \in 1 .. Len(ldq) : ldq[i].addr = a)
    BY DEF NoneForgotten
  <2>1. NothingForgotten /\ ReadForLoad /\ QueuedForLoad
    BY DEF Inv
  <2> QED
    BY <2>1 DEF NothingForgotten, ReadForLoad, QueuedForLoad
<1> QED
  BY <1>1, InvHolds, PTL

-----------------------------------------------------------------------------
(***************************************************************************)
(* A load asks the abstract memory.                                        *)
(***************************************************************************)
LEMMA LoadAsks ==
  ASSUME Inv, NEW a \in Line, NEW at \in Nat, Load(a, at)
  PROVE  Service!AskSome
<1>1. TypeOK /\ FreshIds /\ issued \in Nat
  BY DEF Inv, Load, ThreadsRun, TypeOK
<1> DEFINE r == [id |-> issued + 1, at |-> at]
<1>2. waiting' = [waiting EXCEPT ![a] = @ \cup {r}] /\ UNCHANGED log
  BY DEF Load
<1>3. r \in waiting'[a]
  BY <1>1, <1>2 DEF TypeOK
<1>4. r.id = issued + 1 /\ r.id \in Nat /\ r.at \in Nat
  BY <1>1
<1> HIDE DEF r
<1>5. \A b \in Line : \A x \in waiting[b] : x.id # r.id
  <2> TAKE b \in Line
  <2> TAKE x \in waiting[b]
  <2>1. x.id \in Nat /\ x.id <= issued
    BY <1>1 DEF TypeOK, LoadRecord, FreshIds
  <2> QED
    BY <1>1, <1>4, <2>1
<1>6. \A l \in log : l.id # r.id
  <2> TAKE l \in log
  <2>1. l.id \in Nat /\ l.id <= issued
    BY <1>1 DEF TypeOK, AnswerRecord, FreshIds
  <2> QED
    BY <1>1, <1>4, <2>1
<1>7. r.id \notin Service!Ids(log) \cup UNION {Service!Ids(waiting[b]) : b \in Line}
  BY <1>5, <1>6 DEF Service!Ids
<1>8. Service!Ask(a, r)
  BY <1>2, <1>4, <1>7 DEF Service!Ask
<1> QED
  BY <1>3, <1>8 DEF Service!AskSome

(***************************************************************************)
(* A tick answers the loads of its lines, or nothing.                      *)
(***************************************************************************)
LEMMA TickAnswers ==
  ASSUME Inv, NEW time \in Nat, NEW lines \in SUBSET Line, NEW written \in 0 .. WriteRoom,
         Tick(time, lines, written), clock <= time
  PROVE  Service!AnswerSome \/ UNCHANGED <<waiting, log>>
<1>1. TypeOK /\ ~aborted /\ QueueHolds /\ OneRequest /\ clock \in Nat
  BY DEF Inv, Tick, TypeOK
<1>2. ReadingAfter(time) \in [Line -> {0, 1}] /\ \A a \in lines : ReadingAfter(time)[a] = 1
  BY <1>1, ReadsInserted DEF Tick
<1>3. ProcessReadRequests(lines, time)
  BY DEF Tick
<1>4. CASE aborted'
  <2>1. log' = log
    BY <1>3, <1>4 DEF ProcessReadRequests
  <2>2. waiting' = [a \in Line |-> waiting[a]]
    BY <1>3, <1>4 DEF ProcessReadRequests
  <2> QED
    BY <1>1, <2>1, <2>2 DEF TypeOK
<1>5. CASE ~aborted'
  <2>1. /\ waiting' = [a \in Line |-> IF a \in lines THEN {} ELSE waiting[a]]
        /\ log' = log \cup {[id |-> r.id, at |-> r.at, done |-> time] :
                              r \in UNION {waiting[a] : a \in lines}}
    BY <1>3, <1>5 DEF ProcessReadRequests
  <2>2. \A a \in lines : \E r \in waiting[a] : r.at <= time
    <3> TAKE a \in lines
    <3>1. PICK r \in waiting[a] : r.at <= time \/ (r.at <= clock /\ r.at <= Reached)
      BY <1>1, <1>2, InsertionKeeps
    <3>2. r.at \in Nat
      BY <1>1 DEF TypeOK, LoadRecord
    <3> QED
      BY <1>1, <3>1, <3>2
  <2>3. Service!Answer(lines, time)
    BY <2>1, <2>2 DEF Service!Answer
  <2>4. CASE lines = {}
    <3>1. waiting' = [a \in Line |-> waiting[a]] /\ log' = log
      BY <2>1, <2>4
    <3> QED
      BY <1>1, <3>1 DEF TypeOK
  <2>5. CASE lines # {}
    <3>1. PICK a \in lines : TRUE
      BY <2>5
    <3>2. PICK r \in waiting[a] : TRUE
      BY <2>2
    <3> DEFINE l == [id |-> r.id, at |-> r.at, done |-> time]
    <3>3. l \in log' /\ l.done = time
      BY <2>1
    <3> HIDE DEF l
    <3>4. Service!Answer(lines, l.done)
      BY <2>3, <3>3
    <3> QED
      BY <3>3, <3>4 DEF Service!AnswerSome
  <2> QED
    BY <2>4, <2>5
<1> QED
  BY <1>4, <1>5

(***************************************************************************)
(* The memory object over each of the three adapters implements the        *)
(* memory the caches count on: every load is answered once, all that wait  *)
(* for a line together, and not before the first of them could be sent.    *)
(***************************************************************************)
THEOREM MemSimImplementsService == Spec => ImplementsService
<1>1. Init => Service!Init
  BY DEF Init, Service!Init
<1>2. ASSUME Inv, [Next]_vars
      PROVE  [Service!AskSome \/ Service!AnswerSome]_<<waiting, log>>
  <2>1. TypeOK /\ now \in Nat /\ Far \in Nat
    BY <1>2, MemSimConstants DEF Inv, TypeOK
  <2>2. ASSUME NEW a \in Line, NEW at \in now .. now + Far, Load(a, at) \/ Store(a, at)
        PROVE  Service!AskSome \/ UNCHANGED <<waiting, log>>
    <3>1. at \in Nat
      BY <2>1
    <3>2. Store(a, at) => UNCHANGED <<waiting, log>>
      BY DEF Store
    <3> QED
      BY <1>2, <2>2, <3>1, <3>2, LoadAsks
  <2>3. ASSUME NEW lines \in SUBSET Line, NEW written \in 0 .. WriteRoom,
               RamulatorTick(lines, written) \/ NVMSimTick(lines, written) \/ DramSimTick(lines, written)
        PROVE  Service!AnswerSome \/ UNCHANGED <<waiting, log>>
    <3>1. PICK time \in Nat : Tick(time, lines, written) /\ clock <= time
      BY <1>2, <2>3, AdapterTicks
    <3> QED
      BY <1>2, <3>1, TickAnswers
  <2>4. CASE Announce \/ NextKernel \/ \E n \in now + 1 .. SmallerOf(event, MaxTime) : BeginAdvance(n)
    BY <2>4 DEF Announce, NextKernel, BeginAdvance, queues
  <2>5. CASE RamulatorEnd \/ NVMSimEnd \/ DramSimEnd
    BY <2>5 DEF RamulatorEnd, NVMSimEnd, DramSimEnd, End
  <2>6. CASE UNCHANGED vars
    BY <2>6 DEF vars, queues
  <2> QED
    BY <1>2, <2>2, <2>3, <2>4, <2>5, <2>6 DEF Next
<1> QED
  BY <1>1, <1>2, InvHolds, PTL DEF Spec, ImplementsService, Service!Spec
=============================================================================
