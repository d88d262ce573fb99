--------------------------- MODULE CacheHierarchy ---------------------------
(***************************************************************************)
(* The caches between the threads and the memories: one first-level cache  *)
(* per core, an optional second level they share, and the load queues of   *)
(* the memory objects below (CacheObj, src/engine/ar_cacheobj.cpp, and     *)
(* MemObj, src/engine/ar_memobj.cpp).  A call runs down the levels and an  *)
(* answer runs up them without interruption, so each is one step.          *)
(*                                                                         *)
(* A set of a cache is the list of its lines, the last used first: what    *)
(* LruSet is proved to implement.  One set per cache is modelled.          *)
(***************************************************************************)
EXTENDS Integers, Sequences, FiniteSets

CONSTANTS
  L1s,       \* the first-level caches
  HasL2,     \* TRUE: they share a second level, the last one
  SimL2,     \* the second level has a simulator of its own
  Lines,     \* line addresses
  PageOf,    \* PageOf[a]: the access unit of a's memory, its load_queue's key
  SimPages,  \* the pages of the memories that have a simulator
  SeveralMems, \* has_hms: find_memobj searches, and stops the program if it fails
  Loads,     \* load requests, each used once
  L1Assoc, L2Assoc,
  L1Latency, L2Latency, MemLatency,  \* cycles of a load
  MaxStores, MaxWarmups, MaxTime,    \* bounds of the model
  Absent     \* no entry in pendingCl_delay_map

ASSUME CacheConstants ==
  /\ HasL2 \in BOOLEAN /\ SimL2 \in BOOLEAN /\ SeveralMems \in BOOLEAN
  /\ L1Assoc \in Nat \ {0} /\ L2Assoc \in Nat \ {0}
  /\ L1Latency \in Nat /\ L2Latency \in Nat /\ MemLatency \in Nat
  /\ MaxStores \in Nat /\ MaxWarmups \in Nat /\ MaxTime \in Nat
  /\ Absent \notin Nat
  /\ "L2" \notin L1s

VARIABLES
  tags,     \* tags[c]: the lines of cache c, the last used first, with their dirty bits
  delay,    \* delay[c][a]: pendingCl_delay_map, 0 while the answer is outstanding
  reqs,     \* reqs[c][a]: pendingCl_req_map
  simq,     \* simq[a]: the second level's load_queue
  memq,     \* memq[page]: the memories' load_queue
  progress, \* progress[r]: "new", then "waiting" (load returned 0) or "answered"
  unsaved,  \* history: lines stored to whose data no memory has yet
  now,      \* the dispatch time of the calls
  stores, warmups,  \* how many of each so far
  panic     \* find_memobj stopped the program

vars == <<tags, delay, reqs, simq, memq, progress, unsaved, now, stores, warmups, panic>>

Caches == L1s \cup {"L2"}
Pages == {PageOf[a] : a \in Lines}

(***************************************************************************)
(* A request on its way: the first-level cache and load it is for, and the *)
(* cache prev_ptr leads back to.                                           *)
(***************************************************************************)
Sender == [from : Caches, line : Lines, l1 : L1s, load : Loads]

Init ==
  /\ tags = [c \in Caches |-> <<>>]
  /\ delay = [c \in Caches |-> [a \in Lines |-> Absent]]
  /\ reqs = [c \in Caches |-> [a \in Lines |-> {}]]
  /\ simq = [a \in Lines |-> <<>>]
  /\ memq = [p \in Pages |-> {}]
  /\ progress = [r \in Loads |-> "new"]
  /\ unsaved = {}
  /\ now = 1
  /\ stores = 0 /\ warmups = 0
  /\ panic = FALSE

-----------------------------------------------------------------------------
AssocOf(c) == IF c = "L2" THEN L2Assoc ELSE L1Assoc
Holds(list, a) == \E i \in 1 .. Len(list) : list[i].line = a
IsDirty(list, a) == \E i \in 1 .. Len(list) : list[i].line = a /\ list[i].dirty

(***************************************************************************)
(* lookup_evict_update on a list of lines.  `out` holds the line displaced *)
(* when it was dirty.                                                      *)
(***************************************************************************)
Without(list, a) ==
  IF Holds(list, a)
  THEN LET i == CHOOSE i \in 1 .. Len(list) : list[i].line = a
       IN  SubSeq(list, 1, i - 1) \o SubSeq(list, i + 1, Len(list))
  ELSE list

UseCleaning(c, list, a, write) ==  \* mutant: a load clears the dirty bit
  LET rest == Without(list, a)
      room == IF Len(rest) = AssocOf(c) THEN AssocOf(c) - 1 ELSE Len(rest)
  IN  [hit |-> Holds(list, a),
       list |-> <<[line |-> a, dirty |-> write]>> \o SubSeq(rest, 1, room),
       out |-> IF room < Len(rest) /\ rest[Len(rest)].dirty THEN {rest[Len(rest)].line} ELSE {}]

Use(c, list, a, write) ==
  LET rest == Without(list, a)
      room == IF Len(rest) = AssocOf(c) THEN AssocOf(c) - 1 ELSE Len(rest)
  IN  [hit |-> Holds(list, a),
       list |-> <<[line |-> a, dirty |-> write \/ IsDirty(list, a)]>> \o SubSeq(rest, 1, room),
       out |-> IF room < Len(rest) /\ rest[Len(rest)].dirty THEN {rest[Len(rest)].line} ELSE {}]

(***************************************************************************)
(* MemObj::load.  Requests for a page join its queue; the simulator is     *)
(* asked once.                                                             *)
(***************************************************************************)
MemAnswer(a, t) == IF PageOf[a] \in SimPages THEN 0 ELSE t + MemLatency
MemQueue(s) ==
  IF PageOf[s.line] \in SimPages
  THEN [memq EXCEPT ![PageOf[s.line]] = @ \cup {s}] ELSE memq

Later(t, u) == IF t < u THEN u ELSE t

(***************************************************************************)
(* What load returns to the context: 0 tells it to wait for complete_op.   *)
(***************************************************************************)
Settle(r, complete) ==
  progress' = [progress EXCEPT ![r] = IF complete = 0 THEN "waiting" ELSE "answered"]

-----------------------------------------------------------------------------
(***************************************************************************)
(* CacheObj::load at a first-level cache x for load r of line a, when the  *)
(* line is on its way already.                                             *)
(***************************************************************************)
LoadForgotten(x, r, a) ==  \* mutant: the request is not recorded
  /\ delay[x][a] # Absent
  /\ Settle(r, IF delay[x][a] = 0 THEN 0 ELSE Later(now, delay[x][a]) + L1Latency)
  /\ UNCHANGED <<tags, delay, reqs, simq, memq, unsaved, panic>>

LoadPending(x, r, a) ==
  /\ delay[x][a] # Absent
  /\ reqs' = IF delay[x][a] = 0 THEN [reqs EXCEPT ![x][a] = @ \cup {r}] ELSE reqs
  /\ Settle(r, IF delay[x][a] = 0 THEN 0 ELSE Later(now, delay[x][a]) + L1Latency)
  /\ UNCHANGED <<tags, delay, simq, memq, unsaved, panic>>

LoadHit(x, r, a) ==
  /\ delay[x][a] = Absent /\ Holds(tags[x], a)
  /\ tags' = [tags EXCEPT ![x] = Use(x, @, a, FALSE).list]
  /\ Settle(r, now + L1Latency)
  /\ UNCHANGED <<delay, reqs, simq, memq, unsaved, panic>>

(***************************************************************************)
(* A first-level miss records what the level below answered.               *)
(***************************************************************************)
Misses(x, a) == delay[x][a] = Absent /\ ~Holds(tags[x], a)

(***************************************************************************)
(* With no second level: the memory, and the displaced line if dirty goes  *)
(* to the memory it belongs to.                                            *)
(***************************************************************************)
LoadFromMemory(x, r, a) ==
  LET own == Use(x, tags[x], a, FALSE)
      complete == MemAnswer(a, now + L1Latency)
  IN  /\ ~HasL2 /\ Misses(x, a)
      /\ memq' = MemQueue([from |-> x, line |-> a, l1 |-> x, load |-> r])
      /\ tags' = [tags EXCEPT ![x] = own.list]
      /\ delay' = [delay EXCEPT ![x][a] = complete]
      /\ reqs' = IF complete = 0 THEN [reqs EXCEPT ![x][a] = {r}] ELSE reqs
      /\ unsaved' = unsaved \ own.out
      /\ Settle(r, complete)
      /\ UNCHANGED <<simq, panic>>

(***************************************************************************)
(* The write-back of a displaced line to the second level: next->store is  *)
(* passed the request in hand, so it stores line a and not the one         *)
(* displaced; the second level then writes its own dirty victim to memory. *)
(* MayPanic: a store that hits the last level (see StoreBelow).            *)
(***************************************************************************)
WriteBack(lowTags, out, a) ==
  IF out = {} THEN [hit |-> FALSE, list |-> lowTags, out |-> {}]
  ELSE Use("L2", lowTags, a, TRUE)

MayPanic(hit) == IF hit /\ SeveralMems THEN BOOLEAN ELSE {FALSE}

(***************************************************************************)
(* CacheObj::load at the second level for a request of x: the line is on   *)
(* its way, held, or fetched from memory.                                  *)
(***************************************************************************)
LoadThroughL2(x, r, a) ==
  LET own == Use(x, tags[x], a, FALSE)
      low == Use("L2", tags["L2"], a, FALSE)
      s   == [from |-> x, line |-> a, l1 |-> x, load |-> r]
      t   == now + L1Latency
      wait == delay["L2"][a]
      Returned(complete, lowTags, lowOut) ==
        LET wb == WriteBack(lowTags, own.out, a)
        IN  /\ tags' = [tags EXCEPT ![x] = own.list, !["L2"] = wb.list]
            /\ unsaved' = unsaved \ (lowOut \cup wb.out)
            /\ panic' \in MayPanic(wb.hit)
            /\ Settle(r, complete)
  IN  /\ HasL2 /\ Misses(x, a)
      /\ \/ /\ wait # Absent
            /\ LET complete == IF wait = 0 THEN 0 ELSE Later(t, wait) + L2Latency
               IN  /\ delay' = [delay EXCEPT ![x][a] = complete]
                   /\ reqs' = IF complete = 0
                              THEN [reqs EXCEPT ![x][a] = {r}, !["L2"][a] = @ \cup {s}]
                              ELSE reqs
                   /\ Returned(complete, tags["L2"], {})
            /\ UNCHANGED <<simq, memq>>
         \/ /\ wait = Absent /\ low.hit
            /\ LET complete == IF SimL2 THEN 0 ELSE t + L2Latency
               IN  /\ delay' = [delay EXCEPT ![x][a] = complete]
                   /\ reqs' = IF complete = 0 THEN [reqs EXCEPT ![x][a] = {r}] ELSE reqs
                   /\ simq' = IF SimL2 THEN [simq EXCEPT ![a] = Append(@, s)] ELSE simq
                   /\ Returned(complete, low.list, {})
            /\ UNCHANGED memq
         \/ /\ wait = Absent /\ ~low.hit
            /\ LET complete == MemAnswer(a, t + (IF SimL2 THEN 0 ELSE L2Latency))
               IN  /\ delay' = [delay EXCEPT ![x][a] = complete, !["L2"][a] = complete]
                   /\ reqs' = IF complete = 0
                              THEN [reqs EXCEPT ![x][a] = {r}, !["L2"][a] = {s}]
                              ELSE reqs
                   /\ memq' = MemQueue([s EXCEPT !.from = "L2"])
                   /\ Returned(complete, low.list, low.out)
            /\ UNCHANGED simq

Load(x, r, a) ==
  /\ progress[r] = "new"
  /\ LoadPending(x, r, a) \/ LoadHit(x, r, a) \/ LoadFromMemory(x, r, a) \/ LoadThroughL2(x, r, a)
  /\ UNCHANGED <<now, stores, warmups>>

-----------------------------------------------------------------------------
(***************************************************************************)
(* CacheObj::store.  After a hit the dirty bit and the address of the      *)
(* record lookup_evict_update returns are uninitialised, and store tests   *)
(* the bit all the same: `junk` says whether it reads as dirty.  The last  *)
(* level then hands a leftover address to find_memobj.                     *)
(***************************************************************************)
StoreBelow(x, a, junk) ==
  LET own == Use(x, tags[x], a, TRUE)
      low == Use("L2", tags["L2"], a, TRUE)
      sends == IF own.hit THEN junk ELSE own.out # {}
  IN  IF ~HasL2
      THEN /\ tags' = [tags EXCEPT ![x] = own.list]
           /\ unsaved' = (unsaved \cup {a}) \ own.out
           /\ panic' \in MayPanic(own.hit /\ junk)
      ELSE IF ~sends
      THEN /\ tags' = [tags EXCEPT ![x] = own.list]
           /\ unsaved' = unsaved \cup {a}
           /\ UNCHANGED panic
      ELSE /\ tags' = [tags EXCEPT ![x] = own.list, !["L2"] = low.list]
           /\ unsaved' = (unsaved \cup {a}) \ low.out
           /\ panic' \in MayPanic(low.hit)

Store(x, a) ==
  /\ stores < MaxStores
  /\ stores' = stores + 1
  /\ \E junk \in BOOLEAN : StoreBelow(x, a, junk)
  /\ UNCHANGED <<delay, reqs, simq, memq, progress, now, warmups>>

(***************************************************************************)
(* CacheObj::lookup, the warm-up between two kernels, when no load is out: *)
(* a miss goes on to the next level, and a line it displaces is dropped    *)
(* without a write-back.                                                   *)
(***************************************************************************)
Warmup(x, a, write) ==
  LET own == Use(x, tags[x], a, write)
      low == Use("L2", tags["L2"], a, write)
      goesOn == HasL2 /\ ~own.hit
  IN  /\ warmups < MaxWarmups
      /\ \A r \in Loads : progress[r] # "waiting"
      /\ warmups' = warmups + 1
      /\ tags' = IF goesOn THEN [tags EXCEPT ![x] = own.list, !["L2"] = low.list]
                 ELSE [tags EXCEPT ![x] = own.list]
      /\ unsaved' = unsaved \ (own.out \cup IF goesOn THEN low.out ELSE {})
      /\ UNCHANGED <<delay, reqs, simq, memq, progress, now, stores, panic>>

-----------------------------------------------------------------------------
(***************************************************************************)
(* prop_complete: a line arrives at a set of first-level caches, each a    *)
(* pair <<cache, line>>; every load waiting there is answered.  `l2`        *)
(* holds the lines that arrive at the second level on the way.             *)
(***************************************************************************)
Arrive(pairs, l2) ==
  LET done == UNION {reqs[q[1]][q[2]] : q \in pairs}
      here == pairs \cup ({"L2"} \X l2)
  IN  /\ delay' = [c \in Caches |-> [a \in Lines |->
                     IF <<c, a>> \in here THEN Absent ELSE delay[c][a]]]
      /\ reqs' = [c \in Caches |-> [a \in Lines |->
                     IF <<c, a>> \in here THEN {} ELSE reqs[c][a]]]
      /\ progress' = [r \in Loads |-> IF r \in done THEN "answered" ELSE progress[r]]

(***************************************************************************)
(* MemObj::start_complete, called by the memory's simulator: the whole     *)
(* queue of the page is answered.                                          *)
(***************************************************************************)
L2Arrivals(p) == {s.line : s \in {q \in memq[p] : q.from = "L2"}}
FirstArrivals(p) ==  \* mutant: of the requests merged at the second level one is answered
  {<<s.l1, s.line>> : s \in {q \in memq[p] : q.from # "L2"}
                            \cup {CHOOSE q \in reqs["L2"][a] : TRUE : a \in L2Arrivals(p)}}
L1Arrivals(p) ==
  {<<s.l1, s.line>> : s \in {q \in memq[p] : q.from # "L2"}
                            \cup UNION {reqs["L2"][a] : a \in L2Arrivals(p)}}

MemoryAnswers(p) ==
  /\ memq[p] # {}
  /\ Arrive(L1Arrivals(p), L2Arrivals(p))
  /\ memq' = [memq EXCEPT ![p] = {}]
  /\ UNCHANGED <<tags, simq, unsaved, now, stores, warmups, panic>>

(***************************************************************************)
(* CacheObj::start_complete, called by the second level's simulator: the   *)
(* first request for the line is answered.                                 *)
(***************************************************************************)
L2AnswersOnce(a) ==  \* mutant: the whole queue is dropped
  /\ simq[a] # <<>>
  /\ Arrive({<<Head(simq[a]).l1, a>>}, {})
  /\ simq' = [simq EXCEPT ![a] = <<>>]
  /\ UNCHANGED <<tags, memq, unsaved, now, stores, warmups, panic>>

L2Answers(a) ==
  /\ simq[a] # <<>>
  /\ Arrive({<<Head(simq[a]).l1, a>>}, {})
  /\ simq' = [simq EXCEPT ![a] = Tail(@)]
  /\ UNCHANGED <<tags, memq, unsaved, now, stores, warmups, panic>>

Tick ==
  /\ now < MaxTime
  /\ now' = now + 1
  /\ UNCHANGED <<tags, delay, reqs, simq, memq, progress, unsaved, stores, warmups, panic>>

Next ==
  /\ ~panic
  /\ \/ \E x \in L1s, a \in Lines : \/ \E r \in Loads : Load(x, r, a)
                                    \/ Store(x, a)
                                    \/ \E w \in BOOLEAN : Warmup(x, a, w)
     \/ \E p \in Pages : MemoryAnswers(p)
     \/ \E a \in Lines : L2Answers(a)
     \/ Tick

(***************************************************************************)
(* A simulator that was given a read answers it.                           *)
(***************************************************************************)
Fairness ==
  /\ \A p \in Pages : WF_vars(~panic /\ MemoryAnswers(p))
  /\ \A a \in Lines : WF_vars(~panic /\ L2Answers(a))

Spec == Init /\ [][Next]_vars
FairSpec == Spec /\ Fairness

-----------------------------------------------------------------------------
(* What the caches must guarantee.                                          *)

Line == [line : Lines, dirty : BOOLEAN]

(***************************************************************************)
(* Type correctness of the maps and queues of CacheObj and MemObj: no set  *)
(* of a cache outgrows its associativity, and each queue holds requests of *)
(* the kind and for the address it is filed under.                         *)
(***************************************************************************)
TagsOK ==
  /\ tags \in [Caches -> Seq(Line)]
  /\ \A c \in Caches : Len(tags[c]) <= AssocOf(c)

SenderTo(a) == {s \in Sender : s.line = a /\ s.from = s.l1}

MapsOK ==
  /\ delay \in [Caches -> [Lines -> Nat \cup {Absent}]]
  /\ reqs \in [Caches -> [Lines -> SUBSET (Loads \cup Sender)]]
  /\ \A x \in L1s, a \in Lines : reqs[x][a] \subseteq Loads
  /\ \A a \in Lines : reqs["L2"][a] \subseteq SenderTo(a)

QueuesOK ==
  /\ simq \in [Lines -> Seq(Sender)]
  /\ \A a \in Lines : \A i \in 1 .. Len(simq[a]) : simq[a][i] \in SenderTo(a)
  /\ memq \in [Pages -> SUBSET Sender]
  /\ \A p \in Pages : \A s \in memq[p] :
       PageOf[s.line] = p /\ s.from = IF HasL2 THEN "L2" ELSE s.l1

TypeOK ==
  /\ TagsOK /\ MapsOK /\ QueuesOK
  /\ progress \in [Loads -> {"new", "waiting", "answered"}]
  /\ unsaved \subseteq Lines
  /\ now \in Nat \ {0} /\ stores \in Nat /\ warmups \in Nat /\ panic \in BOOLEAN

(***************************************************************************)
(* A line has requests waiting for it exactly while its delay entry is 0:  *)
(* what prop_complete asserts when the line arrives                        *)
(* (src/engine/ar_cacheobj.cpp:274 and 278).                               *)
(***************************************************************************)
PendingMapsAgree ==
  \A c \in Caches, a \in Lines : reqs[c][a] # {} <=> delay[c][a] = 0

(***************************************************************************)
(* A cache that waits for a line has asked for it exactly once below, and  *)
(* nothing below answers a cache that does not wait: start_complete never  *)
(* meets a cache without the entry it erases, and no line is fetched twice.*)
(***************************************************************************)
AskedBelow(c, a) ==
  ({"cache"} \X {s \in reqs["L2"][a] : s.from = c})
  \cup ({"simulator"} \X {i \in 1 .. Len(simq[a]) : simq[a][i].from = c})
  \cup ({"memory"} \X {s \in memq[PageOf[a]] : s.from = c /\ s.line = a})

ChainUnbroken ==
  \A c \in Caches, a \in Lines :
    IF delay[c][a] = 0 THEN \E q \in AskedBelow(c, a) : AskedBelow(c, a) = {q}
    ELSE AskedBelow(c, a) = {}

(***************************************************************************)
(* A load the context was told to wait for (load returned 0) is recorded   *)
(* in exactly one place, and one that has its answer in none: complete_op  *)
(* reaches every waiting operation once.                                   *)
(***************************************************************************)
HeldAt(r) == {q \in L1s \X Lines : r \in reqs[q[1]][q[2]]}

WaitingIsHeld ==
  \A r \in Loads :
    IF progress[r] = "waiting" THEN \E q \in HeldAt(r) : HeldAt(r) = {q} ELSE HeldAt(r) = {}

(***************************************************************************)
(* The data of a stored line is in a cache that will write it back, or in  *)
(* a memory: the write-backs of load and store (src/engine/                *)
(* ar_cacheobj.cpp:152-169 and 211-227) lose none.                         *)
(***************************************************************************)
DirtyDataTracked ==
  \A a \in unsaved : \E c \in Caches : IsDirty(tags[c], a)

(***************************************************************************)
(* Every load that waits is answered once the simulators answer, however   *)
(* the requests of the cores for a line were merged, unless find_memobj    *)
(* stops the program.                                                      *)
(***************************************************************************)
EveryLoadAnswered ==
  \A r \in Loads : progress[r] = "waiting" ~> progress[r] # "waiting" \/ panic
=============================================================================
