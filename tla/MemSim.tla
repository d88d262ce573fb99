------------------------------- MODULE MemSim -------------------------------
(***************************************************************************)
(* A memory with a simulator: the object that collects the loads of a line *)
(* (class MemObj, src/engine/ar_memobj.cpp) and the adapter that feeds the *)
(* simulator and runs its clock up to the engine's (class MemSim,          *)
(* src/engine/ar_memsim.cpp, and its three subclasses: RamulatorSim,       *)
(* NVMSim and DramSim, ar_ramulator.cpp, ar_nvdsim.cpp, ar_dramsim.cpp).   *)
(*                                                                         *)
(* The simulator itself is external: it has a read and a write queue of    *)
(* bounded length and answers what it holds at any later tick.             *)
(***************************************************************************)
EXTENDS Integers, Sequences, FiniteSets, TLC

CONSTANTS
  Line,         \* addresses, aligned to the memory's access granularity
  CpuTicks,     \* cpu_ticks: cycles of the cores per tick
  ReadRoom, WriteRoom,  \* lengths of the simulator's queues
  Simulators,   \* those to be examined: "Ramulator", "NVDSim", "DRAMSim2"
  Far,          \* bound of the model: how far ahead of its time a request is due
  MaxLoads, MaxStores, MaxTime, Kernels  \* bounds of the model

ASSUME MemSimConstants ==
  /\ CpuTicks \in Nat \ {0} /\ ReadRoom \in Nat \ {0} /\ WriteRoom \in Nat \ {0}
  /\ Simulators \subseteq {"Ramulator", "NVDSim", "DRAMSim2"}
  /\ {Far, MaxLoads, MaxStores, MaxTime, Kernels} \subseteq Nat

\* For TLC: no line is different from the others.
Lines == Permutations(Line)

VARIABLES
  simulator, \* the subclass
  waiting,  \* load_queue of the MemObj: waiting[a], the loads of the line
  log,      \* the answers given: what start_complete passes to the caches
  ldq, stq, \* pending_ld_map, pending_st_map: requests [at, addr], by time
  sent,     \* dispatch_queue_read: when the reads in the simulator were inserted
  reading,  \* reads of each line in the simulator
  writing,  \* writes in the simulator
  clock,    \* cpu_clock
  target,   \* next_cpu_cycle of the call to advance
  now,      \* the engine's time
  event,    \* what get_next_event told the engine
  pc,       \* init_window of the threads, between two turns, inside advance
  issued, stored, kernel,  \* counters for the bounds
  aborted   \* the assertion of process_read_requests has failed

queues == <<simulator, waiting, log, ldq, stq, sent, reading, writing>>
vars == <<queues, clock, target, now, event, pc, issued, stored, kernel, aborted>>

LargerOf(a, b) == IF a > b THEN a ELSE b
SmallerOf(a, b) == IF a < b THEN a ELSE b

Init ==
  /\ simulator \in Simulators
  /\ waiting = [a \in Line |-> {}] /\ log = {}
  /\ ldq = <<>> /\ stq = <<>>
  /\ sent = [a \in Line |-> <<>>] /\ reading = [a \in Line |-> 0] /\ writing = 0
  /\ clock = 0 /\ target = 0 /\ now = 0 /\ event = 0
  /\ pc = "window"
  /\ issued = 0 /\ stored = 0 /\ kernel = 1
  /\ aborted = FALSE

-----------------------------------------------------------------------------
(***************************************************************************)
(* MemObj::load and MemObj::store, while the threads run.  The dispatch    *)
(* time is the time of the thread plus the latency of the caches.          *)
(***************************************************************************)
Enqueue(q, r) ==
  LET before == Cardinality({i \in 1 .. Len(q) : q[i].at <= r.at})
  IN  SubSeq(q, 1, before) \o <<r>> \o SubSeq(q, before + 1, Len(q))

FirstOf(a) == waiting[a] = {}

ThreadsRun == pc \in {"window", "idle"} /\ ~aborted

Load(a, at) ==
  /\ ThreadsRun /\ issued < MaxLoads
  /\ issued' = issued + 1
  /\ ldq' = IF FirstOf(a) THEN Enqueue(ldq, [at |-> at, addr |-> a]) ELSE ldq
  /\ waiting' = [waiting EXCEPT ![a] = @ \cup {[id |-> issued', at |-> at]}]
  /\ UNCHANGED <<simulator, log, stq, sent, reading, writing, clock, target, now, event, pc, stored,
                 kernel, aborted>>

Store(a, at) ==
  /\ ThreadsRun /\ stored < MaxStores
  /\ stored' = stored + 1
  /\ stq' = Enqueue(stq, [at |-> at, addr |-> a])
  /\ UNCHANGED <<simulator, waiting, log, ldq, sent, reading, writing, clock, target, now, event, pc,
                 issued, kernel, aborted>>

-----------------------------------------------------------------------------
(***************************************************************************)
(* get_next_event, which the engine asks for when the threads have filled  *)
(* their windows and after every call of advance.                          *)
(***************************************************************************)
NextEvent(time, loads) ==
  LargerOf((time \div CpuTicks + 1) * CpuTicks, IF loads = <<>> THEN 0 ELSE loads[1].at)

Announce ==
  /\ pc = "window" /\ ~aborted
  /\ event' = NextEvent(clock, ldq)
  /\ pc' = "idle"
  /\ UNCHANGED <<queues, clock, target, now, issued, stored, kernel, aborted>>

(***************************************************************************)
(* advance(next_cpu_cycle), with the earliest event of all memories and    *)
(* threads.  RamulatorSim and NVMSim step the clock to the next tick, and  *)
(* behind every tick; DramSim steps it at the beginning of every tick.     *)
(***************************************************************************)
NextTick == ((clock + CpuTicks) \div CpuTicks) * CpuTicks

BeginAdvance(n) ==
  /\ pc = "idle" /\ ~aborted
  /\ target' = n
  /\ clock' = IF simulator = "DRAMSim2" THEN clock ELSE NextTick
  /\ pc' = "ticks"
  /\ UNCHANGED <<queues, now, event, issued, stored, kernel, aborted>>

(***************************************************************************)
(* try_insert_st and try_insert_ld: what is due enters the simulator in    *)
(* the order of time until its queue refuses one.                          *)
(***************************************************************************)
Due(q, time) == Cardinality({i \in 1 .. Len(q) : \A j \in 1 .. i : q[j].at <= time})
AcceptedEarly(q, time, room) == SmallerOf(Len(q), room)  \* mutant
Accepted(q, time, room) == SmallerOf(Due(q, time), room)
TotalReading == Cardinality(UNION {{a} \X (1 .. reading[a]) : a \in Line})
LoadsIn(time) == Accepted(ldq, time, ReadRoom - TotalReading)
StoresIn(time) == Accepted(stq, time, WriteRoom - writing)

ReadsOf(time, a) == Cardinality({i \in 1 .. LoadsIn(time) : ldq[i].addr = a})
ReadingAfter(time) == [a \in Line |-> reading[a] + ReadsOf(time, a)]
\* dispatch_queue_read, which DramSim never writes
SentAfter(time) ==
  [a \in Line |-> sent[a] \o [i \in 1 .. IF simulator = "DRAMSim2" THEN 0 ELSE ReadsOf(time, a) |-> time]]

(***************************************************************************)
(* One tick: insert, then the simulator answers reads of some lines (at    *)
(* most one of each) and is done with some writes.  An answer takes the    *)
(* first time recorded for its line (process_read_requests) and completes  *)
(* every load that waits for the line (MemObj::start_complete).            *)
(***************************************************************************)
Insert(time) ==
  /\ ldq' = SubSeq(ldq, LoadsIn(time) + 1, Len(ldq))
  /\ stq' = SubSeq(stq, StoresIn(time) + 1, Len(stq))

ProcessReadRequests(lines, time) ==
  /\ aborted' = (\E a \in lines : SentAfter(time)[a] = <<>>)
  /\ sent' = [a \in Line |-> IF a \in lines /\ SentAfter(time)[a] # <<>>
                             THEN Tail(SentAfter(time)[a]) ELSE SentAfter(time)[a]]
  /\ log' = IF aborted' THEN log
            ELSE log \cup {[id |-> r.id, at |-> r.at, done |-> time] :
                             r \in UNION {waiting[a] : a \in lines}}
  /\ waiting' = [a \in Line |-> IF a \in lines /\ ~aborted' THEN {} ELSE waiting[a]]

Tick(time, lines, written) ==
  /\ pc = "ticks" /\ ~aborted /\ time <= target
  /\ \A a \in lines : ReadingAfter(time)[a] > 0
  /\ written <= writing + StoresIn(time)
  /\ Insert(time)
  /\ writing' = writing + StoresIn(time) - written
  /\ reading' = [a \in Line |-> ReadingAfter(time)[a] - (IF a \in lines THEN 1 ELSE 0)]
  /\ ProcessReadRequests(lines, time)
  /\ UNCHANGED <<simulator, target, now, event, pc, issued, stored, kernel>>

RamulatorTick(lines, written) ==
  /\ simulator = "Ramulator"
  /\ Tick(clock, lines, written)
  /\ clock' = clock + CpuTicks

NVMSimTick(lines, written) ==
  /\ simulator = "NVDSim"
  /\ Tick(clock, lines, written)
  /\ clock' = clock + CpuTicks

DramSimTick(lines, written) ==
  /\ simulator = "DRAMSim2"
  /\ Tick(NextTick, lines, written)
  /\ clock' = NextTick

(***************************************************************************)
(* The end of advance, where RamulatorSim offers its requests once more.   *)
(***************************************************************************)
End ==
  /\ pc = "ticks" /\ ~aborted
  /\ clock' = target /\ now' = target
  /\ event' = NextEvent(target, ldq')
  /\ pc' = "idle"
  /\ UNCHANGED <<simulator, waiting, log, target, issued, stored, kernel, aborted>>

RamulatorEnd ==
  /\ simulator = "Ramulator" /\ clock > target
  /\ Insert(target)
  /\ writing' = writing + StoresIn(target)
  /\ reading' = ReadingAfter(target)
  /\ sent' = SentAfter(target)
  /\ End

NVMSimEnd ==
  /\ simulator = "NVDSim" /\ clock > target
  /\ UNCHANGED <<ldq, stq, writing, reading, sent>>
  /\ End

DramSimEnd ==
  /\ simulator = "DRAMSim2" /\ NextTick > target
  /\ UNCHANGED <<ldq, stq, writing, reading, sent>>
  /\ End

(***************************************************************************)
(* The threads are done, so that no load is under way, and the engine      *)
(* starts another kernel at time 0; the simulator's clock stays.           *)
(***************************************************************************)
NextKernel ==
  /\ pc = "idle" /\ ~aborted /\ kernel < Kernels
  /\ \A a \in Line : waiting[a] = {}
  /\ kernel' = kernel + 1
  /\ now' = 0
  /\ pc' = "window"
  /\ UNCHANGED <<queues, clock, target, event, issued, stored, aborted>>

Next ==
  \/ \E a \in Line, at \in now .. now + Far : Load(a, at) \/ Store(a, at)
  \/ Announce
  \/ \E n \in now + 1 .. SmallerOf(event, MaxTime) : BeginAdvance(n)
  \/ \E lines \in SUBSET Line, written \in 0 .. WriteRoom :
       \/ RamulatorTick(lines, written)
       \/ NVMSimTick(lines, written)
       \/ DramSimTick(lines, written)
  \/ RamulatorEnd \/ NVMSimEnd \/ DramSimEnd
  \/ NextKernel

Spec == Init /\ [][Next]_vars

-----------------------------------------------------------------------------

(***************************************************************************)
(* The memory keeps its promise to the caches.                             *)
(***************************************************************************)
Service == INSTANCE MemService
ImplementsService == Service!Spec
=============================================================================
