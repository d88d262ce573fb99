------------------------------- MODULE Engine -------------------------------
(***************************************************************************)
(* Engine::exec_node_longstep (src/engine/ar_engine.cpp): the global steps *)
(* of a kernel are shared out among threads, whose contexts and the        *)
(* memory's simulator advance together from one event to the next until    *)
(* all are done; the application may run the kernel again.                 *)
(*                                                                         *)
(* Every thread has a first-level cache of its own.  A load a turn sends   *)
(* is due at the memory `Hop` cycles after the time its port sent it at,   *)
(* the latency of the caches, and                                          *)
(* answered at some tick of the memory's clock, which is here a cycle of   *)
(* the cores: MemSim models how.                                           *)
(***************************************************************************)
EXTENDS ContextOps, SequencesExt

CONSTANTS
  NumThreads,  \* num_threads
  Total,       \* global_control: the global steps of the kernel
  Simulated,   \* mode: the memory has a simulator
  Hop,         \* cycles a load takes to the memory
  MemLatency,  \* bound of the model: ticks within which the memory answers
  Kernels      \* bound of the model: how often the kernel is run

ASSUME EngineConstants ==
  /\ NumThreads \in Nat \ {0} /\ Total \in Nat \ {0}
  /\ Simulated \in BOOLEAN /\ Hop \in Nat /\ MemLatency \in Nat /\ Kernels \in Nat

VARIABLES
  ctx,       \* t_ctx, of the threads that have work
  finished,  \* num_finished_threads
  nextStep,  \* next_step
  memClock,  \* cpu_clock of the memory's simulator, which outlives the kernel
  due,       \* due[t][l]: when the load of line l of thread t is due at the memory
  elapsed,   \* what record_end was told, kernel by kernel
  stepping   \* inside the loop of exec_node_longstep

vars == <<ctx, finished, nextStep, memClock, due, elapsed, stepping>>

-----------------------------------------------------------------------------
(* Whole calls of a context, as the engine makes them: what Context does in *)
(* many steps, here in one.                                                 *)

(***************************************************************************)
(* A loop over a sequence, and a call after a call; the value of the first *)
(* is bound before the second uses it, so that TLC computes it once.       *)
(***************************************************************************)
Then(c, Op(_)) == CHOOSE r \in {Op(v) : v \in {c}} : TRUE
Loop(Op(_, _), c, s) ==
  FoldLeft(LAMBDA acc, x : Then(acc, LAMBDA v : Op(v, x)), c, s)

(***************************************************************************)
(* init_window                                                             *)
(***************************************************************************)
InitWindow(c) ==
  Then(Loop(Dispatch, c, [i \in 1 .. RobLoad(c) |-> i - 1]),
       LAMBDA filled : [filled EXCEPT !.nextEvent = FirstEvent(filled)])

(***************************************************************************)
(* The two loops of advance that offer pending requests to their port.     *)
(***************************************************************************)
OfferLd(c, r) == IF LdPortReady(c, r)
                 THEN [SendLd(c, r) EXCEPT !.hasComplete = TRUE]
                 ELSE [SyncLd(c) EXCEPT !.ldq = Append(@, r)]
RetryLoads(c) == Loop(OfferLd, [c EXCEPT !.ldq = <<>>], c.ldq)

OfferSt(c, r) == IF StPortReady(c, r)
                 THEN [SendSt(c, r) EXCEPT !.hasComplete = TRUE]
                 ELSE [SyncSt(c) EXCEPT !.stq = Append(@, r)]
RetryStores(c) == Loop(OfferSt, [c EXCEPT !.stq = <<>>], c.stq)

(***************************************************************************)
(* The loop of advance over the operations the reorder buffer holds as it  *)
(* begins; a panic ends the program.                                       *)
(***************************************************************************)
NotifyUnlessPanic(c, child) == IF c.panic THEN c ELSE Notify(c, child)
NotifyAll(c, p) == IF c.done THEN c ELSE Loop(NotifyUnlessPanic, c, Children(c, p))
Finish(c, p) ==
  Then([c EXCEPT !.win[p].status = "completed"],
       LAMBDA c1 : Then(IF p = c.head THEN RetireHead(c1) ELSE c1,
                        LAMBDA c2 : NotifyAll(c2, p)))

Turn(c, p) ==
  IF c.panic THEN c
  ELSE IF IsFinished(c, c.win[p]) THEN Finish(c, p)
  ELSE IF c.win[p].status = "completed" /\ p = c.head THEN RetireHead(c)
  ELSE c

Scan(c) ==
  Then(Loop(Turn, [c EXCEPT !.hasComplete = FALSE], [i \in 1 .. RobLoad(c) |-> RingAt(c, i - 1)]),
       LAMBDA turned : [turned EXCEPT !.nextEvent = NextEventAfter(turned)])

(***************************************************************************)
(* advance(t)                                                              *)
(***************************************************************************)
ScanIfDue(c) == IF ~c.hasComplete /\ c.nextEvent > c.cpu THEN c ELSE Scan(c)
Advance(c, t) ==
  IF c.done THEN c
  ELSE Then(Then([c EXCEPT !.cpu = t], RetryLoads),
            LAMBDA loaded : Then(RetryStores(loaded), ScanIfDue))

-----------------------------------------------------------------------------
(***************************************************************************)
(* init_thread_ctx: equal shares, rounded up; the last thread with work    *)
(* may get less and the threads after it count as finished.                *)
(***************************************************************************)
WorkloadDown == Total \div NumThreads  \* mutant
Workload == Total \div NumThreads + (IF Total % NumThreads # 0 THEN 1 ELSE 0)
FirstStep(t) == t * Workload
LastStep(t) == SmallerOf(FirstStep(t) + Workload, Total)
Working == {t \in 0 .. NumThreads - 1 : FirstStep(t) < Total}

(***************************************************************************)
(* The earliest of the events announced; 0 announces none.  The memory     *)
(* announces the tick after its clock or, if later, the first load that is *)
(* not yet due.                                                            *)
(***************************************************************************)
ThreadHeads(contexts) == {GetNextEvent(contexts[t], FALSE) : t \in Working}  \* mutant
ThreadEvents(contexts) == {GetNextEvent(contexts[t], Simulated) : t \in Working}
Earliest(events) == EarliestOf(events \ {0})

Dues(loads) == UNION {{loads[t][l] : l \in DOMAIN loads[t]} : t \in Working}
MemNextEvent(clock, loads) ==
  LET early == {d \in Dues(loads) : d > clock}
  IN  IF ~Simulated THEN {}
      ELSE {IF early = {} THEN clock + 1 ELSE LargerOf(clock + 1, EarliestOf(early))}

(***************************************************************************)
(* The loads the memory has after the threads have sent new ones: of those *)
(* that wait for a line the first went on, at its port's time.             *)
(***************************************************************************)
NoLoads == [t \in Working |-> <<>>]
Loads(contexts, old) ==
  [t \in Working |-> [l \in PendingLines(contexts[t]) |->
     IF l \in DOMAIN old[t] THEN old[t][l]
     ELSE Hop + EarliestOf({contexts[t].win[p].sent :
                              p \in {p \in Outstanding(contexts[t]) : LineOf(p) = l}})]]

Init ==
  /\ ctx = [t \in {} |-> 0]
  /\ finished = 0 /\ nextStep = 0 /\ memClock = 0
  /\ due = NoLoads
  /\ elapsed = <<>>
  /\ stepping = FALSE

StartKernel ==
  /\ ~stepping /\ Len(elapsed) < Kernels
  /\ ctx' = [t \in Working |-> InitWindow(NewContext(FirstStep(t), LastStep(t)))]
  /\ due' = Loads(ctx', NoLoads)
  /\ finished' = NumThreads - Cardinality(Working)
  /\ nextStep' = Earliest(ThreadEvents(ctx') \cup MemNextEvent(memClock, due'))
  /\ stepping' = TRUE
  /\ UNCHANGED <<memClock, elapsed>>

(***************************************************************************)
(* One turn of the loop.  The simulator runs first, through the ticks up   *)
(* to next_step, and answers loads that are due; then it announces its     *)
(* next event; then every thread advances.                                 *)
(***************************************************************************)
Unanswered == UNION {{t} \X DOMAIN due[t] : t \in Working}
DueAt(q) == due[q[1]][q[2]]
Ticks(q) == LargerOf(DueAt(q), memClock + 1) .. nextStep
Overdue == {q \in Unanswered : Ticks(q) # {} /\ DueAt(q) + MemLatency <= nextStep}

Answers ==
  UNION {{a \in [who -> memClock + 1 .. nextStep] : \A q \in who : a[q] \in Ticks(q)} :
           who \in {w \in SUBSET Unanswered : Overdue \subseteq w /\ (Simulated \/ w = {})}}

Told(t, answer) ==
  LET mine == {p \in Outstanding(ctx[t]) : <<t, LineOf(p)>> \in DOMAIN answer}
  IN  IF mine = {} THEN ctx[t]
      ELSE [ctx[t] EXCEPT !.hasComplete = TRUE,
              !.win = [p \in DOMAIN @ |->
                 IF p \in mine THEN [@[p] EXCEPT !.complete = answer[<<t, LineOf(p)>>]] ELSE @[p]]]

StillDue(answer) ==
  [t \in Working |-> [l \in {l \in DOMAIN due[t] : <<t, l>> \notin DOMAIN answer} |-> due[t][l]]]

(***************************************************************************)
(* The threads for which advance returns true: once, as they get done.     *)
(***************************************************************************)
NewlyDone(before, after) == {t \in Working : after[t].done /\ ~before[t].done}

LoopTurn(answer) ==
  /\ stepping /\ finished < NumThreads /\ nextStep < Never
  /\ ctx' = [t \in Working |-> Advance(Told(t, answer), nextStep)]
  /\ due' = Loads(ctx', StillDue(answer))
  /\ finished' = finished + Cardinality(NewlyDone(ctx, ctx'))
  /\ memClock' = IF Simulated THEN nextStep ELSE memClock
  /\ nextStep' = IF finished' < NumThreads
                 THEN Earliest(ThreadEvents(ctx') \cup MemNextEvent(nextStep, StillDue(answer)))
                 ELSE nextStep
  /\ UNCHANGED <<elapsed, stepping>>

(***************************************************************************)
(* record_end and fini_thread_ctx.                                         *)
(***************************************************************************)
EndKernel ==
  /\ stepping /\ finished = NumThreads
  /\ elapsed' = Append(elapsed, nextStep)
  /\ ctx' = [t \in {} |-> 0]
  /\ due' = NoLoads
  /\ stepping' = FALSE
  /\ UNCHANGED <<finished, nextStep, memClock>>

Next == StartKernel \/ (\E answer \in Answers : LoopTurn(answer)) \/ EndKernel

(***************************************************************************)
(* The loop runs on, unless the kernels are over or no event is announced. *)
(* A turn at a time all threads have reached need not change anything: the *)
(* loop may then stay there for ever.                                      *)
(***************************************************************************)
AllRun == ~stepping /\ Len(elapsed) = Kernels
NoEvent == stepping /\ finished < NumThreads /\ nextStep >= Never
Stays == stepping /\ finished < NumThreads /\ \A t \in Working : ctx[t].done \/ ctx[t].cpu = nextStep
Fairness == <>[](AllRun \/ NoEvent \/ Stays) \/ []<><<TRUE>>_vars

Spec == Init /\ [][Next]_vars
FairSpec == Spec /\ Fairness

-----------------------------------------------------------------------------
(* What the engine's loop must guarantee.                                   *)

(***************************************************************************)
(* Every global step of the kernel is fetched by exactly one thread: while *)
(* the kernel runs a step is either past or ahead of the one thread whose  *)
(* share it is in, and when the loop ends none is ahead.                   *)
(***************************************************************************)
ShareOf(t) == FirstStep(t) .. LastStep(t) - 1

EveryStepOnce ==
  /\ \A g \in 0 .. Total - 1 : \E t \in Working : {u \in Working : g \in ShareOf(u)} = {t}
  /\ stepping /\ finished = NumThreads =>
       \A t \in Working : ctx[t].fetched = LastStep(t) /\ ctx[t].load = 0

(***************************************************************************)
(* How far a port gets ahead of its thread: the loads of a reorder buffer, *)
(* Ld of them a cycle, merged ones included, which the line fill buffers   *)
(* do not limit.                                                           *)
(***************************************************************************)
PortLead == (RobDepth + Ld - 2) \div Ld

(***************************************************************************)
(* No event is leapt over for long.  The loop stops at every completion a  *)
(* thread knows of, but for its first turn: a load that awaits its answer  *)
(* makes init_window announce time 0, that is nothing.  It comes late to   *)
(* an answer, since RamulatorSim::get_next_event announces the later of    *)
(* the next tick and the first load not yet due and so forgets the loads   *)
(* in flight; that load left its port ahead of the clock, but by no more   *)
(* than the reorder buffer's loads, and has Hop cycles to go.              *)
(***************************************************************************)
LagBehind(event) == nextStep - LargerOf(event, memClock + 1)

LagBounded ==
  stepping /\ nextStep > memClock =>
    \A t \in Working :
      /\ \A p \in Rob(ctx[t]) :
           ctx[t].win[p].status = "dispatched" /\ ctx[t].win[p].complete > ctx[t].cpu =>
             IF ctx[t].cpu > 0 THEN nextStep <= ctx[t].win[p].complete
             ELSE LagBehind(ctx[t].win[p].complete) < LargerOf(Hop, 1) + PortLead
      /\ \A l \in DOMAIN due[t] : LagBehind(due[t][l]) < LargerOf(Hop, 1) + PortLead

(***************************************************************************)
(* The loop "until all threads are done" (src/engine/ar_engine.cpp:164)    *)
(* ends, and the application gets through all its kernels.                 *)
(***************************************************************************)
AllKernelsEnd == <>(Len(elapsed) = Kernels)
=============================================================================
