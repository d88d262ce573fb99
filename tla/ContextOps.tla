----------------------------- MODULE ContextOps -----------------------------
(***************************************************************************)
(* The instruction window of one Siena thread (class Context,              *)
(* src/engine/ar_context.cpp) as a record, and the functions of the class  *)
(* that change it.  Context drives them one loop iteration at a time;      *)
(* Engine runs whole calls of several contexts.                            *)
(*                                                                         *)
(* A global step of the kernel is a sequence of operation templates        *)
(* (fetch_global_step expands the data nodes into them, see ExecGraph):    *)
(*   type  LOAD or STORE                                                   *)
(*   comp  the arithmetic operations to run first                          *)
(*   prev  how many notifications the operation waits for                  *)
(*   next  the offsets of the operations it notifies, in order             *)
(*   lat   what the first-level cache answers a load with: the cycles to   *)
(*         completion, or 0 when complete_op will tell later               *)
(*   line  which of the step's cache lines it touches; the global steps of *)
(*         a window touch lines of their own                               *)
(***************************************************************************)
EXTENDS Integers, Sequences, FiniteSets

CONSTANTS
  Step,      \* the operation templates of a global step, in order
  RobDepth,  \* rob_depth
  LfbDepth,  \* lfb_depth
  Alu, Ld, St,  \* operations started per cycle: arithmetic, loads, stores
  Never      \* UINT64_MAX, later than every time of a run

W == Len(Step)   \* the watermark: the operations of one global step

OpTemplate == [type : {"LOAD", "STORE"}, comp : Nat, prev : Nat, next : Seq(Nat),
               lat : Nat, line : Nat]

ASSUME ContextConstants ==
  /\ Step \in Seq(OpTemplate) /\ Len(Step) > 0
  /\ RobDepth \in Nat \ {0} /\ LfbDepth \in Nat \ {0}
  /\ Alu \in Nat \ {0} /\ Ld \in Nat \ {0} /\ St \in Nat \ {0}
  /\ Never \in Nat

(***************************************************************************)
(* Edges stay inside a global step and go forward, and an operation waits  *)
(* for as many notifications as there are edges to it.                     *)
(***************************************************************************)
Edges(k) == {e \in (1 .. W) \X (1 .. W) :
               e[2] <= Len(Step[e[1]].next) /\ e[1] + Step[e[1]].next[e[2]] = k}

ASSUME StepIsForward ==
  \A k \in 1 .. W :
    /\ \A n \in 1 .. Len(Step[k].next) : Step[k].next[n] \in 1 .. W - k
    /\ Len(Step[k].next) <= W
    /\ Step[k].prev = Cardinality(Edges(k))

LargerOf(a, b) == IF a > b THEN a ELSE b
SmallerOf(a, b) == IF a < b THEN a ELSE b

-----------------------------------------------------------------------------
(***************************************************************************)
(* The window is a ring of `ib` operations.                                *)
(***************************************************************************)
FreshOp(k) ==
  [status |-> "issued", prev |-> Step[k].prev, type |-> Step[k].type,
   comp |-> Step[k].comp, next |-> Step[k].next, lat |-> Step[k].lat,
   dispatch |-> 0, sent |-> 0, complete |-> 0]

RobLoad(c) == SmallerOf(RobDepth, c.load)
RingAt(c, i) == (c.head + i) % c.ib
Rob(c) == {RingAt(c, i) : i \in 0 .. RobLoad(c) - 1}

(***************************************************************************)
(* Loads the cache has not answered, and its pending lines: loads of one   *)
(* line wait for one answer.                                               *)
(***************************************************************************)
Outstanding(c) ==
  {p \in 0 .. c.ib - 1 : c.win[p].status = "dispatched" /\ c.win[p].complete = 0}

LineOf(p) == <<p \div W, Step[(p % W) + 1].line>>
PendingLines(c) == {LineOf(p) : p \in Outstanding(c)}

(***************************************************************************)
(* init and init_ports; `first` to `last` are the global steps of the      *)
(* thread.  The window is still empty.                                     *)
(***************************************************************************)
WindowOneDeep(total) == SmallerOf(LargerOf(RobDepth \div W, 1), total)  \* mutant
WindowSteps(total) == SmallerOf(LargerOf((4 * RobDepth) \div W, 2), total)

NewContext(first, last) ==
  LET ib == W * WindowSteps(last - first)
  IN  [ib |-> ib, win |-> [p \in 0 .. ib - 1 |-> FreshOp((p % W) + 1)],
       head |-> 0, load |-> ib,
       fetched |-> first + WindowSteps(last - first), last |-> last,
       cpu |-> 0, alu |-> 1, aluLeft |-> Alu, ld |-> 1, ldLeft |-> Ld, st |-> 1, stLeft |-> St,
       ldq |-> <<>>, stq |-> <<>>,
       hasComplete |-> FALSE, nextEvent |-> Never, done |-> FALSE, panic |-> FALSE]

-----------------------------------------------------------------------------
(***************************************************************************)
(* try_dispatch_ld and try_dispatch_st on a request [pos, dispatch]: the   *)
(* port's clock is brought up to the cycle in either case.  A load goes to *)
(* the cache with the port's clock for its time (`sent`), which is ahead   *)
(* of the thread's when the cycle's loads are used up; one on a pending    *)
(* line is answered with it.                                               *)
(***************************************************************************)
LdPortReady(c, r) ==
  /\ r.dispatch <= LargerOf(c.ld, c.cpu)
  /\ Cardinality(PendingLines(c)) < LfbDepth

SyncLd(c) == [c EXCEPT !.ld = LargerOf(c.ld, c.cpu)]

SendLdAlone(c, r) ==  \* mutant
  LET now == LargerOf(c.ld, c.cpu)
      lat == IF LineOf(r.pos) \in PendingLines(c) THEN 0 ELSE c.win[r.pos].lat
  IN  [c EXCEPT !.win[r.pos].status = "dispatched",
                !.win[r.pos].sent = now,
                !.win[r.pos].complete = IF lat = 0 THEN 0 ELSE now + lat,
                !.ld = now + 1]

SendLd(c, r) ==
  LET now == LargerOf(c.ld, c.cpu)
      lat == IF LineOf(r.pos) \in PendingLines(c) THEN 0 ELSE c.win[r.pos].lat
  IN  [c EXCEPT !.win[r.pos].status = "dispatched",
                !.win[r.pos].sent = now,
                !.win[r.pos].complete = IF lat = 0 THEN 0 ELSE now + lat,
                !.ld = IF c.ldLeft = 1 THEN now + 1 ELSE now,
                !.ldLeft = IF c.ldLeft = 1 THEN Ld ELSE c.ldLeft - 1]

StPortReady(c, r) == r.dispatch <= LargerOf(c.st, c.cpu)

SyncSt(c) == [c EXCEPT !.st = LargerOf(c.st, c.cpu)]

(***************************************************************************)
(* The store counts as complete at the port's clock after it has moved.    *)
(***************************************************************************)
SendSt(c, r) ==
  LET now == LargerOf(c.st, c.cpu)
      after == IF c.stLeft = 1 THEN now + 1 ELSE now
  IN  [c EXCEPT !.win[r.pos].status = "dispatched",
                !.win[r.pos].complete = after,
                !.st = after,
                !.stLeft = IF c.stLeft = 1 THEN St ELSE c.stLeft - 1]

(***************************************************************************)
(* The arithmetic part of dispatch: it takes what is left of the cycle and *)
(* spills whole cycles and a remainder into the following ones.            *)
(***************************************************************************)
UseAlu(c, comp) ==
  LET now == LargerOf(c.alu, c.cpu)
      rest == comp - c.aluLeft
  IN  IF comp < c.aluLeft
      THEN [c EXCEPT !.alu = now, !.aluLeft = c.aluLeft - comp]
      ELSE [c EXCEPT !.alu = now + 1 + (rest \div Alu), !.aluLeft = Alu - (rest % Alu)]

(***************************************************************************)
(* dispatch                                                                *)
(***************************************************************************)
Dispatch(c, p) ==
  LET op == c.win[p]
      c1 == IF op.comp = 0 THEN c ELSE UseAlu(c, op.comp)
      t  == IF op.comp = 0 THEN c.cpu ELSE c1.alu
      c2 == [c1 EXCEPT !.win[p].dispatch = t, !.win[p].comp = 0]
      r  == [pos |-> p, dispatch |-> t]
  IN  IF op.prev > 0
      THEN [c EXCEPT !.win[p].status = "pending", !.win[p].dispatch = 0]
      ELSE IF op.type = "LOAD"
      THEN IF LdPortReady(c2, r)
           THEN SendLd(c2, r)
           ELSE [SyncLd(c2) EXCEPT !.win[p].status = "pending", !.ldq = Append(@, r)]
      ELSE IF StPortReady(c2, r)
           THEN SendSt(c2, r)
           ELSE [SyncSt(c2) EXCEPT !.win[p].status = "pending", !.stq = Append(@, r)]

-----------------------------------------------------------------------------
(***************************************************************************)
(* fetch_global_step, n times: whole global steps after the last operation *)
(* of the window.                                                          *)
(***************************************************************************)
FetchSteps(c, n) ==
  LET start == (c.head + c.load) % c.ib
      place(p) == (p - start + c.ib) % c.ib
  IN  [c EXCEPT !.win = [p \in 0 .. c.ib - 1 |->
                           IF place(p) < n * W THEN FreshOp((place(p) % W) + 1) ELSE @[p]],
                !.load = @ + n * W,
                !.fetched = @ + n]

(***************************************************************************)
(* How often retire_head's loop fetches: while a step fits and one is      *)
(* left.                                                                   *)
(***************************************************************************)
StepsToFetch(c) ==
  IF c.load < RobDepth THEN SmallerOf((c.ib - c.load) \div W, c.last - c.fetched) ELSE 0

(***************************************************************************)
(* retire_head: the head leaves, the window is refilled when it no longer  *)
(* fills the reorder buffer, the operation that enters the reorder buffer  *)
(* is dispatched.                                                          *)
(***************************************************************************)
After(c, p) == IF p + 1 = c.ib THEN 0 ELSE p + 1

NothingToFetch(c) == c.fetched = c.last  \* mutant
NothingLeft(c) == c.load = 0 /\ c.fetched = c.last

RetireHead(c) ==
  LET c1 == [c EXCEPT !.head = After(c, @), !.load = @ - 1]
      c2 == FetchSteps(c1, StepsToFetch(c1))
      c3 == IF c2.load >= RobDepth THEN Dispatch(c2, RingAt(c2, RobDepth - 1)) ELSE c2
  IN  [c3 EXCEPT !.done = @ \/ NothingLeft(c3)]

(***************************************************************************)
(* advance finishes an operation whose answer has come, and then reads     *)
(* whom to notify.                                                         *)
(***************************************************************************)
IsSent(c, op) == op.status = "dispatched" /\ op.complete <= c.cpu  \* mutant
IsFinished(c, op) == op.status = "dispatched" /\ 0 < op.complete /\ op.complete <= c.cpu

Children(c, p) ==
  [n \in 1 .. Len(c.win[p].next) |-> (p + c.win[p].next[n]) % c.ib]

(***************************************************************************)
(* One turn of advance's loop over the children of a completed operation.  *)
(***************************************************************************)
NotifyIfPending(c, p) ==  \* mutant
  IF c.win[p].status # "pending" THEN c
  ELSE LET c1 == [c EXCEPT !.win[p].prev = @ - 1]
       IN  IF c1.win[p].prev = 0 THEN Dispatch(c1, p) ELSE c1

Notify(c, p) ==
  LET c1 == [c EXCEPT !.win[p].prev = @ - 1]
  IN  IF c.win[p].prev = 0
      THEN [c EXCEPT !.panic = TRUE]
      ELSE IF c1.win[p].prev = 0 /\ c1.win[p].status = "pending"
      THEN Dispatch(c1, p)
      ELSE c1

(***************************************************************************)
(* When the context next has something to do by itself, over the reorder   *)
(* buffer; init_window takes every time, advance those still to come.      *)
(***************************************************************************)
EventTime(op) == IF op.status = "pending" THEN op.dispatch ELSE op.complete

EarliestOf(times) ==
  IF times = {} THEN Never ELSE CHOOSE t \in times : \A u \in times : t <= u

FirstEvent(c) == EarliestOf({EventTime(c.win[p]) : p \in Rob(c)})
NextEventAfter(c) ==
  EarliestOf({t \in {EventTime(c.win[p]) : p \in Rob(c)} : c.cpu < t /\ t < Never})

(***************************************************************************)
(* complete_op, called for every load of a line in turn.                   *)
(***************************************************************************)
CompleteOp(c, line, t) ==
  [c EXCEPT !.hasComplete = TRUE,
            !.win = [p \in 0 .. c.ib - 1 |->
                       IF p \in Outstanding(c) /\ LineOf(p) = line
                       THEN [@[p] EXCEPT !.complete = t] ELSE @[p]]]

(***************************************************************************)
(* get_next_event, for an engine with (mode) and without memory            *)
(* simulators.                                                             *)
(***************************************************************************)
GetNextEvent(c, mode) == IF mode THEN c.nextEvent ELSE EventTime(c.win[c.head])
=============================================================================
