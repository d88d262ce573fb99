------------------------------ MODULE Context ------------------------------
(***************************************************************************)
(* One Siena thread against a first-level cache and memory that answer     *)
(* whenever they please: init_window, then advance called by the engine    *)
(* with increasing times and complete_op called between two of them.  Each *)
(* turn of advance's loops is a step; no call interrupts another.          *)
(***************************************************************************)
EXTENDS ContextOps

CONSTANTS
  First, Last,  \* the global steps of the thread
  Stride,       \* bound of the model: the longest jump of the engine's clock
  MaxTime       \* bound of the model on the engine's clock

ASSUME ThreadConstants ==
  /\ First \in Nat /\ Last \in Nat /\ First < Last
  /\ Stride \in Nat \ {0} /\ MaxTime \in Nat /\ MaxTime < Never

VARIABLES
  c,     \* the context
  pc,    \* where the thread is in init_window or advance
  pos,   \* the position the loop is at, or its index in a pending list
  left,  \* the turns of the loop over the reorder buffer still to run
  kids   \* the children of a completed operation still to notify

vars == <<c, pc, pos, left, kids>>

Init ==
  /\ c = NewContext(First, Last)
  /\ pc = "window"
  /\ pos = 0
  /\ left = RobLoad(c)
  /\ kids = <<>>

(***************************************************************************)
(* init_window: dispatch what fits the reorder buffer.                     *)
(***************************************************************************)
InitWindowOp ==
  /\ pc = "window" /\ left > 0
  /\ c' = Dispatch(c, pos)
  /\ pos' = pos + 1
  /\ left' = left - 1
  /\ UNCHANGED <<pc, kids>>

InitWindowDone ==
  /\ pc = "window" /\ left = 0
  /\ c' = [c EXCEPT !.nextEvent = FirstEvent(c)]
  /\ pc' = "idle"
  /\ UNCHANGED <<pos, left, kids>>

(***************************************************************************)
(* complete_op, called by the first-level cache while the memory           *)
(* simulators advance, that is before the context does.                    *)
(***************************************************************************)
MemoryAnswers(line) ==
  /\ pc = "idle"
  /\ c' = CompleteOp(c, line, c.cpu + 1)
  /\ UNCHANGED <<pc, pos, left, kids>>

(***************************************************************************)
(* advance(t).  With memory simulators the engine goes to the earliest     *)
(* event of all contexts and memories, without to the earliest completion  *)
(* of a head; either way to a later time.                                  *)
(***************************************************************************)
BeginAdvance(t) ==
  /\ pc = "idle" /\ ~c.done
  /\ c' = [c EXCEPT !.cpu = t]
  /\ pc' = "loads"
  /\ pos' = 1
  /\ UNCHANGED <<left, kids>>

(***************************************************************************)
(* The two loops that offer the pending requests to their port again.      *)
(***************************************************************************)
Kept(s, i) == s  \* mutant
Without(s, i) == SubSeq(s, 1, i - 1) \o SubSeq(s, i + 1, Len(s))

RetryLoad ==
  /\ pc = "loads" /\ pos <= Len(c.ldq)
  /\ IF LdPortReady(c, c.ldq[pos])
     THEN /\ c' = [SendLd(c, c.ldq[pos]) EXCEPT !.ldq = Without(@, pos), !.hasComplete = TRUE]
          /\ UNCHANGED pos
     ELSE /\ c' = SyncLd(c)
          /\ pos' = pos + 1
  /\ UNCHANGED <<pc, left, kids>>

RetryLoadsDone ==
  /\ pc = "loads" /\ pos > Len(c.ldq)
  /\ pc' = "stores"
  /\ pos' = 1
  /\ UNCHANGED <<c, left, kids>>

RetryStore ==
  /\ pc = "stores" /\ pos <= Len(c.stq)
  /\ IF StPortReady(c, c.stq[pos])
     THEN /\ c' = [SendSt(c, c.stq[pos]) EXCEPT !.stq = Without(@, pos), !.hasComplete = TRUE]
          /\ UNCHANGED pos
     ELSE /\ c' = SyncSt(c)
          /\ pos' = pos + 1
  /\ UNCHANGED <<pc, left, kids>>

NothingToDo ==
  /\ pc = "stores" /\ pos > Len(c.stq)
  /\ ~c.hasComplete /\ c.nextEvent > c.cpu
  /\ pc' = "idle"
  /\ UNCHANGED <<c, pos, left, kids>>

BeginScan ==
  /\ pc = "stores" /\ pos > Len(c.stq)
  /\ c.hasComplete \/ c.nextEvent <= c.cpu
  /\ c' = [c EXCEPT !.hasComplete = FALSE]
  /\ pc' = "scan"
  /\ pos' = c.head
  /\ left' = RobLoad(c)
  /\ UNCHANGED kids

(***************************************************************************)
(* One turn of the loop over the operations the reorder buffer held when   *)
(* the loop began.  `op` is a reference: its children are read after       *)
(* retire_head may have refilled the window.                               *)
(***************************************************************************)
NextTurn == pos' = After(c, pos) /\ left' = left - 1

FinishOp ==
  /\ pc = "scan" /\ left > 0
  /\ IsFinished(c, c.win[pos])
  /\ LET c1 == [c EXCEPT !.win[pos].status = "completed"]
     IN  c' = IF pos = c.head THEN RetireHead(c1) ELSE c1
  /\ kids' = IF c'.done THEN <<>> ELSE Children(c', pos)
  /\ pc' = "notify"
  /\ NextTurn

NotifyChild ==
  /\ pc = "notify" /\ kids # <<>>
  /\ ~c.panic
  /\ c' = Notify(c, Head(kids))
  /\ kids' = Tail(kids)
  /\ UNCHANGED <<pc, pos, left>>

NotifyDone ==
  /\ pc = "notify" /\ kids = <<>>
  /\ pc' = "scan"
  /\ UNCHANGED <<c, pos, left, kids>>

RetireCompleted ==
  /\ pc = "scan" /\ left > 0
  /\ c.win[pos].status = "completed" /\ pos = c.head
  /\ c' = RetireHead(c)
  /\ NextTurn
  /\ UNCHANGED <<pc, kids>>

PassOp ==
  /\ pc = "scan" /\ left > 0
  /\ ~IsFinished(c, c.win[pos])
  /\ ~(c.win[pos].status = "completed" /\ pos = c.head)
  /\ NextTurn
  /\ UNCHANGED <<c, pc, kids>>

EndAdvance ==
  /\ pc = "scan" /\ left = 0
  /\ c' = [c EXCEPT !.nextEvent = NextEventAfter(c)]
  /\ pc' = "idle"
  /\ UNCHANGED <<pos, left, kids>>

Next ==
  \/ InitWindowOp \/ InitWindowDone
  \/ \E line \in PendingLines(c) : MemoryAnswers(line)
  \/ \E t \in c.cpu + 1 .. SmallerOf(c.cpu + Stride, MaxTime) : BeginAdvance(t)
  \/ RetryLoad \/ RetryLoadsDone \/ RetryStore
  \/ NothingToDo \/ BeginScan
  \/ FinishOp \/ NotifyChild \/ NotifyDone \/ RetireCompleted \/ PassOp \/ EndAdvance

Spec == Init /\ [][Next]_vars

-----------------------------------------------------------------------------
(* What the instruction window must guarantee.                              *)

(***************************************************************************)
(* The operations of the window, oldest first, and those the loop that     *)
(* notifies children has dealt with.                                       *)
(***************************************************************************)
Live == {RingAt(c, i) : i \in 0 .. c.load - 1}
BusyKids(p) == Cardinality({n \in 1 .. Len(kids) : kids[n] = p})
UnfinishedParents(p) ==
  Cardinality({e \in Live \X (1 .. W) :
     /\ c.win[e[1]].status # "completed"
     /\ e[2] <= Len(c.win[e[1]].next)
     /\ (e[1] + c.win[e[1]].next[e[2]]) % c.ib = p})

(***************************************************************************)
(* An operation waits for exactly its parents that have not completed: the *)
(* counter fetch_global_step loads into `prev` and the offsets it stores   *)
(* in `next` stay in agreement across the ring's wrap-around, early        *)
(* retirement and refilling, and although advance reads the children of an *)
(* operation after retire_head may have reused its slot.                   *)
(***************************************************************************)
PrevCountsParents ==
  c.done \/ \A p \in Live : c.win[p].prev = UnfinishedParents(p) + BusyKids(p)

(***************************************************************************)
(* No operation goes to the cache before every operation it depends on has *)
(* completed, and none counts as complete without the cache's answer.      *)
(***************************************************************************)
DataflowOrder ==
  \A q \in Live, n \in 1 .. W :
    n <= Len(c.win[q].next) =>
      LET child == c.win[(q + c.win[q].next[n]) % c.ib]
      IN  child.status \in {"dispatched", "completed"} =>
           c.win[q].status = "completed" /\ c.win[q].complete \in 1 .. c.cpu

(***************************************************************************)
(* Every operation in the reorder buffer has been through dispatch: one    *)
(* that slipped in without it would block retirement for ever.  It rests   *)
(* on init_window making the window deep enough for retire_head to find    *)
(* room before the reorder buffer runs dry.                                *)
(***************************************************************************)
RobDispatched ==
  pc # "window" => \A p \in Rob(c) : c.win[p].status # "issued"

(***************************************************************************)
(* A thread that is done has nothing in flight: no load unanswered, no     *)
(* request in a retry list.                                                *)
(***************************************************************************)
DoneMeansDrained ==
  c.done => Outstanding(c) = {} /\ c.ldq = <<>> /\ c.stq = <<>>
=============================================================================
