------------------------------- MODULE NvDimm -------------------------------
(***************************************************************************)
(* An NVDIMM (class NVDIMM, src/nvdimmsim/src): the front buffer, the      *)
(* translation layer, the controller and the dies, and the order in which  *)
(* NVDIMM::update runs them.  The clocks of the front buffer and of the    *)
(* device are the same (CHANNEL_CYCLE = CYCLE_TIME = SYSTEM_CYCLE), so     *)
(* that a cycle updates each part once.                                    *)
(***************************************************************************)
EXTENDS FlashFront

VARIABLES
  stage,       \* the part that is updated next; "idle" between two cycles
  issued,      \* transactions accepted, which are numbered
  lastWrite,   \* the last write accepted, of each address
  waiting,     \* transactions accepted and not answered by a callback
  replies,     \* the answers to reads in this cycle
  moved        \* history: the collector was given a block with a page to keep

history == <<issued, lastWrite, waiting, replies>>
vars == <<setup, deviceVars, ftlVars, frontVars, stage, history, moved>>

Init ==
  /\ setup \in Setups
  /\ DeviceInit /\ FtlInit /\ FrontInit
  /\ stage = "idle"
  /\ issued = 0 /\ waiting = {} /\ replies = <<>> /\ moved = FALSE
  /\ lastWrite = [v \in Addresses |-> 0]

Running == complaint = "none"

(***************************************************************************)
(* NVDIMM::addTransaction, to the front buffer or to the translation       *)
(* layer; a transaction that is not accepted is tried again later.         *)
(***************************************************************************)
NewTransaction(type, v) ==
  Transaction(type, v, issued + 1, IF type = "DATA_WRITE" THEN issued + 1 ELSE 0, lastWrite[v])

AddTransaction(type, v) ==
  /\ stage = "idle" /\ Running /\ issued < setup.limit /\ type \in setup.types
  /\ LET t == NewTransaction(type, v)
     IN  /\ IF setup.front THEN FrontHasRoom(t) /\ FrontAdds(t) /\ SendNothing
            ELSE (panic \/ FtlHasRoom) /\ SendToFtl(t) /\ UNCHANGED frontVars
         /\ lastWrite' = IF type = "DATA_WRITE" THEN [lastWrite EXCEPT ![v] = t.id] ELSE lastWrite
         /\ waiting' = waiting \cup {t.id}
  /\ issued' = issued + 1
  /\ UNCHANGED <<setup, ctrlQueue, outgoing, returnTransaction, sender, command, dataReg, cacheReg,
                 returnData, returnLeft, cells, numErases, mapVars, gcVars, dirty, dirtyCount,
                 current, lookup, queuesFull, deadlock, stage, replies>>

(***************************************************************************)
(* Callbacks.                                                              *)
(***************************************************************************)
Answers(reads, writes) ==
  /\ replies' = replies \o reads
  /\ waiting' = (waiting \ writes) \ {reads[i].id : i \in 1 .. Len(reads)}
  /\ UNCHANGED <<issued, lastWrite>>

NoAnswer == UNCHANGED history

-----------------------------------------------------------------------------
(***************************************************************************)
(* The stages of a cycle.                                                  *)
(***************************************************************************)
Stage(s, next) == stage = s /\ Running /\ stage' = next /\ UNCHANGED setup
OtherParts == <<outgoing, returnTransaction, sender, command, dataReg, cacheReg, returnData,
                returnLeft, numErases>>

Collector ==
  /\ Stage("idle", "ftl") /\ setup.gc
  /\ CollectorChecks
  /\ UNCHANGED <<ctrlQueue, cells, OtherParts, frontVars>> /\ NoAnswer

AfterFtl == IF setup.front THEN "response" ELSE "control"
Translate ==
  /\ \/ Stage("ftl", AfterFtl)
     \/ Stage("idle", AfterFtl) /\ ~setup.gc
  /\ FtlUpdate
  /\ IF ServesUnmapped THEN Answers(<<current>>, {}) ELSE NoAnswer
  /\ UNCHANGED <<OtherParts, frontVars>>

(***************************************************************************)
(* FrontBuffer::update.                                                    *)
(***************************************************************************)
AfterRequest == IF setup.commands THEN "commands" ELSE "control"
AfterResponse == IF setup.requests THEN "requests" ELSE AfterRequest
FtlReceives == UNCHANGED <<ctrlQueue, cells, OtherParts, mapVars, gcVars, dirty, dirtyCount,
                           current, lookup, queuesFull, deadlock>>
Response ==
  /\ Stage("response", AfterResponse)
  /\ UpdateResponse /\ Answers(SentToHost, {})
  /\ FtlReceives
Request ==
  /\ Stage("requests", AfterRequest)
  /\ UpdateRequest /\ NoAnswer
  /\ FtlReceives
Commands ==
  /\ Stage("commands", "control")
  /\ UpdateCommand /\ NoAnswer
  /\ FtlReceives

(***************************************************************************)
(* Controller::update.  A queue that loses a packet lets the translation   *)
(* layer try again (queuesNotFull).                                        *)
(***************************************************************************)
Control ==
  /\ Stage("control", "dies")
  /\ ChannelsMove /\ DieReceives
  /\ queuesFull' = (queuesFull /\ ~SomeQueueServed)
  /\ IF setup.front
     THEN /\ FrontTakes(returnTransaction) /\ NoAnswer
          /\ returnTransaction' =
               SubSeq(returnTransaction, 1, Len(returnTransaction) - Len(Entering(returnTransaction)))
     ELSE /\ Answers(Reverse(returnTransaction), {})
          /\ returnTransaction' = <<>>
          /\ UNCHANGED <<responses, responsesSize>>
  /\ UNCHANGED <<requests, commands, requestsSize, responseTrans, requestTrans, commandTrans,
                 responseLeft, requestLeft, commandLeft, pendingData, pendingCommand, returnData,
                 returnLeft, mapVars, gcVars, dirty, dirtyCount, readQueue, current, lookup, deadlock>>

Dies ==
  /\ Stage("dies", "idle")
  /\ DiesWork
  /\ GcReadsReturn(GcReadsDone)
  /\ waiting' = waiting \ WritesDone /\ replies' = <<>>
  /\ UNCHANGED <<frontVars, mapVars, gcStatus, panic, startErase, erasePointer, dirty, dirtyCount,
                 readQueue, current, lookup, deadlock, issued, lastWrite>>

Update == Collector \/ Translate \/ Response \/ Request \/ Commands \/ Control \/ Dies

Next ==
  /\ \/ \E v \in Addresses : AddTransaction("DATA_READ", v) \/ AddTransaction("DATA_WRITE", v)
     \/ Update
  /\ moved' = (moved \/ pendingErases' # <<>>)

(***************************************************************************)
(* The engine updates the device in every cycle (ar_nvdsim.cpp): fairness  *)
(* of Update, whose steps are those that change the stage and which is     *)
(* enabled until the program stops.                                        *)
(***************************************************************************)
ClockRuns == []<><<stage' # stage>>_stage \/ <>[]~Running
Spec == Init /\ [][Next]_vars /\ ClockRuns

-----------------------------------------------------------------------------
(* What an NVDIMM must guarantee.                                           *)

(***************************************************************************)
(* Until the collector moves a page, none of the checks of the code stops  *)
(* the program: no register is overwritten, no page is written twice or    *)
(* read before it is written, no queue is empty when it is popped.  The    *)
(* exceptions are a transaction that arrives while the collector runs in   *)
(* panic mode, for which the layer calls exit(5001); a device that is full *)
(* of pages that cannot be erased; and one with no page left from the      *)
(* write pointer on, which calls exit(9001) though pages before the        *)
(* pointer may be free, as they are in the setup Spent.                    *)
(***************************************************************************)
StopsForCause ==
  \/ moved
  \/ complaint \in {"none", "added in panic mode"}
  \/ complaint = "full" /\ FreeFrom(used) = {}
  \/ complaint = "nothing the gc can do" /\ Cardinality(used) >= VirtualPages /\ dirty = {}

(***************************************************************************)
(* The host reads what the last write accepted before the read left at     *)
(* its address, although pages are given up and blocks are erased while    *)
(* packets for others are queued.  What was never written reads as zero.   *)
(* It ends with the first page the collector moves (CollectorPopsItsOwn).  *)
(***************************************************************************)
ReadsSeeWrites ==
  ~moved => \A i \in 1 .. Len(replies) : replies[i].ver = replies[i].sees

(***************************************************************************)
(* No two addresses share a page, and the page of an address is in use and *)
(* is not going to be erased, unless the next transaction is a write that  *)
(* has given it up already and waits for room.  This, too, ends with the   *)
(* first page the collector moves.  It moves one in blocks of one page as  *)
(* well, as it takes block 0, whatever is in it, when it finds no dirty    *)
(* block from its pointer on, or in the plane it panics about.             *)
(***************************************************************************)
HeadRewrites(v) ==
  readQueue # <<>> /\ Head(readQueue).type = "DATA_WRITE" /\ Head(readQueue).vAddr = v
MapSound ==
  ~moved => \A v \in Addresses : addressMap[v] # NoPage =>
    /\ addressMap[v] \in used \ dirty \/ HeadRewrites(v)
    /\ \A w \in Addresses \ {v} : addressMap[w] = addressMap[v] => HeadRewrites(v) \/ HeadRewrites(w)

(***************************************************************************)
(* The comment at src/nvdimmsim/src/GCFtl.cpp:392, "if its a gc operation  *)
(* pop from the gc queue": a page the collector has written again leaves   *)
(* the queue of the collector.  It does not hold, as write_success pops    *)
(* the same queue for every write (src/nvdimmsim/src/Ftl.cpp:713).         *)
(***************************************************************************)
CollectorPopsItsOwn ==
  [][current.type = "GC_DATA_WRITE" /\ usedCount' > usedCount => gcQueue' = Popped(gcQueue)]_vars

(***************************************************************************)
(* Every transaction is answered, and a collection comes to an end, unless *)
(* the program stops; answers may be lost with a page that was moved.      *)
(***************************************************************************)
AllAnswered == (waiting # {}) ~> (waiting = {} \/ moved \/ ~Running)
CollectionEnds == gcStatus ~> (~gcStatus \/ ~Running)
=============================================================================
