------------------------------ MODULE FlashFtl ------------------------------
(***************************************************************************)
(* The translation layer of an NVDIMM (classes Ftl and GCFtl,              *)
(* src/nvdimmsim/src) with all transactions in one queue (SCHEDULE = 0,    *)
(* PERFECT_SCHEDULE = 0), as in the shipped device files: where a virtual  *)
(* page is, which pages are in use, and the garbage collector.             *)
(***************************************************************************)
EXTENDS FlashDevice

VARIABLES
  readQueue,      \* the transactions of the host
  gcQueue,        \* those of the collector
  pendingErases,  \* gc_pending_erase: blocks whose pages are still read
  current,        \* currentTransaction while busy, NoTransaction otherwise
  lookup,         \* lookupCounter
  queuesFull,     \* write_queues_full
  used, dirty,    \* sets of pages
  usedCount, dirtyCount,
  addressMap,
  pointer,        \* <<channel, plane>>
  gcStatus, panic, startErase, erasePointer,
  deadlock        \* deadlock_counter

mapVars == <<used, usedCount, addressMap, pointer>>
gcVars == <<gcQueue, pendingErases, gcStatus, panic, startErase, erasePointer>>
ftlVars == <<mapVars, gcVars, dirty, dirtyCount, readQueue, current, lookup, queuesFull, deadlock>>

FtlInit ==
  /\ readQueue = <<>> /\ gcQueue = <<>> /\ pendingErases = <<>>
  /\ current = NoTransaction /\ lookup = 0 /\ queuesFull = FALSE
  /\ used = {} /\ dirty = {} /\ usedCount = 0 /\ dirtyCount = 0
  /\ addressMap = [v \in Addresses |-> NoPage]
  /\ pointer = <<0, 0>>
  /\ gcStatus = FALSE /\ panic = FALSE /\ startErase = 0 /\ erasePointer = 0
  /\ deadlock = 0

Busy == current # NoTransaction
FtlHasRoom == Len(readQueue) < FTL_READ_QUEUE_LENGTH

-----------------------------------------------------------------------------
(***************************************************************************)
(* The collector.  A block is erased at once when it has no page to keep;  *)
(* otherwise its pages are read first, and the block waits for them.       *)
(***************************************************************************)
Live(b) == PagesOf(b) \cap (used \ dirty)
OwnersOf(p) == {v \in Addresses : addressMap[v] = p}
KeptBy(b) == UNION {OwnersOf(p) : p \in Live(b)}
Lost(b) == \E p \in Live(b) : OwnersOf(p) = {}      \* assert(found)

GcTransactions(b) ==
  IF Live(b) = {} THEN <<Transaction("BLOCK_ERASE", Least(PagesOf(b)), 0, 0, 0)>>
  ELSE LET kept == SetToSortSeq(KeptBy(b), LAMBDA v, w : addressMap[v] < addressMap[w])
       IN  [i \in 1 .. Len(kept) |-> Transaction("GC_DATA_READ", kept[i], 0, 0, 0)]
PendingErase(b) == IF Live(b) = {} THEN <<>> ELSE <<[block |-> b, reads |-> KeptBy(b)]>>

DirtyIn(b) == Cardinality(PagesOf(b) \cap dirty)
Dirtiest(S) ==
  LET best == {b \in S : DirtyIn(b) > 0 /\ \A c \in S : DirtyIn(c) <= DirtyIn(b)}
  IN  IF best = {} THEN 0 ELSE Least(best)

(***************************************************************************)
(* runGC(), when the layer is idle: the dirtiest block from the pointer to *)
(* the end of the device, or block 0 when none of them is dirty.           *)
(***************************************************************************)
RunGc ==
  LET b == Dirtiest({c \in Blocks : c >= erasePointer})
  IN  /\ startErase' = numErases /\ gcStatus' = TRUE
      /\ erasePointer' = (b + 1) % NumBlocks
      /\ gcQueue' = gcQueue \o GcTransactions(b)
      /\ pendingErases' = PendingErase(b) \o pendingErases
      /\ queuesFull' = FALSE
      /\ complaint' = IF Lost(b) THEN "assert(found)" ELSE complaint
      /\ UNCHANGED panic

(***************************************************************************)
(* runGC(plane), in panic mode: a block for every plane, block 0 for one   *)
(* with nothing dirty, at the beginning of GCFtl::update.                  *)
(***************************************************************************)
BlocksOfPlane(i) == {b \in Blocks : b \div BLOCKS_PER_PLANE = i}
Chosen(i) == Dirtiest(BlocksOfPlane(i))
PanicTransactions[n \in Nat] ==
  IF n = 0 THEN <<>> ELSE PanicTransactions[n - 1] \o GcTransactions(Chosen(n - 1))
PanicErases[n \in Nat] ==
  IF n = 0 THEN <<>> ELSE PendingErase(Chosen(n - 1)) \o PanicErases[n - 1]

\* Mutant: one erase more is waited for.
ErasedLate == gcStatus /\ numErases > startErase + (IF panic THEN NumPlanes ELSE 1)
Erased == gcStatus /\ numErases = startErase + (IF panic THEN NumPlanes ELSE 1)
Collecting == gcStatus /\ ~Erased
MustCollect == setup.gc /\ ~Collecting /\ usedCount >= setup.force

Panics ==
  /\ MustCollect /\ dirtyCount # 0
  /\ startErase' = numErases /\ gcStatus' = TRUE /\ panic' = TRUE
  /\ gcQueue' = gcQueue \o PanicTransactions[NumPlanes]
  /\ pendingErases' = PanicErases[NumPlanes] \o pendingErases
  /\ queuesFull' = FALSE
  /\ current' = NoTransaction
  /\ complaint' = IF \E i \in 0 .. NumPlanes - 1 : Lost(Chosen(i)) THEN "assert(found)" ELSE complaint
  /\ UNCHANGED erasePointer

NothingToCollect ==
  /\ MustCollect /\ dirtyCount = 0 /\ usedCount >= VirtualPages
  /\ complaint' = "nothing the gc can do"
  /\ UNCHANGED <<gcVars, queuesFull, current>>

MayGoOn ==
  /\ ~MustCollect \/ (dirtyCount = 0 /\ usedCount < VirtualPages)
  /\ gcStatus' = Collecting /\ panic' = (panic /\ ~Erased)
  /\ UNCHANGED <<gcQueue, pendingErases, startErase, erasePointer, queuesFull, current, complaint>>

CollectorChecks ==
  /\ Panics \/ NothingToCollect \/ MayGoOn
  /\ UNCHANGED <<mapVars, dirty, dirtyCount, readQueue, lookup, deadlock>>

(***************************************************************************)
(* GCReadDone, for the reads of the collector that are done, in turn: the  *)
(* first block that waits for no page any more is erased, and the page is  *)
(* written again.                                                          *)
(***************************************************************************)
AfterGcRead(s, p) ==
  LET left == [i \in 1 .. Len(s.pending) |-> [s.pending[i] EXCEPT !.reads = @ \ {p.vAddr}]]
      free == {i \in 1 .. Len(left) : left[i].reads = {}}
      i == Least(free)
      rewrite == Transaction("GC_DATA_WRITE", p.vAddr, 0, p.ver, p.ver)
  IN  IF free = {} THEN [queue |-> Append(s.queue, rewrite), pending |-> left]
      ELSE [queue |-> s.queue \o
              <<Transaction("BLOCK_ERASE", Least(PagesOf(left[i].block)), 0, 0, 0), rewrite>>,
            pending |-> RemoveAt([j \in 1 .. Len(left) |-> IF j < i THEN left[j] ELSE s.pending[j]]
                                 , i)]
GcReadsReturn(reads) ==
  LET s == FoldLeft(AfterGcRead, [queue |-> gcQueue, pending |-> pendingErases], reads)
  IN  /\ gcQueue' = s.queue /\ pendingErases' = s.pending
      /\ queuesFull' = (queuesFull /\ reads = <<>>)

-----------------------------------------------------------------------------
(***************************************************************************)
(* Steps of the layer in a cycle.  A transaction is looked up for some     *)
(* cycles, and waits while the queues of the controller are full.          *)
(***************************************************************************)
Lookup ==
  /\ Busy /\ lookup > 0
  /\ lookup' = lookup - 1
  /\ UNCHANGED <<mapVars, gcVars, dirty, dirtyCount, readQueue, current, queuesFull, deadlock,
                 ctrlQueue, cells, complaint>>
Locked ==
  /\ Busy /\ lookup = 0 /\ queuesFull
  /\ UNCHANGED <<ftlVars, ctrlQueue, cells, complaint>>
Serving(types) == Busy /\ lookup = 0 /\ ~queuesFull /\ current.type \in types

Mapped == addressMap[current.vAddr] # NoPage

(***************************************************************************)
(* popFront: the queue the transaction is taken from.                      *)
(***************************************************************************)
Popped(q) == IF q = <<>> THEN q ELSE Tail(q)
PopFront(gc) ==
  IF gc THEN gcQueue' = Popped(gcQueue) /\ UNCHANGED readQueue
  ELSE readQueue' = Popped(readQueue) /\ UNCHANGED gcQueue
PopsNothing(gc) == (IF gc THEN gcQueue ELSE readQueue) = <<>>

(***************************************************************************)
(* handle_read: a page that is mapped is read, by the host or by the       *)
(* collector, when the controller has room.                                *)
(***************************************************************************)
ReadPacket(type, p) == Packet(type, current.vAddr, p, current)
SendRead(type, p) ==
  IF HasRoom(p)
  THEN /\ AddPackets(p, <<ReadPacket(type, p)>>)
       /\ PopFront(type = "GC_READ")
       /\ current' = NoTransaction
       /\ UNCHANGED queuesFull
  ELSE queuesFull' = TRUE /\ UNCHANGED <<ctrlQueue, readQueue, gcQueue, current>>

ServeRead ==
  /\ Serving({"DATA_READ", "GC_DATA_READ"}) /\ Mapped
  /\ SendRead(IF current.type = "GC_DATA_READ" THEN "GC_READ" ELSE "READ",
              addressMap[current.vAddr])
  /\ complaint' = IF PopsNothing(current.type = "GC_DATA_READ") THEN "pop of an empty queue"
                  ELSE complaint
  /\ UNCHANGED <<mapVars, pendingErases, gcStatus, panic, startErase, erasePointer, dirty,
                 dirtyCount, lookup, deadlock, cells>>

(***************************************************************************)
(* A page that was never written has no data to read: the host gets an     *)
(* answer at once.                                                         *)
(***************************************************************************)
ServesUnmapped == Serving({"DATA_READ"}) /\ ~Mapped /\ ~setup.diskRead
ServeUnmapped ==
  /\ ServesUnmapped
  /\ PopFront(FALSE)
  /\ current' = NoTransaction
  /\ complaint' = IF PopsNothing(FALSE) THEN "pop of an empty queue" ELSE complaint
  /\ UNCHANGED <<mapVars, pendingErases, gcStatus, panic, startErase, erasePointer, dirty,
                 dirtyCount, lookup, queuesFull, deadlock, ctrlQueue, cells>>

(***************************************************************************)
(* The first free page from the write pointer on.  The second loop of the  *)
(* code, for the blocks before the pointer, ends at start / BLOCK_SIZE,    *)
(* although start is the number of a block already.                        *)
(***************************************************************************)
Start == BLOCKS_PER_PLANE * (pointer[2] + PLANES_PER_DIE * pointer[1])
\* Mutant: a dirty page counts as free before its block is erased.
FreeFromDirty(inUse) == {p \in Pages \ (inUse \ dirty) : BlockOf(p) >= Start}
FreeFrom(inUse) == {p \in Pages \ inUse : BlockOf(p) >= Start}
FreeBefore(inUse) == {p \in Pages \ inUse : BlockOf(p) < Start \div BLOCK_SIZE}
FreePages(inUse) == IF FreeFrom(inUse) # {} THEN FreeFrom(inUse) ELSE FreeBefore(inUse)
NextPointer ==
  LET c == (pointer[1] + 1) % NUM_PACKAGES
  IN  <<c, IF c = 0 THEN (pointer[2] + 1) % PLANES_PER_DIE ELSE pointer[2]>>

\* Mutant: an address keeps its first page.
TakePageOnce(p, inUse) ==
  /\ used' = inUse \cup {p} /\ usedCount' = usedCount + 1
  /\ addressMap' = IF Mapped THEN addressMap ELSE [addressMap EXCEPT ![current.vAddr] = p]
  /\ pointer' = NextPointer
TakePage(p, inUse) ==
  /\ used' = inUse \cup {p} /\ usedCount' = usedCount + 1
  /\ addressMap' = [addressMap EXCEPT ![current.vAddr] = p]
  /\ pointer' = NextPointer

(***************************************************************************)
(* handle_disk_read: the page is written at once and then read.            *)
(***************************************************************************)
ServeDiskRead ==
  /\ Serving({"DATA_READ"}) /\ ~Mapped /\ setup.diskRead
  /\ IF FreePages(used) = {}
     THEN /\ deadlock' = deadlock + 1
          /\ complaint' = IF deadlock' = DeadlockTime THEN "full" ELSE complaint
          /\ UNCHANGED <<mapVars, gcQueue, readQueue, current, queuesFull, ctrlQueue, cells>>
     ELSE LET p == Least(FreePages(used))
          IN  /\ deadlock' = 0
              /\ cells' = [cells EXCEPT ![p] = 0]
              /\ complaint' = IF setup.gc /\ cells[p] # Blank THEN "page written twice"
                              ELSE IF PopsNothing(FALSE) THEN "pop of an empty queue" ELSE complaint
              /\ TakePage(p, used)
              /\ SendRead("READ", p)
  /\ UNCHANGED <<pendingErases, gcStatus, panic, startErase, erasePointer, dirty, dirtyCount, lookup>>

(***************************************************************************)
(* handle_write: the page the address had is given up first, on every      *)
(* attempt; the data and the command need two places in the queue of the   *)
(* controller.  A write of the collector, too, is popped from the queue of *)
(* the host (write_success).                                               *)
(***************************************************************************)
Rewriting == current.type = "GC_DATA_WRITE"
WriteType == IF Rewriting THEN "GC_WRITE" ELSE "WRITE"
GivenUp == IF Mapped THEN {addressMap[current.vAddr]} ELSE {}

ServeWrite ==
  /\ Serving({"DATA_WRITE", "GC_DATA_WRITE"})
  /\ LET inUse == IF setup.gc THEN used ELSE used \ GivenUp
         p == Least(FreePages(inUse))
     IN  /\ IF setup.gc
            THEN dirty' = dirty \cup GivenUp /\ dirtyCount' = dirtyCount + Cardinality(GivenUp)
            ELSE UNCHANGED <<dirty, dirtyCount>>
         /\ IF FreePages(inUse) = {}
            THEN /\ complaint' = "full"
                 /\ used' = inUse
                 /\ UNCHANGED <<usedCount, addressMap, pointer, readQueue, gcQueue, current,
                                queuesFull, ctrlQueue, deadlock>>
            ELSE /\ deadlock' = 0
                 /\ IF CheckQueueWrite(p)
                    THEN /\ AddPackets(p, <<Packet("DATA", current.vAddr, p, current),
                                            Packet(WriteType, current.vAddr, p, current)>>)
                         /\ TakePage(p, inUse)
                         /\ PopFront(FALSE)
                         /\ current' = NoTransaction
                         /\ complaint' = IF PopsNothing(FALSE) THEN "pop of an empty queue"
                                         ELSE complaint
                         /\ UNCHANGED queuesFull
                    ELSE /\ queuesFull' = TRUE
                         /\ used' = inUse
                         /\ UNCHANGED <<usedCount, addressMap, pointer, readQueue, gcQueue, current,
                                        ctrlQueue, complaint>>
  /\ UNCHANGED <<pendingErases, gcStatus, panic, startErase, erasePointer, lookup, cells>>

(***************************************************************************)
(* A block is free as soon as its erase is sent.                           *)
(***************************************************************************)
ServeErase ==
  /\ Serving({"BLOCK_ERASE"})
  /\ LET p == current.vAddr
         pages == PagesOf(BlockOf(p))
     IN  IF HasRoom(p)
         THEN /\ AddPackets(p, <<ReadPacket("ERASE", p)>>)
              /\ dirty' = dirty \ pages
              /\ dirtyCount' = dirtyCount - Cardinality(dirty \cap pages)
              /\ used' = used \ pages
              /\ usedCount' = usedCount - Cardinality(used \cap pages)
              /\ gcQueue' = IF gcStatus THEN Popped(gcQueue) ELSE gcQueue
              /\ complaint' = IF gcStatus THEN complaint ELSE "erase of read_pointer"
              /\ current' = NoTransaction
              /\ UNCHANGED queuesFull
         ELSE /\ queuesFull' = TRUE
              /\ UNCHANGED <<ctrlQueue, dirty, dirtyCount, used, usedCount, gcQueue, complaint, current>>
  /\ UNCHANGED <<addressMap, pointer, readQueue, pendingErases, gcStatus, panic, startErase,
                 erasePointer, lookup, deadlock, cells>>

(***************************************************************************)
(* The next transaction, of the collector while it runs; when there is     *)
(* none and the layer was idle already, the collector may start.           *)
(***************************************************************************)
NextQueue == IF gcStatus THEN gcQueue ELSE readQueue
Pick ==
  /\ ~Busy /\ NextQueue # <<>>
  /\ current' = Head(NextQueue)
  /\ lookup' = LOOKUP_CYCLES
  /\ UNCHANGED <<mapVars, gcVars, dirty, dirtyCount, readQueue, queuesFull, deadlock, ctrlQueue,
                 cells, complaint>>

MayCollect == /\ setup.gc /\ lookup # LOOKUP_CYCLES /\ usedCount > setup.idle
              /\ ~gcStatus /\ dirtyCount # 0
CollectIdle ==
  /\ ~Busy /\ NextQueue = <<>> /\ MayCollect
  /\ RunGc
  /\ UNCHANGED <<mapVars, dirty, dirtyCount, readQueue, current, lookup, deadlock, ctrlQueue, cells>>

NothingToServe ==
  /\ ~Busy /\ NextQueue = <<>> /\ ~MayCollect
  /\ UNCHANGED <<ftlVars, ctrlQueue, cells, complaint>>

FtlUpdate ==
  \/ Lookup \/ Locked \/ ServeRead \/ ServeUnmapped \/ ServeDiskRead \/ ServeWrite
  \/ ServeErase \/ Pick \/ CollectIdle \/ NothingToServe
=============================================================================
