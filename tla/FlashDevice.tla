---------------------------- MODULE FlashDevice -----------------------------
(***************************************************************************)
(* The controller of an NVDIMM, its channels and its dies (classes         *)
(* Controller, Channel, Die, Plane and Block of src/nvdimmsim/src), with   *)
(* one queue for each die (CTRL_SCHEDULE = 0) and dies connected directly  *)
(* to the channels (BUFFERED = 0), as in the shipped device files.         *)
(***************************************************************************)
EXTENDS Naturals, Sequences, FiniteSets, SequencesExt

CONSTANTS
  BLOCKS_PER_PLANE, PAGES_PER_BLOCK,
  READ_CYCLES, WRITE_CYCLES, ERASE_CYCLES, LOOKUP_CYCLES,
  CommandBeats, PageBeats,      \* beats of a command and of a page on a channel
  ReturnCycles,                 \* cycles of a page from the die to the controller
  CommandBits, PageBits,        \* COMMAND_LENGTH and 8 * NV_PAGE_SIZE
  FrontCommand, FrontPage,      \* cycles of a command and of a page in the front buffer
  REQUEST_BUFFER_SIZE, RESPONSE_BUFFER_SIZE,
  FTL_READ_QUEUE_LENGTH,
  VirtualPages,                 \* VIRTUAL_TOTAL_SIZE / NV_PAGE_SIZE
  BLOCK_SIZE,                   \* in bytes
  DeadlockTime,                 \* deadlock_time
  Addresses,                    \* virtual page addresses
  NoPage, Blank,                \* of a virtual address that is not mapped; of an erased page
  Setups                        \* devices to be examined

ASSUME FlashDimensions ==
  /\ {BLOCKS_PER_PLANE, PAGES_PER_BLOCK, READ_CYCLES, WRITE_CYCLES, ERASE_CYCLES, LOOKUP_CYCLES,
      CommandBeats, PageBeats, ReturnCycles, CommandBits, PageBits, FrontCommand, FrontPage,
      REQUEST_BUFFER_SIZE, RESPONSE_BUFFER_SIZE, FTL_READ_QUEUE_LENGTH, VirtualPages,
      BLOCK_SIZE, DeadlockTime} \subseteq Nat \ {0}
  /\ Addresses \subseteq Nat /\ NoPage \notin Nat /\ Blank \notin Nat

(***************************************************************************)
(* What the device file chooses: packages and planes of a die; front,      *)
(* commands, requests: FRONT_BUFFER and the channels in front of it;       *)
(* diskRead: DISK_READ; gc: GARBAGE_COLLECT; ctrl: CTRL_READ_QUEUE_LENGTH; *)
(* idle, force: the pages in use beyond which the collector may run, and   *)
(* from which it must (the thresholds times VirtualPages); limit, types:   *)
(* how many transactions the host sends and of which kinds, bounds of the  *)
(* model.                                                                  *)
(***************************************************************************)
VARIABLE setup
CTRL_READ_QUEUE_LENGTH == setup.ctrl

NUM_PACKAGES == setup.packages
PLANES_PER_DIE == setup.planes
Packages == 0 .. NUM_PACKAGES - 1
Planes == 0 .. PLANES_PER_DIE - 1
NumPlanes == NUM_PACKAGES * PLANES_PER_DIE
NumBlocks == NumPlanes * BLOCKS_PER_PLANE
Blocks == 0 .. NumBlocks - 1
Pages == 0 .. (NumBlocks * PAGES_PER_BLOCK) - 1

(***************************************************************************)
(* Ftl::translate.                                                         *)
(***************************************************************************)
BlockOf(p) == p \div PAGES_PER_BLOCK
PlaneOf(p) == (BlockOf(p) \div BLOCKS_PER_PLANE) % PLANES_PER_DIE
PackageOf(p) == (BlockOf(p) \div (BLOCKS_PER_PLANE * PLANES_PER_DIE)) % NUM_PACKAGES
PagesOf(b) == {p \in Pages : BlockOf(p) = b}

(***************************************************************************)
(* Packets to and from a die.  The code moves no data: `ver` stands for    *)
(* the data of the page, and `sees` is the history a read is checked by.   *)
(***************************************************************************)
Packet(type, v, p, trans) ==
  [type |-> type, vAddr |-> v, page |-> p, id |-> trans.id, ver |-> trans.ver, sees |-> trans.sees]
Transaction(type, v, id, ver, sees) ==
  [type |-> type, vAddr |-> v, id |-> id, ver |-> ver, sees |-> sees]
NoTransaction == Transaction("EMPTY", 0, 0, 0, 0)

Least(S) == CHOOSE n \in S : \A m \in S : n <= m

VARIABLES
  ctrlQueue,         \* readQueues of each package
  outgoing,          \* outgoingPackets and channelBeatsLeft: at most one of each package
  returnTransaction,
  sender,            \* who holds the channel of each package
  command,           \* currentCommands and controlCyclesLeft of each plane: at most one
  dataReg, cacheReg, \* the registers of each plane: at most one packet
  returnData,        \* returnDataPackets of each die
  returnLeft,        \* dataCyclesLeft of each die
  cells,             \* what the pages hold; Blank when they are erased
  numErases,
  complaint          \* the first ERROR or abort that was reached

deviceVars == <<ctrlQueue, outgoing, returnTransaction, sender, command, dataReg, cacheReg,
                returnData, returnLeft, cells, numErases, complaint>>

At == Packages \X Planes
PlaceOf(p) == <<PackageOf(p.page), PlaneOf(p.page)>>
DeviceInit ==
  /\ ctrlQueue = [k \in Packages |-> <<>>]
  /\ outgoing = [k \in Packages |-> <<>>]
  /\ returnTransaction = <<>>
  /\ sender = [k \in Packages |-> "none"]
  /\ command = [x \in At |-> <<>>]
  /\ dataReg = [x \in At |-> <<>>] /\ cacheReg = [x \in At |-> <<>>]
  /\ returnData = [k \in Packages |-> <<>>]
  /\ returnLeft = [k \in Packages |-> 0]
  /\ cells = [p \in Pages |-> Blank]
  /\ numErases = 0
  /\ complaint = "none"

(***************************************************************************)
(* Controller::addPacket and checkQueueWrite, for a queue of a package.    *)
(***************************************************************************)
HasRoom(p) == Len(ctrlQueue[PackageOf(p)]) < CTRL_READ_QUEUE_LENGTH
CheckQueueWrite(p) == Len(ctrlQueue[PackageOf(p)]) + 1 < CTRL_READ_QUEUE_LENGTH
AddPackets(p, packets) == ctrlQueue' = [ctrlQueue EXCEPT ![PackageOf(p)] = @ \o packets]

(***************************************************************************)
(* Die::isDieBusy and Channel::obtainChannel: a packet for a die needs its *)
(* plane idle with an empty cache register; data may go while the plane    *)
(* writes, and a command while the cache register is full.                 *)
(***************************************************************************)
IsDieBusy(x) ==
  IF command[x] = <<>> THEN IF cacheReg[x] = <<>> THEN "idle" ELSE "loaded"
  ELSE IF command[x][1].type = "WRITE" /\ cacheReg[x] = <<>> THEN "writing" ELSE "busy"
\* Mutant: anything is sent to a plane that writes.
MayObtainWriting(k) ==
  /\ sender[k] = "none"
  /\ LET p == Head(ctrlQueue[k]) s == IsDieBusy(PlaceOf(p))
     IN  s \in {"idle", "writing"} \/ (s = "loaded" /\ p.type # "DATA")
MayObtain(k) ==
  /\ sender[k] = "none"
  /\ LET p == Head(ctrlQueue[k]) s == IsDieBusy(PlaceOf(p))
     IN  s = "idle" \/ (s = "writing" /\ p.type = "DATA") \/ (s = "loaded" /\ p.type # "DATA")

(***************************************************************************)
(* Controller::update: a package whose channel is free gets its next       *)
(* packet, and a beat of the packet on the channel is sent; the packet     *)
(* arrives at the die with the last one.                                   *)
(***************************************************************************)
Sends(k) == ctrlQueue[k] # <<>> /\ outgoing[k] = <<>> /\ MayObtain(k)
Beats(p) == IF p.type = "DATA" THEN PageBeats ELSE CommandBeats
OnChannel(k) ==
  IF Sends(k) THEN LET p == Head(ctrlQueue[k]) IN <<[packet |-> p, left |-> Beats(p)]>>
  ELSE outgoing[k]
ArrivesAt(k) == OnChannel(k) # <<>> /\ OnChannel(k)[1].left = 1
Arrivals == {OnChannel(k)[1].packet : k \in {j \in Packages : ArrivesAt(j)}}
ArrivedAt(x) == {p \in Arrivals : PlaceOf(p) = x}

(***************************************************************************)
(* Die::receiveFromBuffer, with Plane::read, write, erase and storeInData. *)
(* A read takes the data of the page when it arrives; a write moves the    *)
(* data from the cache register to the data register.                      *)
(***************************************************************************)
Cycles(type) ==
  CASE type \in {"READ", "GC_READ"} -> READ_CYCLES
    [] type \in {"WRITE", "GC_WRITE"} -> IF setup.gc THEN WRITE_CYCLES ELSE ERASE_CYCLES
    [] type = "ERASE" -> ERASE_CYCLES
Reading(p) == [p EXCEPT !.ver = cells[p.page]]
Refused(p) ==
  LET x == PlaceOf(p)
  IN  IF p.type = "DATA" THEN cacheReg[x] # <<>>
      ELSE \/ command[x] # <<>>
           \/ p.type \in {"READ", "GC_READ"} /\ (dataReg[x] # <<>> \/ cells[p.page] = Blank)
           \/ p.type \in {"WRITE", "GC_WRITE"} /\ cacheReg[x] = <<>>

DieReceives ==
  /\ command' = [x \in At |->
       IF \E p \in ArrivedAt(x) : p.type # "DATA"
       THEN LET p == CHOOSE q \in ArrivedAt(x) : TRUE
            IN  <<[type |-> p.type, packet |-> p, left |-> Cycles(p.type)]>>
       ELSE command[x]]
  /\ dataReg' = [x \in At |->
       IF \E p \in ArrivedAt(x) : p.type \in {"READ", "GC_READ"}
       THEN <<Reading(CHOOSE q \in ArrivedAt(x) : TRUE)>>
       ELSE IF \E p \in ArrivedAt(x) : p.type \in {"WRITE", "GC_WRITE"} THEN cacheReg[x]
       ELSE dataReg[x]]
  /\ cacheReg' = [x \in At |->
       IF \E p \in ArrivedAt(x) : p.type = "DATA" THEN <<CHOOSE q \in ArrivedAt(x) : TRUE>>
       ELSE IF \E p \in ArrivedAt(x) : p.type \in {"WRITE", "GC_WRITE"} THEN <<>>
       ELSE cacheReg[x]]
  /\ cells' = [p \in Pages |->
       IF \E q \in Arrivals : q.type = "ERASE" /\ BlockOf(q.page) = BlockOf(p) THEN Blank
       ELSE cells[p]]
  /\ numErases' = numErases + Cardinality({q \in Arrivals : q.type = "ERASE"})
  /\ complaint' = IF \E p \in Arrivals : Refused(p)
                  THEN (CHOOSE p \in Arrivals : Refused(p)).type ELSE complaint

(***************************************************************************)
(* The channel, and whether the translation layer may try again            *)
(* (queuesNotFull, called whenever a queue loses a packet).                *)
(***************************************************************************)
ChannelsMove ==
  /\ ctrlQueue' = [k \in Packages |-> IF Sends(k) THEN Tail(ctrlQueue[k]) ELSE ctrlQueue[k]]
  /\ outgoing' = [k \in Packages |->
       IF OnChannel(k) = <<>> \/ ArrivesAt(k) THEN <<>>
       ELSE <<[OnChannel(k)[1] EXCEPT !.left = @ - 1]>>]
  /\ sender' = [k \in Packages |->
       IF ArrivesAt(k) THEN "none" ELSE IF Sends(k) THEN "controller" ELSE sender[k]]
\* Mutant: the translation layer is not told.
SomeQueueServedUntold == FALSE
SomeQueueServed == \E k \in Packages : Sends(k)

-----------------------------------------------------------------------------
(***************************************************************************)
(* Die::update.  A command whose cycles have passed is done: the data of a *)
(* read goes to the cache register and waits for the channel, if the       *)
(* register is free; the data of a write is stored.                        *)
(***************************************************************************)
Expired(x) == command[x] # <<>> /\ command[x][1].left = 0
Kept(x) == Expired(x) /\ command[x][1].type = "READ" /\ cacheReg[x] # <<>>
Done(x, type) == Expired(x) /\ ~Kept(x) /\ command[x][1].type = type

(***************************************************************************)
(* The reads that are done in a die, in the order of its planes.           *)
(***************************************************************************)
ReadsDone(k) ==
  LET f[n \in 0 .. PLANES_PER_DIE] ==
        IF n = 0 THEN <<>>
        ELSE f[n - 1] \o (IF Done(<<k, n - 1>>, "READ") \/ Done(<<k, n - 1>>, "GC_READ")
                          THEN dataReg[<<k, n - 1>>] ELSE <<>>)
  IN  f[PLANES_PER_DIE]
GcReadsDone ==
  LET f[n \in 0 .. NUM_PACKAGES] == IF n = 0 THEN <<>> ELSE f[n - 1] \o ReadsDone(n - 1)
  IN  SelectSeq(f[NUM_PACKAGES], LAMBDA p : p.type = "GC_READ")

(***************************************************************************)
(* The data at the front leaves over the channel.  A die that does not     *)
(* hold the channel lets a read for the same plane come in first.          *)
(***************************************************************************)
Returns(k) == returnData[k] \o ReadsDone(k)
Held(k) == sender[k] = "die"
Leaves(k) == Returns(k) # <<>> /\ Held(k) /\ returnLeft[k] = 0
DataReady(k, x) ==
  /\ ctrlQueue[k] # <<>>
  /\ Head(ctrlQueue[k]).type = "READ" /\ PlaceOf(Head(ctrlQueue[k])) = x
TakesChannel(k) ==
  /\ Returns(k) # <<>> /\ sender[k] = "none"
  /\ LET x == PlaceOf(Head(Returns(k)))
     IN  ~DataReady(k, x) \/ (command[x] # <<>> /\ (~Expired(x) \/ Kept(x)))

(***************************************************************************)
(* Data that leaves: the cache register of its plane is free again.        *)
(***************************************************************************)
LeavingOf(x) == Leaves(x[1]) /\ PlaceOf(Head(Returns(x[1]))) = x
BadWrite(x) == /\ Done(x, "WRITE") /\ setup.gc
               /\ cells[command[x][1].packet.page] # Blank
BadRead(x) == Done(x, "GC_READ") /\ (cacheReg[x] # <<>> \/ dataReg[x] = <<>>)
ReturnedBy(k) ==
  LET p == Head(Returns(k))
  IN  IF Leaves(k) /\ p.type = "READ"
      THEN <<Transaction("RETURN_DATA", p.vAddr, p.id, p.ver, p.sees)>> ELSE <<>>
Returned ==
  LET f[n \in 0 .. NUM_PACKAGES] == IF n = 0 THEN <<>> ELSE f[n - 1] \o ReturnedBy(n - 1)
  IN  f[NUM_PACKAGES]

DiesWork ==
  /\ command' = [x \in At |->
       IF Expired(x) THEN IF Kept(x) THEN command[x] ELSE <<>>
       ELSE IF command[x] # <<>> THEN <<[command[x][1] EXCEPT !.left = @ - 1]>> ELSE <<>>]
  /\ cacheReg' = [x \in At |->
       IF LeavingOf(x) THEN <<>>
       ELSE IF Done(x, "READ") \/ Done(x, "GC_READ") THEN dataReg[x] ELSE cacheReg[x]]
  /\ dataReg' = [x \in At |->
       IF Done(x, "READ") \/ Done(x, "GC_READ") \/ Done(x, "WRITE") THEN <<>> ELSE dataReg[x]]
  /\ cells' = [p \in Pages |->
       IF \E x \in At : Done(x, "WRITE") /\ command[x][1].packet.page = p
       THEN dataReg[CHOOSE x \in At : Done(x, "WRITE") /\ command[x][1].packet.page = p][1].ver
       ELSE cells[p]]
  /\ returnData' = [k \in Packages |-> IF Leaves(k) THEN Tail(Returns(k)) ELSE Returns(k)]
  /\ returnLeft' = [k \in Packages |->
       IF TakesChannel(k) THEN ReturnCycles
       ELSE IF Held(k) /\ ~Leaves(k) THEN returnLeft[k] - 1 ELSE returnLeft[k]]
  /\ sender' = [k \in Packages |->
       IF TakesChannel(k) THEN "die" ELSE IF Leaves(k) THEN "none" ELSE sender[k]]
  /\ returnTransaction' = returnTransaction \o Returned
  /\ complaint' = IF \E x \in At : BadWrite(x) THEN "page written twice"
                  ELSE IF \E x \in At : BadRead(x) THEN "no register" ELSE complaint
  /\ UNCHANGED <<ctrlQueue, outgoing, numErases>>

WritesDone == {command[x][1].packet.id : x \in {y \in At : Done(y, "WRITE")}}
=============================================================================
