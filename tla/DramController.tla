--------------------------- MODULE DramController ---------------------------
(***************************************************************************)
(* A channel of DRAMSim2: MemoryController::update and MemorySystem::update *)
(* (src/dramsim2), with the ranks and the command queue.  A cycle goes     *)
(* through the stages of the two functions in their order: from "idle",    *)
(* where the caller may add a transaction, what is on the buses arrives,   *)
(* then come "issue", "enqueue" and "answer".                               *)
(***************************************************************************)
EXTENDS DramRank, DramQueue

CONSTANTS
  Setups,          \* combinations of policies to be examined
  MaxTransactions, \* bound of the model
  FirstAddress,    \* bound of the model: where the first transaction may go
  FreeTransactions \* bound of the model: those after so many read what was written

VARIABLES
  stage,
  transactionQueue,  \* transactions [kind, addr, id] that wait for the command queue;
                     \* history: sees, the last write accepted before
  pendingReads,      \* pendingReadTransactions
  returnTransaction, \* data that came back
  cmdOut, dataOut,   \* outgoingCmdPacket and outgoingDataPacket, sequences of at most one
  writeData,         \* writeDataToSend and writeDataCountdown
  refreshCountdown,  \* of each rank
  dueRank,           \* refreshRank of the controller: the next to be refreshed
  powerDown,         \* of each rank
  issued,            \* bound of the model: transactions accepted
  lastWrite          \* history: the last write accepted for each address

ctrlVars == <<transactionQueue, pendingReads, returnTransaction, cmdOut, dataOut, writeData,
              refreshCountdown, dueRank, powerDown>>
history == <<issued, lastWrite>>
vars == <<setup, bank, queueVars, rankVars, stage, ctrlVars, history>>

NewBank == [state |-> "Idle", row |-> 0, nextRead |-> 0, nextWrite |-> 0, nextActivate |-> 0,
            nextPrecharge |-> 0, nextPowerUp |-> 0, last |-> "READ", countdown |-> 0]

Init ==
  /\ setup \in Setups
  /\ bank = [r \in Ranks |-> [b \in Banks |-> NewBank]]
  /\ QueueInit /\ RankInit
  /\ stage = "idle"
  /\ transactionQueue = <<>> /\ pendingReads = <<>> /\ returnTransaction = <<>>
  /\ cmdOut = <<>> /\ dataOut = <<>> /\ writeData = <<>>
  /\ refreshCountdown = [r \in Ranks |-> (RefreshPeriod \div NUM_RANKS) * (r + 1)]
  /\ dueRank = 0
  /\ powerDown = [r \in Ranks |-> FALSE]
  /\ issued = 0
  /\ lastWrite = [a \in Address |-> 0]

Running == complaint = "none"

-----------------------------------------------------------------------------
(***************************************************************************)
(* addTransaction of a caller that tries again when it is refused.         *)
(***************************************************************************)
WillAcceptTransaction == Len(transactionQueue) < TRANS_QUEUE_DEPTH

AddTransaction(kind, a) ==
  /\ stage = "idle" /\ Running /\ issued < MaxTransactions
  /\ issued = 0 => a \in FirstAddress
  /\ issued >= FreeTransactions => kind = "DATA_READ" /\ lastWrite[a] # 0
  /\ WillAcceptTransaction
  /\ issued' = issued + 1
  /\ transactionQueue' = Append(transactionQueue, [kind |-> kind, addr |-> a, id |-> issued',
                                                   sees |-> lastWrite[a]])
  /\ lastWrite' = IF kind = "DATA_WRITE" THEN [lastWrite EXCEPT ![a] = issued'] ELSE lastWrite
  /\ UNCHANGED <<setup, bank, queueVars, rankVars, stage, pendingReads, returnTransaction,
                 cmdOut, dataOut, writeData, refreshCountdown, dueRank, powerDown>>

-----------------------------------------------------------------------------
(***************************************************************************)
(* The ranks are updated, the states of the banks change when their time   *)
(* has come, and what was on the way to a rank arrives there: a command    *)
(* after tCMD cycles, the data of a write after a burst.  The data of the  *)
(* oldest write takes the bus WL cycles after its command.                 *)
(***************************************************************************)
BankCountdown(k) ==
  CASE k.countdown # 1 -> [k EXCEPT !.countdown = Left(@)]
    [] k.countdown = 1 /\ k.last \in {"READ_P", "WRITE_P"} ->
         [k EXCEPT !.state = "Precharging", !.last = "PRECHARGE", !.countdown = tRP]
    [] k.countdown = 1 /\ k.last \in {"REFRESH", "PRECHARGE"} ->
         [k EXCEPT !.state = "Idle", !.countdown = 0]
    [] OTHER -> [k EXCEPT !.countdown = 0]

OneLess(s) == [i \in 1 .. Len(s) |-> [s[i] EXCEPT !.left = @ - 1]]
Arrived(s) == {s[i].packet : i \in {j \in 1 .. Len(s) : s[j].left = 1}}
Staying(s) == IF Arrived(s) = {} THEN OneLess(s) ELSE <<>>

(***************************************************************************)
(* returnTransaction gets the data of the ranks in their order.            *)
(***************************************************************************)
FromRanks[n \in 0 .. NUM_RANKS] ==
  IF n = 0 THEN <<>> ELSE FromRanks[n - 1] \o Delivered(n - 1)

WriteDataReady == writeData # <<>> /\ writeData[1].left = 1

Arrive ==
  /\ stage = "idle" /\ Running
  /\ stage' = "issue"
  /\ returnTransaction' = returnTransaction \o FromRanks[NUM_RANKS]
  /\ sending' = [r \in Ranks |-> SendingNext(r)]
  /\ bank' = [r \in Ranks |-> [b \in Banks |-> BankCountdown(bank[r][b])]]
  /\ RankReceive(Arrived(cmdOut), Arrived(dataOut), [r \in Ranks |-> ReturnsLeft(r)])
  /\ cmdOut' = Staying(cmdOut)
  /\ IF WriteDataReady
     THEN /\ writeData' = Tail(OneLess(writeData))
          /\ dataOut' = <<[packet |-> writeData[1].packet, left |-> HalfBL]>> \o Staying(dataOut)
     ELSE writeData' = OneLess(writeData) /\ dataOut' = Staying(dataOut)
  /\ UNCHANGED <<setup, queueVars, transactionQueue, pendingReads, refreshCountdown, dueRank,
                 powerDown, history>>

-----------------------------------------------------------------------------
(***************************************************************************)
(* The bank states after a command is issued.  A column command holds back *)
(* the banks of another rank only if they are open.                        *)
(***************************************************************************)
AfterColumnIssued(k, p, sameRank, here, read, auto) ==
  LET slow == IF read
              THEN [nextRead |-> LargerOf(tCCD, HalfBL), nextWrite |-> READ_TO_WRITE_DELAY]
              ELSE [nextRead |-> WRITE_TO_READ_DELAY_B, nextWrite |-> LargerOf(HalfBL, tCCD)]
      far == IF read
             THEN [nextRead |-> HalfBL + tRTRS, nextWrite |-> READ_TO_WRITE_DELAY]
             ELSE [nextRead |-> WRITE_TO_READ_DELAY_R, nextWrite |-> HalfBL + tRTRS]
      d == IF sameRank THEN slow ELSE far
      activate == LargerOf(k.nextActivate, IF read THEN READ_AUTOPRE_DELAY ELSE WRITE_AUTOPRE_DELAY)
      precharge == IF read THEN READ_TO_PRE_DELAY ELSE WRITE_TO_PRE_DELAY
  IN  CASE here /\ auto ->
             [k EXCEPT !.nextActivate = activate, !.nextRead = activate, !.nextWrite = activate,
                       !.last = p.kind, !.countdown = precharge]
        [] here /\ ~auto ->
             [k EXCEPT !.nextPrecharge = LargerOf(@, precharge), !.last = p.kind,
                       !.nextRead = LargerOf(@, d.nextRead), !.nextWrite = LargerOf(@, d.nextWrite)]
        [] ~here /\ (sameRank \/ k.state = "RowActive") ->
             [k EXCEPT !.nextRead = LargerOf(@, d.nextRead), !.nextWrite = LargerOf(@, d.nextWrite)]
        [] OTHER -> k

\* Mutant: the row is taken to be open a cycle early.
AfterActivateIssuedEarly(k, p, here) ==
  IF here
  THEN [k EXCEPT !.state = "RowActive", !.last = "ACTIVATE", !.row = p.row,
                 !.nextActivate = LargerOf(@, tRC), !.nextPrecharge = LargerOf(@, tRAS),
                 !.nextRead = LargerOf(@, Left(tRCD - AL)),
                 !.nextWrite = LargerOf(@, Left(tRCD - AL))]
  ELSE [k EXCEPT !.nextActivate = LargerOf(@, tRRD)]
AfterActivateIssued(k, p, here) ==
  IF here
  THEN [k EXCEPT !.state = "RowActive", !.last = "ACTIVATE", !.row = p.row,
                 !.nextActivate = LargerOf(@, tRC), !.nextPrecharge = LargerOf(@, tRAS),
                 !.nextRead = LargerOf(@, tRCD - AL), !.nextWrite = LargerOf(@, tRCD - AL)]
  ELSE [k EXCEPT !.nextActivate = LargerOf(@, tRRD)]

AfterPrechargeIssued(k) ==
  [k EXCEPT !.state = "Precharging", !.last = "PRECHARGE", !.countdown = tRP,
            !.nextActivate = LargerOf(@, tRP)]
AfterRefreshIssued(k) ==
  [k EXCEPT !.nextActivate = tRFC, !.state = "Refreshing", !.last = "REFRESH", !.countdown = tRFC]

AfterIssue(k, r, b, p) ==
  LET sameRank == r = p.rank
      here == sameRank /\ b = p.bank
  IN  CASE p.kind \in Reads \cup Writes ->
             AfterColumnIssued(k, p, sameRank, here, p.kind \in Reads,
                               p.kind \in {"READ_P", "WRITE_P"})
        [] p.kind = "ACTIVATE" /\ sameRank -> AfterActivateIssued(k, p, here)
        [] p.kind = "PRECHARGE" /\ here -> AfterPrechargeIssued(k)
        [] p.kind = "REFRESH" /\ sameRank -> AfterRefreshIssued(k)
        [] OTHER -> k

(***************************************************************************)
(* The checks of the controller on its buses; that of the data bus is made *)
(* where the data of a write takes it, at the end of the stage before.     *)
(***************************************************************************)
Collision == IF Len(dataOut) > 1 THEN "data bus collision" ELSE complaint

(***************************************************************************)
(* A command is popped, from turn `turn` of the search, and put on the     *)
(* command bus; a write brings its data along.                             *)
(***************************************************************************)
Issue(p, turn) ==
  /\ Advance(p, turn, FawNow)
  /\ bank' = [r \in Ranks |-> [b \in Banks |-> AfterIssue(bank[r][b], r, b, p)]]
  /\ writeData' = IF p.kind \in Writes THEN Append(writeData, [packet |-> p, left |-> WL])
                  ELSE writeData
  /\ cmdOut' = <<[packet |-> p, left |-> tCMD]>> \o cmdOut
  /\ complaint' = IF Len(cmdOut') > 1 THEN "command bus collision" ELSE Collision

Take(r, b, i) == queues' = [queues EXCEPT ![r][QueueBank(b)] = Without(@, i)]

(***************************************************************************)
(* The rank whose time for a refresh has come tells the queue.  A rank     *)
(* that sleeps is woken in time.                                           *)
(***************************************************************************)
RefreshDue == refreshCountdown[dueRank] = 0
WakesForRefresh == ~RefreshDue /\ powerDown[dueRank] /\ refreshCountdown[dueRank] <= tXP
RankNow == IF RefreshDue THEN dueRank ELSE refreshRank
WaitingNow == RefreshDue \/ refreshWaiting

AnnounceRefresh ==
  /\ refreshCountdown' =
       IF RefreshDue THEN [refreshCountdown EXCEPT ![dueRank] = RefreshPeriod] ELSE refreshCountdown
  /\ dueRank' = IF RefreshDue THEN (dueRank + 1) % NUM_RANKS ELSE dueRank
  /\ rRefreshWaiting' = IF RefreshDue \/ WakesForRefresh
                        THEN [rRefreshWaiting EXCEPT ![dueRank] = TRUE] ELSE rRefreshWaiting

Issuing ==
  /\ stage = "issue" /\ Running
  /\ stage' = "enqueue"
  /\ AnnounceRefresh
  /\ UNCHANGED <<setup, rbank, isPowerDown, readReturn, sending, cells, transactionQueue,
                 pendingReads, returnTransaction, dataOut, powerDown, history>>

(***************************************************************************)
(* CommandQueue::pop.                                                      *)
(***************************************************************************)
Refreshes == RefreshGoes(RankNow, WaitingNow)
Drains(r, b) == b \in OpenBank(r, WaitingNow) /\ DrainIndex(r, b, FawNow) # {}
ClosesRow(r, b) == OpenPage /\ b \in OpenBank(r, WaitingNow) /\ RowDone(r, b)
ServesRefresh == Refreshes \/ \E b \in Banks :
                   WaitingNow /\ (Drains(RankNow, b) \/ ClosesRow(RankNow, b))
KeepWaiting == refreshRank' = RankNow /\ refreshWaiting' = WaitingNow

IssueRefresh ==
  /\ Issuing /\ Refreshes
  /\ Issue(BankCommand("REFRESH", RankNow, 0), nextTurn)
  /\ refreshRank' = NoRank /\ refreshWaiting' = FALSE
  /\ UNCHANGED <<queues, nextTurnPRE, rowAccesses>>

IssueBeforeRefresh ==
  /\ Issuing /\ WaitingNow
  /\ \E b \in Banks : \E i \in DrainIndex(RankNow, b, FawNow) :
       /\ b \in OpenBank(RankNow, WaitingNow)
       /\ Issue(QueueOf(RankNow, b)[i], nextTurn)
       /\ queues' = [queues EXCEPT ![RankNow][QueueBank(b)] = RemoveAt(@, i)]
  /\ KeepWaiting
  /\ UNCHANGED <<nextTurnPRE, rowAccesses>>

CloseForRefresh ==
  /\ Issuing /\ WaitingNow
  /\ \E b \in Banks :
       /\ ClosesRow(RankNow, b)
       /\ Issue(BankCommand("PRECHARGE", RankNow, b), nextTurn)
       /\ rowAccesses' = [rowAccesses EXCEPT ![RankNow][b] = 0]
  /\ KeepWaiting
  /\ UNCHANGED <<queues, nextTurnPRE>>

IssueQueued ==
  /\ Issuing /\ ~ServesRefresh
  /\ LET found == Found(FawNow, RankNow, WaitingNow)
         t == Visited(FirstOf(found))
         i == FirstOf(GoingAt(t, FawNow, RankNow, WaitingNow))
         q == QueueOf(t[1], t[2])
         p == q[i]
     IN  /\ found # {}
         /\ Issue(p, t)
         /\ Take(t[1], t[2], i)
         /\ rowAccesses' = IF SkipsActivate(q, i)
                           THEN [rowAccesses EXCEPT ![p.rank][p.bank] = @ + 1] ELSE rowAccesses
  /\ KeepWaiting
  /\ UNCHANGED nextTurnPRE

NothingQueued == ~ServesRefresh /\ Found(FawNow, RankNow, WaitingNow) = {}

CloseIdleRow ==
  /\ Issuing /\ NothingQueued
  /\ OpenPage /\ ClosableTurns # {}
  /\ nextTurnPRE' = TurnAfter(nextTurnPRE, FirstOf(ClosableTurns))
  /\ Issue(BankCommand("PRECHARGE", nextTurnPRE'[1], nextTurnPRE'[2]), nextTurn)
  /\ rowAccesses' = [rowAccesses EXCEPT ![nextTurnPRE'[1]][nextTurnPRE'[2]] = 0]
  /\ KeepWaiting
  /\ UNCHANGED queues

IssueNothing ==
  /\ Issuing /\ NothingQueued
  /\ ~OpenPage \/ ClosableTurns = {}
  /\ fawCountdown' = FawNow
  /\ complaint' = Collision
  /\ KeepWaiting
  /\ UNCHANGED <<bank, queues, nextTurn, nextTurnPRE, sendAct, rowAccesses, writeData, cmdOut>>

-----------------------------------------------------------------------------
(***************************************************************************)
(* The first transaction whose queue has room for two commands becomes an  *)
(* activate and a column command, which closes its row with closed pages.  *)
(***************************************************************************)
Place == Places[setup.scheme]

Room(i) == LET p == Place[transactionQueue[i].addr] IN HasRoomFor(2, p.rank, p.bank)
Schedulable == {i \in 1 .. Len(transactionQueue) : Room(i)}
BusPacketType(kind) ==
  CASE kind = "DATA_READ" -> IF OpenPage THEN "READ" ELSE "READ_P"
    [] kind = "DATA_WRITE" -> IF OpenPage THEN "WRITE" ELSE "WRITE_P"

EnqueueOne ==
  IF Schedulable = {} THEN UNCHANGED <<transactionQueue, queues, pendingReads>>
  ELSE LET i == FirstOf(Schedulable)
           t == transactionQueue[i]
           p == Place[t.addr]
       IN  /\ transactionQueue' = RemoveAt(transactionQueue, i)
           /\ queues' = [queues EXCEPT ![p.rank][QueueBank(p.bank)] =
                @ \o <<Command("ACTIVATE", t.addr, t.id, p),
                       Command(BusPacketType(t.kind), t.addr, t.id, p)>>]
           /\ pendingReads' = IF t.kind = "DATA_READ" THEN Append(pendingReads, t)
                              ELSE pendingReads

(***************************************************************************)
(* A rank with nothing to do, now that a transaction was scheduled, sleeps *)
(* when its banks are idle; one that has something to do again wakes up    *)
(* when it slept for tCKE cycles.                                          *)
(***************************************************************************)
NothingToDo(r) == (\A b \in Banks : queues'[r][b] = <<>>) /\ ~rRefreshWaiting[r]
FallsAsleep == {r \in Ranks : /\ setup.lowPower /\ NothingToDo(r)
                              /\ \A b \in Banks : bank[r][b].state = "Idle"}
WakesUp == {r \in Ranks : /\ setup.lowPower /\ ~NothingToDo(r)
                          /\ powerDown[r] /\ bank[r][0].nextPowerUp = 0}
Power ==
  /\ powerDown' = [r \in Ranks |-> (powerDown[r] \/ r \in FallsAsleep) /\ r \notin WakesUp]
  /\ bank' = [r \in Ranks |-> [b \in Banks |->
       CASE r \in FallsAsleep -> [bank[r][b] EXCEPT !.state = "PowerDown", !.nextPowerUp = tCKE]
         [] r \in WakesUp -> [bank[r][b] EXCEPT !.state = "Idle", !.nextActivate = tXP]
         [] OTHER -> bank[r][b]]]
  /\ RankPower(FallsAsleep, WakesUp)

Schedule ==
  /\ stage = "enqueue" /\ Running
  /\ stage' = "answer"
  /\ EnqueueOne
  /\ Power
  /\ UNCHANGED <<setup, nextTurn, nextTurnPRE, refreshRank, refreshWaiting, sendAct,
                 rowAccesses, fawCountdown, returnTransaction, cmdOut, dataOut, writeData,
                 refreshCountdown, dueRank, history>>

-----------------------------------------------------------------------------
(***************************************************************************)
(* The oldest data that came back answers the first pending read of its    *)
(* address; then the clocks take a step.                                   *)
(***************************************************************************)
Matching == {i \in 1 .. Len(pendingReads) : pendingReads[i].addr = Head(returnTransaction).addr}

Answer ==
  /\ stage = "answer" /\ Running
  /\ stage' = "idle"
  /\ IF returnTransaction = <<>>
     THEN UNCHANGED <<returnTransaction, pendingReads, complaint>>
     ELSE /\ returnTransaction' = Tail(returnTransaction)
          /\ IF Matching = {}
             THEN complaint' = "no match" /\ UNCHANGED pendingReads
             ELSE pendingReads' = RemoveAt(pendingReads, FirstOf(Matching)) /\ UNCHANGED complaint
  /\ refreshCountdown' = [r \in Ranks |-> refreshCountdown[r] - 1]
  /\ RankStep
  /\ bank' = [r \in Ranks |-> [b \in Banks |-> BankStep(bank[r][b])]]
  /\ UNCHANGED <<setup, queueVars, rRefreshWaiting, isPowerDown, readReturn, sending, cells,
                 transactionQueue, cmdOut, dataOut, writeData, dueRank, powerDown,
                 issued, lastWrite>>

Pop == \/ IssueRefresh \/ IssueBeforeRefresh \/ CloseForRefresh
       \/ IssueQueued \/ CloseIdleRow \/ IssueNothing

Update == Arrive \/ Pop \/ Schedule \/ Answer

Next ==
  \/ \E a \in Address : AddTransaction("DATA_READ", a) \/ AddTransaction("DATA_WRITE", a)
  \/ Update

(***************************************************************************)
(* The caller updates the system every cycle, as ar_engine does: weak      *)
(* fairness of Update, whose steps are those that change the stage and     *)
(* which is enabled in every state until a check fails.                    *)
(***************************************************************************)
ClockRuns == []<><<stage' # stage>>_stage \/ <>[]~Running

Spec == Init /\ [][Next]_vars /\ ClockRuns

-----------------------------------------------------------------------------
(* What a DRAM channel must guarantee.                                      *)

(***************************************************************************)
(* The controller keeps its own account of the banks and sends commands    *)
(* tCMD cycles ahead of the ranks, which check each of them with theirs:   *)
(* no check fails, no bus collides, and every read that comes back is      *)
(* still pending (the ERROR lines of Rank.cpp and MemoryController.cpp).   *)
(***************************************************************************)
NoComplaint == complaint = "none"

(***************************************************************************)
(* A read returns what the last write accepted before it left at its       *)
(* address, in spite of reordering in the queues: in an open row a read is *)
(* often allowed before the write in front of it.                          *)
(***************************************************************************)
ReadsSeeWrites ==
  stage = "answer" /\ returnTransaction # <<>> /\ Matching # {} =>
    pendingReads[FirstOf(Matching)].sees = Head(returnTransaction).id


(***************************************************************************)
(* Every read accepted is answered.                                        *)
(***************************************************************************)
ReadsAnswered == (pendingReads # <<>> \/ transactionQueue # <<>>) ~>
                 (pendingReads = <<>> /\ transactionQueue = <<>>)
=============================================================================
