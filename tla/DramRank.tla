------------------------------ MODULE DramRank ------------------------------
(***************************************************************************)
(* The ranks of a channel (class Rank, src/dramsim2/Rank.cpp): each keeps  *)
(* its own account of the state of its banks, by which it checks every     *)
(* command, and returns the data of a read RL cycles later.                *)
(***************************************************************************)
EXTENDS DramConfig

VARIABLES
  rbank,           \* bankStates of each rank
  rRefreshWaiting, \* refreshWaiting of each rank
  isPowerDown,     \* isPowerDown of each rank
  readReturn,      \* readReturnPacket and readReturnCountdown of each rank
  sending,         \* outgoingDataPacket of each rank, as a sequence of at most one
  cells,           \* the data stored (class Bank): the last write that arrived
  complaint        \* the first check of a rank or of the controller that failed

rankVars == <<rbank, rRefreshWaiting, isPowerDown, readReturn, sending, cells, complaint>>

FreshBank == [state |-> "Idle", row |-> 0, nextRead |-> 0, nextWrite |-> 0,
              nextActivate |-> 0, nextPrecharge |-> 0, nextPowerUp |-> 0]

RankInit ==
  /\ rbank = [r \in Ranks |-> [b \in Banks |-> FreshBank]]
  /\ rRefreshWaiting = [r \in Ranks |-> FALSE]
  /\ isPowerDown = [r \in Ranks |-> FALSE]
  /\ readReturn = [r \in Ranks |-> <<>>]
  /\ sending = [r \in Ranks |-> <<>>]
  /\ cells = [a \in Address |-> 0]
  /\ complaint = "none"

(***************************************************************************)
(* Rank::receiveFromBus: whether the rank accepts a command.               *)
(***************************************************************************)
Ready(k, p) == k.state = "RowActive" /\ k.row = p.row
Allowed(p) ==
  LET k == rbank[p.rank][p.bank]
  IN  \/ p.kind \in Reads /\ Ready(k, p) /\ k.nextRead = 0
      \/ p.kind \in Writes /\ Ready(k, p) /\ k.nextWrite = 0
      \/ p.kind = "ACTIVATE" /\ k.state = "Idle" /\ k.nextActivate = 0
      \/ p.kind = "PRECHARGE" /\ k.state = "RowActive" /\ k.nextPrecharge = 0
      \/ p.kind = "REFRESH" /\ \A b \in Banks : rbank[p.rank][b].state = "Idle"

(***************************************************************************)
(* The state of a bank of the rank after a command it accepted.            *)
(***************************************************************************)
AfterColumn(k, here, read, auto) ==
  [k EXCEPT
     !.state = IF here /\ auto THEN "Idle" ELSE @,
     !.nextRead = LargerOf(@, IF read THEN LargerOf(tCCD, HalfBL) ELSE WRITE_TO_READ_DELAY_B),
     !.nextWrite = LargerOf(@, IF read THEN READ_TO_WRITE_DELAY ELSE LargerOf(HalfBL, tCCD)),
     !.nextPrecharge = IF ~here \/ auto THEN @ ELSE
                         LargerOf(@, IF read THEN READ_TO_PRE_DELAY ELSE WRITE_TO_PRE_DELAY),
     !.nextActivate = IF ~here \/ ~auto THEN @ ELSE
                        LargerOf(@, IF read THEN READ_AUTOPRE_DELAY ELSE WRITE_AUTOPRE_DELAY)]

AfterActivate(k, here, row) ==
  IF here
  THEN [k EXCEPT !.state = "RowActive", !.row = row, !.nextActivate = tRC,
                 !.nextRead = tRCD - AL, !.nextWrite = tRCD - AL, !.nextPrecharge = tRAS]
  ELSE [k EXCEPT !.nextActivate = LargerOf(@, tRRD)]

AfterCommand(k, b, p) ==
  CASE p.kind \in Reads \cup Writes ->
         AfterColumn(k, b = p.bank, p.kind \in Reads, p.kind \in {"READ_P", "WRITE_P"})
    [] p.kind = "ACTIVATE" -> AfterActivate(k, b = p.bank, p.row)
    [] p.kind = "PRECHARGE" ->
         IF b = p.bank THEN [k EXCEPT !.state = "Idle", !.nextActivate = LargerOf(@, tRP)] ELSE k
    [] p.kind = "REFRESH" -> [k EXCEPT !.nextActivate = tRFC]

(***************************************************************************)
(* What the commands and the data that arrive leave in the ranks.  `cmds`  *)
(* holds at most one command, `data` at most one burst of a write;         *)
(* `returns` are the reads under way after Rank::update.                   *)
(***************************************************************************)
RankReceive(cmds, data, returns) ==
  /\ rbank' = [r \in Ranks |-> [b \in Banks |->
       IF \E p \in cmds : p.rank = r /\ Allowed(p)
       THEN AfterCommand(rbank[r][b], b, CHOOSE p \in cmds : TRUE)
       ELSE rbank[r][b]]]
  /\ rRefreshWaiting' = [r \in Ranks |->
       rRefreshWaiting[r] /\ ~\E p \in cmds : p.rank = r /\ p.kind = "REFRESH"]
  /\ cells' = [a \in Address |->
       IF \E p \in data : p.addr = a THEN (CHOOSE p \in data : TRUE).id ELSE cells[a]]
  /\ readReturn' = [r \in Ranks |->
       IF \E p \in cmds : p.rank = r /\ p.kind \in Reads /\ Allowed(p)
       THEN LET p == CHOOSE q \in cmds : TRUE
            IN  Append(returns[r], [addr |-> p.addr, id |-> cells[p.addr], left |-> RL])
       ELSE returns[r]]
  /\ complaint' = IF \E p \in cmds : ~Allowed(p)
                  THEN (CHOOSE p \in cmds : TRUE).kind ELSE complaint
  /\ UNCHANGED isPowerDown

(***************************************************************************)
(* Rank::update: the burst on the bus has a cycle less to go and the       *)
(* first read that is RL cycles old takes the bus.                         *)
(***************************************************************************)
\* Mutant: the read that takes the bus replaces the burst before it can be delivered.
DeliveredLate(r) ==
  IF sending[r] # <<>> /\ sending[r][1].left = 1 /\ \A i \in 1 .. Len(readReturn[r]) :
                                                      readReturn[r][i].left # 1
  THEN sending[r] ELSE <<>>
Delivered(r) == IF sending[r] # <<>> /\ sending[r][1].left = 1 THEN sending[r] ELSE <<>>
Counted(r) == [i \in 1 .. Len(readReturn[r]) |->
                 [readReturn[r][i] EXCEPT !.left = @ - 1]]
Due(r) == readReturn[r] # <<>> /\ Counted(r)[1].left = 0
ReturnsLeft(r) == IF Due(r) THEN Tail(Counted(r)) ELSE Counted(r)
SendingNext(r) ==
  CASE Due(r) -> <<[Head(Counted(r)) EXCEPT !.left = HalfBL]>>
    [] ~Due(r) /\ (sending[r] = <<>> \/ Delivered(r) # <<>>) -> <<>>
    [] OTHER -> <<[sending[r][1] EXCEPT !.left = @ - 1]>>

(***************************************************************************)
(* Rank::powerDown and Rank::powerUp, called for the ranks of a set.       *)
(***************************************************************************)
RankPower(down, up) ==
  /\ rbank' = [r \in Ranks |-> [b \in Banks |->
       CASE r \in down -> [rbank[r][b] EXCEPT !.state = "PowerDown", !.nextPowerUp = tCKE]
         [] r \in up -> [rbank[r][b] EXCEPT !.state = "Idle", !.nextActivate = tXP]
         [] OTHER -> rbank[r][b]]]
  /\ isPowerDown' = [r \in Ranks |-> (isPowerDown[r] \/ r \in down) /\ r \notin up]
  /\ complaint' =
       IF \/ \E r \in down, b \in Banks : rbank[r][b].state # "Idle"
          \/ \E r \in up : ~isPowerDown[r] \/ \E b \in Banks : rbank[r][b].nextPowerUp > 0
       THEN "power" ELSE complaint
  /\ UNCHANGED <<rRefreshWaiting, readReturn, sending, cells>>

(***************************************************************************)
(* A cycle passes (SimulatorObject::step).                                 *)
(***************************************************************************)
BankStep(k) ==
  [k EXCEPT !.nextRead = Left(@), !.nextWrite = Left(@), !.nextActivate = Left(@),
            !.nextPrecharge = Left(@), !.nextPowerUp = Left(@)]
RankStep == rbank' = [r \in Ranks |-> [b \in Banks |-> BankStep(rbank[r][b])]]
=============================================================================
