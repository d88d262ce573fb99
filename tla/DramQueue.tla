----------------------------- MODULE DramQueue ------------------------------
(***************************************************************************)
(* The command queue of a channel (class CommandQueue,                     *)
(* src/dramsim2/CommandQueue.cpp): which command the controller issues in  *)
(* a cycle, under both row buffer policies, both queuing structures and    *)
(* both scheduling policies.                                               *)
(***************************************************************************)
EXTENDS DramConfig, FiniteSets, SequencesExt

VARIABLES
  setup,        \* [policy, structure, sched, lowPower, scheme], as read from the .ini file
  bank,         \* bankStates of the controller, shared with the queue
  queues,       \* queues[rank][bank]; with "PerRank" only bank 0 of each rank is used
  nextTurn,     \* <<nextRank, nextBank>>
  nextTurnPRE,  \* <<nextRankPRE, nextBankPRE>>
  refreshRank, refreshWaiting,
  sendAct,
  rowAccesses,  \* rowAccessCounters
  fawCountdown  \* tFAWCountdown of each rank

queueVars == <<queues, nextTurn, nextTurnPRE, refreshRank, refreshWaiting, sendAct,
               rowAccesses, fawCountdown>>

NoRank == NUM_RANKS
QueueInit ==
  /\ queues = [r \in Ranks |-> [b \in Banks |-> <<>>]]
  /\ nextTurn = <<0, 0>> /\ nextTurnPRE = <<0, 0>>
  /\ refreshRank = 0 /\ refreshWaiting = FALSE
  /\ sendAct = TRUE
  /\ rowAccesses = [r \in Ranks |-> [b \in Banks |-> 0]]
  /\ fawCountdown = [r \in Ranks |-> <<>>]

PerRank == setup.structure = "PerRank"
OpenPage == setup.policy = "OpenPage"

(***************************************************************************)
(* getCommandQueue and hasRoomFor.                                         *)
(***************************************************************************)
QueueBank(b) == IF PerRank THEN 0 ELSE b
QueueOf(r, b) == queues[r][QueueBank(b)]
HasRoomFor(n, r, b) == CMD_QUEUE_DEPTH - Len(QueueOf(r, b)) >= n

(***************************************************************************)
(* nextRankAndBank: the k-th turn after <<r, b>>.                          *)
(***************************************************************************)
Turns == NUM_RANKS * NUM_BANKS
TurnAfter(t, k) ==
  IF setup.sched = "RankThenBank"
  THEN LET n == (t[2] * NUM_RANKS + t[1] + k) % Turns IN <<n % NUM_RANKS, n \div NUM_RANKS>>
  ELSE LET n == (t[1] * NUM_BANKS + t[2] + k) % Turns IN <<n \div NUM_BANKS, n % NUM_BANKS>>

(***************************************************************************)
(* The queues the search for a command visits: the ranks in turn, or the   *)
(* ranks and banks.                                                        *)
(***************************************************************************)
Visited(k) == IF PerRank THEN <<(nextTurn[1] + k) % NUM_RANKS, nextTurn[2]>>
              ELSE TurnAfter(nextTurn, k)
Visits == 0 .. (IF PerRank THEN NUM_RANKS ELSE Turns) - 1

FirstOf(S) == CHOOSE n \in S : \A m \in S : n <= m

(***************************************************************************)
(* isIssuable.                                                             *)
(***************************************************************************)
RowOpen(p) == LET k == bank[p.rank][p.bank] IN k.state = "RowActive" /\ k.row = p.row
IsIssuable(p, faw) ==
  LET k == bank[p.rank][p.bank]
  IN  \/ /\ p.kind = "ACTIVATE"
         /\ k.state \in {"Idle", "Refreshing"} /\ k.nextActivate = 0
         /\ Len(faw[p.rank]) < 4
      \/ /\ p.kind # "ACTIVATE"
         /\ RowOpen(p)
         /\ IF p.kind \in Reads THEN k.nextRead = 0 ELSE k.nextWrite = 0
         /\ rowAccesses[p.rank][p.bank] < TOTAL_ROW_ACCESSES

(***************************************************************************)
(* pop starts with the windows of four activations: the counters lose a    *)
(* cycle, and the oldest goes when it has run out.                         *)
(***************************************************************************)
Ran(s) == [i \in 1 .. Len(s) |-> s[i] - 1]
FawNow == [r \in Ranks |-> LET s == Ran(fawCountdown[r])
                           IN  IF s # <<>> /\ s[1] = 0 THEN Tail(s) ELSE s]

(***************************************************************************)
(* The refresh that waits goes when no bank of its rank is open or too     *)
(* early to be activated, and the rank is not powered down.                *)
(***************************************************************************)
RefreshGoes(rank, waiting) ==
  /\ waiting
  /\ \A b \in Banks : bank[rank][b].state # "RowActive" /\ bank[rank][b].nextActivate = 0
  /\ bank[rank][0].state # "PowerDown"

(***************************************************************************)
(* Otherwise, if that bank is open, its commands: the first command for    *)
(* the open row goes if it is a read or a write that can be issued.  With  *)
(* open pages the row is closed when no such command is left before the    *)
(* next activation.                                                        *)
(***************************************************************************)
OpenBank(rank, waiting) ==
  {b \in Banks : /\ waiting
                 /\ bank[rank][b].state = "RowActive"
                 /\ \A c \in 0 .. b - 1 : /\ bank[rank][c].state # "RowActive"
                                          /\ bank[rank][c].nextActivate = 0}
ForOpenRow(r, b) ==
  LET q == QueueOf(r, b)
  IN  {j \in 1 .. Len(q) : q[j].bank = b /\ q[j].row = bank[r][b].row}
DrainIndex(r, b, faw) ==
  LET q == QueueOf(r, b)
      f == ForOpenRow(r, b)
  IN  {j \in f : (\A m \in f : j <= m) /\ q[j].kind # "ACTIVATE" /\ IsIssuable(q[j], faw)}
RowDone(r, b) ==
  LET q == QueueOf(r, b)
      f == ForOpenRow(r, b)
  IN  /\ \A j \in f : (\A m \in f : j <= m) => q[j].kind = "ACTIVATE"
      /\ bank[r][b].nextPrecharge = 0

(***************************************************************************)
(* The commands of a queue that may go.  With closed pages a column        *)
(* command is not taken from behind its own activate, and with a queue for *)
(* each bank only the first is looked at; with open pages a column command *)
(* does not overtake one for the same row.                                 *)
(***************************************************************************)
\* Mutant: a column command does not wait for those before it.
SameRowIgnored(q, i) == FALSE
SameRowBefore(q, i) ==
  \E j \in 1 .. i - 1 : q[j].kind # "ACTIVATE" /\ q[j].bank = q[i].bank /\ q[j].row = q[i].row
BehindActivate(q, i) ==
  i > 1 /\ q[i - 1].kind = "ACTIVATE" /\ q[i - 1].addr = q[i].addr
MayGo(q, i, faw) ==
  /\ IsIssuable(q[i], faw)
  /\ IF OpenPage THEN ~SameRowBefore(q, i)
     ELSE IF PerRank THEN ~BehindActivate(q, i) ELSE i = 1

(***************************************************************************)
(* The turn at which the search finds a command, and the command.          *)
(***************************************************************************)
GoingAt(t, faw, rank, waiting) ==
  LET q == QueueOf(t[1], t[2])
  IN  {i \in 1 .. Len(q) : ~(waiting /\ t[1] = rank) /\ MayGo(q, i, faw)}
Found(faw, rank, waiting) == {k \in Visits : GoingAt(Visited(k), faw, rank, waiting) # {}}

(***************************************************************************)
(* With open pages an activate in front of the chosen command is its own   *)
(* and is thrown away: the row is open already.                            *)
(***************************************************************************)
SkipsActivate(q, i) == OpenPage /\ i > 1 /\ q[i - 1].kind = "ACTIVATE"
Without(q, i) ==
  LET from == IF SkipsActivate(q, i) THEN i - 2 ELSE i - 1
  IN  SubSeq(q, 1, from) \o SubSeq(q, i + 1, Len(q))

(***************************************************************************)
(* With open pages and nothing to issue: the first bank in turn whose open *)
(* row nobody waits for, or that was accessed often enough, is closed.     *)
(***************************************************************************)
Closable(t) ==
  LET k == bank[t[1]][t[2]]
  IN  /\ k.state = "RowActive"
      /\ \/ ForOpenRow(t[1], t[2]) = {}
         \/ rowAccesses[t[1]][t[2]] = TOTAL_ROW_ACCESSES
      /\ k.nextPrecharge = 0
ClosableTurns == {k \in 0 .. Turns - 1 : Closable(TurnAfter(nextTurnPRE, k))}

(***************************************************************************)
(* Every command that goes moves the turns on, except, with posted CAS,    *)
(* the activate; an activate opens a window of tFAW cycles.                *)
(***************************************************************************)
Advance(p, turn, faw) ==
  /\ IF AL > 0 /\ sendAct THEN sendAct' = FALSE /\ nextTurn' = turn
     ELSE sendAct' = TRUE /\ nextTurn' = TurnAfter(turn, 1)
  /\ fawCountdown' = IF p.kind = "ACTIVATE" THEN [faw EXCEPT ![p.rank] = Append(@, tFAW)] ELSE faw
=============================================================================
