--------------------------- MODULE RamController ---------------------------
(***************************************************************************)
(* Ramulator's memory controller for one channel, with its scheduler, row  *)
(* table and refresh (src/ramulator/src/Controller.h, Scheduler.h,         *)
(* Refresh.h), and the way requests get there: the address mapping of      *)
(* Memory::send and RamulatorSim::advance, which inserts what is due and   *)
(* then lets the memory tick.                                              *)
(*                                                                         *)
(* The row policy is Opened and the scheduler FRFCFS_Cap: nothing sets     *)
(* either to anything else.  SALP, AL-DRAM, TL-DRAM and DSARP replace some *)
(* of the functions by their own (Controller.cpp, Refresh.cpp).            *)
(***************************************************************************)
EXTENDS RamDevice

CONSTANTS
    Workloads,      \* what may be sent: sequences of [id, type, addr]
    Batches,        \* how many times new requests come due: a bound
    MemTicks,       \* memory cycles between two insertions
    QueueMax,       \* the room of a queue: 32, scaled down
    HighMark,       \* int(0.8 * max) and int(0.2 * max), scaled with it
    LowMark,
    Cap,            \* row hits a row may have before its turn is over: 16
    RefreshIn,      \* cycles until the first refresh when the run starts
    Backlogs,       \* how far DARP's banks may then be ahead of their refreshes
    MaxClk          \* where a run that never ends is cut: a bound

ASSUME RamControllerAssumption ==
    /\ MemTicks \in Nat \ {0} /\ QueueMax \in Nat \ {0} /\ Batches \in Nat \ {0}
    /\ HighMark \in 0 .. QueueMax - 1 /\ LowMark \in 0 .. QueueMax
    /\ Cap \in Nat /\ RefreshIn \in Nat \ {0} /\ MaxClk \in Nat
    /\ Backlogs \subseteq Int /\ Backlogs # {}
    /\ \A n \in Standards : \A w \in Workloads[n] :
          w \in Seq([id : Nat, type : {"READ", "WRITE"}, addr : Nat])

VARIABLES
    clk,            \* the clock of the controller, and of the refresh
    readq, writeq,  \* requests waiting
    actq,           \* requests whose row has been opened
    otherq,         \* refreshes
    pending,        \* reads whose data is on its way
    write_mode,
    refreshed,      \* when refreshes were last asked for
    plan,           \* what the refresh of single banks remembers, see RefreshPlan
    rowtable,       \* leaf -> [row, hits] of the rows that are open
    work,           \* the workload, as far as it has not come due
    loads, stores,  \* due and not yet taken by the memory
    batch,          \* how often requests came due
    ticks,          \* cycles until the next insertion
    issued,         \* history: the commands issued, with their clocks
    answered        \* history: the reads called back, in order

ctrlVars == <<clk, readq, writeq, actq, otherq, pending, write_mode, refreshed,
              plan, rowtable>>
hostVars == <<work, loads, stores, batch, ticks>>
history == <<issued, answered>>
vars == <<deviceVars, ctrlVars, hostVars, history>>

-----------------------------------------------------------------------------
(* Sending.                                                                *)

\* Memory::send with the mapping RoBaRaCoCh: from the lowest bits up the
\* channel (one here), the column, the levels of the tree and the row.  One
\* bit for the column; a level of n children takes the bits of n.
AddrVec(sizes, addr) ==
    LET below(k) == FoldLeft(LAMBDA x, y : x * y, 2, SubSeq(sizes, 1, k - 1))
        digit(k) == (addr \div below(k)) % sizes[k]
    IN  <<0>> \o [k \in DOMAIN sizes |-> digit(k)]
        \o <<addr \div below(Len(sizes) + 1), addr % 2>>

Request(w) ==
    [id |-> w.id, type |-> w.type, vec |-> AddrVec(standard.sizes, w.addr),
     arrive |-> clk, depart |-> -1, first |-> TRUE]

\* enqueue() of a store, or leaving it where it is: after one that finds no
\* room the others are not tried.
PutStore(f, req) ==
    IF req.type # "WRITE" THEN f
    ELSE IF f.stores # <<>> \/ Len(f.writes) = QueueMax
    THEN [f EXCEPT !.stores = Append(@, req)]
    ELSE [f EXCEPT !.writes = Append(@, [req EXCEPT !.arrive = clk])]

\* Mutant: a load answered by the write queue is called back only when others
\* are under way.
PutLoadForgotten(f, req) ==
    LET r == [req EXCEPT !.arrive = clk]
        forwarded == \E i \in DOMAIN f.writes : f.writes[i].vec = r.vec
    IN  IF req.type # "READ" THEN f
        ELSE IF f.loads # <<>> \/ Len(f.reads) = QueueMax
        THEN [f EXCEPT !.loads = Append(@, req)]
        ELSE IF forwarded
             THEN [f EXCEPT !.pend = IF @ = <<>> THEN @ ELSE Append(@, [r EXCEPT !.depart = clk + 1])]
             ELSE [f EXCEPT !.reads = Append(@, r)]

\* enqueue() of a load: a write of the same address that waits in the write
\* queue answers it in the next cycle.
PutLoad(f, req) ==
    LET r == [req EXCEPT !.arrive = clk]
        forwarded == \E i \in DOMAIN f.writes : f.writes[i].vec = r.vec
    IN  IF req.type # "READ" THEN f
        ELSE IF f.loads # <<>> \/ Len(f.reads) = QueueMax
        THEN [f EXCEPT !.loads = Append(@, req)]
        ELSE IF forwarded
             THEN [f EXCEPT !.pend = Append(@, [r EXCEPT !.depart = clk + 1])]
             ELSE [f EXCEPT !.reads = Append(@, r)]

\* Both, for what was left and what is due; each takes its own type only.
Put(due, f) == FoldLeft(PutLoad, FoldLeft(PutStore, f, stores \o due), loads \o due)

\* One step of advance(): some requests come due, then try_insert_st and
\* try_insert_ld.
Insert ==
    /\ ticks = 0
    /\ \E n \in 0 .. Len(work) :
       \E put \in {Put([i \in 1 .. n |-> Request(work[i])],
                      [reads |-> readq, writes |-> writeq, pend |-> pending,
                       loads |-> <<>>, stores |-> <<>>])} :
            /\ batch = Batches => n = 0
            /\ batch = Batches - 1 => n = Len(work)
            /\ batch' = IF batch = Batches THEN batch ELSE batch + 1
            /\ work' = SubSeq(work, n + 1, Len(work))
            /\ readq' = put.reads
            /\ writeq' = put.writes
            /\ pending' = put.pend
            /\ loads' = put.loads
            /\ stores' = put.stores
    /\ ticks' = MemTicks
    /\ UNCHANGED <<deviceVars, clk, actq, otherq, write_mode, refreshed, plan,
                  rowtable, history>>

-----------------------------------------------------------------------------
(* The parts of a cycle that come before the choice of a command; the      *)
(* clock has moved on.                                                     *)

Now == clk + 1

\* 1. One read whose data has arrived is called back.  One that was answered
\* from the write queue departs a cycle after its arrival, and was not served.
Served == pending # <<>> /\ Head(pending).depart <= Now
PendingLeft == IF Served THEN Tail(pending) ELSE pending
ServingNow ==
    IF Served /\ Head(pending).depart - Head(pending).arrive > 1
    THEN Counted(serving, Head(pending).vec, -1) ELSE serving

\* 2. tick_ref().  A refresh request for a rank has nothing below it.
RefreshDue == Now - refreshed >= standard.nREFI
RefreshRequest(rank, bank, subarray) ==
    [id |-> 0, type |-> "REFRESH", vec |-> <<0, rank, bank, subarray, -1, -1>>,
     arrive |-> Now, depart |-> -1, first |-> TRUE]

\* inject_refresh(true): one request for every rank.
RankRefreshes ==
    [r \in 1 .. standard.ranks |-> RefreshRequest(r - 1, -1, -1)]

\* The refresh of single banks looks at and changes this: the requests waiting,
\* whose turn it is in each rank, the credit of each bank (negative: behind the
\* schedule), which of its subarrays is next, and the write mode of the last
\* cycle.
RefreshPlan ==
    [other |-> otherq, turn |-> plan.turn, backlog |-> plan.backlog,
     subarray |-> plan.subarray, written |-> plan.written]
Refreshes(p, rank, bank) ==
    {k \in DOMAIN p.other : p.other[k].type = "REFRESH" /\
                            IsPrefix(<<0, rank>> \o bank, p.other[k].vec)}

\* refresh_target(), with the credit and the next subarray.
RefreshBank(p, rank, bank) ==
    LET b == <<0, rank, bank>>
    IN  [p EXCEPT !.other = Append(@, RefreshRequest(rank, bank, p.subarray[b])),
                  !.backlog[b] = @ + 1,
                  !.subarray[b] = (@ + 1) % SubArrayCount]

\* A function of the refresh for every rank, one after the other: what may
\* come of it, from any of these plans.
OverRanks(Step(_, _), plans) ==
    FoldLeft(LAMBDA ps, r : UNION {Step(p, r - 1) : p \in ps}, plans,
             [r \in 1 .. standard.ranks |-> r])

\* wrp(): when the controller goes into write mode, a bank of the least demand
\* in a rank that has writes and no refresh waiting.
BankNumbers == 0 .. SubArrayCount - 1
AskedOf(q, rank, bank) ==
    Cardinality({k \in DOMAIN q : BankOf(q[k].vec) = <<0, rank, bank>>})
WriteRefresh(p, rank) ==
    LET demand(b) == AskedOf(writeq, rank, b) + AskedOf(readq, rank, b)
        least == {b \in BankNumbers : \A c \in BankNumbers : demand(b) <= demand(c)}
    IN  IF Refreshes(p, rank, <<>>) # {} \/ \A b \in BankNumbers : AskedOf(writeq, rank, b) = 0
        THEN {p}
        ELSE {IF p.backlog[<<0, rank, b>>] < 8 THEN RefreshBank(p, rank, b) ELSE p : b \in least}

\* early_inject_refresh(): a bank without reads that is almost too far behind.
EarlyRefresh(p, rank) ==
    LET idle == {b \in BankNumbers :
                    /\ AskedOf(readq, rank, b) = 0
                    /\ Refreshes(p, rank, <<b>>) = {}
                    /\ p.backlog[<<0, rank, b>>] < -6}
    IN  IF idle = {} THEN {p} ELSE {RefreshBank(p, rank, b) : b \in idle}

\* inject_refresh(false): the next bank of each rank, unless DARP can leave it.
TurnRefresh(p, rank) ==
    LET bank == p.turn[rank]
        later == [p EXCEPT !.turn[rank] = (@ + 1) % SubArrayCount,
                           !.backlog[<<0, rank, bank>>] = @ - 1]
        now == \/ standard.name \notin {"DARP", "DSARP"}
               \/ p.other = <<>> /\ readq = <<>>
               \/ later.backlog[<<0, rank, bank>>] <= -8
    IN  {IF now THEN RefreshBank(later, rank, bank) ELSE later}

\* tick_ref(), from the plans so far.  When the write mode was noted,
Written(plans) ==
    IF write_mode /\ ~plan.written THEN OverRanks(WriteRefresh, plans) ELSE plans
Noted(plans) == {[p EXCEPT !.written = write_mode] : p \in plans}
Pulled(plans) == IF write_mode THEN plans ELSE OverRanks(EarlyRefresh, plans)
Darp(plans) ==
    IF standard.name \in {"DARP", "DSARP"} THEN Pulled(Noted(Written(plans))) ELSE plans
\* the refreshes due.
Injected(plans) ==
    IF ~RefreshDue THEN plans
    ELSE IF standard.translate.REFRESH = "REFPB" THEN OverRanks(TurnRefresh, plans)
    ELSE {[p EXCEPT !.other = @ \o RankRefreshes] : p \in plans}
PlansNow == Injected(Darp({RefreshPlan}))

\* update_temp(): AL-DRAM takes itself to be cold when it is refreshed.
TableNow == IF standard.name = "ALDRAM" /\ RefreshDue THEN "later" ELSE table

\* 3. Whether writes go first.  TL-DRAM has the marks included.
ModeNow ==
    LET slack == IF standard.name = "TLDRAM" THEN 1 ELSE 0
    IN  IF write_mode THEN ~(Len(writeq) < LowMark + slack /\ readq # <<>>)
        ELSE Len(writeq) > HighMark - slack

-----------------------------------------------------------------------------
(* 4. The choice.                                                          *)

FirstCommand(req) == Decode(standard.translate[req.type], req.vec)

\* get_addr_vec(): where a command goes.  To precharge for another subarray is
\* to precharge the first other one that is open.
TargetOf(cmd, vec) ==
    LET open == {b[4] : b \in {b \in Leaves \ {LeafOf(vec)} :
                                 BankOf(b) = BankOf(vec) /\ row_state[b] # {}}}
    IN  IF cmd # "PRE_OTHER" THEN vec
        ELSE [vec EXCEPT ![4] = IF open = {} THEN 0 ELSE Min(open), ![5] = -1]
ReadyWith(cmd, vec) == CanIssue(cmd, TargetOf(cmd, vec), Now)
Ready(req) == ReadyWith(FirstCommand(req), req.vec)

\* RowTable::get_hits
Hits(vec) ==
    IF LeafOf(vec) \in DOMAIN rowtable /\ rowtable[LeafOf(vec)].row = RowOf(vec)
    THEN rowtable[LeafOf(vec)].hits ELSE 0

\* FRFCFS_Cap: what is ready and has not had its turns, then what came first.
Preferred(req) == Ready(req) /\ Hits(req.vec) <= Cap
Earliest(q, among) ==
    CHOOSE i \in among : \A j \in among \ {i} :
        \/ q[i].arrive < q[j].arrive
        \/ q[i].arrive = q[j].arrive /\ i < j
Contenders(q, preferred) == IF preferred = {} THEN DOMAIN q ELSE preferred

\* get_head() of a queue that is not empty.
HeadOf(q) == Earliest(q, Contenders(q, {i \in DOMAIN q : Preferred(q[i])}))
HeadReady(q) == q # <<>> /\ Ready(q[HeadOf(q)])

\* The queue that is tried, when these requests are in otherq: the opened rows
\* first if one of them can go on, then refreshes, then reads or writes.
Source(other) ==
    IF HeadReady(actq) THEN "act"
    ELSE IF other # <<>> THEN "other"
    ELSE IF ModeNow THEN "write" ELSE "read"
Tried(source, other) ==
    CASE source = "act" -> actq [] source = "other" -> other
      [] source = "write" -> writeq [] source = "read" -> readq

\* The queues when the tried one has become q and actq got some more.
LeaveQueues(source, other, q, opened) ==
    /\ actq' = (IF source = "act" THEN q ELSE actq) \o opened
    /\ otherq' = IF source = "other" THEN q ELSE other
    /\ writeq' = IF source = "write" THEN q ELSE writeq
    /\ readq' = IF source = "read" THEN q ELSE readq

-----------------------------------------------------------------------------
(* Issuing a command.                                                      *)

\* Mutant: closing a rank forgets no bank.
RowTableAfterPre(cmd, vec) ==
    LET leaf == LeafOf(vec)
        forgotten == IF cmd \notin Closing \ {"PREA"} THEN {}
                     ELSE {b \in DOMAIN rowtable : IsPrefix(SubSeq(vec, 1, standard.depth[cmd]), b)}
        known == DOMAIN rowtable \cup (IF cmd \in Opening THEN {leaf} ELSE {})
    IN  [b \in known \ forgotten |->
            IF b \notin DOMAIN rowtable THEN [row |-> RowOf(vec), hits |-> 0]
            ELSE IF b = leaf /\ cmd \in Accessing
                 THEN [rowtable[b] EXCEPT !.hits = @ + 1]
                 ELSE rowtable[b]]

\* RowTable::update.  Closing something forgets all rows below it.
RowTableAfter(cmd, vec) ==
    LET leaf == LeafOf(vec)
        forgotten == IF cmd \notin Closing THEN {}
                     ELSE {b \in DOMAIN rowtable : IsPrefix(SubSeq(vec, 1, standard.depth[cmd]), b)}
        known == DOMAIN rowtable \cup (IF cmd \in Opening THEN {leaf} ELSE {})
    IN  [b \in known \ forgotten |->
            IF b \notin DOMAIN rowtable THEN [row |-> RowOf(vec), hits |-> 0]
            ELSE IF b = leaf /\ cmd \in Accessing
                 THEN [rowtable[b] EXCEPT !.hits = @ + 1]
                 ELSE rowtable[b]]

\* issue_cmd() for a request.
Issue(cmd, vec, id) ==
    /\ Update(cmd, vec, Now)
    /\ rowtable' = RowTableAfter(cmd, vec)
    /\ issued' = Append(issued, [cmd |-> cmd, vec |-> vec, clk |-> Now, id |-> id])

\* A request is served from its first command on.
ServingBegun(req) ==
    IF req.first /\ req.type # "REFRESH" THEN Counted(ServingNow, req.vec, 1) ELSE ServingNow

\* A request when its command is issued: TL-DRAM makes its reads migrations.
Begin(req) ==
    [req EXCEPT !.first = FALSE,
                !.type = IF standard.name = "TLDRAM" /\ @ = "READ" THEN "EXTENSION" ELSE @]

\* Nothing can be issued: the row policy has no row to close either.
Idle(source, other, q) ==
    /\ LeaveQueues(source, other, q, <<>>)
    /\ serving' = ServingNow
    /\ pending' = PendingLeft
    /\ UNCHANGED <<row_state, bankOpen, selected, next, prev, rowtable, issued>>

\* A command the request still needs something after: closing a row, selecting
\* it, or opening it, which moves the request to actq.
IssueRowCommand(source, other, q, i, begun, cmd) ==
    /\ cmd \notin Accessing \cup standard.refreshing
    /\ serving' = ServingBegun(q[i])
    /\ IF cmd \in Opening /\ standard.name # "TLDRAM"
       THEN LeaveQueues(source, other, RemoveAt(q, i), <<begun>>)
       ELSE LeaveQueues(source, other, [q EXCEPT ![i] = begun], <<>>)
    /\ pending' = PendingLeft

\* The command that finishes the request; a read still waits for its data.
IssueLastCommand(source, other, q, i, begun, cmd) ==
    /\ cmd \in Accessing \cup standard.refreshing
    /\ serving' = IF begun.type = "WRITE" THEN Counted(ServingBegun(q[i]), begun.vec, -1)
                  ELSE ServingBegun(q[i])
    /\ pending' =
          IF begun.type \in {"READ", "EXTENSION"}
          THEN Append(PendingLeft, [begun EXCEPT !.depart = Now + standard.read_latency])
          ELSE PendingLeft
    /\ LeaveQueues(source, other, RemoveAt(q, i), <<>>)

\* The scheduler's choice from a queue, if it can have a command.
Serve(source, other, q) ==
    IF ~HeadReady(q) THEN Idle(source, other, q)
    ELSE \E i \in {HeadOf(q)} : \E begun \in {Begin(q[i])} :
         \E cmd \in {FirstCommand(begun)} :
            /\ Issue(cmd, TargetOf(cmd, begun.vec), begun.id)
            /\ \/ IssueRowCommand(source, other, q, i, begun, cmd)
               \/ IssueLastCommand(source, other, q, i, begun, cmd)

\* The simulation goes on while a load is outstanding or somebody waits.
Running ==
    \/ work # <<>> \/ loads # <<>> \/ stores # <<>>
    \/ readq # <<>> \/ actq # <<>> \/ otherq # <<>> \/ pending # <<>>

\* tick()
Tick ==
    /\ Running /\ ticks > 0 /\ clk < MaxClk
    /\ clk' = Now
    /\ ticks' = ticks - 1
    /\ answered' = IF Served THEN Append(answered, Head(pending).id) ELSE answered
    /\ refreshed' = IF RefreshDue THEN Now ELSE refreshed
    /\ table' = TableNow
    /\ write_mode' = ModeNow
    /\ \E p \in PlansNow : \E source \in {Source(p.other)} :
        /\ plan' = [k \in DOMAIN plan |-> p[k]]
        /\ Serve(source, p.other, Tried(source, p.other))
    /\ UNCHANGED <<standard, work, loads, stores, batch>>

Finished == ~Running /\ UNCHANGED vars

-----------------------------------------------------------------------------

Init ==
    /\ DeviceInit
    /\ clk = 0
    /\ readq = <<>> /\ writeq = <<>> /\ actq = <<>> /\ otherq = <<>>
    /\ pending = <<>>
    /\ write_mode = FALSE
    /\ refreshed = RefreshIn - standard.nREFI
    /\ plan \in
        {[turn |-> [r \in 0 .. standard.ranks - 1 |-> 0],
          backlog |-> [b \in {BankOf(l) : l \in Leaves} |-> credit],
          subarray |-> [b \in {BankOf(l) : l \in Leaves} |-> 0],
          written |-> FALSE] :
            credit \in IF standard.name \in {"DARP", "DSARP"} THEN Backlogs ELSE {0}}
    /\ rowtable = <<>>
    /\ work \in Workloads[standard.name]
    /\ loads = <<>> /\ stores = <<>>
    /\ batch = 0 /\ ticks = 0
    /\ issued = <<>> /\ answered = <<>>

Next == Insert \/ Tick \/ Finished

\* advance() goes on as long as the engine waits for something.
ClockRuns ==
    []<><<clk' # clk>>_vars \/ <>[](~Running \/ clk = MaxClk)

Spec == Init /\ [][Next]_vars /\ ClockRuns

-----------------------------------------------------------------------------
(* What Ramulator promises, stated over the commands it issued.             *)

\* How far apart the table of the standard wants two commands of one node of the
\* k-th level.
Distance(k, a, b) ==
    Max({0} \cup {e.val : e \in {e \in RowsAt[standard.name]["later"][k][a] :
                                  b \in e.to /\ e.dist = 1 /\ ~e.sibling}})

\* The command of this cycle, if there is one.  Every command is the newest once.
JustIssued == {i \in DOMAIN issued : i = Len(issued) /\ issued[i].clk = clk}
Commands(kinds) == {i \in DOMAIN issued : issued[i].cmd \in kinds}
SameLeaf(i, j) == LeafOf(issued[i].vec) = LeafOf(issued[j].vec)
SameBank(i, j) == BankOf(issued[i].vec) = BankOf(issued[j].vec)
SameRank(i, j) == RankOf(issued[i].vec) = RankOf(issued[j].vec)
Apart(i, j) == issued[j].clk - issued[i].clk

\* The row of a leaf after the first n commands: {} when it is closed.
OpenAfter(n, leaf) ==
    LET touching == {i \in 1 .. n :
                        \/ issued[i].cmd \in Opening /\ LeafOf(issued[i].vec) = leaf
                        \/ /\ issued[i].cmd \in Closing
                           /\ IsPrefix(SubSeq(issued[i].vec, 1, standard.depth[issued[i].cmd]), leaf)}
    IN  IF touching = {} \/ issued[Max(touching)].cmd \notin Opening THEN {}
        ELSE {RowOf(issued[Max(touching)].vec)}

(***************************************************************************)
(* RowsRespected: columns go to the row that is open in their leaf, rows   *)
(* are opened in leaves that are closed, and what is refreshed is closed.  *)
(* Where there are subarrays, only MASA has columns while another row of   *)
(* the bank is open, and only SALP-2 and MASA open one meanwhile.          *)
(* DRAM::decode chooses the command before the scheduler chooses the       *)
(* request, and other requests get their commands in between.              *)
(***************************************************************************)
RowsRespected ==
    \A i \in JustIssued :
        LET c == issued[i]
            closed(node) == \A b \in Leaves : IsPrefix(node, b) => OpenAfter(i - 1, b) = {}
            alone == \A b \in Leaves \ {LeafOf(c.vec)} :
                        BankOf(b) = BankOf(c.vec) => OpenAfter(i - 1, b) = {}
        IN  /\ c.cmd \in Accessing =>
                   /\ OpenAfter(i - 1, LeafOf(c.vec)) = {RowOf(c.vec)}
                   /\ standard.name # "MASA" => alone
            /\ c.cmd \in Opening =>
                   /\ closed(LeafOf(c.vec))
                   /\ standard.name \notin {"SALP2", "MASA"} => alone
            /\ c.cmd = "REF" => closed(RankOf(c.vec))
            /\ c.cmd = "REFPB" => closed(BankOf(c.vec))

(***************************************************************************)
(* RestKept: a subarray, a bank, and a rank that refreshes, get the time   *)
(* they need: a row to open, be read, be restored and be closed, a rank or *)
(* a bank to finish its refresh; and no more rows of a rank are opened in  *)
(* any window than the standard allows.                                    *)
(***************************************************************************)
RestKept ==
    \A j \in JustIssued, i \in DOMAIN issued : i < j =>
        \E a \in {issued[i].cmd}, b \in {issued[j].cmd} :
            /\ SameLeaf(i, j) => Apart(i, j) >= Distance(Len(standard.levels), a, b)
            /\ SameBank(i, j) => Apart(i, j) >= Distance(Len(BankOf(issued[i].vec)), a, b)
            /\ SameRank(i, j) /\ {"REF", "REFPB", "PREA"} \cap {a, b} # {} =>
                  Apart(i, j) >= Distance(2, a, b)
            /\ \A e \in RowsAt[standard.name]["later"][2][a] :
                  /\ e.dist > 1 /\ SameRank(i, j) /\ b \in e.to
                  /\ Cardinality({k \in i .. j - 1 :
                                    issued[k].cmd \in e.from /\ SameRank(i, k)}) = e.dist
                  => Apart(i, j) >= e.val

(***************************************************************************)
(* BurstsApart: the data of two columns never meets on the bus of the      *)
(* channel.  A read's is on it for nBL cycles until read_latency is over,  *)
(* a write's for nBL cycles from nCWL on.                                  *)
(***************************************************************************)
BurstsApart ==
    \A j \in JustIssued \cap Commands(Accessing), i \in Commands(Accessing) : i < j =>
        LET nBL == Speeds[standard.name].nBL
            from(k) == issued[k].clk + DataAfter(standard.name, issued[k].cmd)
        IN  \/ from(i) + nBL <= from(j)
            \/ from(j) + nBL <= from(i)

(***************************************************************************)
(* BooksAgree: the scheduler's row table knows the rows the device has     *)
(* open, which the assertions of RowTable::update rely on, and so do the   *)
(* banks of SALP-1 and the selection of MASA; and every node counts the    *)
(* requests below it that have begun and are not finished, so that         *)
(* is_active() tells the truth.                                            *)
(***************************************************************************)
Begun(q, node) ==
    Cardinality({i \in DOMAIN q : ~q[i].first /\ q[i].type # "REFRESH"
                                 /\ node \in PathOf(q[i].vec)})
BooksAgree ==
    /\ \A b \in Leaves :
          row_state[b] = IF b \in DOMAIN rowtable THEN {rowtable[b].row} ELSE {}
    /\ standard.name = "SALP1" => bankOpen = {BankOf(b) : b \in DOMAIN rowtable}
    /\ selected \subseteq DOMAIN rowtable
    /\ \A node \in DOMAIN serving :
          serving[node] = Begun(readq, node) + Begun(writeq, node)
                          + Begun(actq, node) + Begun(pending, node)

(***************************************************************************)
(* ReadsAnswered: every load is called back, once, while the clock runs.   *)
(* A workload has four requests at most.                                   *)
(***************************************************************************)
LoadIds == {work[k].id : k \in {k \in DOMAIN work : work[k].type = "READ"}}
ReadsAnswered ==
    \A id \in 1 .. 4 :
        id \in LoadIds ~> Cardinality({k \in DOMAIN answered : answered[k] = id}) = 1
=============================================================================
