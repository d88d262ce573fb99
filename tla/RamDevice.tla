----------------------------- MODULE RamDevice -----------------------------
(***************************************************************************)
(* One channel of Ramulator's DRAM: a tree of nodes (channel, ranks, bank  *)
(* groups, banks, subarrays), each with the time before which it takes no  *)
(* command of a kind (src/ramulator/src/DRAM.h).  Which commands there     *)
(* are, what they need and change and how far apart they stay is the       *)
(* standard's.                                                             *)
(*                                                                         *)
(* A node is the path to it, an address vector goes on with the row and    *)
(* the column, and -1 in it stands for all children.                       *)
(***************************************************************************)
EXTENDS RamSpec, FiniteSets, SequencesExt, FiniteSetsExt

CONSTANTS
    Standards,      \* the names of the standards to look at
    BankCount,      \* the banks of a rank or of a bank group: a bound
    SubArrayCount   \* of a bank that has some, and of such banks: a bound

ASSUME RamDeviceAssumption ==
    /\ Standards \subseteq DOMAIN Specs
    /\ BankCount \in 1 .. 4 /\ SubArrayCount \in 1 .. 4

VARIABLES
    standard,   \* the standard simulated, see TheStandard
    table,      \* the timing table in force, "first" or "later"
    row_state,  \* leaf -> its open rows; it is Opened when it has one
    bankOpen,   \* SALP-1: the banks whose own state is Opened
    selected,   \* MASA: the subarrays that are Selected
    next,       \* node -> command -> clock before which it is held back
    prev,       \* rank -> activate -> clocks of the last ones, newest first
    serving     \* node -> cur_serving_requests

deviceVars == <<standard, table, row_state, bankOpen, selected, next, prev, serving>>

-----------------------------------------------------------------------------
(* The shape of the tree.                                                  *)

Levels(n) == Specs[n].levels
Issued == standard.issued

\* The children of the nodes of each level but the last.
LevelSizes(n) ==
    <<Specs[n].ranks>> \o
    CASE Levels(n) = Flat -> <<BankCount>>
      [] Levels(n) = Grouped -> <<2, BankCount>>
      [] Levels(n) = Nested -> <<SubArrayCount, SubArrayCount>>

\* The leaves are the subarrays, or the banks where there are none.
LeafNodes(sizes) ==
    {<<0>> \o d : d \in {d \in [DOMAIN sizes -> 0 .. 3] :
                            \A k \in DOMAIN sizes : d[k] < sizes[k]}}

Above(node) == Front(node)
Leaves == DOMAIN row_state
Nodes == {SubSeq(b, 1, k) : b \in Leaves, k \in 1 .. Len(standard.levels)}
Ranks == {<<0, r>> : r \in 0 .. standard.ranks - 1}
RankOf(vec) == SubSeq(vec, 1, 2)
BankOf(vec) == SubSeq(vec, 1, IF standard.levels = Grouped THEN 4 ELSE 3)
LeafOf(vec) == SubSeq(vec, 1, Len(standard.levels))
RowOf(vec) == vec[Len(standard.levels) + 1]

\* The nodes an address vector goes through, down to the leaves or to the level
\* whose children it leaves open.
PathOf(vec) ==
    {SubSeq(vec, 1, k) :
        k \in {k \in 1 .. Len(standard.levels) : \A i \in 1 .. k : vec[i] >= 0}}

\* Only AL-DRAM has another table at first.  The rows by level and command,
\* worked out once.
TimingTable(n, t) ==
    IF t = "first" /\ n = "ALDRAM" THEN ALDRAMTiming("HOT") ELSE Specs[n].timing
RowsAt == [n \in Standards |-> [t \in {"first", "later"} |->
             [l \in 1 .. Len(Levels(n)) |-> [c \in Specs[n].issued |->
                {e \in TimingTable(n, t) : e.level = Levels(n)[l] /\ c \in e.from}]]]]

\* How far down the tree a command goes: to the level it is for, or to the leaf
\* when that is below.
Depth(n, cmd) ==
    Max({1} \cup {k \in 1 .. Len(Levels(n)) :
                    \/ Levels(n)[k] = Specs[n].scope[cmd]
                    \/ Specs[n].scope[cmd] \in {"Row", "Column"}})

\* What the simulation keeps of its standard (DRAM::spec): all but the timing
\* table, with the depths of the commands and the number of activates that the
\* history of a rank has to hold.
TheStandard(n) ==
    LET s == Specs[n]
    IN  [name |-> n, levels |-> s.levels, ranks |-> s.ranks, issued |-> s.issued,
         translate |-> s.translate, refreshing |-> s.refreshing, scope |-> s.scope,
         prereq |-> s.prereq, lambda |-> s.lambda, nREFI |-> s.nREFI,
         read_latency |-> s.read_latency,
         sizes |-> LevelSizes(n),
         depth |-> [c \in s.issued |-> Depth(n, c)],
         longest |-> Max({e.dist : e \in s.timing})]

-----------------------------------------------------------------------------
(* What the tables of a standard have to be like for the tree to keep them *)
(* (TLC evaluates these assumptions for the standards of a run).           *)

\* The rows that apply after a command, at a level of the tree.
LevelsOf(n) == 1 .. Len(Levels(n))
RowsAfterCommand(n, k, c) == RowsAt[n]["later"][k][c]

\* No distance is as long as the time between refreshes, and only a row about
\* activates of a rank looks further back than to the last command.
ASSUME TablesBounded ==
    \A n \in Standards, t \in {"first", "later"} :
    /\ TheStandard(n).longest \in Nat \ {0}
    /\ \A k \in LevelsOf(n), c \in Specs[n].issued : \A e \in RowsAt[n][t][k][c] :
        /\ e.val \in Int /\ e.val <= Specs[n].nREFI
        /\ e.dist \in 1 .. TheStandard(n).longest /\ e.sibling \in BOOLEAN
        /\ e.dist > 1 => k = 2 /\ ~e.sibling /\ c \in Opening /\ e.from = {c}

\* The table in force at first is as strict as the later one.
AsStrict(e, f, c) ==
    /\ c \in f.to /\ f.dist = e.dist /\ (f.sibling <=> e.sibling) /\ f.val >= e.val
ASSUME TablesOrdered ==
    \A n \in Standards : \A k \in LevelsOf(n), a \in Specs[n].issued :
    \A e \in RowsAfterCommand(n, k, a), b \in Specs[n].issued :
        b \in e.to => \E f \in RowsAt[n]["first"][k][a] : AsStrict(e, f, b)

\* The commands that go to a rank, and those a command may be issued in place
\* of: TL-DRAM checks a read and then issues the command of a migration.
WholeRank == {"REF", "PREA"}
CheckedFor(n, b) ==
    {b} \cup IF n # "TLDRAM" THEN {}
             ELSE CASE b = "MIG" -> {"RD"} [] b = "ACTM" -> {"ACT", "ACTF"}
                    [] b = "PREM" -> {"PRE", "PREF"} [] OTHER -> {}

\* check() looks at the levels down to the depth of a command only.  A row for
\* a level below has one as strict on the way there.
Covered(n, k, a, e, b) ==
    \E m \in 1 .. k : /\ m <= TheStandard(n).depth[b]
                      /\ \E f \in RowsAfterCommand(n, m, a) : AsStrict(e, f, b)
ASSUME TablesCover ==
    \A n \in Standards : \A k \in LevelsOf(n), a \in Specs[n].issued :
    \A e \in RowsAfterCommand(n, k, a), b \in Specs[n].issued :
        b \in e.to /\ ~e.sibling /\ e.val > 0 =>
            /\ k > 2 => a \notin WholeRank \/ b \notin WholeRank
            /\ k > 2 => a \in WholeRank \/ b \in WholeRank
                        \/ \A c \in CheckedFor(n, b) : Covered(n, k, a, e, c)
            /\ k <= 2 => \A c \in CheckedFor(n, b) : Covered(n, k, a, e, c)

\* When the data of a column begins, counted from its command; rows keep the
\* columns of a rank, and those of different ranks, as far apart as that takes.
DataAfter(n, c) ==
    IF c \in {"RD", "MIG"} THEN Specs[n].read_latency - Speeds[n].nBL
                           ELSE Speeds[n].nCWL
BusRowFor(n, a, b, c, between) ==
    \E k \in 1 .. 2 : /\ k <= TheStandard(n).depth[c]
                      /\ \E e \in RowsAfterCommand(n, k, a) :
                            /\ c \in e.to /\ e.dist = 1
                            /\ e.sibling <=> between /\ k = 2
                            /\ DataAfter(n, b) + e.val >= DataAfter(n, a) + Speeds[n].nBL
ASSUME BusCovered ==
    \A n \in Standards : \A a, b \in Accessing \cap Specs[n].issued :
    /\ Speeds[n].nBL \in Nat /\ DataAfter(n, a) \in Int
    /\ \A c \in CheckedFor(n, b) :
        /\ BusRowFor(n, a, b, c, FALSE)
        /\ Specs[n].ranks = 1 \/ BusRowFor(n, a, b, c, TRUE)

-----------------------------------------------------------------------------
(* Asking the tree.                                                        *)

\* The prerequisites of init_prereq: what has to come first for this command,
\* when its leaf is closed, or has the row of the address open (hit).
HasOpen(node) == \E b \in Leaves : IsPrefix(node, b) /\ row_state[b] # {}
OthersOpen(leaf) ==
    \E b \in Leaves \ {leaf} : BankOf(b) = BankOf(leaf) /\ row_state[b] # {}
FirstOfNeed(need, cmd, vec, closed, hit, near) ==
    CASE need = "row open" -> IF closed THEN "ACT" ELSE IF hit THEN cmd ELSE "PRE"
      [] need = "only row of bank" ->
           IF BankOf(vec) \notin bankOpen THEN "ACT"
           ELSE IF hit THEN cmd ELSE IF closed THEN "PRE_OTHER" ELSE "PRE"
      [] need = "row alone" ->
           IF closed THEN "ACT" ELSE IF ~hit THEN "PRE"
           ELSE IF OthersOpen(LeafOf(vec)) THEN "PRE_OTHER" ELSE cmd
      [] need = "row selected" ->
           IF closed THEN "ACT" ELSE IF ~hit THEN "PRE"
           ELSE IF LeafOf(vec) \in selected THEN cmd ELSE "SASEL"
      [] need = "row of bank" ->
           IF ~HasOpen(BankOf(vec)) THEN "ACT" ELSE IF hit THEN cmd ELSE "PRE"
      [] need = "row of segment" ->
           IF hit THEN cmd
           ELSE IF closed THEN (IF near THEN "ACTF" ELSE "ACT")
                          ELSE (IF near THEN "PREF" ELSE "PRE")
      [] need = "row migrated" ->
           IF hit THEN cmd ELSE IF closed THEN "ACTM" ELSE "PREM"
      [] need = "bank closed" -> IF HasOpen(BankOf(vec)) THEN "PRE" ELSE cmd
      [] need = "rank closed" -> IF HasOpen(RankOf(vec)) THEN "PREA" ELSE cmd
      [] need = "banks closed" ->
           IF \E b \in bankOpen : RankOf(b) = RankOf(vec) THEN "PREA" ELSE cmd
FirstFor(cmd, vec, hit) ==
    FirstOfNeed(standard.prereq[cmd], cmd, vec, row_state[LeafOf(vec)] = {}, hit,
                RowOf(vec) % 2 = 0)

\* The commands a request may need, and which of them the standards know.
Before(need) ==
    CASE need \in {"row open", "row of bank"} -> {"ACT", "PRE"}
      [] need \in {"only row of bank", "row alone"} -> {"ACT", "PRE", "PRE_OTHER"}
      [] need = "row selected" -> {"ACT", "PRE", "SASEL"}
      [] need = "row of segment" -> {"ACT", "ACTF", "PRE", "PREF"}
      [] need = "row migrated" -> {"ACTM", "PREM"}
      [] need = "bank closed" -> {"PRE"}
      [] need \in {"rank closed", "banks closed"} -> {"PREA"}
Needs == {"row open", "row of bank", "only row of bank", "row alone", "row selected",
          "row of segment", "row migrated", "bank closed", "rank closed", "banks closed"}
CommandsFor(n, type) ==
    {Specs[n].translate[type]} \cup Before(Specs[n].prereq[Specs[n].translate[type]])
Types(n) == {"READ", "WRITE"} \cup IF n = "TLDRAM" THEN {"EXTENSION"} ELSE {}
ASSUME CommandsKnown ==
    \A n \in Standards :
        /\ DOMAIN Specs[n] = {"levels", "ranks", "issued", "translate", "refreshing", "scope",
                              "timing", "prereq", "lambda", "nREFI", "read_latency"}
        /\ Specs[n].ranks \in 1 .. 4 /\ Specs[n].nREFI \in Nat /\ Specs[n].read_latency \in Nat
        /\ Levels(n) \in {Flat, Grouped, Nested}
        /\ \A c \in Specs[n].issued : TheStandard(n).depth[c] \in LevelsOf(n)
        /\ "PRE_OTHER" \in Specs[n].issued => Levels(n) = Nested
        /\ \A type \in Types(n) \cup {"REFRESH"} : Specs[n].prereq[Specs[n].translate[type]] \in Needs
        /\ \A type \in Types(n) : CommandsFor(n, type) \subseteq Specs[n].issued \ WholeRank
        /\ \/ /\ Specs[n].translate["REFRESH"] = "REF"
              /\ CommandsFor(n, "REFRESH") \subseteq Specs[n].issued \cap WholeRank
              /\ n \notin {"DARP", "DSARP"}
           \/ /\ Specs[n].translate["REFRESH"] = "REFPB" /\ Levels(n) = Nested
              /\ CommandsFor(n, "REFRESH") \subseteq Specs[n].issued \ WholeRank
        /\ n = "TLDRAM" =>
              /\ Specs[n].translate["READ"] = "RD" /\ Specs[n].translate["EXTENSION"] = "MIG"
              /\ Specs[n].prereq["RD"] = "row of segment" /\ Specs[n].prereq["MIG"] = "row migrated"

\* What init_lambda has a command do to the rows below it, "" when nothing, and
\* the level of the banks.
DoesFor(n, c) == IF c \in DOMAIN Specs[n].lambda THEN Specs[n].lambda[c] ELSE ""
BankLevelOf(n) == IF Levels(n) = Grouped THEN 4 ELSE 3
Closes == {"close", "close bank", "close rank"}

\* Commands that are opening open rows, those that are closing close them, as deep
\* as the row table takes them to go.  Only SALP-1 has one for a bank close the
\* rows of a subarray: there the banks have no more than one row open.
ASSUME RowCommands ==
    \A n \in Standards : \A c \in Specs[n].issued :
        /\ c \in Opening <=> DoesFor(n, c) = "open"
        /\ c \in Closing <=> DoesFor(n, c) \in Closes
        /\ DoesFor(n, c) = "close" =>
              \/ TheStandard(n).depth[c] = Len(Levels(n))
              \/ n = "SALP1" /\ c = "PRE" /\ TheStandard(n).depth[c] = BankLevelOf(n)
        /\ DoesFor(n, c) = "close bank" =>
              TheStandard(n).depth[c] = BankLevelOf(n) /\ n \notin {"SALP1", "MASA"}
        /\ DoesFor(n, c) = "close rank" <=> c = "PREA"
        /\ c = "PREA" => TheStandard(n).depth[c] = 2
        /\ DoesFor(n, c) = "select" <=> c = "SASEL"

\* Which needs a standard may have, see FirstOfNeed: the rule must see all the
\* rows that matter to its commands.
ASSUME NeedsFit ==
    \A n \in Standards :
        /\ \A type \in Types(n) : \E c \in {Specs[n].translate[type]} :
              /\ c \in Accessing
              /\ \/ /\ Specs[n].prereq[c] \in {"row open", "row of segment", "row migrated"}
                    /\ Levels(n) # Nested /\ n \notin {"SALP1", "SALP2", "MASA"}
                 \/ Specs[n].prereq[c] = "only row of bank" /\ n = "SALP1"
                 \/ Specs[n].prereq[c] = "row alone" /\ n = "SALP2"
                 \/ Specs[n].prereq[c] = "row selected" /\ n = "MASA"
                 \/ Specs[n].prereq[c] = "row of bank" /\ n \notin {"SALP1", "SALP2", "MASA"}
        /\ \E c \in {Specs[n].translate["REFRESH"]} :
              \/ c = "REF" /\ Specs[n].prereq[c] =
                                IF n = "SALP1" THEN "banks closed" ELSE "rank closed"
              \/ /\ c = "REFPB" /\ Specs[n].prereq[c] = "bank closed"
                 /\ n \notin {"SALP1", "SALP2", "MASA"}
        /\ Specs[n].read_latency > 0

\* Mutant: any open row will do.
DecodeAnyRow(cmd, vec) == FirstFor(cmd, vec, row_state[LeafOf(vec)] # {})

\* decode()
Decode(cmd, vec) == FirstFor(cmd, vec, RowOf(vec) \in row_state[LeafOf(vec)])

\* check(): no node on the way holds the command back.
CanIssue(cmd, vec, clk) ==
    \A k \in 1 .. standard.depth[cmd] : next[SubSeq(vec, 1, k)][cmd] <= clk

-----------------------------------------------------------------------------
(* Giving the tree a command.                                              *)

\* What init_lambda does with a command: "" when nothing.
Does(cmd) == IF cmd \in DOMAIN standard.lambda THEN standard.lambda[cmd] ELSE ""

\* update_state(), for the rows of the leaves,
RowsAfter(cmd, vec) ==
    LET leaf == LeafOf(vec)
        emptied(node) == [b \in Leaves |-> IF IsPrefix(node, b) THEN {} ELSE row_state[b]]
    IN  CASE Does(cmd) = "open" -> [row_state EXCEPT ![leaf] = @ \cup {RowOf(vec)}]
          [] Does(cmd) = "close" -> [row_state EXCEPT ![leaf] = {}]
          [] Does(cmd) = "close bank" -> emptied(BankOf(vec))
          [] Does(cmd) = "close rank" -> emptied(RankOf(vec))
          [] OTHER -> row_state

\* for the state of the banks of SALP-1, where a command for a subarray closes
\* the bank,
BanksAfter(cmd, vec) ==
    IF standard.name # "SALP1" THEN bankOpen
    ELSE CASE Does(cmd) = "open" -> bankOpen \cup {BankOf(vec)}
           [] Does(cmd) = "close" -> bankOpen \ {BankOf(vec)}
           [] Does(cmd) = "close rank" -> {b \in bankOpen : RankOf(b) # RankOf(vec)}
           [] OTHER -> bankOpen

\* and for the selection of MASA: one subarray of a bank at most.
SelectedAfter(cmd, vec) ==
    IF standard.name # "MASA" THEN selected
    ELSE CASE Does(cmd) \in {"open", "select"} ->
                {b \in selected : BankOf(b) # BankOf(vec)} \cup {LeafOf(vec)}
           [] Does(cmd) = "close" -> selected \ {LeafOf(vec)}
           [] Does(cmd) = "close rank" -> {b \in selected : RankOf(b) # RankOf(vec)}
           [] OTHER -> selected

\* The history after a command: only activates are looked back at.
HistoryAfter(cmd, vec, clk) ==
    IF cmd \notin Opening THEN prev
    ELSE [prev EXCEPT ![RankOf(vec)][cmd] =
            LET longer == <<clk>> \o @
            IN  SubSeq(longer, 1, Min({Len(longer), standard.longest}))]

\* The rows of the table that apply to a node: all but those for siblings, as
\* far as history reaches, or those for siblings only.
OwnRows(node, cmd, history) ==
    {e \in RowsAt[standard.name][table'][Len(node)][cmd] :
        ~e.sibling /\ (e.dist = 1 \/ Len(history[node][cmd]) >= e.dist)}
SiblingRows(node, cmd) ==
    {e \in RowsAt[standard.name][table'][Len(node)][cmd] : e.sibling}

\* Where a row looks back to from a command at clk.
Past(e, node, cmd, history, clk) ==
    IF e.dist = 1 THEN clk ELSE history[node][cmd][e.dist]

\* Mutant: a command sets the times it knows of, whatever they were.
HeldBackLast(node, cmd, history, clk, rows) ==
    [c \in Issued |->
        LET on == {e \in rows : c \in e.to}
        IN  IF on = {} THEN next[node][c]
            ELSE Max({Past(e, node, cmd, history, clk) + e.val : e \in on})]

\* What the rows make of the times of a node: the latest counts.
HeldBack(node, cmd, history, clk, rows) ==
    [c \in Issued |->
        Max({next[node][c]} \cup {Past(e, node, cmd, history, clk) + e.val :
                                    e \in {e \in rows : c \in e.to}})]

\* Is the node a target of the command, or the child of one next to a target?
IsTarget(node, vec) == node \in PathOf(vec)
IsNextToTarget(node, vec) ==
    Len(node) > 1 /\ Above(node) \in PathOf(vec) /\ ~IsTarget(node, vec)

\* Mutant: only the nodes on the path are told.
NextOfPath(node, cmd, vec, clk, history) ==
    IF IsTarget(node, vec)
    THEN HeldBack(node, cmd, history, clk, OwnRows(node, cmd, history))
    ELSE next[node]

\* update_timing(): the targets follow their own rows, the other children of a
\* target the rows for siblings; below those nothing changes.
NextOf(node, cmd, vec, clk, history) ==
    IF IsTarget(node, vec)
    THEN HeldBack(node, cmd, history, clk, OwnRows(node, cmd, history))
    ELSE IF IsNextToTarget(node, vec)
    THEN HeldBack(node, cmd, history, clk, SiblingRows(node, cmd))
    ELSE next[node]

\* update()
Update(cmd, vec, clk) ==
    /\ row_state' = RowsAfter(cmd, vec)
    /\ bankOpen' = BanksAfter(cmd, vec)
    /\ selected' = SelectedAfter(cmd, vec)
    /\ prev' = HistoryAfter(cmd, vec, clk)
    /\ next' = [node \in DOMAIN next |-> NextOf(node, cmd, vec, clk, prev')]

\* update_serving_requests(): these counts when one more (or less, when delta is
\* -1) request is served below the nodes on the way.
Counted(counts, vec, delta) ==
    [node \in DOMAIN counts |->
        IF node \in PathOf(vec) THEN counts[node] + delta ELSE counts[node]]

DeviceInit ==
    /\ standard \in {TheStandard(n) : n \in Standards}
    /\ table = "first"
    /\ row_state = [b \in LeafNodes(standard.sizes) |-> {}]
    /\ bankOpen = {} /\ selected = {}
    /\ next = [node \in Nodes |-> [c \in Issued |-> -1]]
    /\ prev = [r \in Ranks |-> [c \in Opening \cap Issued |-> <<>>]]
    /\ serving = [node \in Nodes |-> 0]

=============================================================================
