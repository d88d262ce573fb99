------------------------------ MODULE RamSpec ------------------------------
(***************************************************************************)
(* The DRAM standards Ramulator can simulate: for each one the tree of a   *)
(* channel, what the commands need and do, and how far apart they must be  *)
(* (src/ramulator/src/DDR3.cpp and its siblings).                          *)
(*                                                                         *)
(* In the source every standard is a class of its own, with its own copies *)
(* of these tables.  Here each table is a definition of its own too, put   *)
(* together from the rows the standards share.  Commands that differ in    *)
(* name only carry DDR3's: PREA for PRA and PRER, PDE for PD, SRE          *)
(* and SRX for SREF and SREFX.  One speed grade and density per standard.  *)
(***************************************************************************)
EXTENDS Integers, Sequences, TLC

Reads == {"RD", "RDA"}
Writes == {"WR", "WRA"}

Columns == Reads \cup Writes

\* is_opening, is_accessing and is_closing of all the classes together.  Only
\* TL-DRAM has the commands that end in F, for its near segment, and the ones
\* for migration, only SALP precharges a subarray for another one.
Opening == {"ACT", "ACTF", "ACTM"}
Accessing == Columns \cup {"MIG"}
Closing == {"PRE", "PREF", "PREM", "PREA", "PRE_OTHER", "RDA", "WRA"}

\* scope[]: the level a command is for.  Some standards can refresh one bank.
Scopes(bankRefresh) ==
    [c \in Columns |-> "Column"] @@
    [c \in {"PRE"} \cup bankRefresh |-> "Bank"] @@
    [ACT |-> "Row", PREA |-> "Rank", REF |-> "Rank", PDE |-> "Rank",
     PDX |-> "Rank", SRE |-> "Rank", SRX |-> "Rank"]

\* translate[]: the command a request finally asks for.
TranslateTo(refresh) ==
    [READ |-> "RD", WRITE |-> "WR", REFRESH |-> refresh, EXTENSION |-> "MIG"]

\* A row of a timing table: a command of "from", seen by a node of this level,
\* keeps commands of "to" back for val cycles after the dist-th last one.  A
\* sibling row is for the nodes next to the one the command went to.
Row(level, from, to, val) ==
    [level |-> level, from |-> from, to |-> to, dist |-> 1, val |-> val,
     sibling |-> FALSE]
SiblingRow(level, from, to, val) ==
    [Row(level, from, to, val) EXCEPT !.sibling = TRUE]
WindowRow(level, cmd, dist, val) ==
    [Row(level, {cmd}, {cmd}, val) EXCEPT !.dist = dist]

-----------------------------------------------------------------------------
(* Rows the standards share.                                               *)

\* Bursts of one direction follow each other on the bus of the channel.
BusRows(nBL) ==
    {Row("Channel", Reads, Reads, nBL), Row("Channel", Writes, Writes, nBL)}

\* Columns of one node: as far apart as ccd in one direction, and with a
\* turnaround when the direction changes.
ColumnRows(level, ccd, readToWrite, writeToRead) ==
    {Row(level, Reads, Reads, ccd), Row(level, Writes, Writes, ccd),
     Row(level, Reads, Writes, readToWrite),
     Row(level, Writes, Reads, writeToRead)}

\* Columns of different ranks.  The row from reads to writes is there twice,
\* the first one under a read command where one between writes would stand.
SwitchRows(s, readToWrite, writeToRead) ==
    {SiblingRow("Rank", Reads, Columns, s.nBL + s.nRTRS),
     SiblingRow("Rank", Reads, Writes, readToWrite),
     SiblingRow("Rank", Writes, Reads, writeToRead)}

\* Closing the rows of a rank.  writeDone is when a write has been restored, rpb
\* and rab close one bank and all of them.
RankRowRows(s, writeDone, rpb, rab) ==
    {Row("Rank", {"RD"}, {"PREA"}, s.nRTP),
     Row("Rank", {"WR"}, {"PREA"}, writeDone),
     Row("Rank", {"ACT"}, {"PREA"}, s.nRAS),
     Row("Rank", {"PREA"}, {"ACT", "REF", "SRE"}, rab),
     Row("Rank", {"PRE", "PRE_OTHER"}, {"REF", "SRE"}, rpb)}

\* Opening and closing the row of a bank, or of a subarray.
NodeRowRows(level, s, rcdr, rcdw, writeDone, rpb) ==
    {Row(level, {"ACT"}, Reads, rcdr),
     Row(level, {"ACT"}, Writes, rcdw),
     Row(level, {"RD"}, {"PRE"}, s.nRTP),
     Row(level, {"WR"}, {"PRE"}, writeDone),
     Row(level, {"RDA"}, {"ACT"}, s.nRTP + rpb),
     Row(level, {"WRA"}, {"ACT"}, writeDone + rpb),
     Row(level, {"ACT"}, {"ACT"}, s.nRC),
     Row(level, {"ACT"}, {"PRE"}, s.nRAS),
     Row(level, {"PRE"}, {"ACT"}, rpb)}

RowRows(s, rcdr, rcdw, writeDone, rpb, rab) ==
    RankRowRows(s, writeDone, rpb, rab)
    \cup NodeRowRows("Bank", s, rcdr, rcdw, writeDone, rpb)

\* Rows of one rank are opened at least rrd apart, and no more than dist of
\* them in any faw cycles.
ActivateRows(rrd, dist, faw) ==
    {Row("Rank", {"ACT"}, {"ACT"}, rrd), WindowRow("Rank", "ACT", dist, faw)}

\* A rank that refreshes opens no row and starts no other refresh.
RefreshRows(nRFC) == {Row("Rank", {"REF"}, {"ACT", "REF"}, nRFC)}

\* Refreshing one bank at a time.
BankRefreshRows(s) ==
    {Row("Rank", {"PDX"}, {"REFPB"}, s.nXP),
     Row("Rank", {"SRX"}, {"REFPB"}, s.nXSR),
     Row("Rank", {"REF"}, {"REFPB"}, s.nRFCab),
     Row("Rank", {"REFPB"}, {"REF"}, s.nRFCpb),
     Row("Rank", {"REFPB"}, {"PDE"}, 1),
     Row("Bank", {"PRE"}, {"REFPB"}, s.nRPpb),
     Row("Bank", {"REFPB"}, {"REFPB", "ACT"}, s.nRFCpb),
     SiblingRow("Bank", {"ACT"}, {"REFPB"}, s.nRRD),
     SiblingRow("Bank", {"REFPB"}, {"ACT"}, s.nRRD)}

\* Power-down and self-refresh.
PowerRows(readDone, writeDone, nPD, nXP, nCKESR, nXS) ==
    {Row("Rank", Reads, {"PDE"}, readDone + 1),
     Row("Rank", {"WR"}, {"PDE"}, writeDone),
     Row("Rank", {"WRA"}, {"PDE"}, writeDone + 1),
     Row("Rank", {"ACT", "REF"}, {"PDE"}, 1),
     Row("Rank", {"PDE"}, {"PDX"}, nPD),
     Row("Rank", {"PDX"}, Columns \cup {"ACT", "PRE", "PREA", "REF", "PDE",
                                           "SRE"}, nXP),
     Row("Rank", {"SRE"}, {"SRX"}, nCKESR),
     Row("Rank", {"SRX"}, {"ACT", "REF", "PDE", "SRE"}, nXS)}

-----------------------------------------------------------------------------
(* What a command needs of the rank or the bank it goes to (init_prereq)   *)
(* and what it does to them (init_lambda).  Ranks are never powered down   *)
(* here: only POWERDOWN and SELFREFRESH requests do that, and nobody sends *)
(* one.                                                                    *)

\* The levels of the tree: rows are no nodes of it.
Flat == <<"Channel", "Rank", "Bank">>
Grouped == <<"Channel", "Rank", "BankGroup", "Bank">>
Nested == <<"Channel", "Rank", "Bank", "SubArray">>

\* The commands a standard is ever given: RDA and WRA come with the row policy
\* ClosedAP, the others with requests nobody sends.
Basic == {"ACT", "PRE", "PREA", "RD", "WR", "REF"}

RowsNeeded == [RD |-> "row open", WR |-> "row open", REF |-> "rank closed"]
RowsChanged == [ACT |-> "open", PRE |-> "close", PREA |-> "close rank",
                RDA |-> "close", WRA |-> "close"]

-----------------------------------------------------------------------------
\* DDR3-1600K, 1 Gb x8.
DDR3Speed ==
    [nBL |-> 4, nCCD |-> 4, nRTRS |-> 2, nCL |-> 11, nRCD |-> 11,
     nRP |-> 11, nCWL |-> 8, nRAS |-> 28, nRC |-> 39, nRTP |-> 6,
     nWTR |-> 6, nWR |-> 12, nRRD |-> 5, nFAW |-> 24, nRFC |-> 88,
     nREFI |-> 6240, nPD |-> 4, nXP |-> 5, nCKESR |-> 5, nXS |-> 96]

DDR3Timing ==
    LET s == DDR3Speed
        restored == s.nCWL + s.nBL + s.nWR
    IN  BusRows(s.nBL)
        \cup ColumnRows("Rank", s.nCCD, s.nCL + s.nCCD + 2 - s.nCWL,
                        s.nCWL + s.nBL + s.nWTR)
        \cup SwitchRows(s, s.nCL + s.nBL + s.nRTRS - s.nCWL,
                        s.nCWL + s.nBL + s.nRTRS - s.nCL)
        \cup RowRows(s, s.nRCD, s.nRCD, restored, s.nRP, s.nRP)
        \cup ActivateRows(s.nRRD, 4, s.nFAW)
        \cup RefreshRows(s.nRFC)
        \cup PowerRows(s.nCL + s.nBL, restored, s.nPD, s.nXP, s.nCKESR, s.nXS)

DDR3Prereq == RowsNeeded
DDR3Lambda == RowsChanged

DDR3 ==
    [levels |-> Flat, ranks |-> 2, issued |-> Basic,
     translate |-> TranslateTo("REF"),
     refreshing |-> {"REF"}, scope |-> Scopes({}),
     timing |-> DDR3Timing,
     prereq |-> DDR3Prereq, lambda |-> DDR3Lambda,
     nREFI |-> DDR3Speed.nREFI,
     read_latency |-> DDR3Speed.nCL + DDR3Speed.nBL]

-----------------------------------------------------------------------------
\* DDR4-2400R, 4 Gb x8, refresh mode 1X.
DDR4Speed ==
    [nBL |-> 4, nCCDS |-> 4, nCCDL |-> 6, nRTRS |-> 2, nCL |-> 16,
     nRCD |-> 16, nRP |-> 16, nCWL |-> 12, nRAS |-> 39, nRC |-> 55,
     nRTP |-> 9, nWTRS |-> 3, nWTRL |-> 9, nWR |-> 18, nRRDS |-> 4,
     nRRDL |-> 6, nFAW |-> 26, nRFC |-> 312, nREFI |-> 9360,
     nPD |-> 6, nXP |-> 8, nCKESR |-> 7, nXS |-> 324]

DDR4Timing ==
    LET s == DDR4Speed
        restored == s.nCWL + s.nBL + s.nWR
    IN  BusRows(s.nBL)
        \cup ColumnRows("Rank", s.nCCDS, s.nCL + s.nBL + 2 - s.nCWL,
                        s.nCWL + s.nBL + s.nWTRS)
        \cup SwitchRows(s, s.nCL + s.nBL + s.nRTRS - s.nCWL,
                        s.nCWL + s.nBL + s.nRTRS - s.nCL)
        \cup RowRows(s, s.nRCD, s.nRCD, restored, s.nRP, s.nRP)
        \cup ActivateRows(s.nRRDS, 4, s.nFAW)
        \cup RefreshRows(s.nRFC)
        \cup {Row("Rank", {"RDA"}, {"REF"}, s.nRTP + s.nRP),
              Row("Rank", {"WRA"}, {"REF"}, restored + s.nRP),
              Row("BankGroup", Reads, Reads, s.nCCDL),
              Row("BankGroup", Writes, Writes, s.nCCDL),
              Row("BankGroup", Writes, Reads, s.nCWL + s.nBL + s.nWTRL),
              Row("BankGroup", {"ACT"}, {"ACT"}, s.nRRDL)}
        \cup PowerRows(s.nCL + s.nBL, restored, s.nPD, s.nXP, s.nCKESR, s.nXS)

DDR4Prereq == RowsNeeded
DDR4Lambda == RowsChanged

DDR4 ==
    [levels |-> Grouped, ranks |-> 2, issued |-> Basic,
     translate |-> TranslateTo("REF"),
     refreshing |-> {"REF"}, scope |-> Scopes({}),
     timing |-> DDR4Timing,
     prereq |-> DDR4Prereq, lambda |-> DDR4Lambda,
     nREFI |-> DDR4Speed.nREFI,
     read_latency |-> DDR4Speed.nCL + DDR4Speed.nBL]

-----------------------------------------------------------------------------
\* GDDR5-6000, 1 Gb x16.  It has one rank.
GDDR5Speed ==
    [nBL |-> 2, nCCDS |-> 2, nCCDL |-> 3, nCL |-> 18, nRCDR |-> 18,
     nRCDW |-> 15, nRP |-> 18, nCWL |-> 5, nRAS |-> 42, nRC |-> 60,
     nPPD |-> 2, nRTP |-> 2, nWTR |-> 8, nWR |-> 18, nRRD |-> 9,
     nFAW |-> 35, n32AW |-> 276, nRFC |-> 165, nREFI |-> 5850,
     nPD |-> 10, nXPN |-> 10, nCKESR |-> 0, nXS |-> 0]

GDDR5Timing ==
    LET s == GDDR5Speed
        restored == s.nCWL + s.nBL + s.nWR
    IN  BusRows(s.nBL)
        \cup ColumnRows("Rank", s.nCCDS, s.nCL + s.nCCDS + 2 - s.nCWL,
                        s.nCWL + s.nBL + s.nWTR)
        \cup RowRows(s, s.nRCDR, s.nRCDW, restored, s.nRP, s.nRP)
        \cup ActivateRows(s.nRRD, 4, s.nFAW)
        \cup RefreshRows(s.nRFC)
        \cup {WindowRow("Rank", "ACT", 32, s.n32AW),
              Row("Rank", {"PRE"}, {"PRE"}, s.nPPD),
              Row("BankGroup", Reads, Reads, s.nCCDL),
              Row("BankGroup", Writes, Writes, s.nCCDL)}
        \cup PowerRows(s.nCL + s.nBL, restored, s.nPD, s.nXPN, s.nCKESR, s.nXS)

GDDR5Prereq == RowsNeeded
GDDR5Lambda == RowsChanged

GDDR5 ==
    [levels |-> Grouped, ranks |-> 1, issued |-> Basic,
     translate |-> TranslateTo("REF"),
     refreshing |-> {"REF"}, scope |-> Scopes({}),
     timing |-> GDDR5Timing,
     prereq |-> GDDR5Prereq, lambda |-> GDDR5Lambda,
     nREFI |-> GDDR5Speed.nREFI,
     read_latency |-> GDDR5Speed.nCL + GDDR5Speed.nBL]

-----------------------------------------------------------------------------
\* HBM at 1 Gbps, 2 Gb.  The number of ranks is configured, and the
\* shipped configuration has one: the table has no row between ranks.
HBMSpeed ==
    [nBL |-> 2, nCCDS |-> 2, nCCDL |-> 3, nCL |-> 7, nRCDR |-> 7,
     nRCDW |-> 6, nRP |-> 7, nCWL |-> 4, nRAS |-> 17, nRC |-> 24,
     nRTP |-> 7, nWTRS |-> 2, nWTRL |-> 4, nWR |-> 8, nRRDS |-> 4,
     nRRDL |-> 5, nFAW |-> 20, nRFC |-> 80, nREFI |-> 1950, nPD |-> 5,
     nXP |-> 5, nCKESR |-> 5, nXS |-> 85]

HBMTiming ==
    LET s == HBMSpeed
        restored == s.nCWL + s.nBL + s.nWR
    IN  BusRows(s.nBL)
        \cup ColumnRows("Rank", s.nCCDS, s.nCL + s.nCCDS + 2 - s.nCWL,
                        s.nCWL + s.nBL + s.nWTRS)
        \cup RowRows(s, s.nRCDR, s.nRCDW, restored, s.nRP, s.nRP)
        \cup ActivateRows(s.nRRDS, 4, s.nFAW)
        \cup RefreshRows(s.nRFC)
        \cup {Row("BankGroup", Reads, Reads, s.nCCDL),
              Row("BankGroup", Writes, Writes, s.nCCDL),
              Row("BankGroup", Writes, Reads, s.nCWL + s.nBL + s.nWTRL),
              Row("BankGroup", {"ACT"}, {"ACT"}, s.nRRDL),
              Row("Bank", {"PRE"}, {"REFSB"}, s.nRP),
              Row("Bank", {"REFSB"}, {"REFSB", "ACT"}, s.nRFC)}
        \cup PowerRows(s.nCL + s.nBL, restored, s.nPD, s.nXP, s.nCKESR, s.nXS)

HBMPrereq == RowsNeeded @@ [REFSB |-> "bank closed"]
HBMLambda == RowsChanged

HBM ==
    [levels |-> Grouped, ranks |-> 1, issued |-> Basic,
     translate |-> TranslateTo("REF"),
     refreshing |-> {"REF", "REFSB"}, scope |-> Scopes({"REFSB"}),
     timing |-> HBMTiming,
     prereq |-> HBMPrereq, lambda |-> HBMLambda,
     nREFI |-> HBMSpeed.nREFI,
     read_latency |-> HBMSpeed.nCL + HBMSpeed.nBL]

-----------------------------------------------------------------------------
\* LPDDR3-1600, 4 Gb.
LPDDR3Speed ==
    [nBL |-> 4, nCCD |-> 4, nRTRS |-> 2, nDQSCK |-> 2, nCL |-> 12,
     nRCD |-> 15, nRPpb |-> 15, nRPab |-> 17, nCWL |-> 6, nRAS |-> 34,
     nRC |-> 48, nRTP |-> 6, nWTR |-> 6, nWR |-> 12, nRRD |-> 8,
     nFAW |-> 40, nRFCab |-> 104, nRFCpb |-> 48, nREFI |-> 3120,
     nCKE |-> 6, nXP |-> 6, nCKESR |-> 12, nXSR |-> 112]

LPDDR3Timing ==
    LET s == LPDDR3Speed
        restored == s.nCWL + s.nBL + s.nWR
    IN  BusRows(s.nBL)
        \cup ColumnRows("Rank", s.nCCD, s.nCL + s.nBL + s.nDQSCK + 1 - s.nCWL,
                        s.nCWL + s.nBL + s.nWTR + 1)
        \cup SwitchRows(s, s.nCL + s.nBL + s.nDQSCK + 1 + s.nRTRS - s.nCWL,
                        s.nCWL + s.nBL + s.nRTRS - s.nCL)
        \cup RowRows(s, s.nRCD, s.nRCD, restored, s.nRPpb, s.nRPab)
        \cup ActivateRows(s.nRRD, 4, s.nFAW)
        \cup RefreshRows(s.nRFCab)
        \cup BankRefreshRows(s)
        \cup PowerRows(s.nCL + s.nBL, restored, s.nCKE, s.nXP, s.nCKESR, s.nXSR)

LPDDR3Prereq == RowsNeeded @@ [REFPB |-> "bank closed"]
LPDDR3Lambda == RowsChanged

LPDDR3 ==
    [levels |-> Flat, ranks |-> 2, issued |-> Basic,
     translate |-> TranslateTo("REF"),
     refreshing |-> {"REF", "REFPB"}, scope |-> Scopes({"REFPB"}),
     timing |-> LPDDR3Timing,
     prereq |-> LPDDR3Prereq, lambda |-> LPDDR3Lambda,
     nREFI |-> LPDDR3Speed.nREFI,
     read_latency |-> LPDDR3Speed.nCL + LPDDR3Speed.nDQSCK + LPDDR3Speed.nBL]

-----------------------------------------------------------------------------
\* LPDDR4-2400, 4 Gb, refresh mode 1X.
LPDDR4Speed ==
    [nBL |-> 8, nCCD |-> 8, nRTRS |-> 2, nDQSCK |-> 2, nCL |-> 25,
     nRCD |-> 22, nRPpb |-> 20, nRPab |-> 24, nCWL |-> 14,
     nRAS |-> 51, nRC |-> 71, nRTP |-> 11, nWTR |-> 12, nWR |-> 21,
     nPPD |-> 4, nRRD |-> 12, nFAW |-> 48, nRFCab |-> 216,
     nRFCpb |-> 108, nREFI |-> 4685, nCKE |-> 0, nXP |-> 9,
     nSR |-> 18, nXSR |-> 225]

LPDDR4Timing ==
    LET s == LPDDR4Speed
        restored == s.nCWL + s.nBL + s.nWR
    IN  BusRows(s.nBL)
        \cup ColumnRows("Rank", s.nCCD, s.nCL + s.nBL + s.nDQSCK + 1 - s.nCWL,
                        s.nCWL + s.nBL + s.nWTR + 1)
        \cup SwitchRows(s, s.nCL + s.nBL + s.nDQSCK + 1 + s.nRTRS - s.nCWL,
                        s.nCWL + s.nBL + s.nRTRS - s.nCL)
        \cup RowRows(s, s.nRCD, s.nRCD, restored, s.nRPpb, s.nRPab)
        \cup ActivateRows(s.nRRD, 4, s.nFAW)
        \cup RefreshRows(s.nRFCab)
        \cup BankRefreshRows(s)
        \cup {Row("Rank", {"PRE"}, {"PRE"}, s.nPPD)}
        \cup PowerRows(s.nCL + s.nBL, restored, s.nCKE, s.nXP, s.nSR, s.nXSR)

LPDDR4Prereq == RowsNeeded
LPDDR4Lambda == RowsChanged

LPDDR4 ==
    [levels |-> Flat, ranks |-> 2, issued |-> Basic,
     translate |-> TranslateTo("REF"),
     refreshing |-> {"REF", "REFPB"}, scope |-> Scopes({"REFPB"}),
     timing |-> LPDDR4Timing,
     prereq |-> LPDDR4Prereq, lambda |-> LPDDR4Lambda,
     nREFI |-> LPDDR4Speed.nREFI,
     read_latency |-> LPDDR4Speed.nCL + LPDDR4Speed.nDQSCK + LPDDR4Speed.nBL]

-----------------------------------------------------------------------------
\* WideIO-266, 1 Gb.  It has one rank; nXSR is never set.
WideIOSpeed ==
    [nBL |-> 4, nCCD |-> 4, nDQSCK |-> 1, nCL |-> 3, nRCD |-> 5,
     nRP |-> 5, nCWL |-> 1, nRAS |-> 12, nRC |-> 16, nRTP |-> 4,
     nRTW |-> 8, nWTR |-> 4, nWR |-> 4, nRRD |-> 3, nTAW |-> 14,
     nRFC |-> 24, nREFI |-> 4160, nCKE |-> 3, nXP |-> 3, nCKESR |-> 4,
     nXSR |-> 0]

WideIOTiming ==
    LET s == WideIOSpeed
        restored == s.nCWL + s.nBL + s.nWR
    IN  BusRows(s.nBL)
        \cup ColumnRows("Rank", s.nCCD, s.nRTW, s.nCWL + s.nBL + s.nWTR)
        \cup RowRows(s, s.nRCD, s.nRCD, restored, s.nRP, s.nRP)
        \cup ActivateRows(s.nRRD, 2, s.nTAW)
        \cup RefreshRows(s.nRFC)
        \cup PowerRows(s.nCL + s.nBL, restored, s.nCKE, s.nXP, s.nCKESR, s.nXSR)

WideIOPrereq == RowsNeeded
WideIOLambda == RowsChanged

WideIO ==
    [levels |-> Flat, ranks |-> 1, issued |-> Basic,
     translate |-> TranslateTo("REF"),
     refreshing |-> {"REF"}, scope |-> Scopes({}),
     timing |-> WideIOTiming,
     prereq |-> WideIOPrereq, lambda |-> WideIOLambda,
     nREFI |-> WideIOSpeed.nREFI,
     read_latency |-> WideIOSpeed.nCL + WideIOSpeed.nDQSCK + WideIOSpeed.nBL]

-----------------------------------------------------------------------------
\* WideIO2-1066 with 4 channels, which makes nRPab the nRP8b of the
\* table.
WideIO2Speed ==
    [nBL |-> 2, nCCD |-> 2, nDQSCK |-> 1, nRTRS |-> 2, nCL |-> 9,
     nRCD |-> 10, nRPpb |-> 10, nRPab |-> 12, nCWL |-> 7, nRAS |-> 23,
     nRC |-> 33, nRTP |-> 4, nWTR |-> 6, nWR |-> 11, nRRD |-> 6,
     nFAW |-> 32, nRFCab |-> 96, nRFCpb |-> 48, nREFI |-> 2080,
     nCKE |-> 3, nXP |-> 4, nCKESR |-> 8, nXSR |-> 102]

WideIO2Timing ==
    LET s == WideIO2Speed
        restored == s.nCWL + 1 + s.nBL + s.nWR
    IN  BusRows(s.nBL)
        \cup ColumnRows("Rank", s.nCCD, s.nCL + s.nDQSCK + s.nBL + 1 - s.nCWL,
                        s.nCWL + 1 + s.nBL + s.nWTR)
        \cup SwitchRows(s, s.nCL + s.nBL + s.nDQSCK + 1 + s.nRTRS - s.nCWL,
                        s.nCWL + s.nBL + s.nRTRS - s.nCL)
        \cup RowRows(s, s.nRCD, s.nRCD, restored, s.nRPpb, s.nRPab)
        \cup ActivateRows(s.nRRD, 4, s.nFAW)
        \cup RefreshRows(s.nRFCab)
        \cup BankRefreshRows(s)
        \cup PowerRows(s.nCL + s.nDQSCK + s.nBL, restored, s.nCKE, s.nXP, s.nCKESR,
                       s.nXSR)

WideIO2Prereq == RowsNeeded
WideIO2Lambda == RowsChanged

WideIO2 ==
    [levels |-> Flat, ranks |-> 2, issued |-> Basic,
     translate |-> TranslateTo("REF"),
     refreshing |-> {"REF", "REFPB"}, scope |-> Scopes({"REFPB"}),
     timing |-> WideIO2Timing,
     prereq |-> WideIO2Prereq, lambda |-> WideIO2Lambda,
     nREFI |-> WideIO2Speed.nREFI,
     read_latency |-> WideIO2Speed.nCL + WideIO2Speed.nDQSCK + WideIO2Speed.nBL]

-----------------------------------------------------------------------------
\* SALP at 1600K, 1 Gb x8: subarrays below the banks, used one at a time
\* (SALP-1), overlapping (SALP-2), or several open and one selected (MASA).
SALPSpeed ==
    [nBL |-> 4, nCCD |-> 4, nRTRS |-> 2, nCL |-> 11, nRCD |-> 11,
     nRP |-> 11, nPA |-> 1, nCWL |-> 8, nRAS |-> 28, nRC |-> 39, nRTP |-> 6,
     nWTR |-> 6, nWR |-> 12, nRA |-> 6, nWA |-> 18, nRRD |-> 5, nFAW |-> 24,
     nRFC |-> 88, nREFI |-> 6240, nPD |-> 4, nXP |-> 5, nCKESR |-> 5,
     nXS |-> 96, nSCD |-> 1]

\* The restore time of a write.
SALPRestored == SALPSpeed.nCWL + SALPSpeed.nBL + SALPSpeed.nWR

\* The rows all three have.
SALPTiming ==
    LET s == SALPSpeed
    IN  BusRows(s.nBL)
        \cup ColumnRows("Rank", s.nCCD, s.nCL + s.nCCD + 2 - s.nCWL,
                        s.nCWL + s.nBL + s.nWTR)
        \cup SwitchRows(s, s.nCL + s.nBL + s.nRTRS - s.nCWL,
                        s.nCWL + s.nBL + s.nRTRS - s.nCL)
        \cup RankRowRows(s, SALPRestored, s.nRP, s.nRP)
        \cup NodeRowRows("SubArray", s, s.nRCD, s.nRCD, SALPRestored, s.nRP)
        \cup ActivateRows(s.nRRD, 4, s.nFAW)
        \cup RefreshRows(s.nRFC)
        \cup PowerRows(s.nCL + s.nBL, SALPRestored, s.nPD, s.nXP, s.nCKESR,
                       s.nXS)

\* What each of them adds.  Only SALP-1 keeps PRE_OTHER back at all.
SALP1Timing ==
    LET s == SALPSpeed
        close == {"PRE", "PRE_OTHER"}
    IN  {Row("Bank", {"ACT"}, close, s.nRAS),
         Row("Bank", {"RD"}, close, s.nRTP),
         Row("Bank", {"WR"}, close, SALPRestored),
         SiblingRow("SubArray", close, {"ACT"}, s.nPA),
         SiblingRow("SubArray", {"ACT"}, {"ACT"}, s.nRC - s.nRP + s.nPA),
         SiblingRow("SubArray", {"RDA"}, {"ACT"}, s.nRTP + s.nPA),
         SiblingRow("SubArray", {"WRA"}, {"ACT"}, SALPRestored + s.nPA)}

SALP2Timing ==
    LET s == SALPSpeed
    IN  {SiblingRow("SubArray", {"ACT"}, {"ACT"}, s.nRCD + s.nRA),
         SiblingRow("SubArray", Reads, {"ACT"}, s.nRA),
         SiblingRow("SubArray", Writes, {"ACT"}, s.nWA)}

MASATiming ==
    LET s == SALPSpeed
    IN  {Row("SubArray", {"SASEL"}, Columns, s.nSCD),
         SiblingRow("SubArray", Reads, {"ACT", "SASEL"}, s.nRA),
         SiblingRow("SubArray", Writes, {"ACT", "SASEL"}, s.nWA)}
        \cup {SiblingRow("SubArray", {c}, {c}, s.nRA) : c \in Reads}
        \cup {SiblingRow("SubArray", {c}, {c}, s.nWA) : c \in Writes}

\* What a column needs of its subarray and the others of its bank, and when a
\* rank counts as closed.
SALP1Prereq == [c \in {"RD", "WR"} |-> "only row of bank"] @@
               [REF |-> "banks closed"]
SALP2Prereq == [c \in {"RD", "WR"} |-> "row alone"] @@ [REF |-> "rank closed"]
MASAPrereq == [c \in {"RD", "WR"} |-> "row selected"] @@ [REF |-> "rank closed"]

SALPLambda == RowsChanged @@ [PRE_OTHER |-> "close", SASEL |-> "select"]

SALPScope(pre) ==
    [PRE |-> pre, PRE_OTHER |-> "SubArray", SASEL |-> "SubArray"] @@ Scopes({})

SALP(added, own, needs, pre) ==
    [levels |-> Nested, ranks |-> 2, issued |-> Basic \cup own,
     translate |-> TranslateTo("REF"),
     refreshing |-> {"REF"}, scope |-> SALPScope(pre),
     timing |-> SALPTiming \cup added,
     prereq |-> needs, lambda |-> SALPLambda,
     nREFI |-> SALPSpeed.nREFI,
     read_latency |-> SALPSpeed.nCL + SALPSpeed.nBL]

-----------------------------------------------------------------------------
\* TL-DRAM at 1600K, 1 Gb x8.  Every segment_ratio-th row is in the near
\* segment, with commands and times of its own; so has a migration.
TLDRAMSpeed ==
    [nBL |-> 4, nCCD |-> 4, nRTRS |-> 2, nCL |-> 11, nRCD |-> 11,
     nRP |-> 11, nCWL |-> 8, nRAS |-> 28, nRC |-> 39, nRTP |-> 6,
     nWTR |-> 6, nWR |-> 12, nRRD |-> 5, nFAW |-> 24, nRFC |-> 88,
     nREFI |-> 6240, nPD |-> 4, nXP |-> 5, nCKESR |-> 5, nXS |-> 96,
     nRCDF |-> 3, nRPF |-> 3, nRASF |-> 10, nRCF |-> 13,
     nRCDM |-> 6, nRPM |-> 6, nRASM |-> 20, nRCM |-> 26]

Pulls == {"RD", "MIG"}
Activates == {"ACT", "ACTF", "ACTM"}
Precharges == {"PRE", "PREF", "PREM"}

\* The rows of one kind of activate and the precharges that go with it.  The
\* window of four activates is kept for each kind of its own.
SegmentRows(s, act, pre, prea, rcd, rp, ras, rc) ==
    {Row("Rank", {act}, Activates, s.nRRD),
     [WindowRow("Rank", act, 4, s.nFAW) EXCEPT !.to = Activates],
     Row("Rank", {act}, Precharges \cup {"PREA", "PREAF", "PREAM"}, ras),
     Row("Rank", {pre}, Activates, rp),
     Row("Rank", {pre, prea}, {"REF", "SRE"}, rp),
     Row("Bank", {act}, Pulls \cup {"WR"}, rcd),
     Row("Bank", {act}, Activates, rc),
     Row("Bank", {act}, Precharges, ras),
     Row("Bank", {pre}, Activates, rp)}

TLDRAMTiming ==
    LET s == TLDRAMSpeed
        restored == s.nCWL + s.nBL + s.nWR
        closeAll == {"PREA", "PREAF", "PREAM"}
        readToWrite == s.nCL + s.nBL + s.nRTRS - s.nCWL
        writeToRead == s.nCWL + s.nBL + s.nRTRS - s.nCL
    IN  {Row("Channel", Pulls, Pulls, s.nBL), Row("Channel", {"WR"}, {"WR"}, s.nBL),
         Row("Rank", Pulls, Pulls, s.nCCD), Row("Rank", {"WR"}, {"WR"}, s.nCCD),
         Row("Rank", Pulls, {"WR"}, s.nCL + s.nCCD + 2 - s.nCWL),
         Row("Rank", {"WR"}, Pulls, s.nCWL + s.nBL + s.nWTR),
         SiblingRow("Rank", Pulls, Pulls \cup {"WR"}, s.nBL + s.nRTRS),
         SiblingRow("Rank", Pulls, {"WR"}, readToWrite),
         SiblingRow("Rank", {"WR"}, Pulls, writeToRead),
         Row("Rank", Pulls, closeAll, s.nRTP), Row("Rank", {"WR"}, closeAll, restored),
         Row("Rank", {"REF"}, Activates \cup {"REF"}, s.nRFC),
         Row("Bank", Pulls, Precharges, s.nRTP),
         Row("Bank", {"WR"}, {"PRE", "PREF"}, restored),
         Row("Rank", Pulls, {"PDE"}, s.nCL + s.nBL + 1),
         Row("Rank", {"WR"}, {"PDE"}, restored),
         Row("Rank", Activates \cup {"REF"}, {"PDE"}, 1),
         Row("Rank", {"PDE"}, {"PDX"}, s.nPD),
         Row("Rank", {"PDX"}, Pulls \cup Activates \cup Precharges \cup
                              {"WR", "REF", "PDE", "SRE"}, s.nXP),
         Row("Rank", {"SRE"}, {"SRX"}, s.nCKESR),
         Row("Rank", {"SRX"}, Activates \cup {"REF", "PDE", "SRE"}, s.nXS)}
        \cup SegmentRows(s, "ACT", "PRE", "PREA", s.nRCD, s.nRP, s.nRAS, s.nRC)
        \cup SegmentRows(s, "ACTF", "PREF", "PREAF", s.nRCDF, s.nRPF, s.nRASF, s.nRCF)
        \cup SegmentRows(s, "ACTM", "PREM", "PREAM", s.nRCDM, s.nRPM, s.nRASM, s.nRCM)

TLDRAMPrereq == [RD |-> "row of segment", WR |-> "row of segment",
                 MIG |-> "row migrated", REF |-> "rank closed"]
TLDRAMLambda == [c \in Activates |-> "open"] @@ [c \in Precharges |-> "close"] @@
                [PREA |-> "close rank"]

TLDRAM ==
    [levels |-> Flat, ranks |-> 2,
     issued |-> Basic \cup {"ACTF", "ACTM", "PREF", "PREM", "MIG"},
     translate |-> TranslateTo("REF"),
     refreshing |-> {"REF"},
     scope |-> [ACTF |-> "Row", ACTM |-> "Row", PREF |-> "Bank",
                PREM |-> "Bank", MIG |-> "Column"] @@ Scopes({}),
     timing |-> TLDRAMTiming,
     prereq |-> TLDRAMPrereq, lambda |-> TLDRAMLambda,
     nREFI |-> TLDRAMSpeed.nREFI,
     read_latency |-> TLDRAMSpeed.nCL + TLDRAMSpeed.nBL]

-----------------------------------------------------------------------------
\* AL-DRAM at 1600K: DDR3 whose times depend on the temperature.  The table is
\* filled from speed_table itself, where nRRD, nFAW, nRFC and nXS are 0:
\* init_speed sets them in a copy.
ALDRAMSpeed(temp) ==
    LET less(hot, by) == IF temp = "COLD" THEN hot - by ELSE hot
    IN  [nBL |-> 4, nCCD |-> 4, nRTRS |-> 2, nCL |-> 11,
         nRCD |-> less(11, 2), nRP |-> less(11, 2), nCWL |-> 8,
         nRAS |-> less(28, 10), nRC |-> less(39, 12), nRTP |-> 6,
         nWTR |-> 6, nWR |-> 12, nRRD |-> 0, nFAW |-> 0, nRFC |-> 0,
         nREFI |-> 6240, nPD |-> 4, nXP |-> 5, nCKESR |-> 5, nXS |-> 0]

ALDRAMTiming(temp) ==
    LET s == ALDRAMSpeed(temp)
        restored == s.nCWL + s.nBL + s.nWR
    IN  BusRows(s.nBL)
        \cup ColumnRows("Rank", s.nCCD, s.nCL + s.nCCD + 2 - s.nCWL,
                        s.nCWL + s.nBL + s.nWTR)
        \cup SwitchRows(s, s.nCL + s.nBL + s.nRTRS - s.nCWL,
                        s.nCWL + s.nBL + s.nRTRS - s.nCL)
        \cup RowRows(s, s.nRCD, s.nRCD, restored, s.nRP, s.nRP)
        \cup ActivateRows(s.nRRD, 4, s.nFAW)
        \cup RefreshRows(s.nRFC)
        \cup PowerRows(s.nCL + s.nBL, restored, s.nPD, s.nXP, s.nCKESR, s.nXS)

ALDRAMPrereq == RowsNeeded
ALDRAMLambda == RowsChanged

ALDRAM ==
    [levels |-> Flat, ranks |-> 2, issued |-> Basic,
     translate |-> TranslateTo("REF"),
     refreshing |-> {"REF"}, scope |-> Scopes({}),
     timing |-> ALDRAMTiming("COLD"),
     prereq |-> ALDRAMPrereq, lambda |-> ALDRAMLambda,
     nREFI |-> ALDRAMSpeed("COLD").nREFI,
     read_latency |-> ALDRAMSpeed("COLD").nCL + ALDRAMSpeed("COLD").nBL]

-----------------------------------------------------------------------------
\* DSARP-1333, 8 Gb: DDR3 with subarrays for the sake of refreshes.  SARP lets
\* a subarray be used while another one of its bank is refreshed, DARP chooses
\* when to refresh which bank; REFAB refreshes ranks, the others single banks.
DSARPSpeed ==
    [nBL |-> 4, nCCD |-> 4, nRTRS |-> 2, nCL |-> 9, nRCD |-> 9,
     nRPpb |-> 8, nRPab |-> 9, nCWL |-> 7, nRAS |-> 24, nRC |-> 33,
     nRTP |-> 5, nWTR |-> 5, nWR |-> 10, nRRD |-> 5, nFAW |-> 30,
     nRFCab |-> 234, nRFCpb |-> 109, nREFI |-> 2600, nREFIpb |-> 325,
     nPD |-> 4, nXP |-> 4, nCKESR |-> 5, nXS |-> 114]

\* nRRD times nRRD_factor, rounded up.
DSARPFarRRD == 6

DSARPBankRows ==
    LET s == DSARPSpeed
    IN  {Row("Rank", {"PDX"}, {"REFPB"}, s.nXP),
         Row("Rank", {"SRX"}, {"REFPB"}, s.nXS),
         Row("Rank", {"REF"}, {"REFPB"}, s.nRFCab),
         Row("Rank", {"REFPB"}, {"REF", "REFPB"}, s.nRFCpb),
         Row("Rank", {"REFPB"}, {"PDE"}, 1),
         Row("Bank", {"PRE"}, {"REFPB"}, s.nRPpb),
         Row("Bank", {"REFPB"}, {"REFPB"}, s.nRFCpb),
         SiblingRow("Bank", {"REFPB"}, {"REFPB"}, s.nRFCpb),
         SiblingRow("Bank", {"ACT"}, {"REFPB"}, s.nRRD),
         SiblingRow("Bank", {"REFPB"}, {"ACT"}, s.nRRD)}

\* A bank that refreshes takes nothing, or with SARP only its subarray.
DSARPParallelRows(sarp) ==
    LET s == DSARPSpeed
        restored == s.nCWL + s.nBL + s.nWR
    IN  IF ~sarp
        THEN {Row("Bank", {"REFPB"}, Columns \cup {"ACT", "PRE", "PREA"}, s.nRFCpb)}
        ELSE NodeRowRows("SubArray", s, s.nRCD, s.nRCD, restored, s.nRPpb)
             \cup {SiblingRow("SubArray", {"ACT"}, {"REFPB"}, DSARPFarRRD),
                   SiblingRow("SubArray", {"REFPB"}, {"ACT"}, DSARPFarRRD),
                   Row("SubArray", {"REF"}, {"ACT"}, s.nRFCab),
                   Row("SubArray", {"REFPB"}, {"ACT"}, s.nRFCpb),
                   Row("SubArray", {"PRE"}, {"REF", "REFPB"}, s.nRPpb),
                   SiblingRow("SubArray", {"ACT"}, {"ACT"}, s.nRC),
                   SiblingRow("SubArray", {"PRE"}, {"ACT"}, s.nRPpb),
                   SiblingRow("SubArray", {"RDA"}, {"ACT"}, s.nRTP + s.nRPpb),
                   SiblingRow("SubArray", {"WRA"}, {"ACT"}, restored + s.nRPpb)}

DSARPTiming(sarp) ==
    LET s == DSARPSpeed
        restored == s.nCWL + s.nBL + s.nWR
    IN  BusRows(s.nBL)
        \cup ColumnRows("Rank", s.nCCD, s.nCL + s.nCCD + 2 - s.nCWL,
                        s.nCWL + s.nBL + s.nWTR)
        \cup SwitchRows(s, s.nCL + s.nBL + s.nRTRS - s.nCWL,
                        s.nCWL + s.nBL + s.nRTRS - s.nCL)
        \cup RowRows(s, s.nRCD, s.nRCD, restored, s.nRPpb, s.nRPab)
        \cup ActivateRows(s.nRRD, 4, s.nFAW)
        \cup RefreshRows(s.nRFCab)
        \cup DSARPBankRows
        \cup DSARPParallelRows(sarp)
        \cup PowerRows(s.nCL + s.nBL, restored, s.nPD, s.nXP, s.nCKESR, s.nXS)

DSARPPrereq == [c \in {"RD", "WR"} |-> "row of bank"] @@
               [REF |-> "rank closed", REFPB |-> "bank closed"]
DSARPLambda == [RowsChanged EXCEPT !.PRE = "close bank"]

DSARP(type) ==
    [levels |-> Nested, ranks |-> 2, issued |-> Basic \cup {"REFPB"},
     translate |-> TranslateTo(IF type = "REFAB" THEN "REF" ELSE "REFPB"),
     refreshing |-> {"REF", "REFPB"}, scope |-> Scopes({"REFPB"}),
     timing |-> DSARPTiming(type \in {"SARP", "DSARP"}),
     prereq |-> DSARPPrereq, lambda |-> DSARPLambda,
     nREFI |-> IF type = "REFAB" THEN DSARPSpeed.nREFI ELSE DSARPSpeed.nREFIpb,
     read_latency |-> DSARPSpeed.nCL + DSARPSpeed.nBL]
DSARPTypes == {"REFAB", "REFPB", "DARP", "SARP", "DSARP"}

-----------------------------------------------------------------------------
\* The standards the configuration file of the engine can name (Gem5Wrapper.cpp)
\* and, from TLDRAM on, those only Ramulator's own main program knows.
Specs ==
    [DDR3 |-> DDR3, DDR4 |-> DDR4, GDDR5 |-> GDDR5, HBM |-> HBM,
     LPDDR3 |-> LPDDR3, LPDDR4 |-> LPDDR4, WideIO |-> WideIO,
     WideIO2 |-> WideIO2,
     SALP1 |-> SALP(SALP1Timing, {"PRE_OTHER"}, SALP1Prereq, "Bank"),
     SALP2 |-> SALP(SALP2Timing, {"PRE_OTHER"}, SALP2Prereq, "SubArray"),
     MASA |-> SALP(MASATiming, {"SASEL"}, MASAPrereq, "SubArray"),
     TLDRAM |-> TLDRAM, ALDRAM |-> ALDRAM] @@
    [type \in DSARPTypes |-> DSARP(type)]
Speeds ==
    [DDR3 |-> DDR3Speed, DDR4 |-> DDR4Speed, GDDR5 |-> GDDR5Speed,
     HBM |-> HBMSpeed, LPDDR3 |-> LPDDR3Speed, LPDDR4 |-> LPDDR4Speed,
     WideIO |-> WideIOSpeed, WideIO2 |-> WideIO2Speed, TLDRAM |-> TLDRAMSpeed,
     ALDRAM |-> ALDRAMSpeed("COLD")] @@
    [n \in {"SALP1", "SALP2", "MASA"} |-> SALPSpeed] @@
    [type \in DSARPTypes |-> DSARPSpeed]

=============================================================================
