------------------------------- MODULE MCRam -------------------------------
EXTENDS RamController

\* DARP is DSARP without subarrays that go on during a refresh.
MCStandards == DOMAIN Specs \ {"DARP"}

\* Addresses that share all but one thing with address 0, and a free column.
\* The banks next to each other are of different groups where there are groups;
\* FarBank is the next one of the same group, or of the next subarray.
LevelBits(n) == FoldLeft(LAMBDA x, y : x * y, 2, LevelSizes(n))
Same == 0
NextColumn == 1
NextRow(n) == LevelBits(n)
NextBank(n) == 2 * Specs[n].ranks
FarBank(n) == 2 * NextBank(n)
NextRank(n) == IF Specs[n].ranks = 2 THEN 2 ELSE 3 * NextBank(n)

\* About to be too far behind.
MCBacklogs == {-7}

Job(ops) == [i \in DOMAIN ops |-> [id |-> i, type |-> ops[i][1], addr |-> ops[i][2]]]
R == "READ"
W == "WRITE"

\* Row conflicts, turnarounds in a bank, between banks and between ranks, rows
\* of several banks, and writes up to the watermark.
MCWorkloads ==
    [n \in Standards |->
        {Job(<<<<R, Same>>, <<R, NextRow(n)>>, <<R, NextColumn>>>>),
         Job(<<<<W, Same>>, <<W, NextRank(n)>>, <<R, NextRank(n)>>, <<R, Same>>>>),
         Job(<<<<R, Same>>, <<W, NextRank(n)>>, <<W, NextRow(n)>>, <<R, FarBank(n)>>>>),
         Job(<<<<R, Same>>, <<R, NextBank(n)>>, <<R, FarBank(n)>>, <<R, NextRank(n)>>>>),
         Job(<<<<R, NextBank(n)>>, <<W, Same>>, <<W, NextRow(n)>>, <<R, Same>>>>),
         Job(<<<<W, NextColumn>>, <<W, NextRank(n)>>, <<W, NextBank(n)>>, <<R, Same>>>>)}]
=============================================================================
