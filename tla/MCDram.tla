------------------------------- MODULE MCDram -------------------------------
EXTENDS DramController
\* The shipped setup and the one that differs from it in everything.
MCSetups == {
   [policy |-> "OpenPage", structure |-> "PerRank", sched |-> "RankThenBank", lowPower |-> TRUE,
    scheme |-> "scheme2"],
   [policy |-> "ClosePage", structure |-> "PerRankPerBank", sched |-> "BankThenRank",
    lowPower |-> FALSE, scheme |-> "scheme7"]}

(***************************************************************************)
(* TLC evaluates these once: the places under every scheme of two channels *)
(* of two ranks, and the ranks of a memory of a power of two megabytes.    *)
(***************************************************************************)
TwoChannels == [Ini EXCEPT !.NUM_CHANS = 2, !.NUM_ROWS = 4]
ASSUME MappingSound == \A s \in DOMAIN Schemes : MapsOneToOne(s, Ini) /\ MapsOneToOne(s, TwoChannels)

DDR3 == [NUM_ROWS |-> 2048, NUM_COLS |-> 1024, NUM_BANKS |-> 8, JEDEC_DATA_BUS_BITS |-> 64,
         NUM_RANKS |-> 0]
ASSUME RanksSound == \A n \in 0 .. 12 : isPowerOfTwo(RanksOf(DDR3, 2 ^ n))
=============================================================================
