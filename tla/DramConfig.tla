----------------------------- MODULE DramConfig -----------------------------
(***************************************************************************)
(* Where DRAMSim2 keeps an address, the seven mapping schemes of           *)
(* src/dramsim2/AddressMapping.cpp over the bit widths that IniReader.cpp  *)
(* and the constructor of MemorySystem derive from a configuration, a      *)
(* record of the parameters of the .ini files; and for the configuration   *)
(* of the model the dimensions and the timing of a channel: the            *)
(* parameters of SystemConfiguration.h (src/dramsim2) under their names,   *)
(* the delays derived from them, and the commands.                         *)
(*                                                                         *)
(* The code keeps for every bank the clock cycles from which a command is  *)
(* allowed.  They are only ever compared with the current cycle and        *)
(* replaced by the maximum of themselves and a later cycle, so that the    *)
(* model keeps how many cycles are left, which is zero when they passed.   *)
(***************************************************************************)
EXTENDS Naturals, Sequences

(***************************************************************************)
(* Bits of an index below `value`.                                         *)
(***************************************************************************)
dramsim_log2(value) == CHOOSE n \in 0 .. 31 : value <= 2 ^ n /\ \A m \in 0 .. n - 1 : 2 ^ m < value
isPowerOfTwo(x) == x = 2 ^ dramsim_log2(x)

(***************************************************************************)
(* The ranks of a channel of `megs` megabytes: at least one, or those of   *)
(* the file when no size is given.  The width of the devices, which        *)
(* divides that of the bus, cancels out.                                   *)
(***************************************************************************)
RanksOf(ini, megs) ==
  LET perRank == (((ini.NUM_ROWS * ini.NUM_COLS * ini.NUM_BANKS) * ini.JEDEC_DATA_BUS_BITS) \div 8)
                   \div (2 ^ 20)
      fit == megs \div perRank
  IN  IF megs = 0 THEN ini.NUM_RANKS ELSE IF fit = 0 THEN 1 ELSE fit

(***************************************************************************)
(* ReadIniFile: the low bits of an address count the bytes of a            *)
(* transaction, which the low bits of the column stand for.                *)
(***************************************************************************)
BurstBits(ini) == dramsim_log2((ini.JEDEC_DATA_BUS_BITS \div 8) * ini.BL)
Widths(ini) ==
  [chan |-> dramsim_log2(ini.NUM_CHANS), rank |-> dramsim_log2(ini.NUM_RANKS),
   bank |-> dramsim_log2(ini.NUM_BANKS), row |-> dramsim_log2(ini.NUM_ROWS),
   col |-> dramsim_log2(ini.NUM_COLS)
             - (BurstBits(ini) - dramsim_log2(ini.JEDEC_DATA_BUS_BITS \div 8))]

(***************************************************************************)
(* The fields of an address from its low bits up.                          *)
(***************************************************************************)
Scheme1 == <<"bank", "col", "row", "rank", "chan">>
Scheme2 == <<"rank", "bank", "col", "row", "chan">>
Scheme3 == <<"row", "col", "bank", "rank", "chan">>
Scheme4 == <<"col", "row", "bank", "rank", "chan">>
Scheme5 == <<"bank", "rank", "col", "row", "chan">>
Scheme6 == <<"col", "rank", "bank", "row", "chan">>
Scheme7 == <<"chan", "bank", "rank", "col", "row">>
Schemes ==
  [scheme1 |-> Scheme1, scheme2 |-> Scheme2, scheme3 |-> Scheme3, scheme4 |-> Scheme4,
   scheme5 |-> Scheme5, scheme6 |-> Scheme6, scheme7 |-> Scheme7]
SchemeNamed(name) == IF name \in DOMAIN Schemes THEN Schemes[name] ELSE Scheme1

addressMapping(scheme, ini, physicalAddress) ==
  LET order == SchemeNamed(scheme)
      width == Widths(ini)
      below[i \in 1 .. 6] == IF i = 1 THEN BurstBits(ini) ELSE below[i - 1] + width[order[i - 1]]
  IN  [field \in {"chan", "rank", "bank", "row", "col"} |->
         LET i == CHOOSE i \in 1 .. 5 : order[i] = field
         IN  (physicalAddress \div (2 ^ below[i])) % (2 ^ width[field])]

(***************************************************************************)
(* The channel of an address; 0 stops the program where there is none.     *)
(***************************************************************************)
findChannelNumber(scheme, ini, addr) ==
  IF ini.NUM_CHANS = 1 THEN {0}
  ELSE {addressMapping(scheme, ini, addr).chan} \cap
         {c \in 0 .. ini.NUM_CHANS - 1 : isPowerOfTwo(ini.NUM_CHANS)}

(***************************************************************************)
(* Transactions of different addresses within the storage of a             *)
(* configuration go to different places, and a channel, a rank and a bank  *)
(* that are there.                                                         *)
(***************************************************************************)
MapsOneToOne(scheme, ini) ==
  LET size == 2 ^ BurstBits(ini)
      bursts == (ini.NUM_CHANS * ini.NUM_RANKS * ini.NUM_BANKS * ini.NUM_ROWS * ini.NUM_COLS)
                  \div ini.BL
      place == [i \in 0 .. bursts - 1 |-> addressMapping(scheme, ini, i * size)]
  IN  /\ \A i, j \in DOMAIN place : place[i] = place[j] => i = j
      /\ \A i \in DOMAIN place :
           /\ place[i].rank < ini.NUM_RANKS /\ place[i].bank < ini.NUM_BANKS
           /\ findChannelNumber(scheme, ini, i * size) = {place[i].chan}

-----------------------------------------------------------------------------
CONSTANTS
  NUM_RANKS, NUM_BANKS, NUM_ROWS, NUM_COLS, JEDEC_DATA_BUS_BITS,
  CL, AL,
  HalfBL,                            \* BL / 2: cycles of a burst
  tRAS, tRCD, tRRD, tRC, tRP, tCCD, tRTP, tWTR, tWR, tRTRS, tRFC, tFAW, tCKE, tXP, tCMD,
  RefreshPeriod,                     \* REFRESH_PERIOD / tCK, in cycles
  TRANS_QUEUE_DEPTH, CMD_QUEUE_DEPTH, TOTAL_ROW_ACCESSES,
  Address, NoAddress                 \* addresses of bursts; that of a precharge

ASSUME DramDimensions ==
  /\ {NUM_RANKS, NUM_BANKS, NUM_ROWS, NUM_COLS, JEDEC_DATA_BUS_BITS} \subseteq Nat \ {0}
  /\ {CL, AL, HalfBL, tRAS, tRCD, tRRD, tRC, tRP, tCCD, tRTP, tWTR, tWR, tRTRS, tRFC, tFAW,
      tCKE, tXP, tCMD, RefreshPeriod, TRANS_QUEUE_DEPTH, CMD_QUEUE_DEPTH,
      TOTAL_ROW_ACCESSES} \subseteq Nat
  /\ tCMD > 0 /\ HalfBL > 0 /\ AL <= tRCD

Ranks == 0 .. NUM_RANKS - 1
Banks == 0 .. NUM_BANKS - 1

ASSUME DramAddresses == Address \subseteq Nat /\ NoAddress \notin Address

(***************************************************************************)
(* The configuration, with one channel, and the places of the addresses    *)
(* under each mapping scheme.                                              *)
(***************************************************************************)
Ini == [NUM_CHANS |-> 1, NUM_RANKS |-> NUM_RANKS, NUM_BANKS |-> NUM_BANKS,
        NUM_ROWS |-> NUM_ROWS, NUM_COLS |-> NUM_COLS,
        JEDEC_DATA_BUS_BITS |-> JEDEC_DATA_BUS_BITS, BL |-> 2 * HalfBL]
Places == [s \in DOMAIN Schemes |-> [a \in Address |-> addressMapping(s, Ini, a)]]

LargerOf(a, b) == IF a > b THEN a ELSE b

(***************************************************************************)
(* Delays (SystemConfiguration.h).                                         *)
(***************************************************************************)
RL == CL + AL
WL == RL - 1
READ_TO_PRE_DELAY == AL + HalfBL + (LargerOf(tRTP, tCCD) - tCCD)
WRITE_TO_PRE_DELAY == WL + HalfBL + tWR
READ_TO_WRITE_DELAY == (RL + HalfBL + tRTRS) - WL
READ_AUTOPRE_DELAY == AL + tRTP + tRP
WRITE_AUTOPRE_DELAY == WL + HalfBL + tWR + tRP
WRITE_TO_READ_DELAY_B == WL + HalfBL + tWTR
WRITE_TO_READ_DELAY_R == (WL + HalfBL + tRTRS) - RL

(***************************************************************************)
(* Commands.  A precharge and a refresh have no address.                   *)
(***************************************************************************)
Reads == {"READ", "READ_P"}
Writes == {"WRITE", "WRITE_P"}
Command(kind, a, id, place) ==
  [kind |-> kind, addr |-> a, id |-> id,
   rank |-> place.rank, bank |-> place.bank, row |-> place.row]
BankCommand(kind, r, b) ==
  [kind |-> kind, addr |-> NoAddress, id |-> 0, rank |-> r, bank |-> b, row |-> 0]

Left(n) == IF n > 0 THEN n - 1 ELSE 0
=============================================================================
