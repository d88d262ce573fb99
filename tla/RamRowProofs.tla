---------------------------- MODULE RamRowProofs ----------------------------
(***************************************************************************)
(* Proofs about the rows of Ramulator's controller: whatever requests come *)
(* in between, the command of a request finds the rows it needs, and the   *)
(* scheduler's row table, the banks of SALP-1, the selection of MASA and   *)
(* the counts of requests served agree with the device.                    *)
(***************************************************************************)
EXTENDS RamProofs

-----------------------------------------------------------------------------
(* Leaves, and the nodes above them.                                       *)

\* A leaf is an address that goes on with nothing.
LEMMA LeafIs ==
  ASSUME Known, NEW b \in LeafNodes(standard.sizes)
  PROVE  b \in Seq(Int) /\ Len(b) = D /\ OnTree(b) /\ LeafOf(b) = b
<1>1. D \in {3, 4} /\ DOMAIN standard.sizes = 1 .. D - 1
  BY SizeFacts
<1>2. PICK d \in [1 .. D - 1 -> 0 .. 3] : b = <<0>> \o d
  BY <1>1 DEF LeafNodes
<1>3. d \in Seq(Int) /\ Len(d) = D - 1
  BY <1>1
<1>4. b \in Seq(Int) /\ Len(b) = 1 + (D - 1) /\ b[1] = 0
  <2>1. <<0>> \in Seq(Int) /\ Len(<<0>>) = 1 /\ <<0>>[1] = 0
    OBVIOUS
  <2>2. /\ <<0>> \o d \in Seq(Int) /\ Len(<<0>> \o d) = 1 + (D - 1)
        /\ \A i \in 1 .. 1 + (D - 1) :
              (<<0>> \o d)[i] = IF i <= 1 THEN <<0>>[i] ELSE d[i - 1]
    BY <1>3, <2>1, ConcatProperties
  <2>3. 1 \in 1 .. 1 + (D - 1)
    BY <1>1
  <2> QED BY <1>2, <2>1, <2>2, <2>3
<1>5. Len(b) = D
  BY <1>1, <1>4
<1>6. OnTree(b)
  BY <1>1, <1>4, <1>5, LeafDigits DEF OnTree
<1>7. SubSeq(b, 1, D) = b
  <2>1. D \in 1 .. Len(b)
    BY <1>1, <1>5
  <2> QED BY <1>4, <1>5, <2>1, Prefix, SeqEqual
<1> QED BY <1>4, <1>5, <1>6, <1>7 DEF LeafOf, D

\* What is below a node is what agrees with it so far.
LEMMA BelowIs ==
  ASSUME Known, NEW b \in LeafNodes(standard.sizes), NEW k \in 1 .. D,
         NEW v \in Seq(Int), k <= Len(v)
  PROVE  IsPrefix(SubSeq(v, 1, k), b) <=> SubSeq(b, 1, k) = SubSeq(v, 1, k)
<1>1. D \in {3, 4} /\ b \in Seq(Int) /\ Len(b) = D /\ Len(v) \in Nat
  BY SizeFacts, LeafIs, LenProperties
<1>2. k \in 1 .. Len(v)
  BY <1>1
<1>3. PICK s : s = SubSeq(v, 1, k)
  OBVIOUS
<1>4. s \in Seq(Int) /\ Len(s) = k
  BY <1>2, <1>3, Prefix
<1>5. SubSeq(s, 1, k) = s
  <2>1. k \in 1 .. k
    BY <1>1
  <2> QED BY <1>2, <1>3, <2>1, PrefixOfPrefix
<1>6. k <= Len(b)
  BY <1>1
<1> QED BY <1>3, <1>4, <1>5, <1>6 DEF IsPrefix

\* An address down to a leaf has a leaf, with the same bank and rank.
LEMMA LeafOfIs ==
  ASSUME Known, NEW v, OnTree(v)
  PROVE  /\ v \in Seq(Int) /\ D \in 1 .. Len(v)
         /\ LeafOf(v) \in LeafNodes(standard.sizes)
         /\ LeafOf(v) = SubSeq(v, 1, D)
         /\ \A k \in 1 .. D : k <= Len(v) /\ SubSeq(LeafOf(v), 1, k) = SubSeq(v, 1, k)
<1>1. D \in {3, 4}
  BY SizeFacts
<1>2. v \in Seq(Int) /\ D \in 1 .. Len(v)
  BY <1>1, LenProperties DEF OnTree
<1>3. LeafOf(v) = SubSeq(v, 1, D)
  BY DEF LeafOf, D
<1>4. LeafOf(v) \in LeafNodes(standard.sizes)
  BY <1>3, LeafInTree
<1>5. ASSUME NEW k \in 1 .. D PROVE k <= Len(v) /\ SubSeq(LeafOf(v), 1, k) = SubSeq(v, 1, k)
  BY <1>1, <1>2, <1>3, PrefixOfPrefix
<1> QED BY <1>2, <1>3, <1>4, <1>5

\* The level of the banks is that of the tables.
LEMMA BankIs ==
  ASSUME Known
  PROVE  \E k \in 2 .. D :
           /\ k = BankLevelOf(standard.name)
           /\ \A v : BankOf(v) = SubSeq(v, 1, k)
           /\ Levels(standard.name) # Nested => k = D
<1>1. D \in {3, 4} /\ standard.levels = Levels(standard.name) /\ standard.name \in Standards
  BY SizeFacts, StandardFields DEF Known
<1> DEFINE k == IF standard.levels = Grouped THEN 4 ELSE 3
<1>2. Len(Grouped) = 4 /\ Len(Flat) = 3 /\ Len(Nested) = 4
  BY DEF Grouped, Flat, Nested
<1>3. standard.levels \in {Flat, Grouped, Nested}
  BY <1>1, CommandsKnown
<1>4. k \in 2 .. D
  <2>1. standard.levels = Grouped => D = 4
    BY <1>2 DEF D
  <2> QED BY <1>1, <2>1
<1>5. k = BankLevelOf(standard.name)
  BY <1>1 DEF BankLevelOf
<1>6. \A v : BankOf(v) = SubSeq(v, 1, k)
  BY DEF BankOf
<1>7. Levels(standard.name) # Nested => k = D
  BY <1>1, <1>2, <1>3 DEF D
<1> QED BY <1>4, <1>5, <1>6, <1>7

\* The rows of the tables, for the standard simulated.
LEMMA CommandDoes ==
  ASSUME Known, NEW c \in Issued
  PROVE  LET n == standard.name
             d == standard.depth[c]
         IN  /\ d \in 1 .. D
             /\ c \in Opening <=> Does(c) = "open"
             /\ c \in Closing <=> Does(c) \in Closes
             /\ Does(c) = "close" =>
                  \/ d = D
                  \/ n = "SALP1" /\ c = "PRE" /\ d = BankLevelOf(n)
             /\ Does(c) = "close bank" => d = BankLevelOf(n) /\ n \notin {"SALP1", "MASA"}
             /\ Does(c) = "close rank" <=> c = "PREA"
             /\ c = "PREA" => d = 2
             /\ Does(c) = "select" <=> c = "SASEL"
<1>1. /\ standard.name \in Standards /\ c \in Specs[standard.name].issued
      /\ standard.levels = Levels(standard.name)
      /\ standard.depth = TheStandard(standard.name).depth
      /\ standard.lambda = Specs[standard.name].lambda
  BY StandardFields DEF Known, Issued, TheStandard
<1>2. Does(c) = DoesFor(standard.name, c)
  BY <1>1 DEF Does, DoesFor
<1>3. standard.depth[c] \in 1 .. D
  <2>1. TheStandard(standard.name).depth[c] \in LevelsOf(standard.name)
    BY <1>1, CommandsKnown
  <2> QED BY <1>1, <2>1 DEF LevelsOf, D
<1>4. D = Len(Levels(standard.name))
  BY <1>1 DEF D
<1>5. PICK n \in Standards : n = standard.name
  BY <1>1
<1>6. c \in Specs[n].issued
  BY <1>1, <1>5
<1>7. /\ c \in Opening <=> DoesFor(n, c) = "open"
      /\ c \in Closing <=> DoesFor(n, c) \in Closes
      /\ DoesFor(n, c) = "close" =>
            \/ TheStandard(n).depth[c] = Len(Levels(n))
            \/ n = "SALP1" /\ c = "PRE" /\ TheStandard(n).depth[c] = BankLevelOf(n)
      /\ DoesFor(n, c) = "close bank" =>
            TheStandard(n).depth[c] = BankLevelOf(n) /\ n \notin {"SALP1", "MASA"}
      /\ DoesFor(n, c) = "close rank" <=> c = "PREA"
      /\ c = "PREA" => TheStandard(n).depth[c] = 2
      /\ DoesFor(n, c) = "select" <=> c = "SASEL"
  BY <1>6, RowCommands
<1> QED BY <1>1, <1>2, <1>3, <1>4, <1>5, <1>7

-----------------------------------------------------------------------------
(* The rows the commands so far leave open.                                *)

\* The commands that matter to a leaf: those that open a row in it, and those
\* that close it or a node above.
Touches(c, v, b) ==
  \/ c \in Opening /\ LeafOf(v) = b
  \/ c \in Closing /\ IsPrefix(SubSeq(v, 1, standard.depth[c]), b)
Touching(s, m, b) == {i \in 1 .. m : Touches(s[i].cmd, s[i].vec, b)}
AfterOf(s, m, b) ==
  LET T == Touching(s, m, b)
  IN  IF T = {} \/ s[Max(T)].cmd \notin Opening THEN {} ELSE {RowOf(s[Max(T)].vec)}

\* OpenAfter, of the commands issued.
LEMMA OpenIs ==
  ASSUME standard' = standard, NEW m, NEW b
  PROVE  /\ OpenAfter(m, b) = AfterOf(issued, m, b)
         /\ OpenAfter(m, b)' = AfterOf(issued', m, b)
<1>1. OpenAfter(m, b) = AfterOf(issued, m, b)
  BY DEF OpenAfter, AfterOf, Touching, Touches
<1>2. OpenAfter(m, b)' = AfterOf(issued', m, b)
  BY DEF OpenAfter, AfterOf, Touching, Touches, LeafOf, RowOf
<1> QED BY <1>1, <1>2

\* The rows after some commands are those of the last that matters.
LEMMA LastCounts ==
  ASSUME NEW s, NEW m \in Nat, NEW b
  PROVE  /\ Touching(s, m, b) = {} => AfterOf(s, m, b) = {}
         /\ \A i \in Touching(s, m, b) : (\A j \in Touching(s, m, b) : j <= i) =>
              AfterOf(s, m, b) = IF s[i].cmd \in Opening THEN {RowOf(s[i].vec)} ELSE {}
         /\ Touching(s, m, b) # {} =>
              \E i \in Touching(s, m, b) : \A j \in Touching(s, m, b) : j <= i
<1> DEFINE T == Touching(s, m, b)
<1>1. T \in SUBSET Int /\ \A i \in T : i <= m
  BY DEF Touching
<1>2. AfterOf(s, m, b) = IF T = {} \/ s[Max(T)].cmd \notin Opening THEN {}
                         ELSE {RowOf(s[Max(T)].vec)}
  BY DEF AfterOf
<1> HIDE DEF T
<1>3. T # {} => Max(T) \in T /\ \A j \in T : j <= Max(T)
  <2>1. PICK top \in Int : top = m
    OBVIOUS
  <2> QED BY <1>1, <2>1, MaxOf
<1>4. ASSUME NEW i \in T, \A j \in T : j <= i PROVE Max(T) = i
  <2>1. Max(T) \in T /\ i <= Max(T) /\ Max(T) <= i
    BY <1>3, <1>4
  <2>2. Max(T) \in Int /\ i \in Int
    BY <1>1, <2>1
  <2> QED BY <2>1, <2>2
<1>5. ASSUME NEW i \in T, \A j \in T : j <= i
      PROVE  AfterOf(s, m, b) = IF s[i].cmd \in Opening THEN {RowOf(s[i].vec)} ELSE {}
  <2>1. Max(T) = i /\ T # {}
    BY <1>4, <1>5
  <2> QED BY <1>2, <2>1
<1>6. T = {} => AfterOf(s, m, b) = {}
  BY <1>2
<1> QED BY <1>3, <1>5, <1>6 DEF T

\* Commands that agree so far leave the same rows.
LEMMA SameSoFar ==
  ASSUME NEW s, NEW t, NEW m \in Nat, \A i \in 1 .. m : t[i] = s[i], NEW b
  PROVE  Touching(t, m, b) = Touching(s, m, b) /\ AfterOf(t, m, b) = AfterOf(s, m, b)
<1>1. Touching(t, m, b) = Touching(s, m, b)
  BY DEF Touching
<1>2. CASE Touching(s, m, b) = {}
  BY <1>1, <1>2, LastCounts
<1>3. CASE Touching(s, m, b) # {}
  <2>1. PICK i \in Touching(s, m, b) : \A j \in Touching(s, m, b) : j <= i
    BY <1>3, LastCounts
  <2>2. t[i] = s[i]
    BY DEF Touching
  <2>3. AfterOf(s, m, b) = IF s[i].cmd \in Opening THEN {RowOf(s[i].vec)} ELSE {}
    BY <2>1, LastCounts
  <2>4. AfterOf(t, m, b) = IF t[i].cmd \in Opening THEN {RowOf(t[i].vec)} ELSE {}
    BY <1>1, <2>1, LastCounts
  <2> QED BY <1>1, <2>2, <2>3, <2>4
<1> QED BY <1>2, <1>3

\* A command makes the rows of the leaves it matters to its own, and leaves the
\* others as they were.
LEMMA OneMore ==
  ASSUME NEW t, NEW n \in Nat, NEW b
  PROVE  AfterOf(t, n + 1, b) =
           IF ~Touches(t[n + 1].cmd, t[n + 1].vec, b) THEN AfterOf(t, n, b)
           ELSE IF t[n + 1].cmd \in Opening THEN {RowOf(t[n + 1].vec)} ELSE {}
<1>1. n + 1 \in Nat /\ (\A i \in 1 .. n + 1 : i \in 1 .. n \/ i = n + 1)
      /\ n + 1 \in 1 .. n + 1 /\ \A i \in 1 .. n : i \in 1 .. n + 1
  OBVIOUS
<1>2. CASE ~Touches(t[n + 1].cmd, t[n + 1].vec, b)
  <2>1. Touching(t, n + 1, b) = Touching(t, n, b)
    BY <1>1, <1>2 DEF Touching
  <2>2. CASE Touching(t, n, b) = {}
    <3>1. AfterOf(t, n, b) = {}
      BY <2>2, LastCounts
    <3>2. AfterOf(t, n + 1, b) = {}
      BY <1>1, <2>1, <2>2, LastCounts
    <3> QED BY <1>2, <3>1, <3>2
  <2>3. CASE Touching(t, n, b) # {}
    <3>1. PICK i \in Touching(t, n, b) : \A j \in Touching(t, n, b) : j <= i
      BY <2>3, LastCounts
    <3>2. AfterOf(t, n, b) = IF t[i].cmd \in Opening THEN {RowOf(t[i].vec)} ELSE {}
      BY <3>1, LastCounts
    <3>3. AfterOf(t, n + 1, b) = IF t[i].cmd \in Opening THEN {RowOf(t[i].vec)} ELSE {}
      BY <1>1, <2>1, <3>1, LastCounts
    <3> QED BY <1>2, <3>2, <3>3
  <2> QED BY <2>2, <2>3
<1>3. CASE Touches(t[n + 1].cmd, t[n + 1].vec, b)
  <2>1. n + 1 \in Touching(t, n + 1, b) /\ \A j \in Touching(t, n + 1, b) : j <= n + 1
    BY <1>1, <1>3 DEF Touching
  <2>2. AfterOf(t, n + 1, b) = IF t[n + 1].cmd \in Opening THEN {RowOf(t[n + 1].vec)} ELSE {}
    BY <1>1, <2>1, LastCounts
  <2> QED BY <1>3, <2>2
<1> QED BY <1>2, <1>3

\* So it is with the command of a cycle.
LEMMA OpenStep ==
  ASSUME WellTyped, InCycle, NEW cmd, NEW vec, NEW id, NEW x, Issuing(cmd, vec, id, x),
         NEW b, NEW n \in Nat, n = Len(issued)
  PROVE  /\ \A m \in 0 .. n : AfterOf(issued', m, b) = AfterOf(issued, m, b)
         /\ AfterOf(issued', n + 1, b) =
              IF ~Touches(cmd, vec, b) THEN AfterOf(issued, n, b)
              ELSE IF cmd \in Opening THEN {RowOf(vec)} ELSE {}
<1>1. /\ \A i \in 1 .. Len(issued) : issued'[i] = issued[i]
      /\ issued'[Len(issued) + 1] = [cmd |-> cmd, vec |-> vec, clk |-> Now, id |-> id]
  BY Appended
<1>2. PICK s, t : s = issued /\ t = issued'
  OBVIOUS
<1>3. (\A i \in 1 .. n : t[i] = s[i]) /\ t[n + 1].cmd = cmd /\ t[n + 1].vec = vec
  BY <1>1, <1>2
<1>4. ASSUME NEW m \in 0 .. n PROVE AfterOf(t, m, b) = AfterOf(s, m, b)
  <2>1. m \in Nat /\ \A i \in 1 .. m : t[i] = s[i]
    BY <1>3
  <2> QED BY <2>1, SameSoFar
<1>5. AfterOf(t, n, b) = AfterOf(s, n, b)
  BY <1>4
<1>6. AfterOf(t, n + 1, b) = IF ~Touches(cmd, vec, b) THEN AfterOf(t, n, b)
                             ELSE IF cmd \in Opening THEN {RowOf(vec)} ELSE {}
  BY <1>3, OneMore
<1> QED BY <1>2, <1>4, <1>5, <1>6

-----------------------------------------------------------------------------
(* What is known of the rows, and what a command has to find.              *)

\* The other leaves of its bank are closed.
Alone(v) == \A b \in Leaves \ {LeafOf(v)} : BankOf(b) = BankOf(v) => row_state[b] = {}

\* The device has the rows open that its commands leave open, one in a bank
\* where there is no parallelism of subarrays, and the books agree with it.
RowsKnown == \A b \in Leaves : row_state[b] = AfterOf(issued, Len(issued), b)
OnePerBank ==
  standard.name \notin {"SALP2", "MASA"} =>
    \A b, c \in Leaves : BankOf(b) = BankOf(c) /\ row_state[b] # {} /\ row_state[c] # {} => b = c
TableKnown ==
  /\ DOMAIN rowtable \subseteq Leaves
  /\ \A b \in Leaves : row_state[b] = IF b \in DOMAIN rowtable THEN {rowtable[b].row} ELSE {}
  /\ \A b \in DOMAIN rowtable : \E row, hits : rowtable[b] = [row |-> row, hits |-> hits]
BanksKnown ==
  standard.name = "SALP1" =>
    \A k : k \in bankOpen <=> \E b \in Leaves : k = BankOf(b) /\ row_state[b] # {}
SelectedKnown ==
  /\ \A b \in selected : b \in Leaves /\ row_state[b] # {}
  /\ standard.name # "MASA" => selected = {}
RowsInv == RowsKnown /\ OnePerBank /\ TableKnown /\ BanksKnown /\ SelectedKnown

\* A command that is right when it is issued: columns and activates find what
\* RowsRespected asks for, and SALP-1 closes the one row of a bank.
Right(cmd, v) ==
  /\ cmd \in Accessing =>
       row_state[LeafOf(v)] = {RowOf(v)} /\ (standard.name # "MASA" => Alone(v))
  /\ cmd \in Opening =>
       row_state[LeafOf(v)] = {} /\ (standard.name \notin {"SALP2", "MASA"} => Alone(v))
  /\ cmd = "REF" => \A b \in Leaves : RankOf(b) = RankOf(v) => row_state[b] = {}
  /\ cmd = "REFPB" => \A b \in Leaves : BankOf(b) = BankOf(v) => row_state[b] = {}
  /\ standard.name = "SALP1" /\ Does(cmd) = "close" => Alone(v)
  /\ Does(cmd) = "select" => row_state[LeafOf(v)] # {}

\* Only a command of a rank has no leaf.
LEMMA GoesToLeaf ==
  ASSUME Known, NEW cmd \in Issued, NEW v, ShapeFor(cmd, v)
  PROVE  /\ Does(cmd) \in {"open", "close", "close bank", "select"} => OnTree(v)
         /\ cmd \in Accessing \cup Opening \cup {"REFPB"} => OnTree(v)
         /\ Shaped(v) /\ v \in Seq(Int) /\ \A k \in 1 .. D : k <= Len(v)
<1>1. /\ cmd \in Opening <=> Does(cmd) = "open"
      /\ cmd \in Closing <=> Does(cmd) \in Closes
      /\ Does(cmd) = "close rank" <=> cmd = "PREA"
      /\ Does(cmd) = "select" <=> cmd = "SASEL"
  BY CommandDoes
<1>2. cmd = "REF" => cmd \notin Opening \cup Closing \cup Accessing /\ cmd # "SASEL"
  BY DEF Opening, Closing, Accessing, Columns, Reads, Writes
<1>3. cmd = "PREA" => cmd \notin Opening \cup Accessing /\ Does(cmd) = "close rank"
  BY <1>1 DEF Opening, Accessing, Columns, Reads, Writes
<1>4. Does(cmd) \in {"open", "close", "close bank", "select"} => cmd \notin WholeRank
  BY <1>1, <1>2, <1>3 DEF WholeRank, Closes
<1>5. cmd \in Accessing \cup Opening \cup {"REFPB"} => cmd \notin WholeRank
  BY <1>2, <1>3 DEF WholeRank
<1>6. Shaped(v)
  BY DEF ShapeFor, Shaped
<1>7. v \in Seq(Int) /\ Len(v) \in Nat /\ \A k \in 1 .. D : k \in 1 .. Len(v)
  BY <1>6, ShapedLength
<1>8. cmd \notin WholeRank => OnTree(v)
  BY DEF ShapeFor
<1>9. \A k \in 1 .. D : k <= Len(v)
  BY <1>7
<1> QED BY <1>4, <1>5, <1>6, <1>7, <1>8, <1>9

\* A command closes the leaves below it as deep as it goes.
LEMMA TouchIs ==
  ASSUME Known, Leaves = LeafNodes(standard.sizes), NEW cmd \in Issued, NEW v, ShapeFor(cmd, v),
         NEW b \in Leaves
  PROVE  Touches(cmd, v, b) <=>
           \/ cmd \in Opening /\ LeafOf(v) = b
           \/ cmd \in Closing /\ SubSeq(b, 1, standard.depth[cmd]) = SubSeq(v, 1, standard.depth[cmd])
<1>1. standard.depth[cmd] \in 1 .. D
  BY CommandDoes
<1>2. v \in Seq(Int) /\ standard.depth[cmd] <= Len(v)
  BY <1>1, GoesToLeaf
<1>3. PICK k \in 1 .. D : k = standard.depth[cmd]
  BY <1>1
<1>4. IsPrefix(SubSeq(v, 1, k), b) <=> SubSeq(b, 1, k) = SubSeq(v, 1, k)
  BY <1>2, <1>3, BelowIs
<1> QED BY <1>3, <1>4 DEF Touches

\* update_state() leaves the rows that the commands so far leave open.
LEMMA RowsAfterIs ==
  ASSUME Known, Leaves = LeafNodes(standard.sizes), NEW cmd \in Issued, NEW v, ShapeFor(cmd, v),
         Right(cmd, v), NEW b \in Leaves
  PROVE  RowsAfter(cmd, v)[b] =
           IF ~Touches(cmd, v, b) THEN row_state[b]
           ELSE IF cmd \in Opening THEN {RowOf(v)} ELSE {}
<1>1. /\ cmd \in Opening <=> Does(cmd) = "open"
      /\ cmd \in Closing <=> Does(cmd) \in Closes
      /\ Does(cmd) = "close" =>
           \/ standard.depth[cmd] = D
           \/ /\ standard.name = "SALP1" /\ cmd = "PRE"
              /\ standard.depth[cmd] = BankLevelOf(standard.name)
      /\ Does(cmd) = "close bank" => standard.depth[cmd] = BankLevelOf(standard.name)
      /\ Does(cmd) = "close rank" => standard.depth[cmd] = 2
  BY CommandDoes
<1>2. PICK k \in 2 .. D : k = BankLevelOf(standard.name) /\ \A u : BankOf(u) = SubSeq(u, 1, k)
  BY BankIs
<1>3. b \in LeafNodes(standard.sizes) /\ SubSeq(b, 1, D) = b
  BY LeafIs DEF LeafOf, D
<1>4. Touches(cmd, v, b) <=>
        \/ cmd \in Opening /\ LeafOf(v) = b
        \/ cmd \in Closing /\ SubSeq(b, 1, standard.depth[cmd]) = SubSeq(v, 1, standard.depth[cmd])
  BY TouchIs
<1>5. v \in Seq(Int) /\ 2 \in 1 .. D /\ k \in 1 .. D /\ 2 <= Len(v) /\ k <= Len(v)
  <2>1. 2 \in 1 .. D /\ k \in 1 .. D
    BY SizeFacts
  <2> QED BY <2>1, GoesToLeaf
<1>6. LeafOf(v) = SubSeq(v, 1, D)
  BY DEF LeafOf, D
<1>7. CASE Does(cmd) = "open"
  <2>1. cmd \in Opening /\ cmd \notin Closing
    BY <1>1, <1>7 DEF Closes
  <2>2. RowsAfter(cmd, v) = [row_state EXCEPT ![LeafOf(v)] = @ \cup {RowOf(v)}]
    BY <1>7 DEF RowsAfter
  <2>3. row_state[LeafOf(v)] = {}
    BY <2>1 DEF Right
  <2>4. RowsAfter(cmd, v)[b] = IF b = LeafOf(v) THEN {RowOf(v)} ELSE row_state[b]
    BY <2>2, <2>3 DEF Leaves
  <2> QED BY <1>4, <2>1, <2>4
<1>8. CASE Does(cmd) = "close"
  <2>1. cmd \notin Opening /\ cmd \in Closing
    BY <1>1, <1>8 DEF Closes
  <2>2. RowsAfter(cmd, v) = [row_state EXCEPT ![LeafOf(v)] = {}]
    BY <1>8 DEF RowsAfter
  <2>3. RowsAfter(cmd, v)[b] = IF b = LeafOf(v) THEN {} ELSE row_state[b]
    BY <2>2 DEF Leaves
  <2>4. CASE standard.depth[cmd] = D
    BY <1>3, <1>4, <1>6, <2>1, <2>3, <2>4
  <2>5. CASE standard.name = "SALP1" /\ standard.depth[cmd] = BankLevelOf(standard.name)
    <3>1. Touches(cmd, v, b) <=> BankOf(b) = BankOf(v)
      BY <1>2, <1>4, <2>1, <2>5
    <3>2. Alone(v)
      BY <1>8, <2>5 DEF Right
    <3>3. BankOf(b) = BankOf(v) /\ b # LeafOf(v) => row_state[b] = {}
      BY <3>2 DEF Alone
    <3>4. OnTree(v)
      BY <1>8, GoesToLeaf
    <3>5. SubSeq(LeafOf(v), 1, k) = SubSeq(v, 1, k)
      BY <1>5, <3>4, LeafOfIs
    <3>6. b = LeafOf(v) => BankOf(b) = BankOf(v)
      BY <1>2, <3>5
    <3> QED BY <2>1, <2>3, <3>1, <3>3, <3>6
  <2> QED BY <1>1, <1>8, <2>4, <2>5
<1>9. CASE Does(cmd) = "close bank"
  <2>1. cmd \notin Opening /\ cmd \in Closing
    BY <1>1, <1>9 DEF Closes
  <2>2. RowsAfter(cmd, v) = [c \in Leaves |-> IF IsPrefix(BankOf(v), c) THEN {} ELSE row_state[c]]
    BY <1>9 DEF RowsAfter
  <2>3. IsPrefix(BankOf(v), b) <=> BankOf(b) = BankOf(v)
    BY <1>2, <1>3, <1>5, BelowIs
  <2>4. Touches(cmd, v, b) <=> BankOf(b) = BankOf(v)
    BY <1>1, <1>2, <1>4, <1>9, <2>1
  <2> QED BY <2>1, <2>2, <2>3, <2>4
<1>10. CASE Does(cmd) = "close rank"
  <2>1. cmd \notin Opening /\ cmd \in Closing
    BY <1>1, <1>10 DEF Closes
  <2>2. RowsAfter(cmd, v) = [c \in Leaves |-> IF IsPrefix(RankOf(v), c) THEN {} ELSE row_state[c]]
    BY <1>10 DEF RowsAfter
  <2>3. IsPrefix(RankOf(v), b) <=> RankOf(b) = RankOf(v)
    BY <1>3, <1>5, BelowIs DEF RankOf
  <2>4. Touches(cmd, v, b) <=> RankOf(b) = RankOf(v)
    BY <1>1, <1>4, <1>10, <2>1 DEF RankOf
  <2> QED BY <2>1, <2>2, <2>3, <2>4
<1>11. CASE Does(cmd) \notin {"open", "close", "close bank", "close rank"}
  <2>1. ~Touches(cmd, v, b)
    BY <1>1, <1>4, <1>11 DEF Closes
  <2>2. RowsAfter(cmd, v) = row_state
    BY <1>11 DEF RowsAfter
  <2> QED BY <2>1, <2>2
<1> QED BY <1>7, <1>8, <1>9, <1>10, <1>11

-----------------------------------------------------------------------------
(* The command of a request is right.                                      *)

\* A leaf has one row open at most.
LEMMA OneRow ==
  ASSUME TableKnown, NEW b \in Leaves, NEW row
  PROVE  row \in row_state[b] => row_state[b] = {row}
BY DEF TableKnown

\* The kinds of commands, each with what it takes to be right.
LEMMA RightColumn ==
  ASSUME NEW cmd \in Accessing, NEW v, row_state[LeafOf(v)] = {RowOf(v)},
         standard.name # "MASA" => Alone(v)
  PROVE  Right(cmd, v)
<1>1. cmd \notin Opening /\ cmd # "REF" /\ cmd # "REFPB"
  BY DEF Opening, Accessing, Columns, Reads, Writes
<1> QED BY <1>1 DEF Right

LEMMA RightOpening ==
  ASSUME Known, NEW cmd \in Opening, cmd \in Issued, NEW v, row_state[LeafOf(v)] = {},
         standard.name \notin {"SALP2", "MASA"} => Alone(v)
  PROVE  Right(cmd, v)
<1>1. cmd \notin Accessing /\ cmd # "REF" /\ cmd # "REFPB"
  BY DEF Opening, Accessing, Columns, Reads, Writes
<1>2. Does(cmd) = "open"
  BY CommandDoes
<1> QED BY <1>1, <1>2 DEF Right

LEMMA RightClosing ==
  ASSUME Known, NEW cmd \in {"PRE", "PREF", "PREM", "PRE_OTHER"}, cmd \in Issued, NEW v,
         standard.name = "SALP1" => Alone(v)
  PROVE  Right(cmd, v)
<1>1. cmd \notin Accessing /\ cmd \notin Opening /\ cmd # "REF" /\ cmd # "REFPB" /\ cmd # "SASEL"
  BY DEF Opening, Accessing, Columns, Reads, Writes
<1>2. Does(cmd) # "select"
  BY <1>1, CommandDoes
<1> QED BY <1>1, <1>2 DEF Right

LEMMA RightOthers ==
  ASSUME Known, NEW cmd \in {"SASEL", "PREA", "REF", "REFPB"}, cmd \in Issued, NEW v,
         cmd = "SASEL" => row_state[LeafOf(v)] # {},
         cmd = "REF" => \A b \in Leaves : RankOf(b) = RankOf(v) => row_state[b] = {},
         cmd = "REFPB" => \A b \in Leaves : BankOf(b) = BankOf(v) => row_state[b] = {}
  PROVE  Right(cmd, v)
<1>1. cmd \notin Accessing /\ cmd \notin Opening
  BY DEF Opening, Accessing, Columns, Reads, Writes
<1>2. Does(cmd) # "close"
  <2>1. cmd \in Closing => cmd = "PREA"
    BY DEF Closing
  <2>2. /\ cmd \in Closing <=> Does(cmd) \in Closes
        /\ Does(cmd) = "close rank" <=> cmd = "PREA"
    BY CommandDoes
  <2> QED BY <2>1, <2>2 DEF Closes
<1>3. Does(cmd) = "select" => cmd = "SASEL"
  BY CommandDoes
<1> QED BY <1>1, <1>2, <1>3 DEF Right

\* A leaf that is open is the only one of its bank.
LEMMA AloneIs ==
  ASSUME Known, Leaves = LeafNodes(standard.sizes), OnePerBank,
         standard.name \notin {"SALP2", "MASA"},
         NEW v, OnTree(v), row_state[LeafOf(v)] # {}
  PROVE  Alone(v)
<1>1. PICK k \in 2 .. D : \A u : BankOf(u) = SubSeq(u, 1, k)
  BY BankIs
<1>2. k \in 1 .. D
  BY SizeFacts
<1>3. LeafOf(v) \in Leaves /\ BankOf(LeafOf(v)) = BankOf(v)
  BY <1>1, <1>2, LeafOfIs
<1> QED BY <1>3 DEF OnePerBank, Alone

\* Where the banks are the leaves, every one is.
LEMMA AloneInBank ==
  ASSUME Known, Leaves = LeafNodes(standard.sizes), Levels(standard.name) # Nested, NEW v
  PROVE  Alone(v)
<1>1. \A u : BankOf(u) = LeafOf(u)
  BY BankIs DEF LeafOf, D
<1>2. \A b \in Leaves : LeafOf(b) = b
  BY LeafIs
<1> QED BY <1>1, <1>2 DEF Alone

\* Precharging for another subarray closes one that is open.
LEMMA OtherIsOpen ==
  ASSUME Known, Leaves = LeafNodes(standard.sizes), "PRE_OTHER" \in Issued, NEW v, OnTree(v),
         NEW c \in Leaves \ {LeafOf(v)}, BankOf(c) = BankOf(v), row_state[c] # {}
  PROVE  row_state[LeafOf(TargetOf("PRE_OTHER", v))] # {}
<1>1. Levels(standard.name) = Nested
  <2>1. standard.issued = Specs[standard.name].issued /\ standard.name \in Standards
    BY StandardFields DEF Known
  <2> QED BY <2>1, CommandsKnown DEF Issued
<1>2. D = 4 /\ (\A k \in 1 .. D - 1 : 0 \in Digits(k)) /\ standard.levels = Nested
  BY <1>1, SizeFacts, StandardFields DEF Known
<1>3. \A u : BankOf(u) = SubSeq(u, 1, 3)
  <2>1. Nested # Grouped
    BY DEF Nested, Grouped
  <2> QED BY <1>2, <2>1 DEF BankOf
<1> DEFINE there == {b \in Leaves \ {LeafOf(v)} : BankOf(b) = BankOf(v) /\ row_state[b] # {}}
           open == {b[4] : b \in there}
<1>4. open \in SUBSET Nat /\ open # {}
  <2>1. c \in there
    OBVIOUS
  <2>2. 3 \in 1 .. D - 1 /\ 3 + 1 = 4
    BY <1>2
  <2>3. \A b \in Leaves : b[4] \in Nat
    BY <2>2, LeafDigits
  <2> QED BY <2>1, <2>3
<1>5. PICK b \in there : b[4] = Min(open)
  <2>1. Min(open) \in open
    <3> HIDE DEF open
    <3> QED BY <1>4, MinOf
  <2> QED BY <2>1
<1>6. PICK s : s = Min(open)
  OBVIOUS
<1>7. TargetOf("PRE_OTHER", v) = [v EXCEPT ![4] = s, ![5] = -1]
  <2> HIDE DEF open
  <2>1. TargetOf("PRE_OTHER", v) = [v EXCEPT ![4] = IF open = {} THEN 0 ELSE Min(open), ![5] = -1]
    BY DEF TargetOf, open
  <2> QED BY <1>4, <1>6, <2>1
<1>8. b \in Leaves /\ BankOf(b) = BankOf(v) /\ row_state[b] # {} /\ b[4] = s
  BY <1>5, <1>6
<1> HIDE DEF there, open
<1> DEFINE u == [v EXCEPT ![4] = s]
           w == [u EXCEPT ![5] = -1]
<1>9. v \in Seq(Int) /\ Len(v) \in Nat /\ Len(v) >= 4 /\ s \in Int
  <2>1. 3 \in 1 .. D - 1 /\ 3 + 1 = 4
    BY <1>2
  <2>2. b[4] \in Int
    BY <1>8, <2>1, LeafDigits
  <2>3. v \in Seq(Int) /\ Len(v) >= D
    BY DEF OnTree
  <2>4. Len(v) \in Nat
    BY <2>3, LenProperties
  <2> QED BY <1>2, <1>8, <2>2, <2>3, <2>4
<1>10. u \in Seq(Int) /\ Len(u) = Len(v) /\ \A i \in 1 .. Len(v) : u[i] = IF i = 4 THEN s ELSE v[i]
  <2>1. 4 \in 1 .. Len(v)
    BY <1>9
  <2> QED BY <1>9, <2>1, ExceptSeq
<1>11. TargetOf("PRE_OTHER", v) = w
  BY <1>7
<1> HIDE DEF u
<1>12. /\ w \in Seq(Int) /\ Len(w) = Len(v)
       /\ \A i \in 1 .. 4 : w[i] = IF i = 4 THEN s ELSE v[i]
  <2>1. CASE 5 \in 1 .. Len(u)
    <3>1. w \in Seq(Int) /\ Len(w) = Len(u) /\ \A i \in 1 .. Len(u) : w[i] = IF i = 5 THEN -1 ELSE u[i]
      BY <1>10, <2>1, ExceptSeq
    <3>2. \A i \in 1 .. 4 : i \in 1 .. Len(u) /\ i # 5
      BY <1>9, <1>10
    <3> HIDE DEF w
    <3> QED BY <1>10, <3>1, <3>2
  <2>2. CASE 5 \notin 1 .. Len(u)
    <3>1. DOMAIN u = 1 .. Len(u)
      BY <1>10, LenProperties
    <3>2. w = u
      BY <1>10, <2>2, <3>1
    <3>3. \A i \in 1 .. 4 : i \in 1 .. Len(v)
      BY <1>9
    <3> HIDE DEF w
    <3> QED BY <1>10, <3>2, <3>3
  <2> QED BY <2>1, <2>2
<1> HIDE DEF w
<1>13. b \in Seq(Int) /\ Len(b) = 4
  BY <1>2, <1>8, LeafIs
<1>14. \A i \in 1 .. 3 : b[i] = v[i]
  <2>1. 3 \in 1 .. Len(b) /\ 3 \in 1 .. Len(v)
    BY <1>9, <1>13
  <2>2. SubSeq(b, 1, 3) = SubSeq(v, 1, 3)
    BY <1>3, <1>8
  <2> QED BY <1>9, <1>13, <2>1, <2>2, Prefix
<1>15. SubSeq(w, 1, 4) = b
  <2>1. 4 \in 1 .. Len(w)
    BY <1>9, <1>12
  <2>2. SubSeq(w, 1, 4) \in Seq(Int) /\ Len(SubSeq(w, 1, 4)) = 4
        /\ \A i \in 1 .. 4 : SubSeq(w, 1, 4)[i] = w[i]
    BY <1>12, <2>1, Prefix
  <2>3. \A i \in 1 .. 4 : w[i] = b[i]
    <3>1. \A i \in 1 .. 4 : i = 4 \/ i \in 1 .. 3
      OBVIOUS
    <3> QED BY <1>8, <1>12, <1>14, <3>1
  <2>4. \A i \in 1 .. 4 : SubSeq(w, 1, 4)[i] = b[i]
    BY <2>2, <2>3
  <2> QED BY <1>13, <2>2, <2>4, SeqEqual
<1>16. LeafOf(w) = b
  BY <1>2, <1>15 DEF LeafOf, D
<1> QED BY <1>8, <1>11, <1>16

\* A request for a column: the command that has to come first, see FirstOfNeed.
LEMMA AccessIsRight ==
  ASSUME Known, Leaves = LeafNodes(standard.sizes), RowsInv,
         NEW type \in Types(standard.name), NEW v, OnTree(v), NEW cmd \in Issued,
         cmd = Decode(standard.translate[type], v)
  PROVE  Right(cmd, TargetOf(cmd, v))
<1>1. PICK n \in Standards : n = standard.name
  BY DEF Known
<1>2. PICK top : top = Specs[n].translate[type]
  OBVIOUS
<1>3. PICK need : need = Specs[n].prereq[top]
  OBVIOUS
<1>4. /\ top \in Accessing
      /\ \/ /\ need \in {"row open", "row of segment", "row migrated"}
            /\ Levels(n) # Nested /\ n \notin {"SALP1", "SALP2", "MASA"}
         \/ need = "only row of bank" /\ n = "SALP1"
         \/ need = "row alone" /\ n = "SALP2"
         \/ need = "row selected" /\ n = "MASA"
         \/ need = "row of bank" /\ n \notin {"SALP1", "SALP2", "MASA"}
  <2>1. type \in Types(n)
    BY <1>1
  <2>2. PICK c \in {Specs[n].translate[type]} :
          /\ c \in Accessing
          /\ \/ /\ Specs[n].prereq[c] \in {"row open", "row of segment", "row migrated"}
                /\ Levels(n) # Nested /\ n \notin {"SALP1", "SALP2", "MASA"}
             \/ Specs[n].prereq[c] = "only row of bank" /\ n = "SALP1"
             \/ Specs[n].prereq[c] = "row alone" /\ n = "SALP2"
             \/ Specs[n].prereq[c] = "row selected" /\ n = "MASA"
             \/ Specs[n].prereq[c] = "row of bank" /\ n \notin {"SALP1", "SALP2", "MASA"}
    BY <2>1, NeedsFit
  <2>3. c = top
    BY <1>2
  <2> QED BY <1>3, <2>2, <2>3
<1>5. standard.translate[type] = top /\ standard.prereq[top] = need
  BY <1>1, <1>2, <1>3, StandardFields DEF Known
<1>6. PICK closed, hit : /\ closed <=> row_state[LeafOf(v)] = {}
                         /\ hit <=> RowOf(v) \in row_state[LeafOf(v)]
                         /\ closed \in BOOLEAN /\ hit \in BOOLEAN
  <2>1. (row_state[LeafOf(v)] = {}) \in BOOLEAN /\ (RowOf(v) \in row_state[LeafOf(v)]) \in BOOLEAN
    OBVIOUS
  <2> QED BY <2>1
<1>7. PICK near : near = (RowOf(v) % 2 = 0)
  OBVIOUS
<1>8. cmd = FirstOfNeed(need, top, v, closed, hit, near)
  <2>1. cmd = FirstOfNeed(need, top, v, row_state[LeafOf(v)] = {},
                          RowOf(v) \in row_state[LeafOf(v)], RowOf(v) % 2 = 0)
    BY <1>5 DEF Decode, FirstFor
  <2>2. closed = (row_state[LeafOf(v)] = {}) /\ hit = (RowOf(v) \in row_state[LeafOf(v)])
    BY <1>6
  <2> QED BY <1>7, <2>1, <2>2
<1>9. /\ TableKnown /\ OnePerBank /\ BanksKnown
      /\ LeafOf(v) \in Leaves /\ v \in Seq(Int)
      /\ hit => row_state[LeafOf(v)] = {RowOf(v)} /\ ~closed
  <2>1. TableKnown /\ OnePerBank /\ BanksKnown
    BY DEF RowsInv
  <2>2. LeafOf(v) \in Leaves /\ v \in Seq(Int)
    BY LeafOfIs
  <2> QED BY <1>6, <2>1, <2>2, OneRow
<1>10. PICK k \in 2 .. D : \A u : BankOf(u) = SubSeq(u, 1, k)
  BY BankIs
<1>11. k \in 1 .. D /\ k <= Len(v) /\ BankOf(LeafOf(v)) = BankOf(v)
  <2>1. k \in 1 .. D
    BY SizeFacts
  <2> QED BY <1>10, <2>1, LeafOfIs
<1>12. cmd # "PRE_OTHER" => TargetOf(cmd, v) = v
  BY DEF TargetOf
<1>13. top # "PRE_OTHER" /\ "ACT" # "PRE_OTHER" /\ "PRE" # "PRE_OTHER"
  BY <1>4 DEF Accessing, Columns, Reads, Writes
<1>14. ~closed /\ n \notin {"SALP2", "MASA"} => Alone(v)
  BY <1>1, <1>6, <1>9, AloneIs
<1>15. "ACT" \in Opening /\ "ACTF" \in Opening /\ "ACTM" \in Opening
  BY DEF Opening
<1>16. CASE /\ need \in {"row open", "row of segment", "row migrated"}
            /\ Levels(n) # Nested /\ n \notin {"SALP1", "SALP2", "MASA"}
  <2>1. Alone(v)
    BY <1>1, <1>16, AloneInBank
  <2>2. \/ hit /\ cmd = top
        \/ ~hit /\ closed /\ cmd \in {"ACT", "ACTF", "ACTM"}
        \/ ~hit /\ ~closed /\ cmd \in {"PRE", "PREF", "PREM"}
    <3>1. CASE need = "row open"
      BY <1>8, <1>9, <3>1 DEF FirstOfNeed
    <3>2. CASE need = "row of segment"
      BY <1>8, <3>2 DEF FirstOfNeed
    <3>3. CASE need = "row migrated"
      BY <1>8, <3>3 DEF FirstOfNeed
    <3> QED BY <1>16, <3>1, <3>2, <3>3
  <2>3. CASE hit /\ cmd = top
    BY <1>4, <1>9, <1>12, <1>13, <2>1, <2>3, RightColumn
  <2>4. CASE closed /\ cmd \in {"ACT", "ACTF", "ACTM"}
    BY <1>6, <1>12, <1>15, <2>1, <2>4, RightOpening
  <2>5. CASE cmd \in {"PRE", "PREF", "PREM"}
    BY <1>12, <2>1, <2>5, RightClosing
  <2> QED BY <2>2, <2>3, <2>4, <2>5
<1>17. CASE need = "only row of bank" /\ n = "SALP1"
  <2>1. \/ BankOf(v) \notin bankOpen /\ cmd = "ACT"
        \/ hit /\ cmd = top
        \/ BankOf(v) \in bankOpen /\ closed /\ cmd = "PRE_OTHER"
        \/ ~closed /\ cmd = "PRE"
    BY <1>8, <1>17 DEF FirstOfNeed
  <2>2. \A b : b \in bankOpen <=> \E c \in Leaves : b = BankOf(c) /\ row_state[c] # {}
    BY <1>1, <1>9, <1>17 DEF BanksKnown
  <2>3. CASE BankOf(v) \notin bankOpen /\ cmd = "ACT"
    <3>1. \A c \in Leaves : BankOf(c) = BankOf(v) => row_state[c] = {}
      BY <2>2, <2>3
    <3>2. row_state[LeafOf(v)] = {} /\ Alone(v)
      BY <1>9, <1>11, <3>1 DEF Alone
    <3> QED BY <1>12, <1>15, <2>3, <3>2, RightOpening
  <2>4. CASE hit /\ cmd = top
    BY <1>4, <1>9, <1>12, <1>13, <1>14, <1>17, <2>4, RightColumn
  <2>5. CASE BankOf(v) \in bankOpen /\ closed /\ cmd = "PRE_OTHER"
    <3>1. PICK c \in Leaves : BankOf(v) = BankOf(c) /\ row_state[c] # {}
      BY <2>2, <2>5
    <3>2. c \in Leaves \ {LeafOf(v)}
      BY <1>6, <2>5, <3>1
    <3>3. row_state[LeafOf(TargetOf("PRE_OTHER", v))] # {}
      BY <2>5, <3>1, <3>2, OtherIsOpen
    <3>4. PICK u : u = TargetOf("PRE_OTHER", v)
      OBVIOUS
    <3>5. OnTree(u)
      <4>1. Shaped(v)
        BY DEF Shaped
      <4> QED BY <2>5, <3>4, <4>1, TargetOnTree
    <3>6. Alone(u)
      BY <1>1, <1>9, <1>17, <3>3, <3>4, <3>5, AloneIs
    <3> QED BY <2>5, <3>4, <3>6, RightClosing
  <2>6. CASE ~closed /\ cmd = "PRE"
    BY <1>12, <1>14, <1>17, <2>6, RightClosing
  <2> QED BY <2>1, <2>3, <2>4, <2>5, <2>6
<1>18. CASE need = "row alone" /\ n = "SALP2"
  <2>1. \/ closed /\ cmd = "ACT"
        \/ cmd \in {"PRE", "PRE_OTHER"}
        \/ hit /\ ~OthersOpen(LeafOf(v)) /\ cmd = top
    BY <1>8, <1>18 DEF FirstOfNeed
  <2>2. CASE closed /\ cmd = "ACT"
    BY <1>1, <1>6, <1>12, <1>15, <1>18, <2>2, RightOpening
  <2>3. CASE cmd \in {"PRE", "PRE_OTHER"}
    BY <1>1, <1>18, <2>3, RightClosing
  <2>4. CASE hit /\ ~OthersOpen(LeafOf(v)) /\ cmd = top
    <3>1. Alone(v)
      BY <1>11, <2>4 DEF OthersOpen, Alone
    <3> QED BY <1>4, <1>9, <1>12, <1>13, <2>4, <3>1, RightColumn
  <2> QED BY <2>1, <2>2, <2>3, <2>4
<1>19. CASE need = "row selected" /\ n = "MASA"
  <2>1. \/ closed /\ cmd = "ACT"
        \/ cmd = "PRE"
        \/ hit /\ cmd = top
        \/ hit /\ cmd = "SASEL"
    BY <1>8, <1>19 DEF FirstOfNeed
  <2>2. CASE closed /\ cmd = "ACT"
    BY <1>1, <1>6, <1>12, <1>15, <1>19, <2>2, RightOpening
  <2>3. CASE cmd = "PRE"
    BY <1>1, <1>19, <2>3, RightClosing
  <2>4. CASE hit /\ cmd = top
    BY <1>1, <1>4, <1>9, <1>12, <1>13, <1>19, <2>4, RightColumn
  <2>5. CASE hit /\ cmd = "SASEL"
    BY <1>6, <1>9, <1>12, <2>5, RightOthers
  <2> QED BY <2>1, <2>2, <2>3, <2>4, <2>5
<1>20. CASE need = "row of bank" /\ n \notin {"SALP1", "SALP2", "MASA"}
  <2>1. \/ ~HasOpen(BankOf(v)) /\ cmd = "ACT"
        \/ hit /\ cmd = top
        \/ cmd = "PRE"
    BY <1>8, <1>20 DEF FirstOfNeed
  <2>2. CASE ~HasOpen(BankOf(v)) /\ cmd = "ACT"
    <3>1. \A c \in Leaves : IsPrefix(BankOf(v), c) => row_state[c] = {}
      BY <2>2 DEF HasOpen
    <3>2. \A c \in Leaves : IsPrefix(BankOf(v), c) <=> BankOf(c) = BankOf(v)
      BY <1>9, <1>10, <1>11, BelowIs
    <3>3. row_state[LeafOf(v)] = {} /\ Alone(v)
      BY <1>9, <1>11, <3>1, <3>2 DEF Alone
    <3> QED BY <1>12, <1>15, <2>2, <3>3, RightOpening
  <2>3. CASE hit /\ cmd = top
    BY <1>4, <1>9, <1>12, <1>13, <1>14, <1>20, <2>3, RightColumn
  <2>4. CASE cmd = "PRE"
    BY <1>1, <1>20, <2>4, RightClosing
  <2> QED BY <2>1, <2>2, <2>3, <2>4
<1> QED BY <1>4, <1>16, <1>17, <1>18, <1>19, <1>20

\* A refresh: what it is for is closed, or a precharge comes first.
LEMMA RefreshIsRight ==
  ASSUME Known, Leaves = LeafNodes(standard.sizes), RowsInv, NEW v, Shaped(v), NEW cmd \in Issued,
         cmd = Decode(standard.translate["REFRESH"], v)
  PROVE  Right(cmd, TargetOf(cmd, v))
<1>1. PICK n \in Standards : n = standard.name
  BY DEF Known
<1>2. PICK top : top = Specs[n].translate["REFRESH"]
  OBVIOUS
<1>3. PICK need : need = Specs[n].prereq[top]
  OBVIOUS
<1>4. \/ top = "REF" /\ need = IF n = "SALP1" THEN "banks closed" ELSE "rank closed"
      \/ top = "REFPB" /\ need = "bank closed" /\ n \notin {"SALP1", "SALP2", "MASA"}
  <2>1. PICK c \in {Specs[n].translate["REFRESH"]} :
          \/ c = "REF" /\ Specs[n].prereq[c] =
                            IF n = "SALP1" THEN "banks closed" ELSE "rank closed"
          \/ /\ c = "REFPB" /\ Specs[n].prereq[c] = "bank closed"
             /\ n \notin {"SALP1", "SALP2", "MASA"}
    BY NeedsFit
  <2>2. c = top
    BY <1>2
  <2> QED BY <1>3, <2>1, <2>2
<1>5. standard.translate["REFRESH"] = top /\ standard.prereq[top] = need
  BY <1>1, <1>2, <1>3, StandardFields DEF Known
<1>6. PICK closed, hit, near : cmd = FirstOfNeed(need, top, v, closed, hit, near)
  BY <1>5 DEF Decode, FirstFor
<1>7. PICK k \in 2 .. D : \A u : BankOf(u) = SubSeq(u, 1, k)
  BY BankIs
<1>8. /\ k \in 1 .. D /\ 2 \in 1 .. k /\ 2 \in 1 .. D /\ k <= Len(v) /\ 2 <= Len(v) /\ v \in Seq(Int)
      /\ BanksKnown
  <2>1. k \in 1 .. D /\ 2 \in 1 .. k /\ 2 \in 1 .. D
    BY SizeFacts
  <2>2. v \in Seq(Int) /\ Len(v) \in Nat /\ \A i \in 1 .. D : i \in 1 .. Len(v)
    BY ShapedLength
  <2> QED BY <2>1, <2>2 DEF RowsInv
<1>9. \A c \in Leaves : IsPrefix(BankOf(v), c) <=> BankOf(c) = BankOf(v)
  BY <1>7, <1>8, BelowIs
<1>10. \A c \in Leaves : IsPrefix(RankOf(v), c) <=> RankOf(c) = RankOf(v)
  BY <1>8, BelowIs DEF RankOf
<1>11. \A c \in Leaves : RankOf(BankOf(c)) = RankOf(c)
  <2> TAKE c \in Leaves
  <2>1. c \in Seq(Int) /\ Len(c) = D
    BY LeafIs
  <2>2. k \in 1 .. Len(c)
    BY <1>8, <2>1
  <2> QED BY <1>7, <1>8, <2>1, <2>2, PrefixOfPrefix DEF RankOf
<1>12. cmd # "PRE_OTHER" => TargetOf(cmd, v) = v
  BY DEF TargetOf
<1>13. CASE top = "REF" /\ need = "banks closed" /\ n = "SALP1"
  <2>1. \/ cmd = "PREA"
        \/ cmd = "REF" /\ ~ \E b \in bankOpen : RankOf(b) = RankOf(v)
    BY <1>6, <1>13 DEF FirstOfNeed
  <2>2. cmd = "REF" => \A b \in Leaves : RankOf(b) = RankOf(v) => row_state[b] = {}
    <3> SUFFICES ASSUME cmd = "REF", NEW b \in Leaves, RankOf(b) = RankOf(v), row_state[b] # {}
                 PROVE  FALSE
      OBVIOUS
    <3>1. BankOf(b) \in bankOpen
      BY <1>1, <1>8, <1>13 DEF BanksKnown
    <3>2. RankOf(BankOf(b)) = RankOf(v)
      BY <1>11
    <3> QED BY <2>1, <3>1, <3>2
  <2> QED BY <1>12, <2>1, <2>2, RightOthers
<1>14. CASE top = "REF" /\ need = "rank closed"
  <2>1. \/ cmd = "PREA"
        \/ cmd = "REF" /\ ~HasOpen(RankOf(v))
    BY <1>6, <1>14 DEF FirstOfNeed
  <2>2. cmd = "REF" => \A b \in Leaves : RankOf(b) = RankOf(v) => row_state[b] = {}
    BY <1>10, <2>1 DEF HasOpen
  <2> QED BY <1>12, <2>1, <2>2, RightOthers
<1>15. CASE top = "REFPB" /\ need = "bank closed" /\ n \notin {"SALP1", "SALP2", "MASA"}
  <2>1. \/ cmd = "PRE"
        \/ cmd = "REFPB" /\ ~HasOpen(BankOf(v))
    BY <1>6, <1>15 DEF FirstOfNeed
  <2>2. CASE cmd = "PRE"
    BY <1>1, <1>15, <2>2, RightClosing
  <2>3. CASE cmd = "REFPB" /\ ~HasOpen(BankOf(v))
    <3>1. \A b \in Leaves : BankOf(b) = BankOf(v) => row_state[b] = {}
      BY <1>9, <2>3 DEF HasOpen
    <3> QED BY <1>12, <2>3, <3>1, RightOthers
  <2> QED BY <2>1, <2>2, <2>3
<1> QED BY <1>4, <1>13, <1>14, <1>15

\* So the command of every request is right.
LEMMA ChosenIsRight ==
  ASSUME Known, Leaves = LeafNodes(standard.sizes), RowsInv, NEW r \in Requests
  PROVE  Right(FirstCommand(r), TargetOf(FirstCommand(r), r.vec))
<1>1. FirstCommand(r) \in Issued /\ Shaped(r.vec)
  BY CommandFits
<1>2. PICK cmd : cmd = FirstCommand(r)
  OBVIOUS
<1>3. cmd = Decode(standard.translate[r.type], r.vec)
  BY <1>2 DEF FirstCommand
<1>4. CASE r.type = "REFRESH"
  BY <1>1, <1>2, <1>3, <1>4, RefreshIsRight
<1>5. CASE r.type # "REFRESH"
  <2>1. r.type \in Types(standard.name) /\ OnTree(r.vec)
    BY <1>5 DEF Requests, Fitting
  <2> QED BY <1>1, <1>2, <1>3, <2>1, AccessIsRight
<1> QED BY <1>4, <1>5

-----------------------------------------------------------------------------
(* A cycle that issues a right command.                                    *)

\* The rows of a leaf after a command, by what it does.
RowsLeft(cmd, v, b, rows) ==
  /\ Does(cmd) = "open" => rows = IF b = LeafOf(v) THEN {RowOf(v)} ELSE row_state[b]
  /\ Does(cmd) = "close" => rows = IF b = LeafOf(v) THEN {} ELSE row_state[b]
  /\ Does(cmd) = "close bank" => rows = IF BankOf(b) = BankOf(v) THEN {} ELSE row_state[b]
  /\ Does(cmd) = "close rank" => rows = IF RankOf(b) = RankOf(v) THEN {} ELSE row_state[b]
  /\ Does(cmd) \notin {"open", "close", "close bank", "close rank"} => rows = row_state[b]
LEMMA RowsNow ==
  ASSUME Known, Leaves = LeafNodes(standard.sizes), NEW cmd \in Issued, NEW v, ShapeFor(cmd, v),
         Right(cmd, v), NEW b \in Leaves
  PROVE  RowsLeft(cmd, v, b, RowsAfter(cmd, v)[b])
<1>1. PICK k \in 2 .. D : \A u : BankOf(u) = SubSeq(u, 1, k)
  BY BankIs
<1>2. v \in Seq(Int) /\ 2 \in 1 .. D /\ k \in 1 .. D /\ 2 <= Len(v) /\ k <= Len(v)
  <2>1. 2 \in 1 .. D /\ k \in 1 .. D
    BY SizeFacts
  <2> QED BY <2>1, GoesToLeaf
<1>3. IsPrefix(BankOf(v), b) <=> BankOf(b) = BankOf(v)
  BY <1>1, <1>2, BelowIs
<1>4. IsPrefix(RankOf(v), b) <=> RankOf(b) = RankOf(v)
  BY <1>2, BelowIs DEF RankOf
<1>5. CASE Does(cmd) = "open"
  <2>1. cmd \in Opening
    BY <1>5, CommandDoes
  <2>2. RowsAfter(cmd, v) = [row_state EXCEPT ![LeafOf(v)] = @ \cup {RowOf(v)}]
    BY <1>5 DEF RowsAfter
  <2>3. row_state[LeafOf(v)] = {}
    BY <2>1 DEF Right
  <2> QED BY <1>5, <2>2, <2>3 DEF Leaves, RowsLeft
<1>6. CASE Does(cmd) = "close"
  BY <1>6 DEF RowsAfter, Leaves, RowsLeft
<1>7. CASE Does(cmd) = "close bank"
  <2>1. RowsAfter(cmd, v) = [c \in Leaves |-> IF IsPrefix(BankOf(v), c) THEN {} ELSE row_state[c]]
    BY <1>7 DEF RowsAfter
  <2> QED BY <1>3, <1>7, <2>1 DEF RowsLeft
<1>8. CASE Does(cmd) = "close rank"
  <2>1. RowsAfter(cmd, v) = [c \in Leaves |-> IF IsPrefix(RankOf(v), c) THEN {} ELSE row_state[c]]
    BY <1>8 DEF RowsAfter
  <2> QED BY <1>4, <1>8, <2>1 DEF RowsLeft
<1>9. CASE Does(cmd) \notin {"open", "close", "close bank", "close rank"}
  BY <1>9 DEF RowsAfter, RowsLeft
<1> QED BY <1>5, <1>6, <1>7, <1>8, <1>9

\* What a cycle changes.
LEMMA StepIs ==
  ASSUME WellTyped, InCycle, NEW cmd, NEW v, NEW id, NEW x, Issuing(cmd, v, id, x)
  PROVE  /\ Known /\ Leaves = LeafNodes(standard.sizes) /\ cmd \in Issued /\ ShapeFor(cmd, v)
         /\ row_state' = RowsAfter(cmd, v) /\ rowtable' = RowTableAfter(cmd, v)
         /\ bankOpen' = BanksAfter(cmd, v) /\ selected' = SelectedAfter(cmd, v)
         /\ Leaves' = Leaves /\ standard' = standard
         /\ \A u : BankOf(u)' = BankOf(u) /\ RankOf(u)' = RankOf(u) /\ LeafOf(u)' = LeafOf(u)
<1>1. /\ row_state' = RowsAfter(cmd, v) /\ rowtable' = RowTableAfter(cmd, v)
      /\ bankOpen' = BanksAfter(cmd, v) /\ selected' = SelectedAfter(cmd, v)
  BY DEF Issuing, Issue, Update
<1>2. Known /\ Leaves = LeafNodes(standard.sizes)
  BY DEF WellTyped
<1>3. cmd \in Issued /\ ShapeFor(cmd, v)
  BY DEF Issuing
<1>4. Leaves' = Leaves
  <2>1. DOMAIN RowsAfter(cmd, v) = Leaves
    BY LeavesKept
  <2> QED BY <1>1, <2>1 DEF Leaves
<1>5. standard' = standard
  BY DEF InCycle
<1>6. \A u : BankOf(u)' = BankOf(u) /\ RankOf(u)' = RankOf(u) /\ LeafOf(u)' = LeafOf(u)
  BY <1>5 DEF BankOf, RankOf, LeafOf
<1> QED BY <1>1, <1>2, <1>3, <1>4, <1>5, <1>6

\* Its rows, by what the command does.
LEMMA RowsThen ==
  ASSUME WellTyped, InCycle, NEW cmd, NEW v, NEW id, NEW x, Issuing(cmd, v, id, x),
         Right(cmd, v), NEW b \in Leaves
  PROVE  RowsLeft(cmd, v, b, row_state'[b])
<1>1. Known /\ Leaves = LeafNodes(standard.sizes) /\ cmd \in Issued /\ ShapeFor(cmd, v)
  BY StepIs
<1>2. row_state' = RowsAfter(cmd, v)
  BY StepIs
<1>3. RowsLeft(cmd, v, b, RowsAfter(cmd, v)[b])
  BY <1>1, RowsNow
<1> QED BY <1>2, <1>3

\* The device has the rows open that the commands leave open.
LEMMA RowsKnownStep ==
  ASSUME WellTyped, InCycle, RowsKnown, NEW cmd, NEW v, NEW id, NEW x, Issuing(cmd, v, id, x),
         Right(cmd, v)
  PROVE  RowsKnown'
<1>1. /\ Known /\ Leaves = LeafNodes(standard.sizes) /\ cmd \in Issued /\ ShapeFor(cmd, v)
      /\ row_state' = RowsAfter(cmd, v) /\ Leaves' = Leaves /\ standard' = standard
  BY StepIs
<1>2. PICK n \in Nat : n = Len(issued)
  BY Appended
<1>3. Len(issued') = n + 1
  BY <1>2, Appended
<1>4. SUFFICES ASSUME NEW b \in Leaves
               PROVE  row_state'[b] = AfterOf(issued, Len(issued), b)'
  BY <1>1 DEF RowsKnown
<1>5. AfterOf(issued, Len(issued), b)' = AfterOf(issued', n + 1, b)
  BY <1>1, <1>3 DEF AfterOf, Touching, Touches, LeafOf, RowOf
<1>6. AfterOf(issued', n + 1, b) = IF ~Touches(cmd, v, b) THEN AfterOf(issued, n, b)
                                   ELSE IF cmd \in Opening THEN {RowOf(v)} ELSE {}
  BY <1>2, OpenStep
<1>7. RowsAfter(cmd, v)[b] = IF ~Touches(cmd, v, b) THEN row_state[b]
                             ELSE IF cmd \in Opening THEN {RowOf(v)} ELSE {}
  BY <1>1, RowsAfterIs
<1>8. row_state[b] = AfterOf(issued, n, b)
  BY <1>2 DEF RowsKnown
<1> QED BY <1>1, <1>5, <1>6, <1>7, <1>8

\* A bank has one row open, where only one may be.
LEMMA OnePerBankStep ==
  ASSUME WellTyped, InCycle, OnePerBank, NEW cmd, NEW v, NEW id, NEW x, Issuing(cmd, v, id, x),
         Right(cmd, v)
  PROVE  OnePerBank'
<1>1. /\ Known /\ Leaves = LeafNodes(standard.sizes) /\ cmd \in Issued /\ ShapeFor(cmd, v)
      /\ row_state' = RowsAfter(cmd, v) /\ Leaves' = Leaves /\ standard' = standard
      /\ \A u : BankOf(u)' = BankOf(u)
  BY StepIs
<1>2. SUFFICES ASSUME standard.name \notin {"SALP2", "MASA"}, NEW b \in Leaves, NEW c \in Leaves,
                      BankOf(b) = BankOf(c), row_state'[b] # {}, row_state'[c] # {}
               PROVE  b = c
  BY <1>1 DEF OnePerBank
<1>3. row_state[b] # {} /\ row_state[c] # {} => b = c
  BY <1>2 DEF OnePerBank
<1>4. CASE Does(cmd) = "open"
  <2>1. cmd \in Opening
    BY <1>1, <1>4, CommandDoes
  <2>2. \A u \in Leaves : row_state'[u] = IF u = LeafOf(v) THEN {RowOf(v)} ELSE row_state[u]
    BY <1>4, RowsThen DEF RowsLeft
  <2>3. Alone(v)
    BY <1>2, <2>1 DEF Right
  <2>4. BankOf(LeafOf(v)) = BankOf(v)
    <3>1. PICK k \in 2 .. D : \A u : BankOf(u) = SubSeq(u, 1, k)
      BY <1>1, BankIs
    <3>2. k \in 1 .. D
      BY <1>1, SizeFacts
    <3>3. OnTree(v)
      BY <1>1, <1>4, GoesToLeaf
    <3> QED BY <1>1, <3>1, <3>2, <3>3, LeafOfIs
  <2>5. CASE b = LeafOf(v)
    BY <1>2, <2>2, <2>3, <2>4, <2>5 DEF Alone
  <2>6. CASE c = LeafOf(v)
    BY <1>2, <2>2, <2>3, <2>4, <2>6 DEF Alone
  <2>7. CASE b # LeafOf(v) /\ c # LeafOf(v)
    BY <1>2, <1>3, <2>2, <2>7
  <2> QED BY <2>5, <2>6, <2>7
<1>5. CASE Does(cmd) # "open"
  <2>1. \A u \in Leaves : row_state'[u] # {} => row_state[u] # {}
    <3> TAKE u \in Leaves
    <3>1. row_state'[u] = row_state[u] \/ row_state'[u] = {}
      BY <1>5, RowsThen DEF RowsLeft
    <3> QED BY <3>1
  <2> QED BY <1>2, <1>3, <2>1
<1> QED BY <1>4, <1>5

\* RowTable::update() follows update_state().
LEMMA TableKnownStep ==
  ASSUME WellTyped, InCycle, TableKnown, NEW cmd, NEW v, NEW id, NEW x, Issuing(cmd, v, id, x),
         Right(cmd, v)
  PROVE  TableKnown'
<1>1. /\ Known /\ Leaves = LeafNodes(standard.sizes) /\ cmd \in Issued /\ ShapeFor(cmd, v)
      /\ row_state' = RowsAfter(cmd, v) /\ Leaves' = Leaves /\ rowtable' = RowTableAfter(cmd, v)
  BY StepIs
<1> DEFINE below(b) == cmd \in Closing /\ IsPrefix(SubSeq(v, 1, standard.depth[cmd]), b)
           books == (DOMAIN rowtable \cup (IF cmd \in Opening THEN {LeafOf(v)} ELSE {}))
                    \ {b \in DOMAIN rowtable : below(b)}
           entry(b) == IF b \notin DOMAIN rowtable THEN [row |-> RowOf(v), hits |-> 0]
                       ELSE IF b = LeafOf(v) /\ cmd \in Accessing
                       THEN [rowtable[b] EXCEPT !.hits = @ + 1] ELSE rowtable[b]
<1>2. rowtable' = [b \in books |-> entry(b)]
  BY <1>1 DEF RowTableAfter
<1>3. \A b : Touches(cmd, v, b) <=> (cmd \in Opening /\ LeafOf(v) = b) \/ below(b)
  BY DEF Touches
<1>4. cmd \in Opening => LeafOf(v) \in Leaves /\ LeafOf(v) \notin DOMAIN rowtable
                         /\ cmd \notin Closing
  <2>1. cmd \in Opening => row_state[LeafOf(v)] = {}
    BY DEF Right
  <2>2. cmd \in Opening => OnTree(v)
    BY <1>1, GoesToLeaf
  <2>3. cmd \in Opening => LeafOf(v) \in Leaves
    BY <1>1, <2>2, LeafOfIs
  <2> QED BY <2>1, <2>3 DEF TableKnown, Opening, Closing
<1>5. \A b \in DOMAIN rowtable : b \in Leaves /\ row_state[b] = {rowtable[b].row}
  BY DEF TableKnown
<1>6. ASSUME NEW b \in books
      PROVE  /\ b \in DOMAIN rowtable => entry(b).row = rowtable[b].row
             /\ b \notin DOMAIN rowtable => entry(b).row = RowOf(v)
             /\ \E row, hits : entry(b) = [row |-> row, hits |-> hits]
  <2>1. CASE b \notin DOMAIN rowtable
    BY <2>1
  <2>2. CASE b \in DOMAIN rowtable
    <3>1. PICK row, hits : rowtable[b] = [row |-> row, hits |-> hits]
      BY <2>2 DEF TableKnown
    <3>2. [rowtable[b] EXCEPT !.hits = @ + 1] = [row |-> row, hits |-> hits + 1]
      BY <3>1
    <3>3. \/ entry(b) = [row |-> row, hits |-> hits + 1]
          \/ entry(b) = [row |-> row, hits |-> hits]
      BY <2>2, <3>1, <3>2
    <3> QED BY <2>2, <3>1, <3>3
  <2> QED BY <2>1, <2>2
<1> HIDE DEF entry
<1>7. books \subseteq Leaves
  BY <1>4, <1>5
<1>8. DOMAIN rowtable' = books /\ \A b \in books : rowtable'[b] = entry(b)
  BY <1>2
<1>9. ASSUME NEW b \in Leaves
      PROVE  row_state'[b] = IF b \in books THEN {rowtable'[b].row} ELSE {}
  <2>1. row_state'[b] = IF ~Touches(cmd, v, b) THEN row_state[b]
                        ELSE IF cmd \in Opening THEN {RowOf(v)} ELSE {}
    BY <1>1, RowsAfterIs
  <2>2. row_state[b] = IF b \in DOMAIN rowtable THEN {rowtable[b].row} ELSE {}
    BY DEF TableKnown
  <2>3. b \in books <=> (b \in DOMAIN rowtable \/ (cmd \in Opening /\ b = LeafOf(v)))
                        /\ ~(b \in DOMAIN rowtable /\ below(b))
    OBVIOUS
  <2> HIDE DEF below, books
  <2>4. CASE cmd \in Opening /\ b = LeafOf(v)
    <3>1. Touches(cmd, v, b) /\ b \in books /\ b \notin DOMAIN rowtable
      BY <1>3, <1>4, <2>3, <2>4
    <3>2. rowtable'[b].row = RowOf(v)
      BY <1>6, <1>8, <3>1
    <3> QED BY <2>1, <2>4, <3>1, <3>2
  <2>5. CASE ~(cmd \in Opening /\ b = LeafOf(v)) /\ below(b)
    <3>1. Touches(cmd, v, b) /\ b \notin books /\ cmd \notin Opening
      BY <1>3, <1>4, <2>3, <2>5 DEF below
    <3> QED BY <2>1, <3>1
  <2>6. CASE ~(cmd \in Opening /\ b = LeafOf(v)) /\ ~below(b)
    <3>1. ~Touches(cmd, v, b) /\ (b \in books <=> b \in DOMAIN rowtable)
      BY <1>3, <2>3, <2>6
    <3>2. b \in books => rowtable'[b].row = rowtable[b].row
      BY <1>6, <1>8, <3>1
    <3> QED BY <2>1, <2>2, <3>1, <3>2
  <2> QED BY <2>4, <2>5, <2>6
<1> HIDE DEF books
<1>10. \A b \in DOMAIN rowtable' : \E row, hits : rowtable'[b] = [row |-> row, hits |-> hits]
  BY <1>6, <1>8
<1> QED BY <1>1, <1>7, <1>8, <1>9, <1>10 DEF TableKnown

\* The banks of SALP-1 are open that have an open subarray.
LEMMA BanksKnownStep ==
  ASSUME WellTyped, InCycle, BanksKnown, NEW cmd, NEW v, NEW id, NEW x, Issuing(cmd, v, id, x),
         Right(cmd, v)
  PROVE  BanksKnown'
<1>1. /\ Known /\ Leaves = LeafNodes(standard.sizes) /\ cmd \in Issued /\ ShapeFor(cmd, v)
      /\ row_state' = RowsAfter(cmd, v) /\ bankOpen' = BanksAfter(cmd, v)
      /\ Leaves' = Leaves /\ standard' = standard
      /\ \A u : BankOf(u)' = BankOf(u) /\ RankOf(u)' = RankOf(u)
  BY StepIs
<1>2. SUFFICES ASSUME standard.name = "SALP1", NEW bank
               PROVE  bank \in bankOpen' <=> \E b \in Leaves : bank = BankOf(b) /\ row_state'[b] # {}
  BY <1>1 DEF BanksKnown
<1>3. bank \in bankOpen <=> \E b \in Leaves : bank = BankOf(b) /\ row_state[b] # {}
  BY <1>2 DEF BanksKnown
<1>4. Does(cmd) # "close bank"
  BY <1>1, <1>2, CommandDoes
<1>5. PICK k \in 2 .. D : \A u : BankOf(u) = SubSeq(u, 1, k)
  BY <1>1, BankIs
<1>6. k \in 1 .. D /\ 2 \in 1 .. k
  BY <1>1, SizeFacts
<1>7. \A b \in Leaves : RankOf(BankOf(b)) = RankOf(b)
  <2> TAKE b \in Leaves
  <2>1. b \in Seq(Int) /\ Len(b) = D
    BY <1>1, LeafIs
  <2>2. k \in 1 .. Len(b)
    BY <1>6, <2>1
  <2> QED BY <1>5, <1>6, <2>1, <2>2, PrefixOfPrefix DEF RankOf
<1>8. CASE Does(cmd) = "open"
  <2>1. LeafOf(v) \in Leaves /\ BankOf(LeafOf(v)) = BankOf(v)
    <3>1. OnTree(v)
      BY <1>1, <1>8, GoesToLeaf
    <3> QED BY <1>1, <1>5, <1>6, <3>1, LeafOfIs
  <2>2. bankOpen' = bankOpen \cup {BankOf(v)}
    BY <1>1, <1>2, <1>8 DEF BanksAfter
  <2>3. ASSUME NEW b \in Leaves
        PROVE  row_state'[b] = IF b = LeafOf(v) THEN {RowOf(v)} ELSE row_state[b]
    BY <1>8, RowsThen DEF RowsLeft
  <2> QED BY <1>3, <2>1, <2>2, <2>3
<1>9. CASE Does(cmd) = "close"
  <2>1. LeafOf(v) \in Leaves /\ BankOf(LeafOf(v)) = BankOf(v)
    <3>1. OnTree(v)
      BY <1>1, <1>9, GoesToLeaf
    <3> QED BY <1>1, <1>5, <1>6, <3>1, LeafOfIs
  <2>2. bankOpen' = bankOpen \ {BankOf(v)}
    BY <1>1, <1>2, <1>9 DEF BanksAfter
  <2>3. ASSUME NEW b \in Leaves
        PROVE  row_state'[b] = IF b = LeafOf(v) THEN {} ELSE row_state[b]
    BY <1>9, RowsThen DEF RowsLeft
  <2>4. Alone(v)
    BY <1>2, <1>9 DEF Right
  <2>5. ASSUME NEW b \in Leaves, BankOf(b) = BankOf(v) PROVE row_state'[b] = {}
    BY <2>3, <2>4, <2>5 DEF Alone
  <2>6. ASSUME NEW b \in Leaves, BankOf(b) # BankOf(v) PROVE row_state'[b] = row_state[b]
    BY <2>1, <2>3, <2>6
  <2> QED BY <1>3, <2>2, <2>5, <2>6
<1>10. CASE Does(cmd) = "close rank"
  <2>1. bankOpen' = {b \in bankOpen : RankOf(b) # RankOf(v)}
    BY <1>1, <1>2, <1>10 DEF BanksAfter
  <2>2. ASSUME NEW b \in Leaves
        PROVE  row_state'[b] = IF RankOf(b) = RankOf(v) THEN {} ELSE row_state[b]
    BY <1>10, RowsThen DEF RowsLeft
  <2> QED BY <1>3, <1>7, <2>1, <2>2
<1>11. CASE Does(cmd) \notin {"open", "close", "close bank", "close rank"}
  <2>1. bankOpen' = bankOpen
    BY <1>1, <1>2, <1>11 DEF BanksAfter
  <2>2. ASSUME NEW b \in Leaves PROVE row_state'[b] = row_state[b]
    BY <1>11, RowsThen DEF RowsLeft
  <2> QED BY <1>3, <2>1, <2>2
<1> QED BY <1>4, <1>8, <1>9, <1>10, <1>11

\* The selected subarrays of MASA are open.
LEMMA SelectedKnownStep ==
  ASSUME WellTyped, InCycle, SelectedKnown, NEW cmd, NEW v, NEW id, NEW x,
         Issuing(cmd, v, id, x), Right(cmd, v)
  PROVE  SelectedKnown'
<1>1. /\ Known /\ Leaves = LeafNodes(standard.sizes) /\ cmd \in Issued /\ ShapeFor(cmd, v)
      /\ row_state' = RowsAfter(cmd, v) /\ selected' = SelectedAfter(cmd, v)
      /\ Leaves' = Leaves /\ standard' = standard
  BY StepIs
<1>2. CASE standard.name # "MASA"
  <2>1. selected' = selected
    BY <1>1, <1>2 DEF SelectedAfter
  <2>2. selected = {}
    BY <1>2 DEF SelectedKnown
  <2> QED BY <2>1, <2>2 DEF SelectedKnown
<1>3. CASE standard.name = "MASA"
  <2>1. SUFFICES ASSUME NEW b \in selected' PROVE b \in Leaves /\ row_state'[b] # {}
    BY <1>1, <1>3 DEF SelectedKnown
  <2>2. b \in selected => b \in Leaves /\ row_state[b] # {}
    BY DEF SelectedKnown
  <2>3. Does(cmd) # "close bank"
    BY <1>1, <1>3, CommandDoes
  <2>4. CASE Does(cmd) = "open"
    <3>1. LeafOf(v) \in Leaves
      BY <1>1, <2>4, GoesToLeaf, LeafOfIs
    <3>2. b \in selected \/ b = LeafOf(v)
      BY <1>1, <1>3, <2>1, <2>4 DEF SelectedAfter
    <3>3. b \in Leaves
      BY <2>2, <3>1, <3>2
    <3>4. row_state'[b] = IF b = LeafOf(v) THEN {RowOf(v)} ELSE row_state[b]
      BY <2>4, <3>3, RowsThen DEF RowsLeft
    <3> QED BY <2>2, <3>2, <3>3, <3>4
  <2>5. CASE Does(cmd) = "select"
    <3>1. LeafOf(v) \in Leaves /\ row_state[LeafOf(v)] # {}
      BY <1>1, <2>5, GoesToLeaf, LeafOfIs DEF Right
    <3>2. b \in selected \/ b = LeafOf(v)
      BY <1>1, <1>3, <2>1, <2>5 DEF SelectedAfter
    <3>3. b \in Leaves /\ row_state[b] # {}
      BY <2>2, <3>1, <3>2
    <3>4. row_state'[b] = row_state[b]
      BY <2>5, <3>3, RowsThen DEF RowsLeft
    <3> QED BY <3>3, <3>4
  <2>6. CASE Does(cmd) = "close"
    <3>1. b \in selected /\ b # LeafOf(v)
      BY <1>1, <1>3, <2>1, <2>6 DEF SelectedAfter
    <3>2. row_state'[b] = row_state[b]
      BY <2>2, <2>6, <3>1, RowsThen DEF RowsLeft
    <3> QED BY <2>2, <3>1, <3>2
  <2>7. CASE Does(cmd) = "close rank"
    <3>1. b \in selected /\ RankOf(b) # RankOf(v)
      BY <1>1, <1>3, <2>1, <2>7 DEF SelectedAfter
    <3>2. row_state'[b] = row_state[b]
      BY <2>2, <2>7, <3>1, RowsThen DEF RowsLeft
    <3> QED BY <2>2, <3>1, <3>2
  <2>8. CASE Does(cmd) \notin {"open", "select", "close", "close bank", "close rank"}
    <3>1. b \in selected
      BY <1>1, <1>3, <2>1, <2>8 DEF SelectedAfter
    <3>2. row_state'[b] = row_state[b]
      BY <2>2, <2>8, <3>1, RowsThen DEF RowsLeft
    <3> QED BY <2>2, <3>1, <3>2
  <2> QED BY <2>3, <2>4, <2>5, <2>6, <2>7, <2>8
<1> QED BY <1>2, <1>3

\* The command finds the rows it needs, as the commands so far leave them.
LEMMA RespectedStep ==
  ASSUME WellTyped, InCycle, RowsKnown, NEW cmd, NEW v, NEW id, NEW x, Issuing(cmd, v, id, x),
         Right(cmd, v)
  PROVE  RowsRespected'
<1>1. /\ Known /\ Leaves = LeafNodes(standard.sizes) /\ cmd \in Issued /\ ShapeFor(cmd, v)
      /\ Leaves' = Leaves /\ standard' = standard
      /\ \A u : BankOf(u)' = BankOf(u) /\ RankOf(u)' = RankOf(u) /\ LeafOf(u)' = LeafOf(u)
  BY StepIs
<1>2. PICK n \in Nat : n = Len(issued)
  BY Appended
<1>3. /\ Len(issued') = n + 1 /\ DOMAIN issued' = 1 .. n + 1
      /\ issued'[n + 1] = [cmd |-> cmd, vec |-> v, clk |-> Now, id |-> id]
  BY <1>2, Appended
<1>4. ASSUME NEW b \in Leaves PROVE AfterOf(issued', n, b) = row_state[b]
  <2>1. n \in 0 .. n
    OBVIOUS
  <2>2. AfterOf(issued', n, b) = AfterOf(issued, n, b)
    BY <1>2, <2>1, OpenStep
  <2> QED BY <1>2, <2>2 DEF RowsKnown
<1>5. PICK k \in 2 .. D : \A u : BankOf(u) = SubSeq(u, 1, k)
  BY <1>1, BankIs
<1>6. k \in 1 .. D /\ 2 \in 1 .. D /\ D \in 1 .. D
  BY <1>1, SizeFacts
<1>7. v \in Seq(Int) /\ \A d \in 1 .. D : d <= Len(v)
  BY <1>1, GoesToLeaf
<1>8. ASSUME NEW b \in Leaves
      PROVE  /\ IsPrefix(BankOf(v), b) <=> BankOf(b) = BankOf(v)
             /\ IsPrefix(RankOf(v), b) <=> RankOf(b) = RankOf(v)
             /\ IsPrefix(LeafOf(v), b) <=> b = LeafOf(v)
  <2>1. IsPrefix(BankOf(v), b) <=> BankOf(b) = BankOf(v)
    BY <1>1, <1>5, <1>6, <1>7, BelowIs
  <2>2. IsPrefix(RankOf(v), b) <=> RankOf(b) = RankOf(v)
    BY <1>1, <1>6, <1>7, BelowIs DEF RankOf
  <2>3. SubSeq(b, 1, D) = b
    BY <1>1, LeafIs DEF LeafOf, D
  <2>4. IsPrefix(SubSeq(v, 1, D), b) <=> SubSeq(b, 1, D) = SubSeq(v, 1, D)
    BY <1>1, <1>6, <1>7, BelowIs
  <2>5. LeafOf(v) = SubSeq(v, 1, D)
    BY DEF LeafOf, D
  <2> QED BY <2>1, <2>2, <2>3, <2>4, <2>5
<1>9. cmd \in Accessing \cup Opening => LeafOf(v) \in Leaves
  BY <1>1, GoesToLeaf, LeafOfIs
<1>10. ASSUME NEW i \in JustIssued' PROVE i = n + 1
  BY <1>3, <1>10 DEF JustIssued
<1>11. ASSUME NEW b \in Leaves PROVE OpenAfter(n, b)' = row_state[b]
  BY <1>1, <1>4, OpenIs
<1>12. RowOf(v)' = RowOf(v)
  BY <1>1 DEF RowOf
<1>13. /\ cmd \in Accessing =>
             /\ OpenAfter(n, LeafOf(v))' = {RowOf(v)}
             /\ standard.name # "MASA" =>
                  \A b \in Leaves \ {LeafOf(v)} : BankOf(b) = BankOf(v) => OpenAfter(n, b)' = {}
       /\ cmd \in Opening =>
             /\ \A b \in Leaves : IsPrefix(LeafOf(v), b) => OpenAfter(n, b)' = {}
             /\ standard.name \notin {"SALP2", "MASA"} =>
                  \A b \in Leaves \ {LeafOf(v)} : BankOf(b) = BankOf(v) => OpenAfter(n, b)' = {}
       /\ cmd = "REF" => \A b \in Leaves : IsPrefix(RankOf(v), b) => OpenAfter(n, b)' = {}
       /\ cmd = "REFPB" => \A b \in Leaves : IsPrefix(BankOf(v), b) => OpenAfter(n, b)' = {}
  <2>1. CASE cmd \in Accessing
    <3>1. row_state[LeafOf(v)] = {RowOf(v)} /\ (standard.name # "MASA" => Alone(v))
      BY <2>1 DEF Right
    <3>2. cmd \notin Opening /\ cmd # "REF" /\ cmd # "REFPB"
      BY <2>1 DEF Opening, Accessing, Columns, Reads, Writes
    <3>3. OpenAfter(n, LeafOf(v))' = AfterOf(issued', n, LeafOf(v))
      BY <1>1 DEF OpenAfter, AfterOf, Touching, Touches, LeafOf, RowOf
    <3>4. OpenAfter(n, LeafOf(v))' = row_state[LeafOf(v)]
      BY <1>4, <1>9, <2>1, <3>3
    <3> QED BY <1>11, <2>1, <3>1, <3>2, <3>4 DEF Alone
  <2>2. CASE cmd \in Opening
    <3>1. row_state[LeafOf(v)] = {} /\ (standard.name \notin {"SALP2", "MASA"} => Alone(v))
      BY <2>2 DEF Right
    <3>2. cmd \notin Accessing /\ cmd # "REF" /\ cmd # "REFPB"
      BY <2>2 DEF Opening, Accessing, Columns, Reads, Writes
    <3> QED BY <1>8, <1>9, <1>11, <2>2, <3>1, <3>2 DEF Alone
  <2>3. CASE cmd \notin Accessing \cup Opening
    <3>1. /\ cmd = "REF" => \A b \in Leaves : RankOf(b) = RankOf(v) => row_state[b] = {}
          /\ cmd = "REFPB" => \A b \in Leaves : BankOf(b) = BankOf(v) => row_state[b] = {}
      BY DEF Right
    <3> QED BY <1>8, <1>11, <2>3, <3>1
  <2> QED BY <2>1, <2>2, <2>3
<1> QED BY <1>1, <1>3, <1>10, <1>12, <1>13 DEF RowsRespected

-----------------------------------------------------------------------------
(* The steps of the controller.                                            *)

\* A cycle without a command, and a step of advance(), leave the rows alone.
LEMMA RowsQuiet ==
  ASSUME IInv, RowsInv, RowsRespected, clk' \in {clk, Now},
         UNCHANGED <<standard, row_state, bankOpen, selected, rowtable, issued>>
  PROVE  RowsInv' /\ RowsRespected'
<1>1. clk \in Nat /\ Now = clk + 1
  BY DEF IInv, WellTyped, Now
<1>2. /\ \A u : BankOf(u)' = BankOf(u) /\ RankOf(u)' = RankOf(u) /\ LeafOf(u)' = LeafOf(u)
                /\ RowOf(u)' = RowOf(u)
      /\ \A m, b : OpenAfter(m, b)' = OpenAfter(m, b)
      /\ Leaves' = Leaves
  <2>1. \A u : BankOf(u)' = BankOf(u) /\ RankOf(u)' = RankOf(u) /\ LeafOf(u)' = LeafOf(u)
               /\ RowOf(u)' = RowOf(u)
    BY DEF BankOf, RankOf, LeafOf, RowOf
  <2>2. \A m, b : OpenAfter(m, b)' = OpenAfter(m, b)
    BY DEF OpenAfter, LeafOf, RowOf
  <2> QED BY <2>1, <2>2 DEF Leaves
<1>3. RowsInv'
  <2>1. RowsKnown'
    <3>1. \A b : AfterOf(issued, Len(issued), b)' = AfterOf(issued, Len(issued), b)
      BY DEF AfterOf, Touching, Touches, LeafOf, RowOf
    <3> QED BY <1>2, <3>1 DEF RowsInv, RowsKnown
  <2>2. OnePerBank'
    BY <1>2 DEF RowsInv, OnePerBank
  <2>3. TableKnown'
    BY <1>2 DEF RowsInv, TableKnown
  <2>4. BanksKnown'
    BY <1>2 DEF RowsInv, BanksKnown
  <2>5. SelectedKnown'
    BY <1>2 DEF RowsInv, SelectedKnown
  <2> QED BY <2>1, <2>2, <2>3, <2>4, <2>5 DEF RowsInv
<1>4. CASE clk' = clk
  <2>1. JustIssued' = JustIssued
    BY <1>4 DEF JustIssued
  <2>2. RowsRespected'
    BY <1>2, <2>1 DEF RowsRespected
  <2> QED BY <1>3, <2>2
<1>5. CASE clk' = Now
  <2>1. JustIssued' = {}
    <3> SUFFICES ASSUME NEW j \in JustIssued' PROVE FALSE
      OBVIOUS
    <3>1. j \in DOMAIN issued /\ issued[j].clk = clk'
      BY DEF JustIssued
    <3>2. issued[j].clk <= clk
      BY <3>1 DEF IInv, WellTyped, CommandsInOrder
    <3> QED BY <1>1, <1>5, <3>1, <3>2
  <2>2. RowsRespected'
    BY <2>1 DEF RowsRespected
  <2> QED BY <1>3, <2>2
<1> QED BY <1>4, <1>5

\* Nothing is issued in a cycle, or a command that was checked and is right.
LEMMA ServeIsRight ==
  ASSUME WellTyped, RowsInv, NEW source, NEW other, NEW q \in Seq(Requests),
         Serve(source, other, q)
  PROVE  \/ UNCHANGED <<row_state, bankOpen, selected, rowtable, issued>>
         \/ \E cmd, vec, id, x : Issuing(cmd, vec, id, x) /\ Right(cmd, vec)
<1>1. Known /\ Leaves = LeafNodes(standard.sizes)
  BY DEF WellTyped
<1>2. CASE ~HeadReady(q)
  BY <1>2 DEF Serve, Idle
<1>3. CASE HeadReady(q)
  <2>1. PICK i : i = HeadOf(q)
    OBVIOUS
  <2>2. q # <<>> /\ Ready(q[i])
    BY <1>3, <2>1 DEF HeadReady
  <2>3. q[i] \in Requests
    BY <2>1, <2>2, HeadInQueue, LenProperties, ElementOfSeq
  <2>4. PICK r \in Requests : r = q[i]
    BY <2>3
  <2>5. PICK begun : begun = Begin(r)
    OBVIOUS
  <2>6. PICK cmd : cmd = FirstCommand(begun)
    OBVIOUS
  <2>7. PICK vec : vec = TargetOf(cmd, begun.vec)
    OBVIOUS
  <2>8. Issue(cmd, vec, begun.id)
    BY <1>3, <2>1, <2>4, <2>5, <2>6, <2>7 DEF Serve
  <2>9. begun \in Requests /\ begun.id \in Nat
    BY <1>1, <2>5, BeginFits
  <2>10. Ready(r)
    BY <2>2, <2>4
  <2>11. /\ cmd \in Issued /\ ShapeFor(cmd, vec)
         /\ FirstCommand(r) \in Issued /\ FirstCommand(r) \in CheckedFor(standard.name, cmd)
         /\ CanIssue(FirstCommand(r), vec, Now)
    BY <1>1, <2>5, <2>6, <2>7, <2>10, ServedFits
  <2>12. Issuing(cmd, vec, begun.id, FirstCommand(r))
    BY <2>8, <2>9, <2>11 DEF Issuing
  <2>13. Right(cmd, vec)
    <3> HIDE DEF Requests
    <3> QED BY <1>1, <2>6, <2>7, <2>9, ChosenIsRight
  <2> QED BY <2>12, <2>13
<1> QED BY <1>2, <1>3

\* A command that is right leaves the rows as they should be.
LEMMA RowsStep ==
  ASSUME WellTyped, RowsInv, InCycle, NEW cmd, NEW v, NEW id, NEW x, Issuing(cmd, v, id, x),
         Right(cmd, v)
  PROVE  RowsInv' /\ RowsRespected'
<1>1. RowsKnown' /\ OnePerBank' /\ TableKnown' /\ BanksKnown' /\ SelectedKnown'
  BY RowsKnownStep, OnePerBankStep, TableKnownStep, BanksKnownStep, SelectedKnownStep DEF RowsInv
<1>2. RowsRespected'
  BY RespectedStep DEF RowsInv
<1> QED BY <1>1, <1>2 DEF RowsInv

\* A cycle.
LEMMA RowsTick ==
  ASSUME IInv, RowsInv, RowsRespected, Tick
  PROVE  RowsInv' /\ RowsRespected'
<1>1. WellTyped
  BY DEF IInv
<1>2. clk' = Now /\ table' = TableNow /\ standard' = standard
  BY DEF Tick
<1>3. InCycle
  BY <1>1, <1>2 DEF InCycle, TableNow, WellTyped
<1>4. PICK p \in PlansNow : \E source \in {Source(p.other)} :
         Serve(source, p.other, Tried(source, p.other))
  BY DEF Tick
<1>5. PICK source : source = Source(p.other) /\ Serve(source, p.other, Tried(source, p.other))
  BY <1>4
<1>6. p.other \in Seq(Requests)
  <2>1. p.other \in Seq(RefreshRequests)
    BY <1>1, <1>4, PlansFit DEF WellTyped, PlanSet
  <2> QED BY <2>1, WiderSeq DEF RefreshRequests
<1>7. Tried(source, p.other) \in Seq(Requests)
  <2>1. source \in {"act", "other", "write", "read"}
    BY <1>5 DEF Source
  <2>2. actq \in Seq(Requests) /\ writeq \in Seq(Requests) /\ readq \in Seq(Requests)
    BY <1>1 DEF WellTyped
  <2> HIDE DEF Requests
  <2> QED BY <1>6, <2>1, <2>2 DEF Tried
<1>8. PICK q \in Seq(Requests) : q = Tried(source, p.other)
  BY <1>7
<1>9. \/ UNCHANGED <<row_state, bankOpen, selected, rowtable, issued>>
      \/ \E cmd, vec, id, x : Issuing(cmd, vec, id, x) /\ Right(cmd, vec)
  BY <1>1, <1>5, <1>8, ServeIsRight
<1>10. CASE UNCHANGED <<row_state, bankOpen, selected, rowtable, issued>>
  BY <1>2, <1>10, RowsQuiet
<1>11. CASE \E cmd, vec, id, x : Issuing(cmd, vec, id, x) /\ Right(cmd, vec)
  <2>1. PICK cmd, vec, id, x : Issuing(cmd, vec, id, x) /\ Right(cmd, vec)
    BY <1>11
  <2> QED BY <1>1, <1>3, <2>1, RowsStep
<1> QED BY <1>9, <1>10, <1>11

\* Everything is closed at first.
LEMMA RowsInit ==
  ASSUME Init
  PROVE  RowsInv /\ RowsRespected
<1>1. issued = <<>> /\ Len(issued) = 0 /\ DOMAIN issued = {}
  BY EmptySeq DEF Init
<1>2. /\ \A b \in Leaves : row_state[b] = {}
      /\ bankOpen = {} /\ selected = {} /\ rowtable = <<>> /\ DOMAIN rowtable = {}
  BY DEF Init, DeviceInit, Leaves
<1>3. RowsKnown
  <2> SUFFICES ASSUME NEW b \in Leaves PROVE row_state[b] = AfterOf(issued, Len(issued), b)
    BY DEF RowsKnown
  <2>1. Touching(issued, 0, b) = {}
    BY DEF Touching
  <2>2. AfterOf(issued, 0, b) = {}
    BY <2>1 DEF AfterOf
  <2> QED BY <1>1, <1>2, <2>2
<1>4. OnePerBank /\ TableKnown /\ BanksKnown /\ SelectedKnown
  BY <1>2 DEF OnePerBank, TableKnown, BanksKnown, SelectedKnown
<1>5. RowsRespected
  BY <1>1 DEF RowsRespected, JustIssued
<1> QED BY <1>3, <1>4, <1>5 DEF RowsInv

-----------------------------------------------------------------------------
(* What the controller keeps of the rows.                                  *)

\* The rows of the device, and the books about them, are right in every state.
THEOREM RowsInductive == Spec => [](RowsInv /\ RowsRespected)
<1>1. Init => RowsInv /\ RowsRespected
  BY RowsInit
<1>2. IInv /\ RowsInv /\ RowsRespected /\ [Next]_vars => RowsInv' /\ RowsRespected'
  <2> SUFFICES ASSUME IInv, RowsInv, RowsRespected, [Next]_vars PROVE RowsInv' /\ RowsRespected'
    OBVIOUS
  <2>1. CASE Insert
    <3>1. /\ clk' = clk
          /\ UNCHANGED <<standard, row_state, bankOpen, selected, rowtable, issued>>
      BY <2>1 DEF Insert, deviceVars, history
    <3> QED BY <3>1, RowsQuiet
  <2>2. CASE Tick
    BY <2>2, RowsTick
  <2>3. CASE UNCHANGED vars
    <3>1. /\ clk' = clk
          /\ UNCHANGED <<standard, row_state, bankOpen, selected, rowtable, issued>>
      BY <2>3 DEF vars, deviceVars, ctrlVars, history
    <3> QED BY <3>1, RowsQuiet
  <2> QED BY <2>1, <2>2, <2>3 DEF Next, Finished
<1> QED BY <1>1, <1>2, Inductive, PTL DEF Spec

\* RowsRespected: whatever requests get their commands in between, a column finds
\* the row of its request open, a row is opened in a leaf that is closed, and what
\* is refreshed is closed (DRAM::decode, Controller::get_first_cmd and tick).
THEOREM RowsAreRespected == Spec => []RowsRespected
BY RowsInductive, PTL

-----------------------------------------------------------------------------
(* Counting the requests of a queue that are served.                       *)

\* The indices of a queue without its i-th element: B is A without i, when those
\* behind it have moved up.
MovedUp(n, i, A, B) == \A k \in 1 .. n - 1 : k \in B <=> (IF k < i THEN k ELSE k + 1) \in A
LEMMA OneIndexLess ==
  ASSUME NEW n \in Nat, NEW i \in 1 .. n, NEW A \in SUBSET (1 .. n), NEW B \in SUBSET (1 .. n - 1),
         MovedUp(n, i, A, B)
  PROVE  /\ Cardinality(A) \in Nat /\ Cardinality(B) \in Nat
         /\ Cardinality(A) = Cardinality(B) + IF i \in A THEN 1 ELSE 0
<1>1. IsFiniteSet(A) /\ IsFiniteSet(B)
  <2>1. 1 \in Int /\ n \in Int /\ n - 1 \in Int
    OBVIOUS
  <2> QED BY <2>1, FS_Interval, FS_Subset
<1>2. Cardinality(A) \in Nat /\ Cardinality(B) \in Nat
  BY <1>1, FS_CardinalityType
<1> DEFINE f == [k \in B |-> IF k < i THEN k ELSE k + 1]
<1>3. f \in [B -> A \ {i}]
  <2>1. \A k \in B : k \in 1 .. n - 1 /\ (IF k < i THEN k ELSE k + 1) \in A
    BY DEF MovedUp
  <2>2. \A k \in 1 .. n - 1 : (IF k < i THEN k ELSE k + 1) # i
    OBVIOUS
  <2> QED BY <2>1, <2>2
<1>4. \A a, b \in B : f[a] = f[b] => a = b
  <2>1. \A a, b \in 1 .. n - 1 :
           (IF a < i THEN a ELSE a + 1) = (IF b < i THEN b ELSE b + 1) => a = b
    OBVIOUS
  <2> QED BY <2>1
<1>5. \A t \in A \ {i} : \E k \in B : f[k] = t
  <2> TAKE t \in A \ {i}
  <2>1. t \in 1 .. n /\ t # i
    OBVIOUS
  <2>2. PICK k \in 1 .. n - 1 : t = IF k < i THEN k ELSE k + 1
    <3>1. CASE t < i
      <4>1. t \in 1 .. n - 1
        BY <2>1, <3>1
      <4> QED BY <3>1, <4>1
    <3>2. CASE ~(t < i)
      <4>1. t - 1 \in 1 .. n - 1 /\ ~(t - 1 < i) /\ t - 1 + 1 = t
        BY <2>1, <3>2
      <4> QED BY <4>1
    <3> QED BY <3>1, <3>2
  <2>3. k \in B
    BY <2>2 DEF MovedUp
  <2> QED BY <2>2, <2>3
<1>6. ExistsBijection(B, A \ {i})
  <2> HIDE DEF f
  <2>1. DOMAIN f = B
    BY <1>3
  <2>2. f \in Bijection(B, A \ {i})
    BY <1>3, <1>4, <1>5, <2>1 DEF Bijection, Injection, Surjection, IsInjective
  <2> QED BY <2>2 DEF ExistsBijection
<1>7. Cardinality(A \ {i}) = Cardinality(B)
  BY <1>1, <1>6, FS_Bijection
<1>8. Cardinality(A \ {i}) = IF i \in A THEN Cardinality(A) - 1 ELSE Cardinality(A)
  BY <1>1, FS_RemoveElement
<1> QED BY <1>2, <1>7, <1>8

\* What a request adds to the count of a node.
Counts(r, node) == ~r.first /\ r.type # "REFRESH" /\ node \in PathOf(r.vec)
One(r, node) == IF Counts(r, node) THEN 1 ELSE 0
BegunIn(q, node) == {i \in DOMAIN q : Counts(q[i], node)}

LEMMA BegunIs ==
  ASSUME NEW S, NEW q \in Seq(S), NEW node
  PROVE  /\ Begun(q, node) = Cardinality(BegunIn(q, node)) /\ Begun(q, node) \in Nat
         /\ BegunIn(q, node) \in SUBSET (1 .. Len(q)) /\ IsFiniteSet(BegunIn(q, node))
         /\ Len(q) \in Nat /\ DOMAIN q = 1 .. Len(q)
<1>1. Len(q) \in Nat /\ DOMAIN q = 1 .. Len(q)
  BY LenProperties
<1>2. BegunIn(q, node) \in SUBSET (1 .. Len(q))
  BY <1>1 DEF BegunIn
<1>3. IsFiniteSet(BegunIn(q, node))
  <2>1. 1 \in Int /\ Len(q) \in Int
    BY <1>1
  <2> QED BY <1>2, <2>1, FS_Interval, FS_Subset
<1>4. Begun(q, node) = Cardinality(BegunIn(q, node))
  BY DEF Begun, BegunIn, Counts
<1>5. Cardinality(BegunIn(q, node)) \in Nat
  BY <1>3, FS_CardinalityType
<1> QED BY <1>1, <1>2, <1>3, <1>4, <1>5

\* A request leaves,
LEMMA BegunRemoved ==
  ASSUME NEW S, NEW q \in Seq(S), NEW i \in DOMAIN q, NEW node
  PROVE  Begun(q, node) = Begun(RemoveAt(q, i), node) + One(q[i], node)
<1>1. PICK n \in Nat : n = Len(q) /\ DOMAIN q = 1 .. n
  BY LenProperties
<1>2. PICK r \in Seq(S) : r = RemoveAt(q, i)
  BY RemoveKeeps
<1>3. Len(r) = n - 1 /\ \A k \in 1 .. n - 1 : r[k] = q[IF k < i THEN k ELSE k + 1]
  <2>1. PICK a, b : a = SubSeq(q, 1, i - 1) /\ b = SubSeq(q, i + 1, n)
    OBVIOUS
  <2>2. i \in Int /\ 1 <= i /\ i <= n /\ \A k \in 1 .. n : q[k] \in S
    BY <1>1, ElementOfSeq
  <2>3. a \in Seq(S) /\ Len(a) = i - 1 /\ \A k \in 1 .. i - 1 : a[k] = q[k]
    <3>1. 1 \in Int /\ i - 1 \in Int /\ \A k \in 1 .. i - 1 : q[k] \in S
      BY <2>2
    <3>2. /\ a \in Seq(S) /\ Len(a) = IF 1 <= i - 1 THEN i - 1 - 1 + 1 ELSE 0
          /\ \A k \in 1 .. i - 1 - 1 + 1 : a[k] = q[1 + k - 1]
      BY <2>1, <3>1, SubSeqProperties
    <3> QED BY <2>2, <3>2
  <2>4. b \in Seq(S) /\ Len(b) = n - i /\ \A k \in 1 .. n - i : b[k] = q[i + k]
    <3>1. i + 1 \in Int /\ n \in Int /\ \A k \in i + 1 .. n : q[k] \in S
      BY <1>1, <2>2
    <3>2. /\ b \in Seq(S) /\ Len(b) = IF i + 1 <= n THEN n - (i + 1) + 1 ELSE 0
          /\ \A k \in 1 .. n - (i + 1) + 1 : b[k] = q[i + 1 + k - 1]
      BY <2>1, <3>1, SubSeqProperties
    <3> QED BY <1>1, <2>2, <3>2
  <2>5. r = a \o b
    BY <1>1, <1>2, <2>1 DEF RemoveAt
  <2>6. /\ Len(r) = i - 1 + (n - i)
        /\ \A k \in 1 .. i - 1 + (n - i) : r[k] = IF k <= i - 1 THEN a[k] ELSE b[k - (i - 1)]
    <3>1. /\ Len(a \o b) = Len(a) + Len(b)
          /\ \A k \in 1 .. Len(a) + Len(b) : (a \o b)[k] = IF k <= Len(a) THEN a[k] ELSE b[k - Len(a)]
      BY <2>3, <2>4, ConcatProperties
    <3> QED BY <2>3, <2>4, <2>5, <3>1
  <2>7. ASSUME NEW k \in 1 .. n - 1 PROVE r[k] = q[IF k < i THEN k ELSE k + 1]
    <3>1. k \in 1 .. i - 1 + (n - i)
      BY <2>2, <2>7
    <3>2. CASE k < i
      <4>1. k \in 1 .. i - 1 /\ k <= i - 1
        BY <2>2, <3>2
      <4> QED BY <2>3, <2>6, <3>1, <3>2, <4>1
    <3>3. CASE ~(k < i)
      <4>1. k - (i - 1) \in 1 .. n - i /\ ~(k <= i - 1) /\ i + (k - (i - 1)) = k + 1
        BY <2>2, <2>7, <3>3
      <4>2. b[k - (i - 1)] = q[i + (k - (i - 1))]
        BY <2>4, <4>1
      <4> QED BY <2>6, <3>1, <3>3, <4>1, <4>2
    <3> QED BY <3>2, <3>3
  <2> QED BY <1>1, <2>2, <2>6, <2>7
<1>4. BegunIn(q, node) \in SUBSET (1 .. n) /\ BegunIn(r, node) \in SUBSET (1 .. n - 1)
      /\ Begun(q, node) = Cardinality(BegunIn(q, node))
      /\ Begun(r, node) = Cardinality(BegunIn(r, node))
  <2>1. BegunIn(q, node) \in SUBSET (1 .. n) /\ Begun(q, node) = Cardinality(BegunIn(q, node))
    BY <1>1, BegunIs
  <2>2. BegunIn(r, node) \in SUBSET (1 .. n - 1) /\ Begun(r, node) = Cardinality(BegunIn(r, node))
    <3>1. Len(r) = n - 1
      BY <1>2, <1>3
    <3> QED BY <3>1, BegunIs
  <2> QED BY <2>1, <2>2
<1>5. DOMAIN r = 1 .. n - 1
  BY <1>2, <1>3, LenProperties
<1>6. \A k \in 1 .. n - 1 : k \in BegunIn(r, node) <=> (IF k < i THEN k ELSE k + 1) \in BegunIn(q, node)
  <2>1. \A k \in 1 .. n - 1 : (IF k < i THEN k ELSE k + 1) \in 1 .. n
    BY <1>1
  <2> QED BY <1>1, <1>3, <1>5, <2>1 DEF BegunIn
<1>7. i \in BegunIn(q, node) <=> Counts(q[i], node)
  BY DEF BegunIn
<1>8. i \in 1 .. n
  BY <1>1
<1>9. Cardinality(BegunIn(q, node)) = Cardinality(BegunIn(r, node)) + IF i \in BegunIn(q, node) THEN 1 ELSE 0
  <2>1. PICK a \in SUBSET (1 .. n), b \in SUBSET (1 .. n - 1) :
           a = BegunIn(q, node) /\ b = BegunIn(r, node)
    BY <1>4
  <2>2. MovedUp(n, i, a, b)
    BY <1>6, <2>1 DEF MovedUp
  <2>3. Cardinality(a) = Cardinality(b) + IF i \in a THEN 1 ELSE 0
    BY <1>8, <2>2, OneIndexLess
  <2> QED BY <2>1, <2>3
<1> QED BY <1>2, <1>4, <1>7, <1>9 DEF One

\* so does the first one,
LEMMA BegunTail ==
  ASSUME NEW S, NEW q \in Seq(S), q # <<>>, NEW node
  PROVE  Begun(q, node) = Begun(Tail(q), node) + One(Head(q), node)
<1>1. PICK n \in Nat \ {0} : n = Len(q) /\ DOMAIN q = 1 .. n
  BY LenProperties, EmptySeq
<1>2. /\ Tail(q) \in Seq(S) /\ Len(Tail(q)) = n - 1 /\ Head(q) = q[1]
      /\ \A k \in 1 .. n - 1 : Tail(q)[k] = q[k + 1]
  BY <1>1, HeadTailProperties
<1>3. PICK r \in Seq(S) : r = Tail(q)
  BY <1>2
<1>4. BegunIn(q, node) \in SUBSET (1 .. n) /\ BegunIn(r, node) \in SUBSET (1 .. n - 1)
      /\ Begun(q, node) = Cardinality(BegunIn(q, node))
      /\ Begun(r, node) = Cardinality(BegunIn(r, node))
  <2>1. BegunIn(q, node) \in SUBSET (1 .. n) /\ Begun(q, node) = Cardinality(BegunIn(q, node))
    BY <1>1, BegunIs
  <2>2. BegunIn(r, node) \in SUBSET (1 .. n - 1) /\ Begun(r, node) = Cardinality(BegunIn(r, node))
    <3>1. Len(r) = n - 1
      BY <1>2, <1>3
    <3> QED BY <3>1, BegunIs
  <2> QED BY <2>1, <2>2
<1>5. DOMAIN r = 1 .. n - 1
  BY <1>2, <1>3, LenProperties
<1>6. \A k \in 1 .. n - 1 : k \in BegunIn(r, node) <=> (IF k < 1 THEN k ELSE k + 1) \in BegunIn(q, node)
  <2>1. \A k \in 1 .. n - 1 : k + 1 \in 1 .. n /\ ~(k < 1)
    BY <1>1
  <2> QED BY <1>1, <1>2, <1>3, <1>5, <2>1 DEF BegunIn
<1>7. 1 \in 1 .. n /\ (1 \in BegunIn(q, node) <=> Counts(q[1], node))
  BY <1>1 DEF BegunIn
<1>8. Cardinality(BegunIn(q, node)) = Cardinality(BegunIn(r, node)) + IF 1 \in BegunIn(q, node) THEN 1 ELSE 0
  <2>1. PICK a \in SUBSET (1 .. n), b \in SUBSET (1 .. n - 1) :
           a = BegunIn(q, node) /\ b = BegunIn(r, node)
    BY <1>4
  <2>2. MovedUp(n, 1, a, b)
    BY <1>6, <2>1 DEF MovedUp
  <2>3. Cardinality(a) = Cardinality(b) + IF 1 \in a THEN 1 ELSE 0
    BY <1>7, <2>2, OneIndexLess
  <2> QED BY <2>1, <2>3
<1> QED BY <1>2, <1>3, <1>4, <1>7, <1>8 DEF One

\* one comes,
LEMMA BegunAppended ==
  ASSUME NEW S, NEW q \in Seq(S), NEW r \in S, NEW node
  PROVE  Begun(Append(q, r), node) = Begun(q, node) + One(r, node)
<1>1. PICK n \in Nat : n = Len(q) /\ DOMAIN q = 1 .. n
  BY LenProperties
<1>2. /\ Append(q, r) \in Seq(S) /\ Len(Append(q, r)) = n + 1
      /\ \A k \in 1 .. n : Append(q, r)[k] = q[k]
      /\ Append(q, r)[n + 1] = r
  BY <1>1, AppendProperties
<1>3. PICK s \in Seq(S) : s = Append(q, r)
  BY <1>2
<1>4. BegunIn(q, node) \in SUBSET (1 .. n) /\ IsFiniteSet(BegunIn(q, node))
      /\ Begun(q, node) = Cardinality(BegunIn(q, node)) /\ Begun(q, node) \in Nat
      /\ Begun(s, node) = Cardinality(BegunIn(s, node))
  BY <1>1, <1>3, BegunIs
<1>5. DOMAIN s = 1 .. n + 1
  BY <1>2, <1>3, LenProperties
<1>6. n + 1 \notin BegunIn(q, node)
  BY <1>4
<1>7. \A k \in 1 .. n + 1 : k \in 1 .. n \/ k = n + 1
  BY <1>1
<1>8. \A k \in 1 .. n : k \in 1 .. n + 1
  BY <1>1
<1>9. BegunIn(s, node) = IF Counts(r, node) THEN BegunIn(q, node) \cup {n + 1} ELSE BegunIn(q, node)
  <2>1. n + 1 \in 1 .. n + 1
    BY <1>1
  <2>2. \A k \in 1 .. n : k # n + 1
    BY <1>1
  <2> QED BY <1>1, <1>2, <1>3, <1>5, <1>7, <1>8, <2>1, <2>2 DEF BegunIn
<1>10. Cardinality(BegunIn(q, node) \cup {n + 1}) = Cardinality(BegunIn(q, node)) + 1
  BY <1>4, <1>6, FS_AddElement
<1> QED BY <1>3, <1>4, <1>9, <1>10 DEF One

\* or one is put in the place of another.
LEMMA BegunReplaced ==
  ASSUME NEW S, NEW q \in Seq(S), NEW i \in DOMAIN q, NEW r \in S, NEW node
  PROVE  Begun([q EXCEPT ![i] = r], node) = Begun(q, node) - One(q[i], node) + One(r, node)
<1>1. PICK n \in Nat : n = Len(q) /\ DOMAIN q = 1 .. n
  BY LenProperties
<1>2. PICK s \in Seq(S) : s = [q EXCEPT ![i] = r]
  <2>1. i \in 1 .. Len(q)
    BY <1>1
  <2>2. [q EXCEPT ![i] = r] \in Seq(S)
    BY <2>1, ExceptSeq
  <2> QED BY <2>2
<1>3. DOMAIN s = 1 .. n /\ s[i] = r /\ \A k \in (1 .. n) \ {i} : s[k] = q[k]
  BY <1>1, <1>2
<1>4. /\ IsFiniteSet(BegunIn(q, node)) /\ IsFiniteSet(BegunIn(s, node))
      /\ Begun(q, node) = Cardinality(BegunIn(q, node)) /\ Begun(q, node) \in Nat
      /\ Begun(s, node) = Cardinality(BegunIn(s, node)) /\ Begun(s, node) \in Nat
  BY <1>2, BegunIs
<1>5. BegunIn(q, node) \ {i} = BegunIn(s, node) \ {i}
  BY <1>1, <1>3 DEF BegunIn
<1>6. (i \in BegunIn(q, node) <=> Counts(q[i], node)) /\ (i \in BegunIn(s, node) <=> Counts(r, node))
  BY <1>1, <1>3 DEF BegunIn
<1>7. /\ Cardinality(BegunIn(q, node) \ {i}) =
            IF i \in BegunIn(q, node) THEN Cardinality(BegunIn(q, node)) - 1 ELSE Cardinality(BegunIn(q, node))
      /\ Cardinality(BegunIn(s, node) \ {i}) =
            IF i \in BegunIn(s, node) THEN Cardinality(BegunIn(s, node)) - 1 ELSE Cardinality(BegunIn(s, node))
  BY <1>4, FS_RemoveElement
<1>8. PICK a \in Int, b \in Int : a = Begun(q, node) /\ b = Begun(s, node)
  BY <1>4
<1>9. a - One(q[i], node) = b - One(r, node)
  <2>1. Cardinality(BegunIn(q, node)) = a /\ Cardinality(BegunIn(s, node)) = b
    BY <1>4, <1>8
  <2>2. PICK c : /\ c = Cardinality(BegunIn(q, node) \ {i})
                 /\ c = Cardinality(BegunIn(s, node) \ {i})
    BY <1>5
  <2>3. c = a - One(q[i], node)
    BY <1>6, <1>7, <1>8, <2>1, <2>2 DEF One
  <2>4. c = b - One(r, node)
    BY <1>6, <1>7, <1>8, <2>1, <2>2 DEF One
  <2> QED BY <2>3, <2>4
<1>10. One(q[i], node) \in Int /\ One(r, node) \in Int
  BY DEF One
<1> QED BY <1>2, <1>8, <1>9, <1>10

-----------------------------------------------------------------------------
(* The counts of requests served.                                          *)

\* A request that has not come yet has had no command, one that waits for its row
\* or its column came before now (a refresh is asked for in the cycle that is
\* about to begin), and a read on its way that was not served departs a cycle
\* after it came.
FreshRequests == {r \in Requests : r.first}
ArrivedBy(now) == {r \in Requests : r.type # "REFRESH" => r.arrive <= now}
UnderWay == {r \in Requests : /\ r.type \in {"READ", "EXTENSION"}
                              /\ ~r.first <=> r.depart - r.arrive > 1}
Total(reads, writes, act, pend, node) ==
  Begun(reads, node) + Begun(writes, node) + Begun(act, node) + Begun(pend, node)
CountInv ==
  /\ loads \in Seq(FreshRequests) /\ stores \in Seq(FreshRequests)
  /\ readq \in Seq(ArrivedBy(clk)) /\ writeq \in Seq(ArrivedBy(clk)) /\ actq \in Seq(ArrivedBy(clk))
  /\ pending \in Seq(UnderWay) /\ serving \in [Tree -> Int]
  /\ \A node \in Tree : serving[node] = Total(readq, writeq, actq, pending, node)

\* What has had no command, or is a refresh, does not count.
LEMMA NotCounted ==
  ASSUME NEW r \in Requests, NEW node, r.first \/ r.type = "REFRESH"
  PROVE  One(r, node) = 0
BY DEF One, Counts, Requests, RequestType

LEMMA RefreshesUncounted ==
  ASSUME NEW q \in Seq(RefreshRequests), NEW node
  PROVE  Begun(q, node) = 0
<1>1. DOMAIN q = 1 .. Len(q) /\ \A i \in 1 .. Len(q) : q[i] \in RefreshRequests
  BY LenProperties, ElementOfSeq
<1>2. BegunIn(q, node) = {}
  BY <1>1 DEF BegunIn, Counts, RefreshRequests
<1>3. Begun(q, node) = Cardinality(BegunIn(q, node))
  BY BegunIs
<1> QED BY <1>2, <1>3, FS_EmptySet

LEMMA NothingCounted ==
  ASSUME NEW node
  PROVE  Begun(<<>>, node) = 0
<1>1. <<>> \in Seq(RefreshRequests)
  BY EmptySeq
<1> HIDE DEF RefreshRequests
<1> QED BY <1>1, RefreshesUncounted

\* The counts add up one request behind a queue.
LEMMA BegunJoined ==
  ASSUME NEW S, NEW q \in Seq(S), NEW r \in S, NEW node
  PROVE  /\ Begun(q \o <<r>>, node) = Begun(q, node) + One(r, node)
         /\ Begun(q \o <<>>, node) = Begun(q, node)
<1>1. q \o <<r>> = Append(q, r)
  OBVIOUS
<1>2. q \o <<>> = q
  OBVIOUS
<1> QED BY <1>1, <1>2, BegunAppended

-----------------------------------------------------------------------------
(* Requests come due.                                                      *)

Books == [reads : Seq(ArrivedBy(clk)), writes : Seq(ArrivedBy(clk)), pend : Seq(UnderWay),
          loads : Seq(FreshRequests), stores : Seq(FreshRequests)]
SameBooks(f, g) ==
  \A node : /\ Begun(g.reads, node) = Begun(f.reads, node)
            /\ Begun(g.writes, node) = Begun(f.writes, node)
            /\ Begun(g.pend, node) = Begun(f.pend, node)
KeepsBooks(base, seq, i, f) == f \in Books /\ SameBooks(base, f)

\* enqueue(): what is put in a queue has had no command.
LEMMA PutBooks ==
  ASSUME clk \in Nat, NEW f \in Books, NEW r \in FreshRequests
  PROVE  /\ PutStore(f, r) \in Books /\ SameBooks(f, PutStore(f, r))
         /\ PutLoad(f, r) \in Books /\ SameBooks(f, PutLoad(f, r))
<1>1. /\ r \in Requests /\ r \in RequestType /\ r.first = TRUE
  BY DEF FreshRequests, Requests, RequestType
<1>2. PICK a : a = [r EXCEPT !.arrive = clk]
  OBVIOUS
<1>3. /\ a \in RequestType /\ a.type = r.type /\ a.vec = r.vec /\ a.first = TRUE /\ a.arrive = clk
  BY <1>1, <1>2 DEF RequestType
<1>4. a \in Requests
  BY <1>1, <1>3, StillFits
<1>5. PICK d : d = [a EXCEPT !.depart = clk + 1]
  OBVIOUS
<1>6. /\ d \in RequestType /\ d.type = r.type /\ d.vec = r.vec /\ d.first = TRUE /\ d.arrive = clk
      /\ d.depart = clk + 1
  BY <1>3, <1>5 DEF RequestType
<1>7. d \in Requests
  BY <1>1, <1>6, StillFits
<1>8. a \in ArrivedBy(clk)
  BY <1>3, <1>4 DEF ArrivedBy
<1>9. r.type = "READ" => d \in UnderWay
  <2>1. ~(clk + 1 - clk > 1)
    OBVIOUS
  <2> QED BY <1>6, <1>7, <2>1 DEF UnderWay
<1>10. \A node : One(a, node) = 0 /\ One(d, node) = 0
  BY <1>3, <1>4, <1>6, <1>7, NotCounted
<1>11. /\ f.reads \in Seq(ArrivedBy(clk)) /\ f.writes \in Seq(ArrivedBy(clk)) /\ f.pend \in Seq(UnderWay)
       /\ f.loads \in Seq(FreshRequests) /\ f.stores \in Seq(FreshRequests)
  BY DEF Books
<1>12. /\ Append(f.stores, r) \in Seq(FreshRequests) /\ Append(f.loads, r) \in Seq(FreshRequests)
       /\ Append(f.writes, a) \in Seq(ArrivedBy(clk)) /\ Append(f.reads, a) \in Seq(ArrivedBy(clk))
       /\ r.type = "READ" => Append(f.pend, d) \in Seq(UnderWay)
  <2> HIDE DEF FreshRequests, ArrivedBy, UnderWay
  <2> QED BY <1>8, <1>9, <1>11, AppendProperties
<1>13. ASSUME NEW node
       PROVE  /\ Begun(Append(f.writes, a), node) = Begun(f.writes, node)
              /\ Begun(Append(f.reads, a), node) = Begun(f.reads, node)
              /\ r.type = "READ" => Begun(Append(f.pend, d), node) = Begun(f.pend, node)
  <2> HIDE DEF FreshRequests, ArrivedBy, UnderWay
  <2>1. One(a, node) = 0 /\ One(d, node) = 0
    BY <1>10
  <2>2. /\ Begun(f.writes, node) \in Nat /\ Begun(f.reads, node) \in Nat
        /\ Begun(f.pend, node) \in Nat
    BY <1>11, BegunIs
  <2>3. /\ Begun(Append(f.writes, a), node) = Begun(f.writes, node) + One(a, node)
        /\ Begun(Append(f.reads, a), node) = Begun(f.reads, node) + One(a, node)
    BY <1>8, <1>11, BegunAppended
  <2>4. r.type = "READ" => Begun(Append(f.pend, d), node) = Begun(f.pend, node) + One(d, node)
    BY <1>9, <1>11, BegunAppended
  <2> QED BY <2>1, <2>2, <2>3, <2>4
<1>14. f = [reads |-> f.reads, writes |-> f.writes, pend |-> f.pend, loads |-> f.loads, stores |-> f.stores]
  BY DEF Books
<1> HIDE DEF FreshRequests, ArrivedBy, UnderWay, Begun
<1>15. PutStore(f, r) \in Books /\ SameBooks(f, PutStore(f, r))
  <2>1. PutStore(f, r) \in {f, [f EXCEPT !.stores = Append(@, r)], [f EXCEPT !.writes = Append(@, a)]}
    BY <1>2 DEF PutStore
  <2>2. f \in Books /\ SameBooks(f, f)
    BY DEF SameBooks
  <2>3. /\ [f EXCEPT !.stores = Append(@, r)] \in Books
        /\ SameBooks(f, [f EXCEPT !.stores = Append(@, r)])
    BY <1>11, <1>12, <1>14 DEF Books, SameBooks
  <2>4. /\ [f EXCEPT !.writes = Append(@, a)] \in Books
        /\ SameBooks(f, [f EXCEPT !.writes = Append(@, a)])
    BY <1>11, <1>12, <1>13, <1>14 DEF Books, SameBooks
  <2> QED BY <2>1, <2>2, <2>3, <2>4
<1>16. PutLoad(f, r) \in Books /\ SameBooks(f, PutLoad(f, r))
  <2>1. CASE r.type # "READ"
    <3>1. PutLoad(f, r) = f
      BY <2>1 DEF PutLoad
    <3> QED BY <3>1 DEF SameBooks
  <2>2. CASE r.type = "READ"
    <3>1. PutLoad(f, r) \in {[f EXCEPT !.loads = Append(@, r)], [f EXCEPT !.pend = Append(@, d)],
                             [f EXCEPT !.reads = Append(@, a)]}
      BY <1>2, <1>5, <2>2 DEF PutLoad
    <3>2. /\ [f EXCEPT !.loads = Append(@, r)] \in Books
          /\ SameBooks(f, [f EXCEPT !.loads = Append(@, r)])
      BY <1>11, <1>12, <1>14 DEF Books, SameBooks
    <3>3. /\ [f EXCEPT !.pend = Append(@, d)] \in Books
          /\ SameBooks(f, [f EXCEPT !.pend = Append(@, d)])
      BY <1>11, <1>12, <1>13, <1>14, <2>2 DEF Books, SameBooks
    <3>4. /\ [f EXCEPT !.reads = Append(@, a)] \in Books
          /\ SameBooks(f, [f EXCEPT !.reads = Append(@, a)])
      BY <1>11, <1>12, <1>13, <1>14 DEF Books, SameBooks
    <3> QED BY <3>1, <3>2, <3>3, <3>4
  <2> QED BY <2>1, <2>2
<1> QED BY <1>15, <1>16

Sb == INSTANCE FoldProofs WITH Op <- PutStore, Good <- KeepsBooks
Lb == INSTANCE FoldProofs WITH Op <- PutLoad, Good <- KeepsBooks

\* try_insert_st and try_insert_ld.
LEMMA PutAllBooks ==
  ASSUME clk \in Nat, NEW due \in Seq(FreshRequests), NEW f \in Books,
         loads \in Seq(FreshRequests), stores \in Seq(FreshRequests)
  PROVE  Put(due, f) \in Books /\ SameBooks(f, Put(due, f))
<1> DEFINE s == stores \o due
           l == loads \o due
           g == FoldLeft(PutStore, f, s)
<1>1. \A x, y, z : SameBooks(x, y) /\ SameBooks(y, z) => SameBooks(x, z)
  BY DEF SameBooks
<1>2. s \in Seq(FreshRequests) /\ l \in Seq(FreshRequests)
  <2> HIDE DEF FreshRequests
  <2> QED BY ConcatProperties
<1>3. Put(due, f) = FoldLeft(PutLoad, g, l)
  BY DEF Put
<1> HIDE DEF s, l
<1>4. g \in Books /\ SameBooks(f, g)
  <2>1. KeepsBooks(f, s, 0, f)
    BY DEF KeepsBooks, SameBooks
  <2>2. \A i \in 1 .. Len(s) : \A x :
           KeepsBooks(f, s, i - 1, x) => KeepsBooks(f, s, i, PutStore(x, s[i]))
    <3> TAKE i \in 1 .. Len(s)
    <3> TAKE x
    <3> HAVE KeepsBooks(f, s, i - 1, x)
    <3>1. s[i] \in FreshRequests /\ x \in Books /\ SameBooks(f, x)
      BY <1>2, ElementOfSeq DEF KeepsBooks
    <3>2. PutStore(x, s[i]) \in Books /\ SameBooks(x, PutStore(x, s[i]))
      <4> HIDE DEF Books
      <4> QED BY <3>1, PutBooks
    <3> QED BY <1>1, <3>1, <3>2 DEF KeepsBooks
  <2>3. KeepsBooks(f, s, Len(s), Sb!FoldLeft(PutStore, f, s))
    BY <1>2, <2>1, <2>2, Sb!FoldKeeps
  <2>4. g = Sb!FoldLeft(PutStore, f, s)
    BY DEF FoldLeft, Sb!FoldLeft, MapThenFoldSet, Sb!MapThenFoldSet, Max, Sb!Max
  <2> QED BY <2>3, <2>4 DEF KeepsBooks
<1> HIDE DEF g
<1>5. FoldLeft(PutLoad, g, l) \in Books /\ SameBooks(g, FoldLeft(PutLoad, g, l))
  <2>1. KeepsBooks(g, l, 0, g)
    BY <1>4 DEF KeepsBooks, SameBooks
  <2>2. \A i \in 1 .. Len(l) : \A x :
           KeepsBooks(g, l, i - 1, x) => KeepsBooks(g, l, i, PutLoad(x, l[i]))
    <3> TAKE i \in 1 .. Len(l)
    <3> TAKE x
    <3> HAVE KeepsBooks(g, l, i - 1, x)
    <3>1. l[i] \in FreshRequests /\ x \in Books /\ SameBooks(g, x)
      BY <1>2, ElementOfSeq DEF KeepsBooks
    <3>2. PutLoad(x, l[i]) \in Books /\ SameBooks(x, PutLoad(x, l[i]))
      <4> HIDE DEF Books
      <4> QED BY <3>1, PutBooks
    <3> QED BY <1>1, <3>1, <3>2 DEF KeepsBooks
  <2>3. KeepsBooks(g, l, Len(l), Lb!FoldLeft(PutLoad, g, l))
    BY <1>2, <2>1, <2>2, Lb!FoldKeeps
  <2>4. FoldLeft(PutLoad, g, l) = Lb!FoldLeft(PutLoad, g, l)
    BY DEF FoldLeft, Lb!FoldLeft, MapThenFoldSet, Lb!MapThenFoldSet, Max, Lb!Max
  <2> QED BY <2>3, <2>4 DEF KeepsBooks
<1> QED BY <1>1, <1>3, <1>4, <1>5

\* Paths, and with them the counts, stay what they are.
LEMMA SameTree ==
  ASSUME standard' = standard
  PROVE  /\ Tree' = Tree /\ FreshRequests' = FreshRequests /\ UnderWay' = UnderWay
         /\ \A q, node : Begun(q, node)' = Begun(q, node)
<1>1. Requests' = Requests
  BY SameStandard
<1>2. Tree' = Tree
  BY DEF Tree, D
<1>3. FreshRequests' = FreshRequests /\ UnderWay' = UnderWay
  BY <1>1 DEF FreshRequests, UnderWay
<1>4. \A q, node : Begun(q, node)' = Begun(q, node)
  BY DEF Begun, PathOf
<1> QED BY <1>2, <1>3, <1>4

\* What has come by now has come by the next cycle.
LEMMA ArrivedLater ==
  ASSUME NEW now \in Nat, NEW later \in Nat, now <= later
  PROVE  ArrivedBy(now) \subseteq ArrivedBy(later)
<1> SUFFICES ASSUME NEW r \in ArrivedBy(now) PROVE r \in ArrivedBy(later)
  OBVIOUS
<1>1. r \in Requests /\ (r.type # "REFRESH" => r.arrive <= now)
  BY DEF ArrivedBy
<1>2. r.arrive \in Nat
  BY <1>1 DEF Requests, RequestType
<1>3. r.arrive <= now => r.arrive <= later
  BY <1>2
<1> QED BY <1>1, <1>3 DEF ArrivedBy

\* The invariant in the next state, when it is seen from this one.
LEMMA StillCounted ==
  ASSUME standard' = standard, clk \in Nat, clk' \in Nat,
         loads' \in Seq(FreshRequests), stores' \in Seq(FreshRequests),
         readq' \in Seq(ArrivedBy(clk')), writeq' \in Seq(ArrivedBy(clk')),
         actq' \in Seq(ArrivedBy(clk')), pending' \in Seq(UnderWay),
         serving' \in [Tree -> Int],
         \A node \in Tree : serving'[node] = Begun(readq', node) + Begun(writeq', node)
                                             + Begun(actq', node) + Begun(pending', node)
  PROVE  CountInv'
<1>1. /\ Tree' = Tree /\ FreshRequests' = FreshRequests /\ UnderWay' = UnderWay
      /\ Requests' = Requests
  BY SameTree, SameStandard
<1>2. ArrivedBy(clk)' = ArrivedBy(clk')
  BY <1>1 DEF ArrivedBy
<1>3. \A node : /\ Begun(readq, node)' = Begun(readq', node)
                /\ Begun(writeq, node)' = Begun(writeq', node)
                /\ Begun(actq, node)' = Begun(actq', node)
                /\ Begun(pending, node)' = Begun(pending', node)
  BY DEF Begun, PathOf
<1>4. \A node : Total(readq, writeq, actq, pending, node)' =
          Begun(readq', node) + Begun(writeq', node) + Begun(actq', node) + Begun(pending', node)
  BY <1>3 DEF Total
<1> HIDE DEF FreshRequests, ArrivedBy, UnderWay, Requests, Tree
<1> QED BY <1>1, <1>2, <1>4 DEF CountInv

\* A step of advance() puts requests in the queues that have had no command.
LEMMA InsertBooks ==
  ASSUME IInv, CountInv, Insert
  PROVE  CountInv'
<1>1. /\ Known /\ clk \in Nat
      /\ work \in Seq([id : Nat, type : {"READ", "WRITE"}, addr : Nat])
  BY DEF IInv, WellTyped
<1> DEFINE f == [reads |-> readq, writes |-> writeq, pend |-> pending, loads |-> <<>>, stores |-> <<>>]
<1>2. PICK n \in 0 .. Len(work) :
        \E put \in {Put([i \in 1 .. n |-> Request(work[i])], f)} :
          /\ readq' = put.reads /\ writeq' = put.writes /\ pending' = put.pend
          /\ loads' = put.loads /\ stores' = put.stores
  BY DEF Insert
<1>3. UNCHANGED <<standard, serving, clk, actq>>
  BY DEF Insert, deviceVars
<1>4. Len(work) \in Nat /\ n \in Nat /\ n <= Len(work)
  BY <1>1, LenProperties
<1>5. [i \in 1 .. n |-> Request(work[i])] \in Seq(FreshRequests)
  <2>1. \A i \in 1 .. n : Request(work[i]) \in FreshRequests
    <3> TAKE i \in 1 .. n
    <3>1. i \in 1 .. Len(work)
      BY <1>4
    <3>2. work[i] \in [id : Nat, type : {"READ", "WRITE"}, addr : Nat]
      BY <1>1, <3>1, ElementOfSeq
    <3>3. Request(work[i]) \in Requests
      BY <1>1, <3>2, RequestFits
    <3>4. Request(work[i]).first
      BY DEF Request
    <3> HIDE DEF Request, Requests
    <3> QED BY <3>3, <3>4 DEF FreshRequests
  <2> HIDE DEF Request, FreshRequests
  <2> QED BY <1>4, <2>1
<1>6. f \in Books /\ loads \in Seq(FreshRequests) /\ stores \in Seq(FreshRequests)
  <2>1. <<>> \in Seq(FreshRequests)
    BY EmptySeq
  <2> HIDE DEF FreshRequests, ArrivedBy, UnderWay
  <2> QED BY <2>1 DEF Books, CountInv
<1>7. f.reads = readq /\ f.writes = writeq /\ f.pend = pending
  OBVIOUS
<1> HIDE DEF f
<1>8. PICK put : /\ put = Put([i \in 1 .. n |-> Request(work[i])], f)
                 /\ readq' = put.reads /\ writeq' = put.writes /\ pending' = put.pend
                 /\ loads' = put.loads /\ stores' = put.stores
  BY <1>2
<1>9. put \in Books /\ SameBooks(f, put)
  <2>1. PICK due \in Seq(FreshRequests) : due = [i \in 1 .. n |-> Request(work[i])]
    BY <1>5
  <2>2. put = Put(due, f)
    BY <1>8, <2>1
  <2> HIDE DEF FreshRequests, Books
  <2> QED BY <1>1, <1>6, <2>2, PutAllBooks
<1>10. /\ readq' \in Seq(ArrivedBy(clk)) /\ writeq' \in Seq(ArrivedBy(clk))
       /\ pending' \in Seq(UnderWay)
       /\ loads' \in Seq(FreshRequests) /\ stores' \in Seq(FreshRequests)
  <2> HIDE DEF FreshRequests, ArrivedBy, UnderWay
  <2> QED BY <1>8, <1>9 DEF Books
<1>11. \A node : /\ Begun(readq', node) = Begun(readq, node)
                 /\ Begun(writeq', node) = Begun(writeq, node)
                 /\ Begun(pending', node) = Begun(pending, node)
  BY <1>7, <1>8, <1>9 DEF SameBooks
<1>12. \A node \in Tree : serving'[node] = Begun(readq', node) + Begun(writeq', node)
                                         + Begun(actq', node) + Begun(pending', node)
  BY <1>3, <1>11 DEF CountInv, Total
<1>13. /\ clk' \in Nat /\ standard' = standard /\ serving' \in [Tree -> Int]
       /\ actq' \in Seq(ArrivedBy(clk'))
  BY <1>1, <1>3 DEF CountInv
<1>14. readq' \in Seq(ArrivedBy(clk')) /\ writeq' \in Seq(ArrivedBy(clk'))
  BY <1>3, <1>10
<1> HIDE DEF FreshRequests, ArrivedBy, UnderWay, Tree
<1> QED BY <1>1, <1>10, <1>12, <1>13, <1>14, StillCounted

-----------------------------------------------------------------------------
(* A cycle.                                                                *)

\* update_serving_requests() adds delta on the way down.
LEMMA CountedIs ==
  ASSUME NEW counts \in [Tree -> Int], NEW vec, NEW delta \in Int
  PROVE  /\ Counted(counts, vec, delta) \in [Tree -> Int]
         /\ \A node \in Tree : Counted(counts, vec, delta)[node] =
               IF node \in PathOf(vec) THEN counts[node] + delta ELSE counts[node]
BY DEF Counted

\* A read that was served leaves the count when it is called back.
LEMMA ServedBooks ==
  ASSUME pending \in Seq(UnderWay), serving \in [Tree -> Int],
         \A node \in Tree : serving[node] = Total(readq, writeq, actq, pending, node),
         readq \in Seq(Requests), writeq \in Seq(Requests), actq \in Seq(Requests)
  PROVE  /\ PendingLeft \in Seq(UnderWay) /\ ServingNow \in [Tree -> Int]
         /\ \A node \in Tree : ServingNow[node] = Total(readq, writeq, actq, PendingLeft, node)
<1>1. CASE ~Served
  BY <1>1 DEF PendingLeft, ServingNow
<1>2. CASE Served
  <2>1. pending # <<>> /\ PendingLeft = Tail(pending)
    BY <1>2 DEF Served, PendingLeft
  <2>2. PICK r : r = Head(pending)
    OBVIOUS
  <2>3. r \in UnderWay /\ Tail(pending) \in Seq(UnderWay)
    <3> HIDE DEF UnderWay
    <3> QED BY <2>1, <2>2, HeadTailProperties, EmptySeq, LenProperties, ElementOfSeq
  <2>4. \A node : /\ Begun(pending, node) = Begun(Tail(pending), node) + One(r, node)
                  /\ Begun(Tail(pending), node) \in Nat
    <3> HIDE DEF UnderWay
    <3> QED BY <2>1, <2>2, <2>3, BegunTail, BegunIs
  <2>5. \A node : One(r, node) = IF ~r.first /\ node \in PathOf(r.vec) THEN 1 ELSE 0
    BY <2>3 DEF One, Counts, UnderWay
  <2>6. \A node : Begun(readq, node) \in Nat /\ Begun(writeq, node) \in Nat /\ Begun(actq, node) \in Nat
    <3> HIDE DEF Requests
    <3> QED BY BegunIs
  <2>7. ~r.first <=> r.depart - r.arrive > 1
    BY <2>3 DEF UnderWay
  <2>8. CASE r.first
    <3>1. ServingNow = serving
      BY <2>2, <2>7, <2>8 DEF ServingNow
    <3>2. \A node : Begun(pending, node) = Begun(Tail(pending), node)
      BY <2>4, <2>5, <2>8
    <3> HIDE DEF UnderWay
    <3> QED BY <2>1, <2>3, <3>1, <3>2 DEF Total
  <2>9. CASE ~r.first
    <3>1. ServingNow = Counted(serving, r.vec, -1)
      BY <1>2, <2>2, <2>7, <2>9 DEF ServingNow
    <3>2. PICK v : v = r.vec
      OBVIOUS
    <3>3. /\ ServingNow \in [Tree -> Int]
          /\ \A node \in Tree : ServingNow[node] = IF node \in PathOf(v) THEN serving[node] + -1 ELSE serving[node]
      <4>1. -1 \in Int
        OBVIOUS
      <4> HIDE DEF Tree
      <4> QED BY <3>1, <3>2, <4>1, CountedIs
    <3>4. \A node : One(r, node) = IF node \in PathOf(v) THEN 1 ELSE 0
      BY <2>5, <2>9, <3>2
    <3>5. ASSUME NEW node \in Tree PROVE ServingNow[node] = Total(readq, writeq, actq, PendingLeft, node)
      <4>1. PICK a \in Int, b \in Int, c \in Int, d \in Int :
               a = Begun(readq, node) /\ b = Begun(writeq, node) /\ c = Begun(actq, node)
               /\ d = Begun(Tail(pending), node)
        BY <2>4, <2>6
      <4>2. PICK o \in Int : o = One(r, node)
        BY <3>4
      <4>3. serving[node] = a + b + c + (d + o)
        BY <2>4, <4>1, <4>2 DEF Total
      <4>4. ServingNow[node] = serving[node] - o
        <5>1. PICK m \in Int : m = serving[node]
          OBVIOUS
        <5>2. ServingNow[node] = IF node \in PathOf(v) THEN m + -1 ELSE m
          BY <3>3, <5>1
        <5>3. o = IF node \in PathOf(v) THEN 1 ELSE 0
          BY <3>4, <4>2
        <5> QED BY <5>1, <5>2, <5>3
      <4>5. Total(readq, writeq, actq, PendingLeft, node) = a + b + c + d
        BY <2>1, <4>1 DEF Total
      <4> QED BY <4>3, <4>4, <4>5
    <3> HIDE DEF UnderWay
    <3> QED BY <2>1, <2>3, <3>3, <3>5
  <2> QED BY <2>8, <2>9
<1> QED BY <1>1, <1>2

\* A request is counted with its first command,
LEMMA BegunBooks ==
  ASSUME ServingNow \in [Tree -> Int], NEW r \in Requests
  PROVE  /\ ServingBegun(r) \in [Tree -> Int]
         /\ \A node \in Tree :
              /\ ServingBegun(r)[node] = ServingNow[node] + One(Begin(r), node) - One(r, node)
              /\ One(Begin(r), node) = IF r.type # "REFRESH" /\ node \in PathOf(r.vec) THEN 1 ELSE 0
<1>1. r \in RequestType
  BY DEF Requests
<1>2. /\ ~Begin(r).first /\ Begin(r).vec = r.vec
      /\ Begin(r).type = "REFRESH" <=> r.type = "REFRESH"
  BY <1>1 DEF Begin, RequestType
<1>3. PICK v : v = r.vec
  OBVIOUS
<1>4. \A node : One(Begin(r), node) = IF r.type # "REFRESH" /\ node \in PathOf(v) THEN 1 ELSE 0
  <2> HIDE DEF Begin
  <2> QED BY <1>2, <1>3 DEF One, Counts
<1>5. \A node : One(r, node) = IF ~r.first /\ r.type # "REFRESH" /\ node \in PathOf(v) THEN 1 ELSE 0
  BY <1>3 DEF One, Counts
<1>6. CASE r.first /\ r.type # "REFRESH"
  <2>1. ServingBegun(r) = Counted(ServingNow, v, 1)
    BY <1>3, <1>6 DEF ServingBegun
  <2>2. PICK counts \in [Tree -> Int] : counts = ServingNow
    OBVIOUS
  <2>3. /\ ServingBegun(r) \in [Tree -> Int]
        /\ \A node \in Tree : ServingBegun(r)[node] = IF node \in PathOf(v) THEN counts[node] + 1 ELSE counts[node]
    <3>1. 1 \in Int
      OBVIOUS
    <3> HIDE DEF Tree
    <3> QED BY <2>1, <2>2, <3>1, CountedIs
  <2>4. \A node \in Tree : counts[node] \in Int
    BY <2>2
  <2> HIDE DEF Tree
  <2> QED BY <1>3, <1>4, <1>5, <1>6, <2>2, <2>3, <2>4
<1>7. CASE ~(r.first /\ r.type # "REFRESH")
  <2>1. ServingBegun(r) = ServingNow
    BY <1>7 DEF ServingBegun
  <2>2. \A node : One(r, node) = One(Begin(r), node)
    BY <1>4, <1>5, <1>7
  <2>3. \A node : One(r, node) \in Int
    BY DEF One
  <2>4. \A node \in Tree : ServingNow[node] \in Int
    OBVIOUS
  <2>5. \A a, b \in Int : a + b - b = a
    OBVIOUS
  <2> HIDE DEF Tree
  <2> QED BY <1>3, <1>4, <2>1, <2>2, <2>3, <2>4, <2>5
<1> QED BY <1>6, <1>7

\* What is put behind a queue adds that many to its count.
Adds(opened, node, more) ==
  \A s \in Seq(Requests) : Begun(s \o opened, node) = Begun(s, node) + more

\* The counts of the queues add up to what they were but for the one that was
\* tried, and what comes in its place.
AddUp(q, left, node, more) ==
  Begun(readq', node) + Begun(writeq', node) + Begun(actq', node) =
    Begun(readq, node) + Begun(writeq, node) + Begun(actq, node)
      - Begun(q, node) + Begun(left, node) + more

\* The counts of the queues when the one that was tried has become left.
LEMMA LeftBooks ==
  ASSUME readq \in Seq(Requests), writeq \in Seq(Requests), actq \in Seq(Requests),
         NEW source \in {"act", "other", "write", "read"}, NEW other \in Seq(RefreshRequests),
         NEW q \in Seq(Requests), q = Tried(source, other),
         NEW left \in Seq(Requests), source = "other" => left \in Seq(RefreshRequests),
         NEW opened, LeaveQueues(source, other, left, opened), NEW node,
         NEW more \in Int, Adds(opened, node, more)
  PROVE  AddUp(q, left, node, more)
<1> HIDE DEF Requests, RefreshRequests
<1>1. PICK a \in Int, b \in Int, c \in Int, d \in Int, e \in Int :
         /\ a = Begun(readq, node) /\ b = Begun(writeq, node) /\ c = Begun(actq, node)
         /\ d = Begun(q, node) /\ e = Begun(left, node)
  <2>1. \A s \in Seq(Requests) : Begun(s, node) \in Int
    BY BegunIs
  <2> QED BY <2>1
<1>2. CASE source = "act"
  <2>1. readq' = readq /\ writeq' = writeq /\ actq' = left \o opened /\ q = actq
    BY <1>2 DEF LeaveQueues, Tried
  <2>2. Begun(actq', node) = e + more
    BY <1>1, <2>1 DEF Adds
  <2>3. Begun(readq', node) = a /\ Begun(writeq', node) = b /\ d = c
    BY <1>1, <2>1
  <2>4. a + b + (e + more) = a + b + c - d + e + more
    BY <2>3
  <2> QED BY <1>1, <2>2, <2>3, <2>4, Zenon DEF AddUp
<1>3. CASE source = "write"
  <2>1. readq' = readq /\ writeq' = left /\ actq' = actq \o opened /\ q = writeq
    BY <1>3 DEF LeaveQueues, Tried
  <2>2. Begun(actq', node) = c + more
    BY <1>1, <2>1 DEF Adds
  <2>3. Begun(readq', node) = a /\ Begun(writeq', node) = e /\ d = b
    BY <1>1, <2>1
  <2>4. a + e + (c + more) = a + b + c - d + e + more
    BY <2>3
  <2> QED BY <1>1, <2>2, <2>3, <2>4, Zenon DEF AddUp
<1>4. CASE source = "read"
  <2>1. readq' = left /\ writeq' = writeq /\ actq' = actq \o opened /\ q = readq
    BY <1>4 DEF LeaveQueues, Tried
  <2>2. Begun(actq', node) = c + more
    BY <1>1, <2>1 DEF Adds
  <2>3. Begun(readq', node) = e /\ Begun(writeq', node) = b /\ d = a
    BY <1>1, <2>1
  <2>4. e + b + (c + more) = a + b + c - d + e + more
    BY <2>3
  <2> QED BY <1>1, <2>2, <2>3, <2>4, Zenon DEF AddUp
<1>5. CASE source = "other"
  <2>1. readq' = readq /\ writeq' = writeq /\ actq' = actq \o opened /\ q = other
    BY <1>5 DEF LeaveQueues, Tried
  <2>2. Begun(actq', node) = c + more
    BY <1>1, <2>1 DEF Adds
  <2>3. d = 0 /\ e = 0
    BY <1>1, <1>5, <2>1, RefreshesUncounted
  <2>4. Begun(readq', node) = a /\ Begun(writeq', node) = b
    BY <1>1, <2>1
  <2>5. a + b + (c + more) = a + b + c - d + e + more
    BY <2>3
  <2> QED BY <1>1, <2>2, <2>4, <2>5, Zenon DEF AddUp
<1> QED BY <1>2, <1>3, <1>4, <1>5

\* The queues stay queues of the same requests.
LEMMA LeftTyped ==
  ASSUME NEW S, readq \in Seq(S), writeq \in Seq(S), actq \in Seq(S),
         NEW source, NEW other, NEW left \in Seq(S), NEW opened \in Seq(S),
         LeaveQueues(source, other, left, opened)
  PROVE  readq' \in Seq(S) /\ writeq' \in Seq(S) /\ actq' \in Seq(S)
<1>1. PICK s \in Seq(S) : s = IF source = "act" THEN left ELSE actq
  OBVIOUS
<1>2. actq' \in Seq(S)
  BY <1>1, ConcatProperties DEF LeaveQueues
<1> QED BY <1>2 DEF LeaveQueues

\* What a cycle adds to the counts is what it takes from and puts in the queues.
Balanced(q, left, opened, node) ==
  \E a, b, c, d, more \in Int :
     /\ a = Begun(q, node) /\ b = Begun(left, node)
     /\ c = Begun(PendingLeft, node) /\ d = Begun(pending', node)
     /\ Adds(opened, node, more)
     /\ serving'[node] = ServingNow[node] + (b + more - a) + (d - c)
BooksNow ==
  /\ readq' \in Seq(ArrivedBy(clk)) /\ writeq' \in Seq(ArrivedBy(clk)) /\ actq' \in Seq(ArrivedBy(clk))
  /\ pending' \in Seq(UnderWay) /\ serving' \in [Tree -> Int]
  /\ \A node \in Tree : serving'[node] = Begun(readq', node) + Begun(writeq', node)
                                         + Begun(actq', node) + Begun(pending', node)
LEMMA BalancedBooks ==
  ASSUME CountInv, NEW source \in {"act", "other", "write", "read"},
         NEW other \in Seq(RefreshRequests), NEW q \in Seq(ArrivedBy(clk)), q = Tried(source, other),
         NEW left \in Seq(ArrivedBy(clk)), source = "other" => left \in Seq(RefreshRequests),
         NEW opened \in Seq(ArrivedBy(clk)), LeaveQueues(source, other, left, opened),
         pending' \in Seq(UnderWay), serving' \in [Tree -> Int],
         \A node \in Tree : Balanced(q, left, opened, node)
  PROVE  BooksNow
<1>1. /\ readq \in Seq(ArrivedBy(clk)) /\ writeq \in Seq(ArrivedBy(clk)) /\ actq \in Seq(ArrivedBy(clk))
      /\ pending \in Seq(UnderWay) /\ serving \in [Tree -> Int]
      /\ \A node \in Tree : serving[node] = Total(readq, writeq, actq, pending, node)
  BY DEF CountInv
<1>2. /\ readq \in Seq(Requests) /\ writeq \in Seq(Requests) /\ actq \in Seq(Requests)
      /\ q \in Seq(Requests) /\ left \in Seq(Requests)
  <2>1. ArrivedBy(clk) \subseteq Requests
    BY DEF ArrivedBy
  <2> HIDE DEF ArrivedBy, Requests
  <2> QED BY <1>1, <2>1, WiderSeq
<1> HIDE DEF ArrivedBy, UnderWay, Requests, RefreshRequests, Tree
<1>3. /\ ServingNow \in [Tree -> Int]
      /\ \A node \in Tree : ServingNow[node] = Total(readq, writeq, actq, PendingLeft, node)
  BY <1>1, <1>2, ServedBooks
<1>4. readq' \in Seq(ArrivedBy(clk)) /\ writeq' \in Seq(ArrivedBy(clk)) /\ actq' \in Seq(ArrivedBy(clk))
  BY <1>1, LeftTyped
<1>5. ASSUME NEW node \in Tree
      PROVE  serving'[node] = Begun(readq', node) + Begun(writeq', node)
                              + Begun(actq', node) + Begun(pending', node)
  <2>1. PICK a \in Int, b \in Int, c \in Int, d \in Int, more \in Int :
           /\ a = Begun(q, node) /\ b = Begun(left, node)
           /\ c = Begun(PendingLeft, node) /\ d = Begun(pending', node)
           /\ Adds(opened, node, more)
           /\ serving'[node] = ServingNow[node] + (b + more - a) + (d - c)
    BY DEF Balanced
  <2>2. PICK r \in Int, w \in Int, t \in Int :
           r = Begun(readq, node) /\ w = Begun(writeq, node) /\ t = Begun(actq, node)
    <3>1. \A s \in Seq(Requests) : Begun(s, node) \in Int
      BY BegunIs
    <3> QED BY <1>2, <3>1
  <2>3. PICK x \in Int, y \in Int, z \in Int :
           x = Begun(readq', node) /\ y = Begun(writeq', node) /\ z = Begun(actq', node)
    <3>1. \A s \in Seq(ArrivedBy(clk)) : Begun(s, node) \in Int
      BY BegunIs
    <3> QED BY <1>4, <3>1
  <2>4. x + y + z = r + w + t - a + b + more
    <3>1. AddUp(q, left, node, more)
      BY <1>2, <2>1, LeftBooks
    <3> QED BY <2>1, <2>2, <2>3, <3>1, Zenon DEF AddUp
  <2>5. ServingNow[node] = r + w + t + c
    BY <1>3, <2>1, <2>2, Zenon DEF Total
  <2>6. PICK u \in Int : u = ServingNow[node]
    BY <1>3
  <2>7. u + (b + more - a) + (d - c) = x + y + z + d
    BY <2>4, <2>5, <2>6
  <2> QED BY <2>1, <2>3, <2>6, <2>7, Zenon
<1> QED BY <1>4, <1>5 DEF BooksNow

\* A queue that gets nothing, and one that gets a request.
LEMMA AddsNothing ==
  ASSUME NEW node
  PROVE  Adds(<<>>, node, 0)
<1> HIDE DEF Requests
<1>1. \A s \in Seq(Requests) : Begun(s \o <<>>, node) = Begun(s, node) + 0
  <2> TAKE s \in Seq(Requests)
  <2>1. PICK n \in Int : n = Begun(s, node)
    <3>1. Begun(s, node) \in Int
      BY BegunIs
    <3> QED BY <3>1
  <2>2. Begun(s \o <<>>, node) = Begun(s, node)
    BY BegunJoined
  <2>3. n + 0 = n
    OBVIOUS
  <2> QED BY <2>1, <2>2, <2>3, Zenon
<1> QED BY <1>1 DEF Adds

LEMMA AddsOne ==
  ASSUME NEW r \in Requests, NEW node
  PROVE  Adds(<<r>>, node, One(r, node))
<1> HIDE DEF Requests
<1>1. \A s \in Seq(Requests) : Begun(s \o <<r>>, node) = Begun(s, node) + One(r, node)
  BY BegunJoined
<1> QED BY <1>1 DEF Adds

\* Numbers that show it.
Sums(q, left, opened, node, a, b, c, d, more, u) ==
  /\ a = Begun(q, node) /\ b = Begun(left, node) /\ c = Begun(PendingLeft, node)
  /\ d = Begun(pending', node) /\ Adds(opened, node, more) /\ u = ServingNow[node]
  /\ serving'[node] = u + (b + more - a) + (d - c)
LEMMA BalanceOf ==
  ASSUME NEW q, NEW left, NEW opened, NEW node,
         NEW a \in Int, NEW b \in Int, NEW c \in Int, NEW d \in Int, NEW more \in Int, NEW u,
         Sums(q, left, opened, node, a, b, c, d, more, u)
  PROVE  Balanced(q, left, opened, node)
<1>1. serving'[node] = ServingNow[node] + (b + more - a) + (d - c)
  BY Zenon DEF Sums
<1> QED BY <1>1, Zenon DEF Balanced, Sums

\* A request that gets its first command, and one that waits for its data.
LEMMA BegunCame ==
  ASSUME Known, clk \in Nat, NEW r \in ArrivedBy(clk),
         NEW x, x = [Begin(r) EXCEPT !.depart = Now + standard.read_latency]
  PROVE  /\ Begin(r) \in ArrivedBy(clk)
         /\ Begin(r).type \in {"READ", "EXTENSION"} =>
               x \in UnderWay /\ \A node : One(x, node) = One(Begin(r), node)
<1>1. r \in Requests /\ (r.type # "REFRESH" => r.arrive <= clk)
  BY DEF ArrivedBy
<1>2. PICK b \in Requests :
        b = Begin(r) /\ (b.type = r.type \/ (b.type = "EXTENSION" /\ r.type = "READ"))
  BY <1>1, BeginFits
<1>3. b.arrive = r.arrive /\ ~b.first
  <2>1. r \in RequestType
    BY <1>1 DEF Requests
  <2> QED BY <1>2, <2>1 DEF Begin, RequestType
<1>4. b \in ArrivedBy(clk)
  BY <1>1, <1>2, <1>3 DEF ArrivedBy
<1>5. b \in RequestType
  BY <1>2 DEF Requests
<1>6. PICK l \in Int : l = standard.read_latency /\ l > 0
  <2>1. standard.name \in Standards /\ standard.read_latency = Specs[standard.name].read_latency
    BY StandardFields DEF Known
  <2>2. Specs[standard.name].read_latency \in Nat
    BY <2>1, CommandsKnown
  <2>3. Specs[standard.name].read_latency > 0
    BY <2>1, NeedsFit
  <2> QED BY <2>1, <2>2, <2>3
<1>7. PICK t \in Int : t = clk + 1 + l
  BY <1>6
<1>8. /\ x \in RequestType /\ x.type = b.type /\ x.vec = b.vec /\ x.first = b.first
      /\ x.arrive = b.arrive /\ x.depart = t
  <2>1. x = [b EXCEPT !.depart = t]
    BY <1>2, <1>6, <1>7 DEF Now
  <2> QED BY <1>5, <1>7, <2>1 DEF RequestType
<1>9. ASSUME b.type \in {"READ", "EXTENSION"}
      PROVE  x \in UnderWay /\ \A node : One(x, node) = One(b, node)
  <2>1. x \in Requests
    BY <1>2, <1>8, StillFits
  <2>2. PICK c \in Int : c = clk /\ b.arrive <= c
    BY <1>4, <1>9 DEF ArrivedBy
  <2>3. b.arrive \in Int
    BY <1>5 DEF RequestType
  <2>4. t - b.arrive > 1
    BY <1>6, <1>7, <2>2, <2>3
  <2>5. x \in UnderWay
    BY <1>3, <1>8, <1>9, <2>1, <2>4 DEF UnderWay
  <2> QED BY <1>8, <2>5 DEF One, Counts
<1> QED BY <1>2, <1>4, <1>9

\* Nothing is issued: what is called back leaves the counts.
LEMMA IdleBalanced ==
  ASSUME NEW q \in Seq(Requests), PendingLeft \in Seq(UnderWay), ServingNow \in [Tree -> Int],
         NEW source, NEW other, Idle(source, other, q)
  PROVE  \A node \in Tree : Balanced(q, q, <<>>, node)
<1> HIDE DEF Requests, UnderWay, Tree
<1> TAKE node \in Tree
<1>1. PICK a \in Int, c \in Int : a = Begun(q, node) /\ c = Begun(PendingLeft, node)
  <2>1. \A s \in Seq(Requests) : Begun(s, node) \in Int
    BY BegunIs
  <2>2. \A s \in Seq(UnderWay) : Begun(s, node) \in Int
    BY BegunIs
  <2> QED BY <2>1, <2>2
<1>2. pending' = PendingLeft /\ serving' = ServingNow
  BY DEF Idle
<1>3. PICK u \in Int : u = ServingNow[node]
  OBVIOUS
<1>4. PICK more \in Int : more = 0
  OBVIOUS
<1>5. u = u + (a + more - a) + (c - c)
  BY <1>4
<1>6. Adds(<<>>, node, more)
  BY <1>4, AddsNothing
<1>7. serving'[node] = u + (a + more - a) + (c - c) /\ c = Begun(pending', node)
  BY <1>1, <1>2, <1>3, <1>5, Zenon
<1>8. Sums(q, q, <<>>, node, a, a, c, c, more, u)
  BY <1>1, <1>3, <1>6, <1>7, Zenon DEF Sums
<1> QED BY <1>8, BalanceOf

\* The counts of a queue that a request is taken from, or put back to when it has
\* begun, and that of the requests served then.
Figures(q, i, b, node, a, c, u, one, old) ==
  /\ a = Begun(q, node) /\ c = Begun(PendingLeft, node) /\ u = ServingNow[node]
  /\ one = One(b, node) /\ old = One(q[i], node)
  /\ a - old = Begun(RemoveAt(q, i), node)
  /\ a - old + one = Begun([q EXCEPT ![i] = b], node)
  /\ u + one - old = ServingBegun(q[i])[node]
LEMMA CountsThen ==
  ASSUME NEW q \in Seq(Requests), NEW i \in DOMAIN q, NEW b \in Requests, b = Begin(q[i]),
         PendingLeft \in Seq(UnderWay), ServingNow \in [Tree -> Int], NEW node \in Tree
  PROVE  \E a \in Int, c \in Int, u \in Int, one \in Int, old \in Int :
            Figures(q, i, b, node, a, c, u, one, old)
<1> HIDE DEF Requests, UnderWay, Tree
<1>1. PICK a \in Int, c \in Int : a = Begun(q, node) /\ c = Begun(PendingLeft, node)
  <2>1. \A s \in Seq(Requests) : Begun(s, node) \in Int
    BY BegunIs
  <2>2. \A s \in Seq(UnderWay) : Begun(s, node) \in Int
    BY BegunIs
  <2> QED BY <2>1, <2>2
<1>2. PICK u \in Int : u = ServingNow[node]
  OBVIOUS
<1>3. PICK one \in Int, old \in Int : one = One(b, node) /\ old = One(q[i], node)
  BY DEF One
<1>4. PICK s \in Seq(Requests) : s = RemoveAt(q, i)
  BY RemoveKeeps
<1>5. a - old = Begun(RemoveAt(q, i), node)
  <2>1. PICK m \in Int : m = Begun(s, node)
    <3>1. Begun(s, node) \in Int
      BY BegunIs
    <3> QED BY <3>1
  <2>2. Begun(q, node) = Begun(RemoveAt(q, i), node) + One(q[i], node)
    BY BegunRemoved
  <2>3. a = m + old
    BY <1>1, <1>3, <1>4, <2>1, <2>2, Zenon
  <2>4. a - old = m
    BY <2>3
  <2> QED BY <1>4, <2>1, <2>4, Zenon
<1>6. a - old + one = Begun([q EXCEPT ![i] = b], node)
  <2>1. Begun([q EXCEPT ![i] = b], node) = Begun(q, node) - One(q[i], node) + One(b, node)
    BY BegunReplaced
  <2> QED BY <1>1, <1>3, <2>1, Zenon
<1>7. u + one - old = ServingBegun(q[i])[node]
  <2>1. q[i] \in Requests
    BY LenProperties, ElementOfSeq
  <2>2. PICK r \in Requests : r = q[i]
    BY <2>1
  <2>3. ServingBegun(r)[node] = ServingNow[node] + One(Begin(r), node) - One(r, node)
    BY BegunBooks
  <2> QED BY <1>2, <1>3, <2>2, <2>3, Zenon
<1>8. Figures(q, i, b, node, a, c, u, one, old)
  BY <1>1, <1>2, <1>3, <1>5, <1>6, <1>7, Zenon DEF Figures
<1> QED BY <1>8

\* A command that is not the last of its request: the request moves to actq, or
\* stays where it is.
LEMMA RowBalanced ==
  ASSUME NEW q \in Seq(Requests), NEW i \in DOMAIN q, NEW b \in Requests, b = Begin(q[i]),
         PendingLeft \in Seq(UnderWay), ServingNow \in [Tree -> Int],
         serving' = ServingBegun(q[i]), pending' = PendingLeft
  PROVE  \A node \in Tree : /\ Balanced(q, RemoveAt(q, i), <<b>>, node)
                            /\ Balanced(q, [q EXCEPT ![i] = b], <<>>, node)
<1> HIDE DEF Requests, UnderWay, Tree
<1> TAKE node \in Tree
<1>1. PICK a \in Int, c \in Int, u \in Int, one \in Int, old \in Int :
            Figures(q, i, b, node, a, c, u, one, old)
  BY CountsThen
<1>2. PICK left \in Int, kept \in Int, none \in Int : left = a - old /\ kept = a - old + one /\ none = 0
  OBVIOUS
<1>3. /\ u + (left + one - a) + (c - c) = u + one - old
      /\ u + (kept + none - a) + (c - c) = u + one - old
  BY <1>2
<1>4. /\ serving'[node] = u + (left + one - a) + (c - c)
      /\ serving'[node] = u + (kept + none - a) + (c - c)
      /\ c = Begun(pending', node)
  BY <1>1, <1>3, Zenon DEF Figures
<1>5. Adds(<<b>>, node, one) /\ Adds(<<>>, node, none)
  <2>1. Adds(<<b>>, node, One(b, node)) /\ Adds(<<>>, node, 0)
    BY AddsOne, AddsNothing
  <2> QED BY <1>1, <1>2, <2>1, Zenon DEF Figures
<1>6. left = Begun(RemoveAt(q, i), node) /\ kept = Begun([q EXCEPT ![i] = b], node)
  BY <1>1, <1>2, Zenon DEF Figures
<1>7. Sums(q, RemoveAt(q, i), <<b>>, node, a, left, c, c, one, u)
  BY <1>1, <1>4, <1>5, <1>6, Zenon DEF Sums, Figures
<1>8. Sums(q, [q EXCEPT ![i] = b], <<>>, node, a, kept, c, c, none, u)
  BY <1>1, <1>4, <1>5, <1>6, Zenon DEF Sums, Figures
<1> QED BY <1>7, <1>8, BalanceOf

\* The last command: a read goes on as what waits for its data, a write is done.
LEMMA LastBalanced ==
  ASSUME NEW q \in Seq(Requests), NEW i \in DOMAIN q, NEW b \in Requests, b = Begin(q[i]),
         PendingLeft \in Seq(UnderWay), ServingNow \in [Tree -> Int],
         serving' = IF b.type = "WRITE" THEN Counted(ServingBegun(q[i]), b.vec, -1)
                    ELSE ServingBegun(q[i]),
         NEW x, pending' = IF b.type \in {"READ", "EXTENSION"} THEN Append(PendingLeft, x)
                           ELSE PendingLeft,
         b.type \in {"READ", "EXTENSION"} =>
            x \in UnderWay /\ \A node : One(x, node) = One(b, node)
  PROVE  \A node \in Tree : Balanced(q, RemoveAt(q, i), <<>>, node)
<1>1. b \in RequestType
  BY DEF Requests
<1>2. b.type \in {"READ", "WRITE", "REFRESH", "EXTENSION"}
  BY <1>1 DEF RequestType
<1> HIDE DEF Requests, UnderWay, Tree
<1> TAKE node \in Tree
<1>3. PICK a \in Int, c \in Int, u \in Int, one \in Int, old \in Int :
            Figures(q, i, b, node, a, c, u, one, old)
  BY CountsThen
<1>4. PICK left \in Int, none \in Int, served \in Int :
         left = a - old /\ none = 0 /\ served = u + one - old
  OBVIOUS
<1>5. left = Begun(RemoveAt(q, i), node) /\ served = ServingBegun(q[i])[node]
  BY <1>3, <1>4, Zenon DEF Figures
<1>6. Adds(<<>>, node, none)
  BY <1>4, AddsNothing
<1>7. CASE b.type \in {"READ", "EXTENSION"}
  <2>1. PICK d \in Int : d = c + one
    OBVIOUS
  <2>2. served = u + (left + none - a) + (d - c)
    BY <1>4, <2>1
  <2>3. Begun(Append(PendingLeft, x), node) = Begun(PendingLeft, node) + One(x, node)
    <3>1. x \in UnderWay
      BY <1>7
    <3>2. PICK seq \in Seq(UnderWay), y \in UnderWay : seq = PendingLeft /\ y = x
      BY <3>1
    <3>3. Begun(Append(seq, y), node) = Begun(seq, node) + One(y, node)
      BY BegunAppended
    <3> QED BY <3>2, <3>3
  <2>4. One(x, node) = one /\ pending' = Append(PendingLeft, x)
    BY <1>3, <1>7 DEF Figures
  <2>5. d = Begun(pending', node)
    BY <1>3, <2>1, <2>3, <2>4, Zenon DEF Figures
  <2>6. serving' = ServingBegun(q[i])
    BY <1>7
  <2>7. serving'[node] = u + (left + none - a) + (d - c)
    BY <1>5, <2>2, <2>6, Zenon
  <2>8. Sums(q, RemoveAt(q, i), <<>>, node, a, left, c, d, none, u)
    BY <1>3, <1>5, <1>6, <2>5, <2>7, Zenon DEF Sums, Figures
  <2> QED BY <2>8, BalanceOf
<1>8. CASE b.type = "WRITE"
  <2>1. serving' = Counted(ServingBegun(q[i]), b.vec, -1) /\ pending' = PendingLeft
    BY <1>8
  <2>2. ServingBegun(q[i]) \in [Tree -> Int] /\ one = IF node \in PathOf(b.vec) THEN 1 ELSE 0
    <3>1. q[i] \in Requests
      BY LenProperties, ElementOfSeq
    <3>2. PICK r \in Requests : r = q[i]
      BY <3>1
    <3>3. /\ ServingBegun(r) \in [Tree -> Int]
          /\ One(Begin(r), node) = IF r.type # "REFRESH" /\ node \in PathOf(r.vec) THEN 1 ELSE 0
      BY BegunBooks
    <3>4. b.vec = r.vec /\ r.type # "REFRESH"
      <4>1. r \in RequestType
        BY DEF Requests
      <4>2. Begin(r).vec = r.vec /\ (r.type = "REFRESH" => Begin(r).type = "REFRESH")
        BY <4>1 DEF Begin, RequestType
      <4> QED BY <1>8, <3>2, <4>2
    <3> QED BY <1>3, <3>2, <3>3, <3>4 DEF Figures
  <2>3. PICK counts \in [Tree -> Int] : counts = ServingBegun(q[i])
    BY <2>2
  <2>4. PICK v, minus : v = b.vec /\ minus = -1 /\ minus \in Int
    OBVIOUS
  <2>5. Counted(counts, v, minus)[node] = IF node \in PathOf(v) THEN counts[node] + minus ELSE counts[node]
    BY <2>4, CountedIs
  <2>6. serving'[node] = IF node \in PathOf(v) THEN served + minus ELSE served
    <3>1. serving' = Counted(counts, v, minus)
      BY <2>1, <2>3, <2>4
    <3> QED BY <1>5, <2>3, <2>5, <3>1, Zenon
  <2>7. serving'[node] = u + (left + none - a) + (c - c)
    BY <1>4, <2>2, <2>4, <2>6
  <2>8. c = Begun(pending', node)
    BY <1>3, <2>1 DEF Figures
  <2>9. Sums(q, RemoveAt(q, i), <<>>, node, a, left, c, c, none, u)
    BY <1>3, <1>5, <1>6, <2>7, <2>8, Zenon DEF Sums, Figures
  <2> QED BY <2>9, BalanceOf
<1>9. CASE b.type = "REFRESH"
  <2>1. serving' = ServingBegun(q[i]) /\ pending' = PendingLeft
    BY <1>9
  <2>2. one = 0
    BY <1>3, <1>9, NotCounted DEF Figures
  <2>3. served = u + (left + none - a) + (c - c)
    BY <1>4, <2>2
  <2>4. c = Begun(pending', node) /\ serving'[node] = u + (left + none - a) + (c - c)
    BY <1>3, <1>5, <2>1, <2>3, Zenon DEF Figures
  <2>5. Sums(q, RemoveAt(q, i), <<>>, node, a, left, c, c, none, u)
    BY <1>3, <1>5, <1>6, <2>4, Zenon DEF Sums, Figures
  <2> QED BY <2>5, BalanceOf
<1> QED BY <1>2, <1>7, <1>8, <1>9

\* A cycle's choice keeps the counts right.
LEMMA ServeBooks ==
  ASSUME WellTyped, CountInv, NEW source \in {"act", "other", "write", "read"},
         NEW other \in Seq(RefreshRequests), NEW q \in Seq(ArrivedBy(clk)), q = Tried(source, other),
         source = "other" => q \in Seq(RefreshRequests), Serve(source, other, q)
  PROVE  BooksNow
<1>1. /\ Known /\ clk \in Nat
      /\ readq \in Seq(Requests) /\ writeq \in Seq(Requests) /\ actq \in Seq(Requests)
  BY DEF WellTyped
<1>2. ArrivedBy(clk) \subseteq Requests /\ UnderWay \subseteq Requests
  BY DEF ArrivedBy, UnderWay
<1>3. PendingLeft \in Seq(UnderWay) /\ ServingNow \in [Tree -> Int]
  <2>1. /\ pending \in Seq(UnderWay) /\ serving \in [Tree -> Int]
        /\ \A node \in Tree : serving[node] = Total(readq, writeq, actq, pending, node)
    BY DEF CountInv
  <2> HIDE DEF UnderWay, Requests, Tree
  <2> QED BY <1>1, <2>1, ServedBooks
<1>4. q \in Seq(Requests) /\ <<>> \in Seq(ArrivedBy(clk))
  <2> HIDE DEF ArrivedBy, Requests
  <2> QED BY <1>2, WiderSeq, EmptySeq
<1>5. CASE ~HeadReady(q)
  <2>1. Idle(source, other, q)
    BY <1>5 DEF Serve
  <2>2. LeaveQueues(source, other, q, <<>>) /\ pending' = PendingLeft /\ serving' = ServingNow
    BY <2>1 DEF Idle
  <2> HIDE DEF ArrivedBy, UnderWay, Requests, RefreshRequests, Tree
  <2>3. \A node \in Tree : Balanced(q, q, <<>>, node)
    BY <1>3, <1>4, <2>1, IdleBalanced
  <2>4. pending' \in Seq(UnderWay) /\ serving' \in [Tree -> Int]
    BY <1>3, <2>2
  <2> QED BY <1>4, <2>2, <2>3, <2>4, BalancedBooks
<1>6. CASE HeadReady(q)
  <2>1. PICK i : i = HeadOf(q)
    OBVIOUS
  <2>2. i \in DOMAIN q
    <3>1. q # <<>>
      BY <1>6 DEF HeadReady
    <3> QED BY <1>4, <2>1, <3>1, HeadInQueue
  <2>3. q[i] \in ArrivedBy(clk)
    <3> HIDE DEF ArrivedBy
    <3> QED BY <2>2, LenProperties, ElementOfSeq
  <2>4. PICK r \in ArrivedBy(clk) : r = q[i]
    BY <2>3
  <2>5. PICK x : x = [Begin(r) EXCEPT !.depart = Now + standard.read_latency]
    OBVIOUS
  <2>6. /\ Begin(r) \in ArrivedBy(clk)
        /\ Begin(r).type \in {"READ", "EXTENSION"} =>
              x \in UnderWay /\ \A node : One(x, node) = One(Begin(r), node)
    BY <1>1, <2>5, BegunCame
  <2>7. PICK b \in ArrivedBy(clk) : b = Begin(q[i])
    BY <2>4, <2>6
  <2>8. PICK cmd : \/ IssueRowCommand(source, other, q, i, b, cmd)
                   \/ IssueLastCommand(source, other, q, i, b, cmd)
    BY <1>6, <2>1, <2>7 DEF Serve
  <2>9. b \in Requests /\ (source = "other" => b \in RefreshRequests)
    <3>1. source = "other" => q[i] \in RefreshRequests
      BY <2>2, LenProperties, ElementOfSeq
    <3>2. q[i] \in Requests
      BY <1>2, <2>3
    <3> QED BY <1>1, <2>7, <3>1, <3>2, BeginFits DEF RefreshRequests
  <2>10. /\ RemoveAt(q, i) \in Seq(ArrivedBy(clk))
         /\ source = "other" => RemoveAt(q, i) \in Seq(RefreshRequests)
    <3> HIDE DEF ArrivedBy, RefreshRequests
    <3> QED BY <2>2, RemoveKeeps
  <2>11. /\ [q EXCEPT ![i] = b] \in Seq(ArrivedBy(clk)) /\ <<b>> \in Seq(ArrivedBy(clk))
         /\ source = "other" => [q EXCEPT ![i] = b] \in Seq(RefreshRequests)
    <3> HIDE DEF ArrivedBy, RefreshRequests
    <3> QED BY <2>2, <2>9, LenProperties, ExceptSeq
  <2>12. ServingBegun(q[i]) \in [Tree -> Int]
    <3>1. r \in Requests
      BY <1>2
    <3>2. ServingBegun(r) \in [Tree -> Int]
      BY <1>3, <3>1, BegunBooks
    <3> QED BY <2>4, <3>2
  <2>13. CASE IssueRowCommand(source, other, q, i, b, cmd)
    <3>1. serving' = ServingBegun(q[i]) /\ pending' = PendingLeft
      BY <2>13 DEF IssueRowCommand
    <3>2. \/ LeaveQueues(source, other, RemoveAt(q, i), <<b>>)
          \/ LeaveQueues(source, other, [q EXCEPT ![i] = b], <<>>)
      BY <2>13 DEF IssueRowCommand
    <3> HIDE DEF ArrivedBy, UnderWay, Requests, RefreshRequests, Tree
    <3>3. \A node \in Tree : /\ Balanced(q, RemoveAt(q, i), <<b>>, node)
                             /\ Balanced(q, [q EXCEPT ![i] = b], <<>>, node)
      BY <1>3, <1>4, <2>2, <2>7, <2>9, <3>1, RowBalanced
    <3>4. pending' \in Seq(UnderWay) /\ serving' \in [Tree -> Int]
      BY <1>3, <2>12, <3>1
    <3>5. PICK left \in Seq(ArrivedBy(clk)), opened \in Seq(ArrivedBy(clk)) :
            /\ LeaveQueues(source, other, left, opened)
            /\ source = "other" => left \in Seq(RefreshRequests)
            /\ \A node \in Tree : Balanced(q, left, opened, node)
      BY <1>4, <2>10, <2>11, <3>2, <3>3
    <3> QED BY <3>4, <3>5, BalancedBooks
  <2>14. CASE IssueLastCommand(source, other, q, i, b, cmd)
    <3>1. /\ serving' = IF b.type = "WRITE" THEN Counted(ServingBegun(q[i]), b.vec, -1)
                        ELSE ServingBegun(q[i])
          /\ pending' = IF b.type \in {"READ", "EXTENSION"} THEN Append(PendingLeft, x) ELSE PendingLeft
          /\ LeaveQueues(source, other, RemoveAt(q, i), <<>>)
      BY <2>4, <2>5, <2>7, <2>14 DEF IssueLastCommand
    <3>2. b.type \in {"READ", "EXTENSION"} => x \in UnderWay /\ \A node : One(x, node) = One(b, node)
      BY <2>4, <2>6, <2>7
    <3> HIDE DEF ArrivedBy, UnderWay, Requests, RefreshRequests, Tree
    <3>3. \A node \in Tree : Balanced(q, RemoveAt(q, i), <<>>, node)
      BY <1>3, <1>4, <2>2, <2>7, <2>9, <3>1, <3>2, LastBalanced
    <3>4. pending' \in Seq(UnderWay)
      BY <1>3, <3>1, <3>2, AppendProperties
    <3>5. serving' \in [Tree -> Int]
      <4>1. PICK counts \in [Tree -> Int], minus \in Int :
              counts = ServingBegun(q[i]) /\ minus = -1
        BY <2>12
      <4>2. Counted(counts, b.vec, minus) \in [Tree -> Int]
        BY <4>1, CountedIs
      <4> QED BY <3>1, <4>1, <4>2
    <3>6. PICK left \in Seq(ArrivedBy(clk)) :
            /\ left = RemoveAt(q, i)
            /\ source = "other" => left \in Seq(RefreshRequests)
      BY <2>10
    <3> QED BY <1>4, <3>1, <3>3, <3>4, <3>5, <3>6, BalancedBooks
  <2> QED BY <2>8, <2>13, <2>14
<1> QED BY <1>5, <1>6

\* A cycle.
LEMMA TickBooks ==
  ASSUME IInv, CountInv, Tick
  PROVE  CountInv'
<1>1. WellTyped
  BY DEF IInv
<1>2. /\ clk' = Now /\ standard' = standard /\ loads' = loads /\ stores' = stores
      /\ clk \in Nat /\ clk' \in Nat /\ clk <= clk'
  BY <1>1 DEF Tick, Now, WellTyped
<1>3. PICK p \in PlansNow : \E source \in {Source(p.other)} :
         Serve(source, p.other, Tried(source, p.other))
  BY DEF Tick
<1>4. PICK source : source = Source(p.other) /\ Serve(source, p.other, Tried(source, p.other))
  BY <1>3
<1>5. source \in {"act", "other", "write", "read"}
  BY <1>4 DEF Source
<1>6. PICK other \in Seq(RefreshRequests) : other = p.other
  BY <1>1, <1>3, PlansFit DEF WellTyped, PlanSet
<1>7. RefreshRequests \subseteq ArrivedBy(clk) /\ ArrivedBy(clk) \subseteq ArrivedBy(clk')
  <2>1. RefreshRequests \subseteq ArrivedBy(clk)
    BY DEF RefreshRequests, ArrivedBy
  <2> HIDE DEF ArrivedBy
  <2> QED BY <1>2, <2>1, ArrivedLater
<1>8. /\ readq \in Seq(ArrivedBy(clk)) /\ writeq \in Seq(ArrivedBy(clk)) /\ actq \in Seq(ArrivedBy(clk))
      /\ loads' \in Seq(FreshRequests) /\ stores' \in Seq(FreshRequests)
  BY <1>2 DEF CountInv
<1> HIDE DEF ArrivedBy, UnderWay, Requests, RefreshRequests, FreshRequests, Tree
<1>9. PICK q \in Seq(ArrivedBy(clk)) : /\ q = Tried(source, other)
                                       /\ source = "other" => q \in Seq(RefreshRequests)
  <2>1. other \in Seq(ArrivedBy(clk))
    BY <1>7, WiderSeq
  <2> QED BY <1>5, <1>8, <2>1 DEF Tried
<1>10. BooksNow
  <2>1. Serve(source, other, q)
    BY <1>4, <1>6, <1>9
  <2> QED BY <1>1, <1>5, <1>9, <2>1, ServeBooks
<1>11. readq' \in Seq(ArrivedBy(clk')) /\ writeq' \in Seq(ArrivedBy(clk')) /\ actq' \in Seq(ArrivedBy(clk'))
  BY <1>7, <1>10, WiderSeq DEF BooksNow
<1>12. /\ pending' \in Seq(UnderWay) /\ serving' \in [Tree -> Int]
       /\ \A node \in Tree : serving'[node] = Begun(readq', node) + Begun(writeq', node)
                                              + Begun(actq', node) + Begun(pending', node)
  BY <1>10 DEF BooksNow
<1> QED BY <1>2, <1>8, <1>11, <1>12, StillCounted

\* Nothing is served at first.
LEMMA InitBooks ==
  ASSUME Init
  PROVE  CountInv
<1>1. /\ readq = <<>> /\ writeq = <<>> /\ actq = <<>> /\ pending = <<>>
      /\ loads = <<>> /\ stores = <<>>
  BY DEF Init
<1>2. Nodes = Tree /\ serving = [node \in Tree |-> 0]
  BY DEF Init, DeviceInit, Leaves, Nodes, Tree, D
<1> HIDE DEF ArrivedBy, UnderWay, FreshRequests, Tree
<1>3. /\ <<>> \in Seq(ArrivedBy(clk)) /\ <<>> \in Seq(UnderWay) /\ <<>> \in Seq(FreshRequests)
  BY EmptySeq
<1>4. \A node : Total(<<>>, <<>>, <<>>, <<>>, node) = 0
  BY NothingCounted DEF Total
<1>5. serving \in [Tree -> Int] /\ \A node \in Tree : serving[node] = 0
  BY <1>2
<1> QED BY <1>1, <1>3, <1>4, <1>5 DEF CountInv

\* The counts are right in every state.
THEOREM CountsInductive == Spec => []CountInv
<1>1. Init => CountInv
  BY InitBooks
<1>2. IInv /\ CountInv /\ [Next]_vars => CountInv'
  <2> SUFFICES ASSUME IInv, CountInv, [Next]_vars PROVE CountInv'
    OBVIOUS
  <2>1. CASE Insert
    BY <2>1, InsertBooks
  <2>2. CASE Tick
    BY <2>2, TickBooks
  <2>3. CASE UNCHANGED vars
    <3>1. UNCHANGED <<clk, standard, serving, readq, writeq, actq, pending, loads, stores>>
      BY <2>3 DEF vars, deviceVars, ctrlVars, hostVars
    <3>2. /\ clk \in Nat
          /\ loads \in Seq(FreshRequests) /\ stores \in Seq(FreshRequests)
          /\ readq \in Seq(ArrivedBy(clk)) /\ writeq \in Seq(ArrivedBy(clk)) /\ actq \in Seq(ArrivedBy(clk))
          /\ pending \in Seq(UnderWay) /\ serving \in [Tree -> Int]
          /\ \A node \in Tree : serving[node] = Begun(readq, node) + Begun(writeq, node)
                                                + Begun(actq, node) + Begun(pending, node)
      BY DEF CountInv, IInv, WellTyped, Total
    <3> HIDE DEF ArrivedBy, UnderWay, FreshRequests, Tree
    <3> QED BY <3>1, <3>2, StillCounted
  <2> QED BY <2>1, <2>2, <2>3 DEF Next, Finished
<1> QED BY <1>1, <1>2, Inductive, PTL DEF Spec

\* BooksAgree: in every state the scheduler's row table, the banks of SALP-1 and
\* the selection of MASA are those of the device, and every node counts the
\* requests below it that have begun and are not finished (RowTable::update,
\* DRAM::update and update_serving_requests).
THEOREM BooksAlwaysAgree == Spec => []BooksAgree
<1>1. IInv /\ RowsInv /\ CountInv => BooksAgree
  <2> SUFFICES ASSUME IInv, RowsInv, CountInv PROVE BooksAgree
    OBVIOUS
  <2>1. /\ DOMAIN rowtable \subseteq Leaves
        /\ \A b \in Leaves : row_state[b] = IF b \in DOMAIN rowtable THEN {rowtable[b].row} ELSE {}
    BY DEF RowsInv, TableKnown
  <2>2. \A b \in Leaves : b \in DOMAIN rowtable <=> row_state[b] # {}
    BY <2>1
  <2>3. standard.name = "SALP1" => bankOpen = {BankOf(b) : b \in DOMAIN rowtable}
    <3> SUFFICES ASSUME standard.name = "SALP1", NEW k
                 PROVE  k \in bankOpen <=> \E b \in DOMAIN rowtable : k = BankOf(b)
      OBVIOUS
    <3>1. k \in bankOpen <=> \E b \in Leaves : k = BankOf(b) /\ row_state[b] # {}
      BY DEF RowsInv, BanksKnown
    <3> QED BY <2>1, <2>2, <3>1
  <2>4. selected \subseteq DOMAIN rowtable
    BY <2>2 DEF RowsInv, SelectedKnown
  <2>5. \A node \in DOMAIN serving :
          serving[node] = Begun(readq, node) + Begun(writeq, node)
                          + Begun(actq, node) + Begun(pending, node)
    BY DEF CountInv, Total
  <2> QED BY <2>1, <2>3, <2>4, <2>5 DEF BooksAgree
<1> QED BY <1>1, RowsInductive, CountsInductive, Inductive, PTL

=============================================================================
