----------------------------- MODULE RamCaches -----------------------------
(***************************************************************************)
(* The caches of Ramulator's trace-driven processor (src/ramulator/src/    *)
(* Cache.cpp, Cache.h): an L1 and an L2 per core, an L3 shared by all of   *)
(* them, each optional as the configuration says, and the lists of the     *)
(* CacheSystem through which they talk to the memory and to the cores.     *)
(*                                                                         *)
(* A call runs through several caches before it returns, so the calls are  *)
(* operators from one record of the whole system to the next.  An address  *)
(* is the number of its line; times count down to the cycle that acts.     *)
(***************************************************************************)
EXTENDS Integers, Sequences, FiniteSets
LOCAL INSTANCE SequencesExt

CONSTANTS
    CoreCount,      \* number of traces, one core each
    LineCount,      \* physical lines
    LatencyEach,    \* level -> its own latency: 4, 12, 31, scaled down
    ReadRoom,       \* readq.max and writeq.max: 32, scaled down
    WriteRoom,
    HighMark,       \* writes above which the memory turns to them, and below
    LowMark         \* which it turns back to the reads: 25 and 6 of the 32

ASSUME RamCachesAssumption ==
    /\ CoreCount \in Nat \ {0} /\ LineCount \in Nat \ {0}
    /\ ReadRoom \in Nat \ {0} /\ WriteRoom \in Nat
    /\ HighMark \in 0 .. WriteRoom - 1 /\ LowMark \in 1 .. HighMark
    /\ LatencyEach \in [1 .. 3 -> Nat]

VARIABLES
    machine,        \* the configuration: levels, sets, ways, mshrs (level -> number), ...
    sys             \* lines: cache -> the lines of all its sets, oldest first
                    \* mshr, retry: cache -> lines missing, lines to be sent again
                    \* wait, hits: CacheSystem's lists
                    \* reads, writes: the memory's queues; pending: reads it is
                    \* answering; writeMode: the queue it takes requests from
                    \* broken: an assertion of the caches has failed

Cores == 1 .. CoreCount
Lines == 0 .. LineCount - 1

\* A cache is <<level, core>>; the L3 belongs to no core.
Shared == 0
Caches == UNION { IF v = 3 THEN {<<3, Shared>>} ELSE {v} \X Cores : v \in machine.levels }
NoCache == <<0, Shared>>

\* concatlower, and send_next where there are no core caches.
FirstOf(c) == IF 1 \in machine.levels THEN <<1, c>>
              ELSE IF 3 \in machine.levels THEN <<3, Shared>> ELSE NoCache
Lower(x) == IF x[1] = 1 THEN <<2, x[2]>> ELSE <<3, Shared>>
Higher(x) == IF x[1] = 3 THEN (machine.levels \cap {2}) \X Cores
             ELSE ({x[1] - 1} \cap {1}) \X {x[2]}
IsLast(x) == \A v \in machine.levels : v <= x[1]

\* latency: what the level and those above it take.
Latency(x) == LET sum[v \in 0 .. 3] == IF v = 0 THEN 0 ELSE LatencyEach[v] + sum[v - 1]
              IN  sum[x[1]]

-----------------------------------------------------------------------------
(* One cache.                                                              *)

Line(a, lock, dirty) == [addr |-> a, lock |-> lock, dirty |-> dirty]

Holds(s, x, a) == \E i \in DOMAIN s.lines[x] : s.lines[x][i].addr = a
Entry(s, x, a) == s.lines[x][CHOOSE i \in DOMAIN s.lines[x] : s.lines[x][i].addr = a]

\* get_lines: the lines of the set an address belongs to, oldest first.
SetOf(s, x, a) ==
    SelectSeq(s.lines[x], LAMBDA e : e.addr % machine.sets[x[1]] = a % machine.sets[x[1]])

Without(lines, a) == SelectSeq(lines, LAMBDA e : e.addr # a)

\* The value itself: what TLC would otherwise evaluate again at every use.
Value(v) == CHOOSE w \in {v} : w = v

\* push_back of a new version of a line and erase of the old one, if any.
Renewed(s, x, e) == [s EXCEPT !.lines[x] = Append(Without(@, e.addr), e)]

\* check_unlock: the line is valid here and in the caches above that have it.
RECURSIVE Unlocked(_, _, _)
Unlocked(s, x, a) ==
    Holds(s, x, a) => /\ ~Entry(s, x, a).lock
                      /\ \A y \in Higher(x) : Unlocked(s, y, a)

-----------------------------------------------------------------------------
(* Eviction.                                                               *)

\* The caches from which invalidate removes a line: it climbs no further than
\* a cache that does not have it.
RECURSIVE Reached(_, _, _)
Reached(s, x, a) ==
    IF Holds(s, x, a) THEN {x} \cup UNION { Reached(s, y, a) : y \in Higher(x) } ELSE {}

\* invalidate returns its time, and whether what it removed was newer than
\* what is below.  The dirty bit is read after the line has been erased: the
\* node is freed and not yet used again, and still has its old value.
ReturnsDirty(s, x, a) == \E y \in Reached(s, x, a) : Entry(s, y, a).dirty

LargestOf(S) == CHOOSE t \in S : \A u \in S : u <= t

RECURSIVE InvalidateTime(_, _, _)
InvalidateTime(s, x, a) ==
    IF SetOf(s, x, a) = <<>> THEN 0
    ELSE IF ~Holds(s, x, a) THEN LatencyEach[x[1]]
    ELSE LargestOf({LatencyEach[x[1]]} \cup
            { LatencyEach[x[1]] + (IF ReturnsDirty(s, y, a) THEN 2 ELSE 1) * InvalidateTime(s, y, a)
                : y \in Higher(x) })

\* Mutant: the line below is renewed with the dirty bit it had.
EvictLineAsIs(s, x, a, dirty) ==
    IF Holds(s, x, a) THEN Renewed(s, x, Line(a, FALSE, Entry(s, x, a).dirty)) ELSE s

\* Cache::evictline at the level below: the line becomes the youngest there,
\* and valid; it is asserted to be there.
EvictLine(s, x, a, dirty) ==
    IF Holds(s, x, a) THEN Renewed(s, x, Line(a, FALSE, dirty \/ Entry(s, x, a).dirty))
    ELSE [s EXCEPT !.broken = TRUE]

\* Cache::evict: the line goes from the caches above and from this one; what
\* is newer than below is passed down, by the last level to the memory.
Evict(s, x, a) ==
    LET above == UNION { Reached(s, y, a) : y \in Higher(x) }
        dirty == Entry(s, x, a).dirty \/ \E y \in above : Entry(s, y, a).dirty
        time == LargestOf({0} \cup
                    { InvalidateTime(s, y, a) + (IF ReturnsDirty(s, y, a) THEN LatencyEach[x[1]] ELSE 0)
                        : y \in Higher(x) })
        gone == Value([s EXCEPT !.lines = [y \in Caches |->
                    IF y \in above \cup {x} THEN Without(s.lines[y], a) ELSE s.lines[y]]])
    IN  IF ~IsLast(x) THEN EvictLine(gone, Lower(x), a, dirty)
        ELSE IF dirty
        THEN [gone EXCEPT !.wait = Append(@, [due |-> Latency(x) + time, addr |-> a, write |-> TRUE])]
        ELSE gone

-----------------------------------------------------------------------------
(* Requests.                                                               *)

\* The oldest line of the set that every cache above has let go of.
Victims(s, x, a) == SelectSeq(SetOf(s, x, a), LAMBDA e : Unlocked(s, x, e.addr))

\* No MSHR is left, or a full set has no victim: all_sets_locked, allocate_line.
Refused(s, x, a) ==
    \/ Cardinality(s.mshr[x]) = machine.mshrs[x[1]]
    \/ Len(SetOf(s, x, a)) >= machine.ways[x[1]] /\ Victims(s, x, a) = <<>>

\* allocate_line: room is made, and the new line is locked until it arrives.
Allocated(s, x, a, dirty) ==
    LET room == IF Len(SetOf(s, x, a)) < machine.ways[x[1]] THEN s
                ELSE Evict(s, x, Head(Victims(s, x, a)).addr)
    IN  Value(Renewed(Value(room), x, Line(a, TRUE, dirty)))

Accepted(s) == [ok |-> TRUE, sys |-> s]
Refusal(s) == [ok |-> FALSE, sys |-> s]

\* Cache::send.  A hit comes back after the latency of the level; a miss asks
\* the level below for the line, as a read, or joins the miss under way.
RECURSIVE Send(_, _, _, _)
Send(s, x, a, write) ==
    IF Holds(s, x, a) /\ ~Entry(s, x, a).lock
    THEN Accepted([Renewed(s, x, Line(a, FALSE, write \/ Entry(s, x, a).dirty))
                    EXCEPT !.hits = Append(@, [due |-> Latency(x), addr |-> a])])
    ELSE IF a \in s.mshr[x]
    THEN LET e == Entry(s, x, a)
         IN  Accepted([s EXCEPT !.lines[x] = [i \in DOMAIN s.lines[x] |->
                IF s.lines[x][i] = e THEN Line(a, TRUE, write \/ e.dirty) ELSE s.lines[x][i]]])
    ELSE IF Refused(s, x, a) THEN Refusal(s)
    ELSE LET missing == Value([Allocated(s, x, a, write) EXCEPT !.mshr[x] = @ \cup {a}])
         IN  IF IsLast(x)
             THEN Accepted([missing EXCEPT !.wait = Append(@, [due |-> Latency(x), addr |-> a,
                                                               write |-> FALSE])])
             ELSE LET below == Value(Send(missing, Lower(x), a, FALSE))
                  IN  Accepted(IF below.ok THEN below.sys
                               ELSE [missing EXCEPT !.retry[x] = Append(@, a)])

\* Mutant: the callback does not climb to the first level.
CallbackBelow(s, As) ==
    Value([s EXCEPT !.mshr = [x \in Caches |-> IF x[1] = 1 THEN s.mshr[x] ELSE s.mshr[x] \ As],
                    !.lines = [x \in Caches |-> [i \in DOMAIN s.lines[x] |->
                        IF x[1] # 1 /\ s.lines[x][i].addr \in As \cap s.mshr[x]
                        THEN [s.lines[x][i] EXCEPT !.lock = FALSE] ELSE s.lines[x][i]]]])

\* Cache::callback from the last level up, for each of the lines: the misses
\* on them are over, in every cache that has one.
Callback(s, As) ==
    Value([s EXCEPT !.mshr = [x \in Caches |-> s.mshr[x] \ As],
                    !.lines = [x \in Caches |-> [i \in DOMAIN s.lines[x] |->
                        IF s.lines[x][i].addr \in As \cap s.mshr[x]
                        THEN [s.lines[x][i] EXCEPT !.lock = FALSE] ELSE s.lines[x][i]]]])

\* Cache::tick, from the i-th request of retry_list on.  erase() returns the
\* next one, which the loop then steps over; past the end of the list stepping
\* on leads to its beginning, as it does in a list that is a ring.
RECURSIVE Retried(_, _, _)
Retried(s, x, i) ==
    IF i > Len(s.retry[x]) THEN s
    ELSE LET below == Value(Send(s, Lower(x), s.retry[x][i], FALSE))
         IN  IF ~below.ok THEN Retried(s, x, i + 1)
             ELSE Retried(Value([below.sys EXCEPT !.retry[x] = RemoveAt(@, i)]), x,
                          IF i = Len(s.retry[x]) THEN 1 ELSE i + 1)

\* first_level_cache->tick(): the cache above the last level first.
FirstLevelTicked(s, c) ==
    IF 1 \notin machine.levels THEN s
    ELSE Retried(IF 3 \in machine.levels THEN Retried(s, <<2, c>>, 1) ELSE s, <<1, c>>, 1)

-----------------------------------------------------------------------------
(* The memory, as far as the processor sees it: Memory::send refuses when  *)
(* the queue of the channel is full, and a read that finds a write of its  *)
(* line there is answered from it.                                         *)

\* Mutant: a request the memory refuses counts as sent.
SendMemoryOnce(s, a, write) ==
    IF write
    THEN Accepted(IF Len(s.writes) < WriteRoom THEN [s EXCEPT !.writes = Append(@, a)] ELSE s)
    ELSE Accepted(IF Len(s.reads) < ReadRoom THEN [s EXCEPT !.reads = Append(@, a)] ELSE s)

SendMemory(s, a, write) ==
    IF write
    THEN IF Len(s.writes) < WriteRoom THEN Accepted([s EXCEPT !.writes = Append(@, a)]) ELSE Refusal(s)
    ELSE IF Len(s.reads) = ReadRoom THEN Refusal(s)
    ELSE Accepted(IF Contains(s.writes, a) THEN [s EXCEPT !.pending = Append(@, a)]
                  ELSE [s EXCEPT !.reads = Append(@, a)])

\* CacheSystem::tick, the waiting requests: from the front, until the first
\* that is not due; one the memory refuses stays.
RECURSIVE SentOn(_, _)
SentOn(s, i) ==
    IF i > Len(s.wait) THEN s
    ELSE IF s.wait[i].due > 0 THEN s
    ELSE LET r == SendMemory(s, s.wait[i].addr, s.wait[i].write)
         IN  IF r.ok THEN SentOn([r.sys EXCEPT !.wait = RemoveAt(@, i)], i)
             ELSE SentOn(s, i + 1)

\* ++clk.
Sooner(list) == [i \in DOMAIN list |-> [list[i] EXCEPT !.due = IF @ = 0 THEN 0 ELSE @ - 1]]

\* The addresses of the hits that are called back, and CacheSystem::tick with
\* what their callbacks do to the caches.
HitsDue(s) == { s.hits[i].addr : i \in { j \in DOMAIN s.hits : s.hits[j].due <= 1 } }
SystemTicked(s) ==
    LET sent == Value(SentOn([s EXCEPT !.wait = Sooner(@)], 1))
    IN  Callback([sent EXCEPT !.hits = SelectSeq(Sooner(@), LAMBDA h : h.due > 0)], HitsDue(s))
=============================================================================
