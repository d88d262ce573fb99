------------------------------ MODULE MCRamCpu ------------------------------
(***************************************************************************)
(* RamCpu on small machines with two cores, and what is checked of it.     *)
(* Ways, sets and MSHRs keep the proportions of the source: the L3 has as  *)
(* many MSHRs as the cores' L2s together (mshr_per_bank * cores).          *)
(***************************************************************************)
EXTENDS RamCpu
LOCAL INSTANCE SequencesExt

\* One line of a trace: bubbles, a read or write, a write-back brought along.
Access(b, a, w, e) ==
    [bubbles |-> b, addr |-> a, write |-> w, evicted |-> e, pos |-> 0, more |-> TRUE]
R(a) == Access(0, a, FALSE, NoLine)
W(a) == Access(0, a, TRUE, NoLine)

Machine(levels, ways, mshrs, traces, limit, random) ==
    [levels |-> levels, sets |-> <<1, 1, 2>>, ways |-> ways, mshrs |-> mshrs,
     traces |-> traces, limit |-> limit, random |-> random, early |-> FALSE]

Mixed == << <<R(0), W(1), R(2), R(0)>>, <<R(1), Access(1, 3, TRUE, NoLine), R(0)>> >>
Files == << <<Access(1, 0, FALSE, 2), R(1)>>, <<R(3), Access(2, 1, FALSE, 0)>> >>

\* The four values of "cache": no, L3, L1L2 and all.
MCMachines ==
    { [Machine({}, <<1, 1, 1>>, <<1, 1, 1>>, Files, 0, FALSE) EXCEPT !.early = e] : e \in BOOLEAN } \cup
    { Machine({3}, <<1, 1, w>>, <<1, 1, 2>>, Files, 0, FALSE) : w \in 1 .. 2 } \cup
    { Machine({3}, <<1, 1, 1>>, <<1, 1, 2>>, Files, 5, FALSE),
      Machine({3}, <<1, 1, 1>>, <<1, 1, 2>>, Files, 3, TRUE),
      Machine({1, 2}, <<1, 2, 2>>, <<1, 2, 2>>, Mixed, 3, TRUE) } \cup
    { Machine({1, 2, 3}, <<1, w, w>>, <<m, m, 2 * m>>, <<x, y>>, 6, FALSE) :
        w \in 1 .. 2, m \in 1 .. 2, x \in [1 .. 3 -> {R(0), W(1), R(2)}],
        y \in {<<R(0), R(1), W(3)>>, <<W(0), R(1), R(3), R(3)>>} }

\* The first core keeps hitting a line of its L1 that the second drives out of
\* the L3 in the meantime.
MCSharing ==
    { Machine({1, 2, 3}, <<1, 1, 1>>, <<2, 2, 4>>,
              << <<R(1), W(1), W(1), R(1), W(1), W(1), R(1), R(0)>>, <<R(0), R(1), W(3)>> >>,
              10, FALSE) }

MCLatencies == <<1, 1, 1>>

-----------------------------------------------------------------------------
(***************************************************************************)
(* No miss is lost (Cache::send, tick, callback): while a line is in the   *)
(* MSHRs of a cache, the request waits in its retry_list, or the level     *)
(* below misses it too, or it is on the way to or at the memory, or a hit  *)
(* on the line will be called back.  It holds for requests that a level    *)
(* refused and for those that another miss joined.                         *)
(***************************************************************************)
Waiting(a) == \E i \in DOMAIN sys.wait : sys.wait[i].addr = a /\ ~sys.wait[i].write
BeingRead(a) == Contains(sys.reads \o sys.pending, a)
Hit(a) == \E i \in DOMAIN sys.hits : sys.hits[i].addr = a

MissesUnderWay ==
    \A x \in Caches : \A a \in sys.mshr[x] :
        \/ Hit(a) \/ Waiting(a) \/ BeingRead(a)
        \/ /\ ~IsLast(x)
           /\ \/ \E j \in DOMAIN sys.retry[x] : sys.retry[x][j] = a
              \/ a \in sys.mshr[Lower(x)]

(***************************************************************************)
(* A load that blocks the window (Window::retire, set_ready) has a miss in *)
(* the core's first cache, a hit to be called back, or is at the memory:   *)
(* readiness is set by line, for whatever request comes back, and a load   *)
(* that joins a miss has no request of its own.                            *)
(***************************************************************************)
LoadsUnderWay ==
    \A c \in Cores : \A i \in DOMAIN window[c] :
        ~window[c][i].ready =>
            LET a == window[c][i].addr
            IN  \/ Hit(a) \/ BeingRead(a)
                \/ machine.levels # {} /\ a \in sys.mshr[FirstOf(c)]

(***************************************************************************)
(* Stored data is not lost (Cache::evict, invalidate, evictline): when the *)
(* last dirty copy of a line leaves the caches, a write of it is put on    *)
(* the list for the memory, whatever level or core it was driven out from. *)
(***************************************************************************)
Dirty(s, a) == \E x \in Caches : \E i \in DOMAIN s.lines[x] :
                   s.lines[x][i].addr = a /\ s.lines[x][i].dirty
WritesBack(s, a) == Len(SelectSeq(s.wait, LAMBDA r : r.addr = a /\ r.write))
DirtyWrittenBack ==
    [][\A a \in Lines : Dirty(sys, a) /\ ~Dirty(sys', a)
            => WritesBack(sys', a) > WritesBack(sys, a)]_vars

(***************************************************************************)
(* The run ends: every core reaches the limit or the end of its trace with *)
(* everything retired (run_cputrace), though caches and memory refuse      *)
(* requests, the memory leaves reads for writes, and the cores compete for *)
(* the lines of the L3.  It does not end when it waits for the memory and  *)
(* the last writes are no more than the high watermark: run_cputrace does  *)
(* not lower it as run_dramtrace does.  That is the only way not to end.   *)
(***************************************************************************)
WritesLeft ==
    /\ machine.limit = 0 /\ ~machine.early
    /\ \A c \in Cores : Finished(c)
    /\ sys.reads \o sys.pending = <<>> /\ ~sys.writeMode /\ Len(sys.writes) \in 1 .. HighMark
RunEnds == <>(Over \/ []WritesLeft)

(***************************************************************************)
(* The caches are inclusive, as evictline asserts ("check inclusive        *)
(* cache", Cache.cpp:202): the line a cache evicts is in the one below.    *)
(* The code breaks it: the callback of a hit ends every miss on the line,  *)
(* also one whose request a lower cache has refused and not yet seen.      *)
(***************************************************************************)
InclusionAsserted == ~sys.broken
=============================================================================
