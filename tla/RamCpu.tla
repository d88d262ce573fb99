------------------------------- MODULE RamCpu -------------------------------
(***************************************************************************)
(* Ramulator run by a CPU trace (src/ramulator/src/Processor.cpp and       *)
(* run_cputrace of Main.cpp): every core takes bubbles and memory accesses *)
(* from its trace into an instruction window, sends the accesses to the    *)
(* caches of RamCaches or straight to the memory, and retires in order.    *)
(*                                                                         *)
(* Processor::tick is one pass of turn: the caches' lists first, then the  *)
(* cores in order.  Between two ticks the memory answers what it likes.    *)
(***************************************************************************)
EXTENDS RamCaches
LOCAL INSTANCE SequencesExt

CONSTANTS
    Machines,       \* [levels, sets, ways, mshrs, traces, limit, random, early]
    Depth,          \* places of the window: 128, scaled down
    Ipc,            \* instructions inserted and retired in a cycle: 4
    WaitBound       \* a bound of the model: the caches wait for a memory in write
                    \* mode once their list is that long

ASSUME RamCpuAssumption ==
    /\ Depth \in Nat \ {0} /\ Ipc \in Nat \ {0} /\ WaitBound \in Nat
    /\ \A m \in Machines : m.levels \in {{}, {3}, {1, 2}, {1, 2, 3}}

VARIABLES
    turn,           \* -CoreCount .. -1: cores to build; 0: the caches; then the cores
    window,         \* core -> [ready, addr] of its instructions, oldest first
    bubbles,        \* core -> bubble_cnt
    req,            \* core -> [addr, write] to be sent next
    more,           \* core -> more_reqs
    insts,          \* core -> cpu_inst, counted up to the limit
    pos,            \* core -> lines read of its trace
    pendingWrite,   \* write_addr while has_write, shared by all traces
    pages           \* <<core, virtual page>> -> physical page

coreVars == <<window, bubbles, req, more, insts, pos>>
vars == <<machine, sys, turn, coreVars, pendingWrite, pages>>

NoLine == -1
CoreCaches == 1 \in machine.levels
Trace(c) == machine.traces[c]

-----------------------------------------------------------------------------
(* The traces and the pages.                                               *)

\* get_unfiltered_request: the trace starts again at its end.
Unfiltered(c) ==
    LET at == IF pos[c] = Len(Trace(c)) THEN 1 ELSE pos[c] + 1
    IN  [Trace(c)[at] EXCEPT !.pos = at, !.more = TRUE, !.evicted = NoLine]

\* get_filtered_request: a write that a line of some trace brought along comes
\* first.  At the end the trace starts again if there is a limit.
Filtered(c) ==
    IF pendingWrite # NoLine
    THEN [pos |-> pos[c], bubbles |-> 0, addr |-> pendingWrite, write |-> TRUE,
          evicted |-> NoLine, more |-> TRUE]
    ELSE IF pos[c] < Len(Trace(c))
    THEN [Trace(c)[pos[c] + 1] EXCEPT !.pos = pos[c] + 1, !.more = TRUE, !.write = FALSE]
    ELSE IF machine.limit > 0
    THEN [Trace(c)[1] EXCEPT !.pos = 1, !.more = TRUE, !.write = FALSE]
    ELSE [pos |-> 0, bubbles |-> bubbles[c], addr |-> req[c].addr, write |-> req[c].write,
          evicted |-> NoLine, more |-> FALSE]

Fetched(c) == IF CoreCaches THEN Unfiltered(c) ELSE Filtered(c)

\* page_allocator, a page being one line: a page seen for the first time gets
\* a free one, found from a random place on, or any one when none is free.
FreePages == Lines \ { pages[k] : k \in DOMAIN pages }
PagesFor(c, a) ==
    IF ~machine.random THEN {a}
    ELSE IF <<c, a>> \in DOMAIN pages THEN {pages[<<c, a>>]}
    ELSE IF FreePages # {} THEN FreePages ELSE Lines

\* The core goes on to the next line of its trace.
Fetch(c) ==
    \E f \in {Fetched(c)} : \E p \in PagesFor(c, f.addr) :
        /\ pos' = [pos EXCEPT ![c] = f.pos]
        /\ req' = [req EXCEPT ![c] = [addr |-> p, write |-> f.write]]
        /\ more' = [more EXCEPT ![c] = f.more]
        /\ pendingWrite' = f.evicted
        /\ pages' = IF machine.random
                    THEN [k \in DOMAIN pages \cup {<<c, f.addr>>} |->
                              IF k = <<c, f.addr>> THEN p ELSE pages[k]]
                    ELSE pages

NextTurn == turn' = IF turn = CoreCount THEN 0 ELSE turn + 1

-----------------------------------------------------------------------------
(* The window.                                                             *)

Bubble == [ready |-> TRUE, addr |-> NoLine]
Load(a) == [ready |-> FALSE, addr |-> a]

\* Window::retire: from the front, as long as they are ready.
Retired(w) ==
    LET done == { n \in 0 .. Ipc : n <= Len(w) /\ \A i \in 1 .. n : w[i].ready }
    IN  SubSeq(w, LargestOf(done) + 1, Len(w))

\* Mutant: only the oldest entry on the line becomes ready.
ReadyOldest(w, As) ==
    [i \in DOMAIN w |-> [w[i] EXCEPT !.ready =
        @ \/ (w[i].addr \in As /\ \A j \in 1 .. i - 1 : w[j].addr # w[i].addr)]]

\* Window::set_ready: every entry on the line, whenever it was sent.
Ready(w, As) == [i \in DOMAIN w |-> [w[i] EXCEPT !.ready = @ \/ w[i].addr \in As]]

\* Processor::receive.
Receive(s, As) ==
    /\ sys' = Callback(s, As)
    /\ window' = [c \in Cores |-> Ready(window[c], As)]

-----------------------------------------------------------------------------
(* The cores.                                                              *)

Init ==
    /\ machine \in Machines
    /\ sys = [lines |-> [x \in Caches |-> <<>>], mshr |-> [x \in Caches |-> {}],
              retry |-> [x \in Caches |-> <<>>], wait |-> <<>>, hits |-> <<>>,
              reads |-> <<>>, writes |-> <<>>, pending |-> <<>>, writeMode |-> FALSE,
              broken |-> FALSE]
    /\ turn = -CoreCount
    /\ window = [c \in Cores |-> <<>>]
    /\ bubbles = [c \in Cores |-> 0]
    /\ req = [c \in Cores |-> [addr |-> NoLine, write |-> FALSE]]
    /\ more = [c \in Cores |-> TRUE]
    /\ insts = [c \in Cores |-> 0]
    /\ pos = [c \in Cores |-> 0]
    /\ pendingWrite = NoLine
    /\ pages = <<>>

\* Core::Core takes the first line of its trace.
NewCore(c) ==
    /\ turn < 0 /\ c = turn + CoreCount + 1
    /\ Fetch(c)
    /\ bubbles' = [bubbles EXCEPT ![c] = Fetched(c).bubbles]
    /\ NextTurn
    /\ UNCHANGED <<machine, sys, window, insts>>

\* Core::finished.
Finished(c) == ~more[c] /\ window[c] = <<>>

\* The ways out of run_cputrace's loop: every core has reached the limit; with
\* early_exit the first is finished; else all are, and the memory has no
\* pending_requests.
Over ==
    IF machine.limit > 0 THEN \A c \in Cores : insts[c] = machine.limit
    ELSE IF machine.early THEN \E c \in Cores : Finished(c)
    ELSE (\A c \in Cores : Finished(c)) /\ sys.reads \o sys.pending \o sys.writes = <<>>

Running == ~Over /\ ~sys.broken

\* Controller::tick, the choice of a queue: write mode begins above the high
\* watermark only, not when no read waits, and ends below the low one if a read
\* does.
Moded(s) ==
    [s EXCEPT !.writeMode = IF @ THEN Len(s.writes) >= LowMark \/ s.reads = <<>>
                            ELSE Len(s.writes) > HighMark]
WritesDue == sys.writes # <<>> /\ Moded(sys).writeMode
ReadsDue == sys.reads # <<>> /\ ~Moded(sys).writeMode

\* CacheSystem::tick, which only runs when there are caches.
SystemTick ==
    /\ turn = 0 /\ Running
    /\ WritesDue => Len(sys.wait) < WaitBound
    /\ IF machine.levels = {} THEN UNCHANGED <<sys, window>>
       ELSE /\ sys' = SystemTicked(sys)
            /\ window' = [c \in Cores |-> Ready(window[c], HitsDue(sys))]
    /\ NextTurn
    /\ UNCHANGED <<machine, bubbles, req, more, insts, pos, pendingWrite, pages>>

Counted(c, n) ==
    [insts EXCEPT ![c] = IF @ + n < machine.limit THEN @ + n ELSE machine.limit]

\* The bubbles that go into a window this cycle.
Inserted(c, w) == LET n == Depth - Len(w)
                  IN  CHOOSE k \in {bubbles[c], Ipc, n} : k <= bubbles[c] /\ k <= Ipc /\ k <= n

\* A core whose trace is over only retires.
CoreDrains(c) ==
    /\ turn = c /\ ~sys.broken /\ machine.limit = 0 /\ ~more[c]
    /\ sys' = FirstLevelTicked(sys, c)
    /\ window' = [window EXCEPT ![c] = Retired(@)]
    /\ NextTurn
    /\ UNCHANGED <<machine, bubbles, req, more, insts, pos, pendingWrite, pages>>

\* The rest of Core::tick: as many bubbles as fit, then one access if there
\* is room for a load; a write takes no room and is not kept back by Ipc.
CoreTick(c) ==
    /\ turn = c /\ ~sys.broken /\ ~(machine.limit = 0 /\ ~more[c])
    /\ \E s \in {FirstLevelTicked(sys, c)}, w \in {Retired(window[c])} :
       \E k \in {Inserted(c, w)} :
       \E filled \in {w \o [i \in 1 .. k |-> Bubble]} :
           \/ /\ k < bubbles[c] \/ (~req[c].write /\ (k = Ipc \/ Len(filled) = Depth))
              /\ sys' = s
              /\ window' = [window EXCEPT ![c] = filled]
              /\ bubbles' = [bubbles EXCEPT ![c] = @ - k]
              /\ insts' = Counted(c, k)
              /\ UNCHANGED <<req, more, pos, pendingWrite, pages>>
           \/ /\ k = bubbles[c] /\ (req[c].write \/ (k < Ipc /\ Len(filled) < Depth))
              /\ \E sent \in {IF machine.levels = {} THEN SendMemory(s, req[c].addr, req[c].write)
                              ELSE Send(s, FirstOf(c), req[c].addr, req[c].write)} :
                    /\ sys' = sent.sys
                    /\ IF sent.ok
                       THEN /\ window' = [window EXCEPT ![c] =
                                    IF req[c].write THEN filled ELSE Append(filled, Load(req[c].addr))]
                            /\ insts' = Counted(c, k + 1)
                            /\ Fetch(c)
                            /\ bubbles' = [bubbles EXCEPT ![c] = Fetched(c).bubbles]
                       ELSE /\ window' = [window EXCEPT ![c] = filled]
                            /\ bubbles' = [bubbles EXCEPT ![c] = 0]
                            /\ insts' = Counted(c, k)
                            /\ UNCHANGED <<req, more, pos, pendingWrite, pages>>
    /\ NextTurn
    /\ UNCHANGED machine

\* A cycle of the memory either calls a read back, in whatever mode, or takes a
\* request from the queue of the mode: a read or write leaves its queue when its
\* row is activated, and then needs no mode to be finished.
MemoryAnswers(i) ==
    /\ turn = 0 /\ Running /\ i \in DOMAIN sys.pending
    /\ Receive(Moded([sys EXCEPT !.pending = RemoveAt(@, i)]), {sys.pending[i]})
    /\ UNCHANGED <<machine, turn, bubbles, req, more, insts, pos, pendingWrite, pages>>
MemoryTakes(queue, i) ==
    /\ turn = 0 /\ Running
    /\ \E s \in {Moded(sys)} :
        IF i = 0 THEN sys' = s
        ELSE /\ queue = IF s.writeMode THEN "writes" ELSE "reads"
             /\ i \in DOMAIN s[queue]
             /\ sys' = [s EXCEPT ![queue] = RemoveAt(@, i),
                                !.pending = IF s.writeMode THEN @ ELSE Append(@, s.reads[i])]
    /\ UNCHANGED <<machine, turn, coreVars, pendingWrite, pages>>

Next ==
    \/ SystemTick
    \/ \E c \in Cores : NewCore(c) \/ CoreDrains(c) \/ CoreTick(c)
    \/ \E i \in DOMAIN sys.pending : MemoryAnswers(i)
    \/ \E i \in 0 .. ReadRoom : MemoryTakes("reads", i)
    \/ \E i \in 1 .. WriteRoom : MemoryTakes("writes", i)

(***************************************************************************)
(* run_cputrace ticks the processor and the memory in turns until the run  *)
(* is over.  The memory gets to its oldest write if it stays in write mode *)
(* and to its oldest read if it comes back to the reads again and again,   *)
(* and it finishes what it has begun.  Nothing makes it turn to writes that *)
(* do not go above the high watermark.                                     *)
(***************************************************************************)
Fairness ==
    \/ <>[]~Running
    \/ /\ []<><<turn' # turn>>_turn
       /\ <>[]~ReadsDue \/ []<><<MemoryTakes("reads", 1)>>_vars
       /\ []<>~WritesDue \/ []<><<MemoryTakes("writes", 1)>>_vars
       /\ []<>(sys.pending = <<>>) \/ []<><<MemoryAnswers(1)>>_vars

Spec == Init /\ [][Next]_vars /\ Fairness
=============================================================================
