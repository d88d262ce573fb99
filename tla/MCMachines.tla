----------------------------- MODULE MCMachines -----------------------------
(***************************************************************************)
(* CacheHierarchy for TLC on three machines in the manner of src/models/   *)
(* machine, each in the shape that MachineConfig makes of its model:       *)
(* "shared", where two cores share a second level without a simulator;     *)
(* "vertical", where the second level is a fast memory used as a cache,    *)
(* with a simulator of its own (the V_* models); "private", where there is *)
(* no second level (the H_* models); and "uneven", which the configuration *)
(* refuses.  By itself, "set" is one set of a cache: LruSet, and the       *)
(* policy that the lists of lines of CacheHierarchy follow.                *)
(***************************************************************************)
EXTENDS CacheHierarchy, LruSet, MachineConfig

VARIABLES
  machine,  \* which of these is modelled
  shape     \* the hierarchy that config_machine has made of it

(***************************************************************************)
(* The machine models.                                                     *)
(***************************************************************************)
Part(kind, name, connect, props) ==
  [kind |-> kind, name |-> name, connect |-> connect, props |-> props]

Core == Part("core", "Core_S", <<"L1_S">>,
             <<<<"frequency", 2000000000>>, <<"ROB", 128>>, <<"LFB", 10>>,
               <<"ALU", 4>>, <<"LD", 2>>, <<"ST", 2>>>>)
FirstCache(connect) ==
  Part("cache", "L1_S", connect, <<<<"associativity", L1Assoc>>, <<"read_latency", L1Latency>>>>)
SecondCache(simulator) ==
  Part("cache", "L2", <<>>,
       <<<<"associativity", L2Assoc>>, <<"read_latency", L2Latency>>>> \o simulator)
Near == Part("memory", "near", <<>>, <<<<"ramulator", "DDR4_config.cfg">>>>)
Far == Part("memory", "far", <<>>, <<<<"read_latency", MemLatency>>>>)
Nvm == Part("memory", "NVM", <<>>, <<<<"granularity", 4096>>, <<"nvdimmsim", "pcm2pkg.ini">>,
                                      <<"frequency", 1200000000>>>>)

Model(cores, firsts, seconds, parts) ==
  [includes |-> [n \in {"Core_S", "L1_S", "L2"} |->
                   IF n = "Core_S" THEN cores ELSE IF n = "L1_S" THEN firsts ELSE seconds],
   components |-> parts]

SharedModel == Model(2, 2, 1, <<Core, FirstCache(<<"L2">>), SecondCache(<<>>), Near, Far>>)
VerticalModel ==
  Model(2, 2, 1, <<Core, FirstCache(<<"L2">>),
                   SecondCache(<<<<"ramulator", "HBM_config.cfg">>, <<"frequency", 500000000>>>>),
                   Nvm>>)
PrivateModel == Model(2, 2, 1, <<Core, FirstCache(<<>>), Near, Far>>)

UnevenModel == Model(3, 2, 1, SharedModel.components)

ModelOf == [shared |-> SharedModel, vertical |-> VerticalModel,
            private |-> PrivateModel, uneven |-> UnevenModel]

(***************************************************************************)
(* Every memory of a model holds some object.                              *)
(***************************************************************************)
Holding(model) == Names(OfKind(model, "memory"))

(***************************************************************************)
(* The shape of the hierarchy in terms of the constants of CacheHierarchy. *)
(* Twice as many threads as cores are started: the caches they are linked  *)
(* to are the first-level caches in use.                                   *)
(***************************************************************************)
StoppedShape == [runs |-> FALSE, l1s |-> {}, hasL2 |-> FALSE, simL2 |-> FALSE,
                 severalMems |-> FALSE, simulated |-> {}]

Shape(model) ==
  LET made == ConfigMachine(model)
      group == CoreOfKernel(<<>>, "main", "Core_S")
  IN IF made.stops \/ StartFails(made, Holding(model)) THEN StoppedShape
     ELSE LET seconds == DOMAIN made.caches \ FirstLevel(made.cores)
          IN [runs |-> TRUE,
              l1s |-> {LinkCoreCtx(made, group, t) : t \in 0 .. 2 * made.cores[group].count - 1},
              hasL2 |-> seconds # {},
              simL2 |-> \E n \in seconds : made.caches[n].simulator # None,
              severalMems |-> HasHms(made),
              simulated |-> Started(made, Holding(model))]

-----------------------------------------------------------------------------
(***************************************************************************)
(* Lines 1 and 2 share an access unit of one memory, line 3 lies in        *)
(* another.                                                                *)
(***************************************************************************)
TwoMemories == [a \in Lines |-> IF a = 3 THEN "far" ELSE "near"]

Vertical == INSTANCE CacheHierarchy WITH HasL2 <- TRUE, SimL2 <- TRUE, MaxWarmups <- 0,
                                         SimPages <- {"near", "far"}, SeveralMems <- FALSE
Private == INSTANCE CacheHierarchy WITH HasL2 <- FALSE, SimL2 <- FALSE, MaxWarmups <- 0

OneMachine ==
  \/ /\ Init /\ machine \in DOMAIN ModelOf /\ shape = Shape(ModelOf[machine])
     /\ LruInit /\ \A i \in Ways : blocks[i].timestamp = 0
  \/ Init /\ LruInit /\ machine = "set" /\ shape = StoppedShape

On(kind, Action) == shape.runs /\ kind /\ Action /\ UNCHANGED <<machine, shape, lruVars>>

Step ==
  \/ On(shape.hasL2 /\ ~shape.simL2, Next)
  \/ On(shape.hasL2 /\ shape.simL2, Vertical!Next)
  \/ On(~shape.hasL2, Private!Next)
  \/ machine = "set" /\ LruNext /\ UNCHANGED <<machine, shape, vars>>

state == <<machine, shape, vars, lruVars>>

(***************************************************************************)
(* A simulator that was given reads answers them, unless the program stops *)
(* first: WF of MemoryAnswers and of L2Answers, written by the states      *)
(* where no read is left to answer, which each load being asked for once   *)
(* makes the same.                                                         *)
(***************************************************************************)
AllAnswer ==
  /\ \A p \in Pages : []<>(memq[p] = {} \/ panic)
  /\ \A a \in Lines : []<>(simq[a] = <<>>)

MachinesSpec == OneMachine /\ [][Step]_state /\ AllAnswer

(***************************************************************************)
(* Without a second level the data of a stored line is in its cache or in  *)
(* a memory: there load and store write the line displaced back            *)
(* (src/engine/ar_cacheobj.cpp:165-169 and 221-225).                       *)
(***************************************************************************)
PrivateTracked == shape.runs /\ ~shape.hasL2 => DirtyDataTracked
-----------------------------------------------------------------------------
(***************************************************************************)
(* The shapes are those the constants of the three hierarchies describe.   *)
(***************************************************************************)
ASSUME SharedIsConfigured ==
  LET s == Shape(SharedModel)
  IN /\ Cardinality(s.l1s) = Cardinality(L1s)
     /\ s.hasL2 = HasL2 /\ s.simL2 = SimL2 /\ s.severalMems = SeveralMems
     /\ s.simulated = SimPages

ASSUME VerticalIsConfigured ==
  LET s == Shape(VerticalModel)
  IN s.hasL2 /\ s.simL2 /\ ~s.severalMems /\ s.simulated = {"NVM"}

ASSUME PrivateIsConfigured ==
  LET s == Shape(PrivateModel)
  IN s.runs /\ ~s.hasL2 /\ s.severalMems = SeveralMems /\ s.simulated = SimPages

(***************************************************************************)
(* Whatever the numbers of cores and caches, a configuration that does not *)
(* stop the program gives every thread a cache, gives the caches of a      *)
(* group equally many cores, and ends every chain of caches in a last      *)
(* level.                                                                  *)
(***************************************************************************)
Sharers(built, i) ==
  {t \in DOMAIN built.l1["Core_S"] : built.l1["Core_S"][t] = <<"L1_S", i>>}

ASSUME EveryThreadServed ==
  \A cores, firsts, seconds \in 1 .. 4 :
    LET built == ConfigMachine(Model(cores, firsts, seconds, SharedModel.components))
    IN built.stops \/
       /\ \A t \in 0 .. 2 * cores :
            LET l1 == LinkCoreCtx(built, "Core_S", t)
                l2 == built.next[l1[1]][l1[2]]
            IN l1[2] \in 0 .. firsts - 1 /\ l2[2] \in 0 .. seconds - 1
               /\ l2[1] \in LastLevel(built.caches)
       /\ \A i \in 0 .. firsts - 1 : Cardinality(Sharers(built, i)) = cores \div firsts

(***************************************************************************)
(* What stops it: no group to connect a core to, a first level shared      *)
(* unevenly, an access unit other than the simulator's, a cache whose      *)
(* simulator has no frequency.                                             *)
(***************************************************************************)
ASSUME WrongModelsStop ==
  /\ ConfigMachine(UnevenModel).stops
  /\ ConfigMachine(Model(2, 2, 1, <<[Core EXCEPT !.connect = <<>>],
                                           FirstCache(<<>>), Near>>)).stops
  /\ ConfigMachine(Model(2, 2, 1, <<Core, FirstCache(<<>>), Near, Near>>)).stops
  /\ ConfigMachine(Model(2, 2, 1, <<Core, FirstCache(<<>>),
        [Nvm EXCEPT !.props = Tail(@)]>>)).stops
  /\ StartFails(ConfigMachine(Model(2, 2, 1, <<Core, FirstCache(<<"L2">>),
        SecondCache(<<<<"ramulator", "HBM_config.cfg">>>>), Nvm>>)), {"NVM"})
  /\ ~StartFails(ConfigMachine(VerticalModel), {"NVM"})

(***************************************************************************)
(* The clocks of the vertical machine: its caches' memory takes one tick   *)
(* every four cycles, the other three ticks every five.                    *)
(***************************************************************************)
ASSUME TicksMeet ==
  LET built == ConfigMachine(VerticalModel)
  IN /\ SyncTicks(built, "Core_S", built.caches["L2"]) = [cpu |-> 4, mem |-> 1]
     /\ SyncTicks(built, "Core_S", built.mems["NVM"]) = [cpu |-> 5, mem |-> 3]
     /\ CoreOfKernel(<<>>, "main", "Core_S") = "Core_S"
=============================================================================
