---------------------------- MODULE MachineConfig ----------------------------
(***************************************************************************)
(* What a machine model becomes: config_core, config_cache, config_mem and *)
(* connect_components of src/engine/ar_config.cpp, then the parts of the   *)
(* engine's set-up that depend on it.                                      *)
(*                                                                         *)
(* A model is [includes, components].  includes[name] is the quantity with *)
(* which the machine statement names a component; components lists         *)
(* [kind, name, connect, props], where props lists <<property, value>>, or *)
(* <<property>> for one without a value.                                   *)
(***************************************************************************)
EXTENDS Integers, Sequences, FiniteSets

None == "none"

OfKind(model, kind) == SelectSeq(model.components, LAMBDA c : c.kind = kind)
Names(list) == {list[i].name : i \in 1 .. Len(list)}
Named(list, n) == list[CHOOSE i \in 1 .. Len(list) : list[i].name = n]
NamedTwice(list) == \E i, j \in 1 .. Len(list) : i < j /\ list[i].name = list[j].name

(***************************************************************************)
(* The properties are read in order, so the last value of one stays; a     *)
(* property without a value leaves what was there.                         *)
(***************************************************************************)
LastOf(props, names) ==
  LET given == {i \in 1 .. Len(props) : Len(props[i]) = 2 /\ props[i][1] \in names}
  IN IF given = {} THEN <<None, None>>
     ELSE props[CHOOSE i \in given : \A j \in given : j <= i]
Property(c, name, default) ==
  LET p == LastOf(c.props, {name}) IN IF p[1] = None THEN default ELSE p[2]
LacksValue(c, names) == \E i \in 1 .. Len(c.props) : c.props[i][1] \in names /\ Len(c.props[i]) = 1

(***************************************************************************)
(* connection_map: each value given replaces the one before.               *)
(***************************************************************************)
Connection(c) == IF c.connect = <<>> THEN None ELSE c.connect[Len(c.connect)]

-----------------------------------------------------------------------------
(***************************************************************************)
(* The cores of a group are built before its properties are read: they     *)
(* copy the defaults.                                                      *)
(***************************************************************************)
DefaultCore == [rob |-> 128, lfb |-> 10, frequency |-> 2000000000,
                alu |-> 3, ld |-> 2, st |-> 1, ipc |-> 6]

CoreGroup(model, c) ==
  LET alu == Property(c, "ALU", 3)  ld == Property(c, "LD", 2)  st == Property(c, "ST", 1)
  IN [count |-> model.includes[c.name],
      rob |-> Property(c, "ROB", 128), lfb |-> Property(c, "LFB", 10),
      frequency |-> Property(c, "frequency", 2000000000),
      alu |-> alu, ld |-> ld, st |-> st, ipc |-> alu + ld + st,
      core |-> DefaultCore, next |-> Connection(c)]

NotIncluded(model, list) == ~ (Names(list) \subseteq DOMAIN model.includes)

ConfigCore(model) ==
  LET list == OfKind(model, "core")
  IN [stops |-> list = <<>> \/ NamedTwice(list) \/ NotIncluded(model, list),
      of |-> [n \in Names(list) |-> CoreGroup(model, Named(list, n))]]

-----------------------------------------------------------------------------
(***************************************************************************)
(* A simulator reads and writes units of its own size, and asserts that    *)
(* the memory or cache it is given to does too.                            *)
(***************************************************************************)
UnitOf(simulator) == IF simulator = "nvdimmsim" THEN 4096 ELSE 64
UnitDiffers(o) == o.simulator # None /\ o.line # UnitOf(o.simulator)

CacheOf(model, c) ==
  LET given == LastOf(c.props, {"ramulator"})
  IN [count |-> model.includes[c.name],
      capacity |-> Property(c, "capacity", 33554432), line |-> Property(c, "linesize", 64),
      assoc |-> Property(c, "associativity", 8), frequency |-> Property(c, "frequency", 0),
      load |-> Property(c, "read_latency", 0), store |-> Property(c, "write_latency", 0),
      simulator |-> given[1], config |-> given[2], next |-> Connection(c)]

(***************************************************************************)
(* The first cache of a group gets the simulator, each other a copy of it  *)
(* that differs in where its statistics go.                                *)
(***************************************************************************)
Instances(c) ==
  [i \in 0 .. c.count - 1 |->
     [simulator |-> c.simulator, config |-> c.config, own |-> i > 0, line |-> c.line]]

ConfigCache(model) ==
  LET list == OfKind(model, "cache")
      groups == [n \in Names(list) |-> CacheOf(model, Named(list, n))]
  IN [stops |-> \/ NamedTwice(list) \/ NotIncluded(model, list)
                \/ \E i \in 1 .. Len(list) : LacksValue(list[i], {"ramulator"})
                \/ \E n \in Names(list) : \E i \in DOMAIN Instances(groups[n]) :
                     UnitDiffers(Instances(groups[n])[i]),
      of |-> groups]

-----------------------------------------------------------------------------
Simulators == {"dramsim2", "ramulator", "nvdimmsim"}

(***************************************************************************)
(* A memory is not looked up in the machine statement, and its quantity is *)
(* not read: there is one of each.                                         *)
(***************************************************************************)
MemOf(c) ==
  LET given == LastOf(c.props, Simulators)
  IN [capacity |-> Property(c, "capacity", 16777216),
      frequency |-> Property(c, "frequency", 1000000000),
      load |-> Property(c, "read_latency", 20), store |-> Property(c, "write_latency", 20),
      line |-> Property(c, "granularity", 64),
      simulator |-> given[1], config |-> given[2]]

ConfigMem(model) ==
  LET list == OfKind(model, "memory")
  IN [stops |-> \/ list = <<>> \/ NamedTwice(list)
                \/ \E i \in 1 .. Len(list) : LacksValue(list[i], Simulators)
                \/ \E i \in 1 .. Len(list) : UnitDiffers(MemOf(list[i])),
      of |-> [n \in Names(list) |-> MemOf(Named(list, n))]]

-----------------------------------------------------------------------------
(***************************************************************************)
(* The members of a group share those of the next one evenly.  A cache     *)
(* group connected to nothing is a last level, above every memory.  A core *)
(* group connected to nothing stops the program: machine_caches.at(0) asks *)
(* for a cache group with an empty name.                                   *)
(***************************************************************************)
Stride(c, below) == c.count \div below.count
NextOf(c, below, i) == i \div Stride(c, below)

Uneven(groups, caches) ==
  \E n \in DOMAIN groups : groups[n].next # None /\
    (\/ groups[n].next \notin DOMAIN caches
     \/ groups[n].count % caches[groups[n].next].count # 0)
TooFew(caches) ==
  \E n \in DOMAIN caches : caches[n].next \in DOMAIN caches /\
    caches[n].count < caches[caches[n].next].count

ConnectFails(cores, caches) ==
  \/ \E n \in DOMAIN cores : cores[n].next = None
  \/ Uneven(cores, caches) \/ Uneven(caches, caches) \/ TooFew(caches)

ConnectCache(cores, caches) ==
  [n \in DOMAIN cores |->
     [i \in 0 .. cores[n].count - 1 |->
        <<cores[n].next, NextOf(cores[n], caches[cores[n].next], i)>>]]

NextLevel(caches) ==
  [n \in DOMAIN caches |->
     [i \in 0 .. caches[n].count - 1 |->
        IF caches[n].next = None THEN None
        ELSE <<caches[n].next, NextOf(caches[n], caches[caches[n].next], i)>>]]

LastLevel(caches) == {n \in DOMAIN caches : caches[n].next = None}
FirstLevel(cores) == {cores[n].next : n \in DOMAIN cores}

(***************************************************************************)
(* The parts are configured in this order, and the first to fail stops the *)
(* program.                                                                *)
(***************************************************************************)
ConfigMachine(model) ==
  LET cores == ConfigCore(model)  caches == ConfigCache(model)  mems == ConfigMem(model)
  IN IF cores.stops \/ caches.stops \/ mems.stops THEN [stops |-> TRUE]
     ELSE IF ConnectFails(cores.of, caches.of) THEN [stops |-> TRUE]
     ELSE [stops |-> FALSE, cores |-> cores.of, caches |-> caches.of, mems |-> mems.of,
           l1 |-> ConnectCache(cores.of, caches.of), next |-> NextLevel(caches.of)]

-----------------------------------------------------------------------------
(***************************************************************************)
(* With one memory every address is its own; with several, has_hms, an     *)
(* address is looked up among the objects.                                 *)
(***************************************************************************)
HasHms(machine) == Cardinality(DOMAIN machine.mems) # 1

(***************************************************************************)
(* Only a memory that holds an object starts its simulator; a cache always *)
(* does.  Starting one asserts a frequency, which a cache lacks by default.*)
(***************************************************************************)
Started(machine, used) == {m \in used : machine.mems[m].simulator # None}
StartFails(machine, used) ==
  \/ \E m \in Started(machine, used) : machine.mems[m].frequency = 0
  \/ \E n \in DOMAIN machine.caches :
       machine.caches[n].simulator # None /\ machine.caches[n].frequency = 0

(***************************************************************************)
(* The clocks of the cores and of a simulator advance by these before they *)
(* meet again.                                                             *)
(***************************************************************************)
Gcd(a, b) ==
  LET gcd[x \in Nat, y \in Nat] == IF y = 0 THEN x ELSE gcd[y, x % y] IN gcd[a, b]
SyncCore(coreFrequency, memFrequency) ==
  LET most == Gcd(coreFrequency, memFrequency)
  IN [cpu |-> coreFrequency \div most, mem |-> memFrequency \div most]
SyncTicks(machine, group, o) == SyncCore(machine.cores[group].frequency, o.frequency)

(***************************************************************************)
(* Threads go to the cores of their group in turn.                         *)
(***************************************************************************)
LinkCoreCtx(machine, group, thread) ==
  machine.l1[group][thread % machine.cores[group].count]

(***************************************************************************)
(* A kernel the mapping does not name runs on the group listed first.      *)
(***************************************************************************)
CoreOfKernel(mapping, kernel, first) ==
  IF kernel \in DOMAIN mapping THEN mapping[kernel] ELSE first
=============================================================================
