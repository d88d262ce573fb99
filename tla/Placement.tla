----------------------------- MODULE Placement -----------------------------
(***************************************************************************)
(* Where the data structures of an application live: the loop of           *)
(* Engine::init_data_placement (src/engine/ar_config.cpp) over the data    *)
(* statements, with MemObj::place_alloc, and the search by address that    *)
(* write-backs use, Engine::find_memobj.                                   *)
(***************************************************************************)
EXTENDS Integers, Sequences, FiniteSets

CONSTANTS
  LineBytes,  \* CACHELINE_BYTES
  FirstPage,  \* the first address given out, 4096
  Mems,       \* the machine's memories
  Capacity    \* Capacity[m]: the bytes of memory m

ASSUME PlacementConstants ==
  /\ LineBytes \in Nat \ {0} /\ FirstPage % LineBytes = 0 /\ FirstPage \in Nat
  /\ Mems # {} /\ IsFiniteSet(Mems) /\ Capacity \in [Mems -> Nat]

VARIABLES
  data,     \* the data statements still to place, in order: [name, dim, size, mem]
  first,    \* the memory an unordered map lists first (machine_memories.begin())
  avail,    \* avail_capacity of the memories
  freeAddr, \* free_addr
  placed,   \* by name: [mem, st, end, dim, size, num] (memobj_map, alloc_mem_map)
  panic     \* the program has given up: PANIC, THROW or a failed assertion

placeVars == <<data, first, avail, freeAddr, placed, panic>>

Product(s) ==
  LET f[i \in 0 .. Len(s)] == IF i = 0 THEN 1 ELSE f[i - 1] * s[i] IN f[Len(s)]

Bytes(d) == Product(d.dim) * d.size

PlaceInit(statements) ==
  /\ data = statements
  /\ first \in Mems
  /\ avail = Capacity
  /\ freeAddr = FirstPage
  /\ placed = <<>>
  /\ panic = FALSE

(***************************************************************************)
(* Objects get consecutive addresses whatever their memory, each beginning *)
(* at a cache line.                                                        *)
(***************************************************************************)
NotRounded(bytes) == bytes  \* mutant
Rounded(bytes) == ((bytes - 1) \div LineBytes) * LineBytes + LineBytes

(***************************************************************************)
(* The mapping names the memory, or else it is the first.                  *)
(***************************************************************************)
MemOfData(d) == IF d.mem = "default" THEN first ELSE d.mem

NewObject(d, m) ==
  [mem |-> m, st |-> freeAddr, end |-> freeAddr + Bytes(d),
   dim |-> d.dim, size |-> d.size, num |-> Product(d.dim)]

PlaceObject ==
  /\ data # <<>> /\ ~panic
  /\ LET d == Head(data)
         m == MemOfData(d)
     IN  IF m \notin Mems \/ avail[m] < Bytes(d)
         THEN /\ panic' = TRUE
              /\ UNCHANGED <<data, avail, freeAddr, placed>>
         ELSE /\ placed' = [x \in DOMAIN placed \cup {d.name} |->
                   IF x = d.name THEN NewObject(d, m) ELSE placed[x]]
              /\ avail' = [avail EXCEPT ![m] = @ - Bytes(d)]
              /\ freeAddr' = freeAddr + Rounded(Bytes(d))
              /\ data' = Tail(data)
              /\ UNCHANGED panic
  /\ UNCHANGED first

(***************************************************************************)
(* find_memobj: the memories it may return; with none it ends in PANIC.    *)
(***************************************************************************)
FindMemobj(addr) ==
  IF Cardinality(Mems) = 1 THEN Mems
  ELSE {placed[x].mem : x \in {x \in DOMAIN placed : placed[x].st <= addr /\ addr < placed[x].end}}
=============================================================================
