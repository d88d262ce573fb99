----------------------------- MODULE ExecGraph -----------------------------
(***************************************************************************)
(* From a kernel of the application to the operations of a thread's        *)
(* window: the data structures are placed (Placement), then                *)
(*   build_nodes, set_globalcontrol, build_execgraph    (ar_parse.cpp)     *)
(*   ExecBlock::init_offsets                            (ar_execblock.cpp) *)
(*   Context::fetch_global_step                         (ar_context.cpp)   *)
(*                                                                         *)
(* A kernel is a sequence of statements `loads`, `stores` or `flops`, each *)
(* with a count.  Loads and stores become data nodes; consecutive nodes    *)
(* that make equally many accesses per global step form a group, which is  *)
(* stepped through as often.                                               *)
(*                                                                         *)
(* The window is unrolled here: its ring is the subject of ContextOps.     *)
(* Nodes and groups are numbered from 1.                                   *)
(***************************************************************************)
EXTENDS AccessPatterns

CONSTANTS
  Programs  \* [data, stmts, control]: control is the parameter global_control, or 0

(***************************************************************************)
(* A kernel ends with a data statement: build_execgraph would look for one *)
(* behind the end of the list.  Its statements name data structures of the *)
(* application and a pattern: a node without one would call a generator    *)
(* through a null pointer.                                                 *)
(***************************************************************************)
ASSUME KernelsEndWithData ==
  \A program \in Programs :
    /\ program.stmts # <<>>
    /\ LET last == Last(program.stmts) IN last.kind # "flops" /\ last.count > 0
    /\ \A i \in DOMAIN program.stmts :
         program.stmts[i].kind # "flops" =>
           /\ \E j \in DOMAIN program.data : program.data[j].name = program.stmts[i].name
           /\ Given(program.stmts[i].traits, Patterns) # {}

(***************************************************************************)
(* Its data structures have elements and different names.                  *)
(***************************************************************************)
DataStatements == UNION {{program.data[i] : i \in DOMAIN program.data} : program \in Programs}

ASSUME DataHaveSize ==
  /\ \A program \in Programs :
       /\ program.data \in Seq(DataStatements)
       /\ \A i, j \in DOMAIN program.data : i # j => program.data[i].name # program.data[j].name
  /\ \A d \in DataStatements :
       /\ d.dim \in Seq(Nat \ {0}) /\ d.dim # <<>> /\ d.size \in 1 .. AddrSpace
       /\ Product(d.dim) \in Nat \ {0} /\ Bytes(d) \in Nat \ {0}

(***************************************************************************)
(* Its statements have a number of accesses, and the traits that take      *)
(* numbers have numbers.                                                   *)
(***************************************************************************)
ASSUME StatementsHaveCounts ==
  \A program \in Programs :
    /\ program.control \in Nat /\ program.stmts \in Seq(ToSet(program.stmts))
    /\ \A i \in DOMAIN program.stmts :
         LET s == program.stmts[i]
         IN  /\ s.count \in Nat
             /\ s.kind # "flops" =>
                  /\ s.traits \in Seq(ToSet(s.traits))
                  /\ \A j \in DOMAIN s.traits :
                       s.traits[j].name \in Patterns \cup {"offset"} => s.traits[j].values \in Seq(Nat)

(***************************************************************************)
(* An object that is gone through in a shape is small in the address       *)
(* space, and has an interior, but for a filter, which is fitted.  Without *)
(* one the generators divide by zero.                                      *)
(***************************************************************************)
Shaped == Patterns \ {"stride", "random"}

ASSUME ShapesHaveRoom ==
  \A program \in Programs : \A i \in DOMAIN program.stmts, j \in DOMAIN program.data :
    LET s == program.stmts[i]
        d == program.data[j]
    IN  s.kind # "flops" /\ d.name = s.name =>
          \A pattern \in {LastGiven(s.traits, Patterns).name} \cap Shaped :
            /\ PatternFits(pattern, Len(d.dim)) => 3 * d.size * (d.dim[1] * d.dim[2]) <= AddrSpace
            /\ pattern # "conv" => d.dim[1] >= 3 /\ d.dim[2] >= 3

VARIABLES
  stmts,    \* the statements of the kernel that become nodes (node_list)
  control,  \* global_control
  nodes,    \* datanode_list
  groups,   \* nodegroup_list
  pc,       \* "build", "offsets", "fetch"
  at,       \* the node the loops are at, and its group
  cur,
  width,    \* window_size
  fetched,  \* fetched_global_step
  window    \* the operations fetched

graphVars == <<stmts, control, nodes, groups, pc, at, cur, width, fetched, window>>
vars == <<placeVars, graphVars>>

(***************************************************************************)
(* build_nodes skips data statements with no accesses.                     *)
(***************************************************************************)
IsData(s) == s.kind # "flops"
AddNode(list, s) == IF IsData(s) => s.count > 0 THEN Append(list, s) ELSE list
Nodes(list) == FoldLeft(AddNode, <<>>, list)

(***************************************************************************)
(* set_global_control: the parameter, or else the greatest common divisor  *)
(* of all counts.                                                          *)
(***************************************************************************)
Divides(d, n) == n % d = 0
CommonDivisor(counts) == Max({d \in 1 .. Max(counts) : \A n \in counts : Divides(d, n)})

GlobalControl(list, param) ==
  IF param # 0 THEN param ELSE CommonDivisor({list[i].count : i \in DOMAIN list})

Init ==
  \E program \in Programs :
    /\ PlaceInit(program.data)
    /\ stmts = Nodes(program.stmts)
    /\ control = GlobalControl(Nodes(program.stmts), program.control)
    /\ nodes = <<>> /\ groups = <<>>
    /\ pc = "build" /\ at = 1 /\ cur = 1
    /\ width = 0 /\ fetched = 0 /\ window = <<>>

Place == PlaceObject /\ UNCHANGED graphVars

Rejected == panic' = TRUE /\ UNCHANGED <<data, first, avail, freeAddr, placed, graphVars>>
Building == data = <<>> /\ ~panic /\ pc = "build"

-----------------------------------------------------------------------------
(***************************************************************************)
(* build_execgraph at an arithmetic statement: its operations are spread   *)
(* over the accesses of the data node that follows.                        *)
(***************************************************************************)
BuildOpNode ==
  /\ Building /\ at < Len(stmts) /\ ~IsData(stmts[at])
  /\ IF IsData(stmts[at + 1]) /\ stmts[at].count % stmts[at + 1].count = 0
     THEN /\ at' = at + 1
          /\ UNCHANGED <<placeVars, stmts, control, nodes, groups, pc, cur, width, fetched, window>>
     ELSE Rejected

Comp(i) ==
  IF i > 1 /\ ~IsData(stmts[i - 1]) THEN stmts[i - 1].count \div stmts[i].count ELSE 0

(***************************************************************************)
(* build_execgraph at a data statement: each dependency is on the last     *)
(* node before this one that accesses the object named.  The traits were   *)
(* read when build_nodes met the statement.                                *)
(***************************************************************************)
FirstNamed(name) ==  \* mutant
  CHOOSE j \in 1 .. Len(nodes) :
    /\ nodes[j].name = name
    /\ \A k \in 1 .. Len(nodes) : nodes[k].name = name => k >= j
LastNamed(name) ==
  CHOOSE j \in 1 .. Len(nodes) :
    /\ nodes[j].name = name
    /\ \A k \in 1 .. Len(nodes) : nodes[k].name = name => k <= j

BuildDataNode ==
  /\ Building /\ at <= Len(stmts) /\ IsData(stmts[at])
  /\ LET s    == stmts[at]
         obj  == placed[s.name]
         t    == ParseMemtraits(s.traits, obj.size)
         prev == [i \in 1 .. Len(t.deps) |-> LastNamed(t.deps[i])]
         mine == Len(nodes) + 1
         per  == s.count \div control
         joins == groups # <<>> /\ per = Last(groups).steps
         node == [name |-> s.name, kind |-> s.kind, count |-> s.count, comp |-> Comp(at),
                  pattern |-> t.pattern, tile |-> t.tile, stride |-> t.stride,
                  st |-> obj.st + t.offset, end |-> obj.end, dim |-> obj.dim, size |-> obj.size,
                  num |-> obj.num, mem |-> obj.mem,
                  prev |-> prev, next |-> <<>>, group |-> Len(groups) + (IF joins THEN 0 ELSE 1),
                  offset |-> 0, opsStep |-> 0, numPrev |-> 0]
     IN  IF \/ \E i \in DOMAIN s.traits : TraitFails(s.traits[i], obj.dim, DOMAIN placed)
            \/ \E i \in DOMAIN t.deps : ~\E j \in DOMAIN nodes : nodes[j].name = t.deps[i]
         THEN Rejected
         ELSE /\ nodes' = [j \in 1 .. mine |->
                   IF j = mine THEN node
                   ELSE [nodes[j] EXCEPT !.next =
                           @ \o [i \in 1 .. Len(SelectSeq(prev, LAMBDA p : p = j)) |-> mine]]]
              /\ groups' = IF joins
                           THEN [groups EXCEPT ![Len(groups)].end = mine]
                           ELSE Append(groups, [st |-> mine, end |-> mine, step |-> 0,
                                                steps |-> per, numOps |-> 0])
              /\ at' = at + 1
              /\ UNCHANGED <<placeVars, stmts, control, pc, cur, width, fetched, window>>

EndBuild ==
  /\ Building /\ at > Len(stmts)
  /\ pc' = "offsets"
  /\ at' = 1
  /\ UNCHANGED <<placeVars, stmts, control, nodes, groups, cur, width, fetched, window>>

-----------------------------------------------------------------------------
(***************************************************************************)
(* The walk through the groups, the same in init_offsets and in            *)
(* fetch_global_step: after the last node of the group its next step, or   *)
(* after its last step the next group; after the last group a global step  *)
(* is over.                                                                *)
(***************************************************************************)
Group == groups[cur]
FlatStep == fetched + Group.step  \* mutant
LocalStep == fetched * Group.steps + Group.step
EndsGroup == Group.step + 1 = Group.steps
EndsWalk == EndsGroup /\ cur = Len(groups)

StepForward ==
  /\ at > Group.end
  /\ groups' = [groups EXCEPT ![cur].step = IF EndsGroup THEN 0 ELSE @ + 1]
  /\ cur' = IF EndsWalk THEN 1 ELSE IF EndsGroup THEN cur + 1 ELSE cur
  /\ at' = IF EndsWalk THEN 1 ELSE IF EndsGroup THEN Group.end + 1 ELSE Group.st

(***************************************************************************)
(* init_offsets: where in the window of a global step the operations of a  *)
(* node begin, and how many operations each of them waits for.             *)
(***************************************************************************)
OpsToWaitForOnce(n) ==  \* mutant
  FoldSeq(LAMBDA p, sum : sum + nodes[p].opsStep, 0, nodes[n].prev)
OpsToWaitFor(n) ==
  FoldSeq(LAMBDA p, sum : sum + nodes[p].opsStep *
                            (IF nodes[p].group = nodes[n].group THEN 1 ELSE groups[nodes[p].group].steps),
          0, nodes[n].prev)

OffsetNode ==
  /\ pc = "offsets" /\ at <= Group.end
  /\ LET ops == OpsPerAccess(nodes[at])
     IN  /\ nodes' = IF Group.step > 0 THEN [nodes EXCEPT ![at].opsStep = ops]
                     ELSE [nodes EXCEPT ![at].opsStep = ops, ![at].offset = width,
                                        ![at].numPrev = OpsToWaitFor(at)]
         /\ groups' = IF Group.step > 0 THEN groups ELSE [groups EXCEPT ![cur].numOps = @ + ops]
         /\ width' = width + ops
  /\ at' = at + 1
  /\ UNCHANGED <<placeVars, stmts, control, pc, cur, fetched, window>>

OffsetsForward ==
  /\ pc = "offsets"
  /\ StepForward
  /\ pc' = IF EndsWalk THEN "fetch" ELSE "offsets"
  /\ UNCHANGED <<placeVars, stmts, control, nodes, width, fetched, window>>

-----------------------------------------------------------------------------
(***************************************************************************)
(* fetch_global_step: the operations a node adds, with the distances to    *)
(* the operations they notify - those of the same step in the same group,  *)
(* those of all steps in a later one.                                      *)
(***************************************************************************)
Distances(n) ==
  LET a == nodes[n]
      to(q) == LET b == nodes[q]
                   here == b.offset - a.offset
                   there == here - Group.numOps * Group.step
               IN  IF b.group = cur THEN [p \in 1 .. b.opsStep |-> here + p - 1]
                   ELSE FlattenSeq([i \in 1 .. groups[b.group].steps |->
                          [p \in 1 .. b.opsStep |-> there + groups[b.group].numOps * (i - 1) + p - 1]])
  IN  FlattenSeq([i \in 1 .. Len(a.next) |-> to(a.next[i])])

FetchNode ==
  /\ pc = "fetch" /\ fetched < control /\ at <= Group.end
  /\ LET a == nodes[at]
         distances == Distances(at)
     IN  \E addrs \in GenAddr(a, LocalStep) :
           window' = window \o
             [i \in 1 .. Len(addrs) |->
                [node |-> at, local |-> LocalStep, type |-> a.kind, comp |-> a.comp,
                 mem |-> a.mem, addr |-> addrs[i], prev |-> a.numPrev,
                 next |-> [k \in DOMAIN distances |-> distances[k] - (i - 1)]]]
  /\ at' = at + 1
  /\ UNCHANGED <<placeVars, stmts, control, nodes, groups, pc, cur, width, fetched>>

FetchForward ==
  /\ pc = "fetch" /\ fetched < control
  /\ StepForward
  /\ fetched' = IF EndsWalk THEN fetched + 1 ELSE fetched
  /\ UNCHANGED <<placeVars, stmts, control, nodes, pc, width, window>>

Next ==
  \/ Place
  \/ BuildOpNode \/ BuildDataNode \/ EndBuild
  \/ OffsetNode \/ OffsetsForward
  \/ FetchNode \/ FetchForward

Spec == Init /\ [][Next]_vars

-----------------------------------------------------------------------------
(* What placement and the execution graph must guarantee.                   *)

(***************************************************************************)
(* Write-backs find the memory of a displaced line by its address, so      *)
(* every byte of an object, and the line it is in, must belong to the      *)
(* object's memory and to no other.                                        *)
(***************************************************************************)
LineHasOneMemory ==
  data = <<>> /\ ~panic =>
    \A x \in DOMAIN placed :
      \A addr \in placed[x].st .. placed[x].end - 1 :
        /\ FindMemobj(addr) = {placed[x].mem}
        /\ FindMemobj((addr \div LineBytes) * LineBytes) = {placed[x].mem}

(***************************************************************************)
(* A global step has just been fetched; the operations it consists of.     *)
(***************************************************************************)
StepFetched == pc = "fetch" /\ fetched > 0 /\ at = 1 /\ cur = 1 /\ Group.step = 0
LastStep == (fetched - 1) * width + 1 .. Len(window)
Targets(k) == [j \in DOMAIN window[k].next |-> k + window[k].next[j]]

(***************************************************************************)
(* What Context relies on (StepIsForward of ContextOps): a global step     *)
(* takes exactly the watermark of the window, its edges go forward and     *)
(* stay inside it, and each operation waits for as many notifications as   *)
(* there are edges to it.  The counts come from init_offsets, the edges    *)
(* from fetch_global_step, across groups stepped through unequally often.  *)
(***************************************************************************)
EdgesMatch ==
  StepFetched =>
    /\ Len(window) = fetched * width
    /\ \A k \in LastStep :
         /\ \A j \in DOMAIN window[k].next : Targets(k)[j] \in LastStep /\ Targets(k)[j] > k
         /\ window[k].prev = Cardinality({e \in LastStep \X (1 .. width) :
              e[2] \in DOMAIN window[e[1]].next /\ Targets(e[1])[e[2]] = k})

(***************************************************************************)
(* An operation waits for another exactly when the kernel says so: its     *)
(* statement names the object that the other's statement was the last      *)
(* before it to access.  Statements that run in step with each other wait  *)
(* step by step, others for the whole of a global step.                    *)
(***************************************************************************)
Statement == SelectSeq(stmts, IsData)
DependsOn(b, a) ==
  /\ a < b
  /\ Contains(Deps(Statement[b].traits), Statement[a].name)
  /\ \A n \in a + 1 .. b - 1 : Statement[n].name # Statement[a].name
InStep(a, b) == \A n \in a .. b : Statement[n].count \div control = Statement[a].count \div control

DependenceHonoured ==
  StepFetched =>
    \A k, l \in LastStep :
      LET a == window[k].node
          b == window[l].node
      IN  (\E j \in DOMAIN window[k].next : Targets(k)[j] = l)
          <=> DependsOn(b, a) /\ (InStep(a, b) => window[k].local = window[l].local)

(***************************************************************************)
(* A kernel that has been fetched has made every access of every statement *)
(* once, when global_control divides the counts.                           *)
(***************************************************************************)
EveryAccessOnce ==
  pc = "fetch" /\ fetched = control =>
    \A n \in DOMAIN nodes :
      nodes[n].count % control = 0 =>
        \A m \in 0 .. nodes[n].count :
          Cardinality({k \in DOMAIN window : window[k].node = n /\ window[k].local = m})
          = IF m < nodes[n].count THEN nodes[n].opsStep ELSE 0

(***************************************************************************)
(* Every address lies in the object the statement names, as the checks     *)
(* under DEBUG_DATA in the generators say; the elements of one access lie  *)
(* no further apart, in any dimension, than the pattern is wide, so that   *)
(* no neighbour is found past the end of a row; and a ghost-cell update    *)
(* leaves the border alone.  That is so while a statement makes no more    *)
(* accesses than its pattern has points, as here; a random access may be   *)
(* to the element behind the last.  Left out are the stencils that do not  *)
(* stay inside: those of 26 and 27 points take centres at the edges of     *)
(* rows, which have no neighbour on one side; those of 5 and of 9 points,  *)
(* on an object of two dimensions, take theirs in a second plane, which it *)
(* has not.                                                                *)
(***************************************************************************)
StaysInside(n) ==
  /\ n.pattern \notin {"stencil26p", "stencil27p"}
  /\ n.pattern \in {"stencil5p", "stencil9p"} => Len(n.dim) > 2

Coordinate(n, addr, d) ==
  LET element == (addr - n.st) \div n.size
  IN  CASE d = 1 -> element % n.dim[1]
        [] d = 2 -> (element \div n.dim[1]) % n.dim[2]
        [] d = 3 -> element \div (n.dim[1] * n.dim[2])
Width(n, d) == Max({v[d] : v \in Shape(n)}) - Min({v[d] : v \in Shape(n)})

AddressesInside ==
  \A k \in DOMAIN window :
    LET n == nodes[window[k].node]
        access == {l \in DOMAIN window : window[l].node = window[k].node /\ window[l].local = window[k].local}
    IN  StaysInside(n) =>
          /\ n.st <= window[k].addr
          /\ window[k].addr < n.end + (IF n.pattern = "random" THEN n.size ELSE 0)
          /\ n.pattern \notin {"stride", "random"} =>
               \A d \in DOMAIN n.dim :
                 LET here == Coordinate(n, window[k].addr, d)
                 IN  /\ \A l \in access : Coordinate(n, window[l].addr, d) <= here + Width(n, d)
                     /\ n.pattern = "ghostcell" => here \in 1 .. n.dim[d] - 2
=============================================================================
