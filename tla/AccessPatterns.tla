--------------------------- MODULE AccessPatterns ---------------------------
(***************************************************************************)
(* The address generators of a data node (src/engine/ar_dnode.cpp): which  *)
(* addresses the m-th access of the node touches.                          *)
(*                                                                         *)
(* A generator finds the coordinates of a point of the object from m and   *)
(* touches a shape around that point, one address per cache line of every  *)
(* element.  The order within a shape is left out: all operations of one   *)
(* access wait for and notify the same operations.                         *)
(***************************************************************************)
EXTENDS Placement, SequencesExt

CONSTANT AddrSpace   \* 2^64, the number of values of ADDR_T

ASSUME AddressConstants == AddrSpace \in Nat \ {0}

Near == -1 .. 1

(***************************************************************************)
(* set_pattern: the number of dimensions a pattern is meant for.           *)
(***************************************************************************)
PatternFits(pattern, dims) ==
  CASE pattern \in {"stride", "random"} -> TRUE
    [] pattern = "ghostcell" -> dims \in {2, 3}
    [] pattern \in {"stencil4p", "stencil5p", "conv"} -> dims = 2
    [] pattern \in {"stencil3p", "stencil8p", "stencil26p", "stencil27p"} -> dims = 3
    [] pattern = "stencil9p" -> dims >= 2

(***************************************************************************)
(* parse_memtraits: what the traits of a statement, each a name with its   *)
(* values, say of a node on an object.  Of several patterns the last       *)
(* counts; the dependencies add up; an offset moves the node's beginning   *)
(* and leaves its end.  `cdf` and the ghost cells' value are not used.     *)
(***************************************************************************)
Patterns == {"stride", "random", "ghostcell", "stencil3p", "stencil4p", "stencil5p", "stencil8p",
             "stencil9p", "stencil26p", "stencil27p", "conv"}
Valued == {"offset", "cdf"}

Given(traits, names) == {i \in DOMAIN traits : traits[i].name \in names}
LastGiven(traits, names) == traits[Max(Given(traits, names))]
Deps(traits) ==
  LET given == SelectSeq(traits, LAMBDA t : t.name = "dep")
  IN FlattenSeq([i \in 1 .. Len(given) |-> given[i].values])
LastValue(traits, name, default) ==
  IF Given(traits, {name}) = {} \/ LastGiven(traits, {name}).values = <<>> THEN default
  ELSE LastGiven(traits, {name}).values[1]
MoveBy(sum, t) == IF t.name = "offset" THEN sum + t.values[1] ELSE sum
Moved(traits) == FoldLeft(MoveBy, 0, traits)

FilterFits(tile, dim) == Len(tile) = 2 /\ tile[1] <= dim[1] /\ tile[2] <= dim[2]

TraitFails(t, dim, globals) ==
  \/ t.name \in Patterns /\ ~PatternFits(t.name, Len(dim))
  \/ t.name = "conv" /\ ~FilterFits(t.values, dim)
  \/ t.name \in Valued /\ t.values = <<>>
  \/ t.name = "dep" /\ Len(t.values) > 1 /\ \E i \in DOMAIN t.values : t.values[i] \notin globals

ParseMemtraits(traits, size) ==
  [pattern |-> LastGiven(traits, Patterns).name,
   tile    |-> IF Given(traits, {"conv"}) = {} THEN <<>> ELSE LastGiven(traits, {"conv"}).values,
   stride  |-> LastValue(traits, "stride", size),
   offset  |-> Moved(traits),
   deps    |-> Deps(traits)]

(***************************************************************************)
(* The points touched, relative to the point found.  A conv node touches   *)
(* the filter's rectangle.                                                 *)
(***************************************************************************)
Shape(n) ==
  CASE n.pattern \in {"stride", "random", "ghostcell"} -> {<<0, 0, 0>>}
    [] n.pattern = "stencil3p"  -> Near \X {0} \X {0}
    [] n.pattern = "stencil4p"  -> {<<-1, 0, 0>>, <<1, 0, 0>>, <<0, -1, 0>>, <<0, 1, 0>>}
    [] n.pattern = "stencil5p"  -> (Near \X {0} \X {0}) \cup {<<0, -1, 0>>, <<0, 1, 0>>}
    [] n.pattern = "stencil8p"  -> ({0} \X Near \X Near) \ {<<0, 0, 0>>}
    [] n.pattern = "stencil9p"  -> {0} \X Near \X Near
    [] n.pattern = "stencil26p" -> (Near \X Near \X Near) \ {<<0, 0, 0>>}
    [] n.pattern = "stencil27p" -> Near \X Near \X Near
    [] n.pattern = "conv"       -> (0 .. n.tile[1] - 1) \X (0 .. n.tile[2] - 1) \X {0}

(***************************************************************************)
(* Coordinates of the m-th point: row by row through the interior of the   *)
(* object, ghost cells left out at both ends of every dimension ...        *)
(***************************************************************************)
InteriorPlane(n, m) ==
  LET w == n.dim[1] - 2 IN <<(m % w) + 1, (m \div w) + 1, 0>>

InteriorSpace(n, m) ==
  LET w == n.dim[1] - 2
      h == n.dim[2] - 2
  IN  <<(m % w) + 1, ((m \div w) % h) + 1, ((m \div w) \div h) + 1>>

(***************************************************************************)
(* ... or with rows taken whole (stencils of 8, 9, 26 and 27 points) ...   *)
(***************************************************************************)
WholeRowsTurned(n, m) ==  \* mutant
  LET w == n.dim[1]
      h == n.dim[1] - 2
  IN  <<m % w, ((m \div w) % h) + 1, ((m \div w) \div h) + 1>>
WholeRows(n, m) ==
  LET w == n.dim[1]
      h == n.dim[2] - 2
  IN  <<m % w, ((m \div w) % h) + 1, ((m \div w) \div h) + 1>>

(***************************************************************************)
(* ... or through the corners at which the filter fits.                    *)
(***************************************************************************)
FilterCorners(n, m) ==
  LET w == n.dim[1] - n.tile[1] + 1 IN <<m % w, m \div w, 0>>

Point(n, m) ==
  CASE n.pattern = "stencil4p" -> InteriorPlane(n, m)
    [] n.pattern = "ghostcell" -> IF Len(n.dim) = 2 THEN InteriorPlane(n, m) ELSE InteriorSpace(n, m)
    [] n.pattern \in {"stencil3p", "stencil5p"} -> InteriorSpace(n, m)
    [] n.pattern \in {"stencil8p", "stencil9p", "stencil26p", "stencil27p"} -> WholeRows(n, m)
    [] n.pattern = "conv" -> FilterCorners(n, m)

-----------------------------------------------------------------------------
(***************************************************************************)
(* Addresses wrap in ADDR_T.  `stride` goes through the elements and       *)
(* starts over; `random` takes an element of all, and the one past the     *)
(* last when rand() returns RAND_MAX.                                      *)
(***************************************************************************)
AddrOf(n, p) ==
  LET row   == n.dim[1]
      plane == row * n.dim[2]
  IN  (n.st + n.size * (p[1] + row * p[2] + plane * p[3])) % AddrSpace

Bases(n, m) ==
  CASE n.pattern = "stride" -> {{(n.st + (m % n.num) * n.stride) % AddrSpace}}
    [] n.pattern = "random" -> {{(n.st + k * n.size) % AddrSpace} : k \in 0 .. n.num}
    [] OTHER -> {{AddrOf(n, [d \in 1 .. 3 |-> Point(n, m)[d] + v[d]]) : v \in Shape(n)}}

LinesPerAccess(n) == ((n.size - 1) \div LineBytes) + 1

(***************************************************************************)
(* gen_addr: the possible address lists of the m-th access, and how long   *)
(* they all are.  No address comes twice: objects have rows of three       *)
(* elements or more where a shape has width, and the filter fits a row.    *)
(***************************************************************************)
Ascending(addrs) ==
  [i \in 1 .. Cardinality(addrs) |->
     CHOOSE a \in addrs : Cardinality({b \in addrs : b <= a}) = i]

GenAddr(n, m) ==
  {Ascending({(b + i * LineBytes) % AddrSpace : b \in bases, i \in 0 .. LinesPerAccess(n) - 1}) :
     bases \in Bases(n, m)}

OpsPerAccess(n) == Cardinality(Shape(n)) * LinesPerAccess(n)
=============================================================================
