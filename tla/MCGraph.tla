------------------------------ MODULE MCGraph ------------------------------
(***************************************************************************)
(* ExecGraph for TLC: kernels in the manner of src/models/application.     *)
(***************************************************************************)
EXTENDS ExecGraph

CONSTANTS near, far

Capacities == near :> 220 @@ far :> 130

Obj(name, dim, size) == [name |-> name, dim |-> dim, size |-> size]
Trait(name, values) == [name |-> name, values |-> values]
Stmt(kind, count, name, traits) == [kind |-> kind, count |-> count, name |-> name, traits |-> traits]
Loads(count, name, pattern, deps) ==
  Stmt("loads", count, name, <<Trait(pattern, <<>>), Trait("dep", deps)>>)
Stores(count, name, pattern, deps) ==
  Stmt("stores", count, name, <<Trait(pattern, <<>>), Trait("dep", deps)>>)
Flops(count) == Stmt("flops", count, "", <<>>)

Vectors == <<Obj("a", <<2>>, 8), Obj("b", <<2>>, 5), Obj("c", <<2>>, 6)>>

\* stream: add, with a statement that makes no access
Add == <<Loads(2, "a", "stride", <<>>), Loads(0, "c", "stride", <<>>), Loads(2, "b", "stride", <<>>),
         Flops(4), Stores(2, "c", "stride", <<"a", "b">>)>>

\* spmul: a row offset, the columns of the row, the elements they select
SpMul == <<Loads(2, "a", "stride", <<>>), Loads(4, "b", "stride", <<"a">>),
           Loads(4, "c", "random", <<"b">>), Stores(2, "b", "stride", <<"c", "b">>)>>

\* rejected: unknown dependency, arithmetic that cannot be shared out
NoSuchNode == <<Stores(2, "a", "stride", <<"b">>)>>
Uneven == <<Flops(3), Loads(2, "a", "stride", <<>>)>>
TwoFlops == <<Flops(2), Flops(2), Loads(2, "a", "stride", <<>>)>>

\* mg: planes of 8 points above a row of 3 and a ghost-cell update
Cubes == <<Obj("r", <<4, 3, 3>>, 4), Obj("u", <<4, 3, 3>>, 2)>>
Relax == <<Flops(8), Loads(4, "r", "stencil8p", <<>>), Loads(2, "r", "stencil3p", <<>>),
           Loads(2, "u", "ghostcell", <<>>), Flops(2), Stores(2, "u", "ghostcell", <<"r", "u">>)>>
Smooth == <<Loads(4, "r", "stencil9p", <<>>), Stores(2, "u", "stencil3p", <<"r">>)>>

\* a box of unequal sides, with several rows, columns and planes inside
Box == <<Obj("v", <<4, 5, 4>>, 1)>>
Faces == <<Loads(24, "v", "stencil8p", <<>>), Stores(12, "v", "ghostcell", <<"v">>)>>
Bars == <<Loads(24, "v", "stencil9p", <<>>), Stores(12, "v", "stencil3p", <<"v">>)>>
Jacobi == <<Loads(2, "r", "stencil27p", <<>>), Stores(2, "u", "ghostcell", <<"r">>)>>

\* conv: a filter over a matrix, every element of the filter per output
Planes == <<Obj("A", <<4, 3>>, 4), Obj("f", <<2, 2>>, 4), Obj("B", <<4, 5>>, 4)>>
Filter(x, y) == <<Trait("conv", <<x, y>>)>>
Conv == <<Stmt("loads", 6, "A", Filter(2, 2)), Loads(24, "f", "stride", <<>>),
          Flops(24), Stores(6, "B", "ghostcell", <<"A", "f">>)>>
Cross == <<Loads(2, "A", "stencil5p", <<>>), Stores(2, "B", "ghostcell", <<"A">>)>>
Flat == <<Loads(2, "A", "stencil3p", <<>>)>>  \* rejected: not in three dimensions
Wide == <<Stmt("loads", 2, "A", Filter(2, 4))>>  \* rejected: the filter does not fit
Folded == <<Stmt("loads", 2, "A", <<Trait("random", <<>>), Trait("stride", <<16>>)>>),
            Stmt("stores", 2, "A", <<Trait("stride", <<>>), Trait("offset", <<32>>),
                                     Trait("dep", <<"A">>)>>)>>
Slab == <<Loads(4, "A", "stencil9p", <<>>), Stores(2, "B", "ghostcell", <<"A">>)>>
Laplace == <<Loads(2, "A", "stencil4p", <<>>), Stores(2, "A", "ghostcell", <<"A">>)>>

\* every kernel of three statements over two objects, and how they may depend
AnyThree ==
  {<<x, y, z>> : x, y, z \in
     {Loads(count, name, "stride", deps) :
        count \in {2, 4}, name \in {"a", "b"}, deps \in {<<>>, <<"a">>, <<"b">>, <<"b", "a">>}}}
AnyOnNear ==
  {[data |-> [i \in 1 .. 2 |-> [name |-> Vectors[i].name, dim |-> <<2>>, size |-> Vectors[i].size,
                                mem |-> near]],
    stmts |-> s, control |-> 0] : s \in AnyThree}

MemNames == {"near", "far", "default"}
MemOf(name) == CASE name = "near" -> near [] name = "far" -> far [] OTHER -> name

WithMems(objs) ==
  {[i \in DOMAIN objs |-> [name |-> objs[i].name, dim |-> objs[i].dim, size |-> objs[i].size,
                           mem |-> MemOf(f[i])]] : f \in [DOMAIN objs -> MemNames]}

Kernels(objs, bodies, param) ==
  {[data |-> d, stmts |-> s, control |-> param] : d \in WithMems(objs), s \in bodies}

\* a memory the machine does not have
Nowhere == <<[name |-> "a", dim |-> <<2>>, size |-> 8, mem |-> "elsewhere"]>>

AllPrograms ==
  AnyOnNear
  \cup Kernels(Vectors, {Add, SpMul, NoSuchNode, Uneven, TwoFlops}, 0)
  \cup {[data |-> Nowhere, stmts |-> <<Loads(2, "a", "stride", <<>>)>>, control |-> 0]}
  \cup Kernels(Cubes, {Relax, Smooth, Jacobi}, 2)
  \cup Kernels(Planes, {Conv, Wide, Folded, Laplace, Cross, Slab, Flat}, 0)
  \cup Kernels(Box, {Faces, Bars}, 6)
=============================================================================
