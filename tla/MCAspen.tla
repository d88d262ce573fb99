------------------------------ MODULE MCAspen --------------------------------
(***************************************************************************)
(* Small applications, a machine with two kinds of socket, expressions of   *)
(* at most seven nodes and some longer ones, and five resources that        *)
(* conflict in every possible way.                                          *)
(***************************************************************************)
EXTENDS AspenWalk
LOCAL INSTANCE SequencesExt
LOCAL INSTANCE FiniteSetsExt

VARIABLES
    job,            \* "walk", "simplify" or "fold"
    original,       \* the expression to simplify
    simplified,     \* the expression after some steps
    times,          \* the requirements of a block before they are folded
    conflicts,      \* the pairs of resources that conflict
    folding         \* the requirements while they are folded

vars == <<walkVars, job, original, simplified, times, conflicts, folding>>

NoApp == [paramMap |-> Bind("n", Literal(1)), kernels |-> Bind("main", Kernel(<<>>, <<>>, <<>>))]
NoSetting == [resource |-> "flops", machine |-> Component("machine", "m", <<>>, {}, <<>>),
              socket |-> "s", globals |-> <<>>, mapping |-> <<>>, core_groups |-> <<"g">>]

NoWalk == /\ WalkInit(NoApp, NoSetting, "idle")
NoExpressions == original = Literal(0) /\ simplified = Literal(0)
NoFolding == times = <<>> /\ conflicts = {} /\ folding = Folding(<<>>, <<>>)

WalkJob(apps, set, kinds) ==
    /\ job = "walk" /\ NoExpressions /\ NoFolding
    /\ \E a \in apps, kind \in kinds : WalkInit(a, set, kind)

SimplifyJob(expressions) ==
    /\ job = "simplify" /\ NoWalk /\ NoFolding
    /\ original \in expressions
    /\ simplified = original

FoldJob(requirements, pairs) ==
    /\ job = "fold" /\ NoWalk /\ NoExpressions
    /\ times \in requirements
    /\ conflicts \in SUBSET pairs
    /\ folding = Folding(times, <<>>)

Walk == /\ job = "walk"
        /\ WalkNext
        /\ UNCHANGED <<job, original, simplified, times, conflicts, folding>>

Simplify == /\ job = "simplify"
            /\ simplified' = OneStepSimplified(simplified)
            /\ UNCHANGED <<walkVars, job, original, times, conflicts, folding>>

Fold == /\ job = "fold"
        /\ folding' = FoldedOnce(folding, conflicts)
        /\ UNCHANGED <<walkVars, job, original, simplified, times, conflicts>>

Next == Walk \/ Simplify \/ Fold

-----------------------------------------------------------------------------
(* The meaning of a statement: the amount a resource or time is used, with  *)
(* the parameters bound as a reader of the model expects, arguments in the  *)
(* kernel that calls.  The amount of a block is all that is taken from the  *)
(* code.                                                                    *)

Bound(e, frames) ==
    EvaluateWithExpansion(e, [paramStack EXCEPT !.LocalStack = frames])

BlockAmount(block, frames) ==
    IF tool.kind \in {"counter", "formula"}
    THEN LET values == [i \in DOMAIN Matched(block) |-> Bound(Matched(block)[i], frames)]
         IN  Apply("*", Bound(block.parallelism, frames), Total(values))
    ELSE Bound(BlockTime(block), frames)

RECURSIVE Meaning(_, _)
Meaning(s, frames) ==
    LET Of(x) == Meaning(x, frames)
        SumOf(items) == Total([i \in DOMAIN items |-> Of(items[i])])
        q == Bound(s.quantity, frames)
        k == app.kernels[s.name]
        Weight(i) == Bound(s.items[i].quantity, frames)
        weights == [i \in DOMAIN s.items |-> Weight(i)]
        argument(name) == CHOOSE i \in DOMAIN k.args : k.args[i] = name
        frame == [name \in {k.args[i] : i \in DOMAIN k.args} |->
                     Value(Bound(s.arguments[argument(name)], frames))]
    IN  CASE s.kind = "execute" -> BlockAmount(s, frames)
          [] s.kind \in {"iterate", "map"} /\ s.counter = "" -> Apply("*", q, Of(s.item))
          [] s.kind \in {"iterate", "map"} /\ s.counter # "" ->
               Total([i \in 1..Turns(q) |->
                          Meaning(s.item, Append(frames, Bind(s.counter, Literal(i - 1))))])
          [] s.kind \in {"seq", "par"} -> SumOf(s.items)
          [] s.kind = "probability" ->
               Total([i \in DOMAIN s.items |-> Apply("*", weights[i], Of(s.items[i].item))]
                     \o [i \in DOMAIN s.elseitem |->
                             Apply("*", Apply("-", Number(1), Total(weights)),
                                   Of(s.elseitem[i]))])
          [] s.kind = "call" -> Meaning(k.statements, <<frame, k.paramMap>>)

Main == app.kernels["main"]
MeaningOfMain == Meaning(Main.statements, <<Main.paramMap>>)

\* The statements in a statement, its own and those of the kernels it calls.
RECURSIVE OwnStatements(_)
OwnStatements(s) ==
    {s} \cup
    CASE s.kind \in {"iterate", "map"} -> OwnStatements(s.item)
      [] s.kind \in {"seq", "par"} -> UNION {OwnStatements(s.items[i]) : i \in DOMAIN s.items}
      [] s.kind \in {"probability", "switch"} ->
           UNION {OwnStatements(s.items[i].item) : i \in DOMAIN s.items}
               \cup UNION {OwnStatements(s.elseitem[i]) : i \in DOMAIN s.elseitem}
      [] s.kind = "if" ->
           OwnStatements(s.thenitem) \cup UNION {OwnStatements(s.elseitem[i]) : i \in DOMAIN s.elseitem}
      [] OTHER -> {}
RECURSIVE Below(_)
Below(s) ==
    LET own == OwnStatements(s)
    IN  own \cup UNION {Below(app.kernels[t.name].statements) : t \in {u \in own : u.kind = "call"}}
\* The expressions of a statement that counts.
Quantities(s) ==
    CASE s.kind \in {"iterate", "map"} -> {s.quantity}
      [] s.kind = "probability" -> {s.items[i].quantity : i \in DOMAIN s.items}
      [] s.kind = "call" -> {s.arguments[i] : i \in DOMAIN s.arguments}
      [] s.kind = "execute" -> {s.parallelism} \cup {s.statements[i].quantity : i \in DOMAIN s.statements}
      [] OTHER -> {}
Statements == Below(Main.statements)

Probabilities == {s \in Statements : s.kind = "probability"}

\* The names an expression mentions, those a kernel binds (its arguments, its
\* variables and the counters of its loops) and those it mentions.
Mentions(e) == {x.op : x \in {y \in Nodes(e) : IsIdentifier(y)}}
Own(k) == UNION {OwnStatements(k.statements.items[i]) : i \in DOMAIN k.statements.items}
Counted(k) == {s.counter : s \in {t \in Own(k) : t.kind \in {"iterate", "map"}}} \ {""}
Binds(k) == {k.args[i] : i \in DOMAIN k.args} \cup DOMAIN k.paramMap \cup Counted(k)
Uses(k) == UNION {UNION {Mentions(e) : e \in Quantities(s)} : s \in Own(k)}
               \cup UNION {Mentions(k.paramMap[v]) : v \in DOMAIN k.paramMap}

KernelsBelow(s) == {t.name : t \in {u \in Below(s) : u.kind = "call"}}
Called == KernelsBelow(Main.statements)
BoundIn(names) == UNION {Binds(app.kernels[name]) : name \in names}
Local == BoundIn(Called \cup {"main"})

\* Where the code looks a name up in the wrong frame, as it searches all that
\* are open, from the innermost, each time a name is expanded: a kernel called
\* binds a name of an argument; a kernel mentions a global name that another
\* binds; or the definition of a global name does.
NameCaptured ==
    \/ \E s \in Statements :
          s.kind = "call" /\ (UNION {Mentions(e) : e \in Quantities(s)}) \cap BoundIn(KernelsBelow(s)) # {}
    \/ \E name \in Called : (Uses(app.kernels[name]) \ Binds(app.kernels[name]))
                               \cap BoundIn((Called \cup {"main"}) \ {name}) # {}
    \/ \E g \in DOMAIN app.paramMap : Mentions(app.paramMap[g]) \cap Local # {}

\* The formulas of the tools take the quantities of loops without a counter,
\* and probabilities, as they are written, and give them global values later.
TakenAsWritten(s) ==
    CASE s.kind \in {"iterate", "map"} /\ s.counter = "" -> {s.quantity}
      [] s.kind = "probability" -> {s.items[i].quantity : i \in DOMAIN s.items}
      [] OTHER -> {}

\* Where else the code is known not to give the meaning: a counter adds an else
\* to what an uninitialised double holds, and the formula of a block that does
\* not require the resource, or of an else that is not there, is its parallelism.
Comparable ==
    /\ \A s \in Statements : s.kind \notin {"sample", "if", "switch"}
    /\ ~NameCaptured
    /\ tool.kind \in Counters => \A s \in Probabilities : s.elseitem = <<>>
    /\ tool.kind \in Expressions =>
         \A s \in Statements : \A e \in TakenAsWritten(s) : Mentions(e) \cap Local = {}
    /\ tool.kind = "formula" =>
         /\ \A s \in Statements : s.kind = "execute" => Matched(s) # <<>>
         /\ \A s \in Probabilities : s.elseitem # <<>>

Walked == job = "walk" /\ work = <<>> /\ thrown = ""

\* The formula of a tool is evaluated with the global parameters.
ResultValue ==
    IF tool.kind \in Expressions
    THEN EvaluateWithExpansion(tool.stack[1], [paramStack EXCEPT !.LocalStack = <<>>])
    ELSE tool.stack[1]

\* GetResourceRequirementExpression knows arguments, but neither the variables
\* of kernels nor loop counters.
KnownToCount ==
    LET kernels == {app.kernels[name] : name \in Called \cup {"main"}}
    IN  \A k \in kernels : Uses(k) \cap (DOMAIN k.paramMap \cup Counted(k)) = {}

Claimed ==
    {ResultValue} \cup
        (IF tool.kind = "counter" /\ KnownToCount THEN {Count(app, <<setting.resource>>)} ELSE {})

\* What a walk adds up, as a number or as a formula, is what the application
\* means, where no name is captured, and so is the formula of
\* GetResourceRequirementExpression where it knows all names.  A name may hide
\* a global one from its kernel.
CountsAgree ==
    Walked /\ tool.kind \in Counters \cup Expressions /\ Comparable =>
       Claimed = {MeaningOfMain}

\* A walk leaves no frame on the parameter stack and exactly one result on the
\* stack of a counter (GetResult throws on any other size), its own entry
\* alone on that of a tracker, and never pops from an empty stack.
WalkBalanced ==
    /\ thrown # "underflow"
    /\ Walked => /\ paramStack.LocalStack = <<>>
                 /\ tool.kind \in Counters \cup Expressions => Len(tool.stack) = 1
                 /\ tool.kind \in Trackers => tool = [InitialTool(tool.kind) EXCEPT
                       !.is_warmup = tool.is_warmup, !.launches = tool.launches,
                       !.executeblock_map = tool.executeblock_map]

-----------------------------------------------------------------------------
(* Simplification.                                                          *)

CONSTANT Environments       \* some values of the names in expressions

ValueIn(e, env) == EvaluateWithExpansion(e, ParameterStack(<<env>>))

\* A sequence that has lost all its entries: evaluating it throws.
HasEmptySequence(e) == \E n \in Nodes(e) : n.kind = "sequence" /\ n.args = <<>>

\* However often it is simplified, and in whatever order its rules apply, an
\* expression keeps its value, unless factoring has emptied a product.
ValueKept ==
    job = "simplify" =>
       \/ HasEmptySequence(simplified)
       \/ \A env \in Environments :
             ValueIn(original, env) # NoValue => ValueIn(simplified, env) = ValueIn(original, env)

-----------------------------------------------------------------------------
(* Folding.                                                                 *)

RECURSIVE Reached(_)
Reached(S) ==
    LET next == S \cup {r \in DOMAIN times : \E q \in S : {q, r} \in conflicts}
    IN  IF next = S THEN S ELSE Reached(next)

\* The resources that take part in a conflict, by the conflicts that link them.
Linked == {Reached({r}) : r \in {q \in DOMAIN times :
                                     \E p \in DOMAIN times \ {q} : {p, q} \in conflicts}}

TotalTime(S) == FoldSet(LAMBDA r, acc : Apply("+", acc, Evaluate(times[r])), Number(0), S)

\* When the loop ends the resources linked by conflicts, however indirectly,
\* are in one set with the sum of their times, and the others in none: no two
\* that conflict are taken to overlap.
ConflictsSummed ==
    job = "fold" /\ FoldedOnce(folding, conflicts) = folding =>
       /\ DOMAIN folding.conflicting = Linked
       /\ DOMAIN folding.requirements = DOMAIN times \ UNION Linked
       /\ \A S \in Linked : Evaluate(folding.conflicting[S]) = TotalTime(S)

-----------------------------------------------------------------------------
(* Walks.                                                                   *)

n == Identifier("n")
k == Identifier("k")

Plain(resource, quantity) == Requires(resource, quantity, <<>>)

FlopsBlock   == Execution("flops", Literal(1), <<Plain("flops", n)>>)
MixedBlock   == Execution("mixed", n, <<Plain("flops", Literal(3)),
                    Requires("loads", k, <<[name |-> "random", value |-> Null]>>),
                    Plain("flops", k)>>)
LoadsBlock   == Execution("loads", Literal(2), <<Plain("loads", Literal(8)),
                    Plain("intracomm", n)>>)
CountedBlock(name) == Execution("counted", Literal(1), <<Plain("flops", Identifier(name))>>)

Simple == {FlopsBlock, MixedBlock, LoadsBlock, KernelCall("f", <<Binary("+", n, Literal(1))>>),
           KernelCall("g", <<k>>), KernelCall("h", <<n>>), KernelCall("h", <<k>>)}

\* The kernel f uses its argument; g has a variable; the argument of h hides
\* the global k, and takes its name from the caller that passes k; and h passes
\* its argument on.
Kernels(main) ==
    [name \in {"main", "f", "g", "h"} |->
        CASE name = "main" -> main
          [] name = "f" -> Kernel(<<"m">>, <<>>, <<CountedBlock("m")>>)
          [] name = "g" -> Kernel(<<"p">>, Bind("v", Binary("*", Identifier("p"), Literal(2))),
                               <<CountedBlock("v"),
                                 Repeated("map", Literal(2), "", CountedBlock("p"))>>)
          [] name = "h" -> Kernel(<<"k">>, <<>>,
                               <<Repeated("map", k, "", CountedBlock("k")),
                                 KernelCall("f", <<Binary("*", k, Literal(2))>>)>>)]

Half == Value(<<1, 2>>)
Quarter == Value(<<1, 4>>)
Case(q, s) == [quantity |-> q, item |-> s]

Loops(items) ==
    {Repeated(kind, q, "", s) : kind \in {"iterate", "map"}, q \in {n, Literal(3)}, s \in items}
CountedLoops(counter, items) ==
    {Repeated(kind, Literal(2), counter, s) : kind \in {"iterate", "map"}, s \in items}
Blocks(left, right) ==
    {Block(kind, <<s, t>>) : kind \in {"seq", "par"}, s \in left, t \in right}
Chances(items) ==
    {Cases("probability", Null, <<Case(Quarter, s), Case(Half, t)>>, else) :
        s \in items, t \in {FlopsBlock}, else \in {<<>>, <<MixedBlock>>}}
Tests ==
    {IfStatement(Comparison(">", n, Literal(1)), FlopsBlock, <<>>),
     Cases("switch", n, <<Case(Literal(2), FlopsBlock)>>, <<MixedBlock>>)}
SampledLoops ==
    {Repeated("iterate", n, "", Block("seq", <<Sample("r"), FlopsBlock>>)),
     Cases("probability", Null,
           <<Case(Half, Block("seq", <<Sample("r"), MixedBlock>>))>>, <<>>)}

Inner == Simple \cup CountedLoops("i", {CountedBlock("i"), KernelCall("f", <<Identifier("i")>>)})
Middle == Loops(Inner) \cup Chances(Inner) \cup Blocks({FlopsBlock}, Inner)
              \cup SampledLoops \cup Tests
Outer == Loops(Middle) \cup CountedLoops("j", Middle) \cup Blocks(Middle, {MixedBlock})
             \cup Chances(Middle)

Mains == {Kernel(<<>>, <<>>, <<s>>) : s \in Outer}
             \cup {Kernel(<<>>, Bind("w", n), <<s, t>>) : s \in Inner, t \in Middle}
             \cup {Kernel(<<>>, Bind("w", n), <<Repeated("map", Identifier("w"), "", s)>>) : s \in Inner}
             \cup {Kernel(<<>>, <<>>, <<Sample("r"), CountedBlock("r"), s>>) : s \in Inner}

Apps == {[paramMap |-> [name \in {"n", "k"} |->
                           IF name = "n" THEN Literal(2) ELSE Binary("+", n, Literal(1))],
          kernels |-> Kernels(main)] : main \in Mains}

\* A node has two sockets of the one kind, with cores and a memory, and one of
\* the other.  Flops take longer without a trait, random loads four times as
\* long, and on the first socket loads conflict with messages inside the node.
Amount == Identifier("x")
Core == Component("core", "cpu_core",
    Bind("flops", ASTMachResource("x", Binary("/", Amount, Identifier("speed")), <<>>)), {}, <<>>)
Memory == Component("memory", "ddr",
    Bind("loads", ASTMachResource("x", Amount,
        <<TraitDefinition("random", "", Binary("*", Identifier("base"), Literal(4)))>>)), {}, <<>>)
Link == Component("link", "ring",
    Bind("intracomm", ASTMachResource("x", Binary("*", Amount, Literal(5)), <<>>)), {}, <<>>)
Cpu == Component("socket", "cpu", <<>>, {{"loads", "intracomm"}},
    <<SubComponent(Core, <<Literal(2)>>), SubComponent(Memory, <<>>), SubComponent(Link, <<>>)>>)
Gpu == Component("socket", "gpu",
    Bind("flops", ASTMachResource("x", Amount, <<>>)), {{"flops", "loads"}}, <<>>)
NodeOfTwo == Component("node", "node", <<>>, {},
    <<SubComponent(Gpu, <<>>), SubComponent(Cpu, <<Literal(2)>>)>>)
Machine == Component("machine", "machine", <<>>, {}, <<SubComponent(NodeOfTwo, <<>>)>>)

Setting == [resource |-> "flops", machine |-> Machine, socket |-> "cpu",
            globals |-> <<Bind("speed", Literal(2))>>,
            mapping |-> Bind("flops", "gpus"), core_groups |-> <<"cpus", "gpus">>]

Tools == Counters \cup Expressions \cup Trackers

SamplesDef == {<<0, 1>>, <<1, 2>>, <<1, 1>>}
SumsDef == {<<0, 1>>, <<7, 1>>}

-----------------------------------------------------------------------------
(* Simplification.                                                          *)

x == Identifier("x")
y == Identifier("y")
Leaves == {x, y, Literal(0), Literal(1), Literal(2)}
Pairs  == {Binary(op, l, r) : op \in {"+", "-", "*", "/"}, l \in Leaves, r \in Leaves}
Trees  == {Binary(op, l, r) : op \in {"+", "*"}, l \in Pairs, r \in Pairs \cup Leaves}

\* A product that dissolves while its sum is factored, and the other kinds of
\* node.
Dissolving(first) ==
    Binary("+", Binary("+", first, Binary("^", y, Literal(2))),
                Binary("*", Binary("*", x, Literal(2)), Half))
Tested(e) == {Unary(e), Comparison("<", x, e), IfThen(Comparison(">", e, y), x),
              IfThenElse(Literal(0), y, e), IfThenElse(Literal(1), e, y),
              FunctionCall("max", <<e, Literal(3)>>), FunctionCall("floor", <<e>>),
              Dereference(Array(<<Array(<<x, e>>), Array(<<e, y>>)>>), <<Literal(0), Literal(1)>>),
              Sequence("max", <<e, Literal(1), x, Literal(4)>>)}
Simplifiable == Pairs \cup Trees \cup {Dissolving(x), Dissolving(y), Dissolving(Literal(4))}
                \cup UNION {Tested(e) : e \in Pairs}

EnvironmentsDef == {[name \in {"x", "y"} |-> IF name = "x" THEN Literal(3) ELSE Literal(5)],
                    [name \in {"x", "y"} |-> IF name = "x" THEN Half ELSE Literal(-2)]}

-----------------------------------------------------------------------------
(* Folding: each resource takes another power of two.                       *)

Times == [r \in {ResourceNames[i] : i \in DOMAIN ResourceNames} |->
             Value(Power(Number(2), Rank(r)))]
AllPairs == {{r, q} : r, q \in DOMAIN Times} \ {{r} : r \in DOMAIN Times}

-----------------------------------------------------------------------------

Init == \/ WalkJob(Apps, Setting, Tools)
        \/ SimplifyJob(Simplifiable)
        \/ FoldJob({Times}, AllPairs)

\* Simplification may go on for ever.
Spec == Init /\ [][Next]_vars
=============================================================================
