------------------------------ MODULE AspenWalk ------------------------------
(***************************************************************************)
(* The traversal of an application by a tool (walkers/AspenTool.h and the   *)
(* Traverse methods of aspen/app), and what each of the tools keeps while   *)
(* it is walked: the counters and formulas of walkers/, and the walker of   *)
(* the simulation engine (engine/ar_walker.cpp).                            *)
(*                                                                          *)
(* The recursion of Traverse is a stack of work: statements to traverse,    *)
(* statements to leave, and turns of loops.  A walk uses one tool, which    *)
(* has no tools of its own (AddTool is never called).                       *)
(***************************************************************************)
EXTENDS AspenMach
LOCAL INSTANCE SequencesExt

CONSTANTS
    Samples,        \* the numbers a distribution can give
    Sums            \* what an uninitialised double can hold

VARIABLES
    app,            \* the application walked
    setting,        \* resource asked for, machine, socket and kernel mapping
    tool,           \* the tool: its kind, its stack and what else it keeps
    paramStack,     \* the parameter stack of the walk
    work,           \* what is left to do
    thrown          \* what ended the walk early: an exception, or a pop of
                    \* more than the tool's stack has (undefined behaviour)

walkVars == <<app, setting, tool, paramStack, work, thrown>>

\* The tools: ResourceCounter, ResourceExpression, RuntimeCounter,
\* RuntimeExpression, MultiplicityTracker, CallStackTracer and Engine.
Counters    == {"counter", "runtime"}
Expressions == {"formula", "time"}
Trackers    == {"multiplicity", "tracer", "engine"}

Tool(kind, stack) ==
    [kind |-> kind, stack |-> stack, is_warmup |-> TRUE,
     executeblock_map |-> <<>>, launches |-> <<>>]
InitialTool(kind) ==
    Tool(kind, CASE kind = "multiplicity" -> <<1>>
                 [] kind = "engine" -> <<Number(1)>>
                 [] OTHER -> <<>>)

\* A handler that throws, and one that pops more than there is.
Failed == Tool("exception", <<>>)
Underflow == Tool("underflow", <<>>)

TraversalModeHint == IF tool.kind = "engine" THEN "Explicit" ELSE "Implicit"

\* GetTraversalMode: samples and loop counters force an explicit traversal.
Mode(s) ==
    CASE ContainsRandomSample(app, s) = "throws" -> "throws"
      [] ContainsRandomSample(app, s) = "yes" -> "Explicit"
      [] OTHER -> IF s.kind \in {"iterate", "map"} /\ s.counter # ""
                  THEN "Explicit" ELSE TraversalModeHint

-----------------------------------------------------------------------------
(* The tools.  A stack grows at its end.                                    *)

Here(e)   == EvaluateWithExpansion(e, paramStack)
Global(e) == EvaluateWithExpansion(e, ParameterStack(<<app.paramMap>>))

Pushed(t, v) == [t EXCEPT !.stack = Append(@, v)]
\* The n values popped, the last one first, and the tool without them.
Popped(t, n) == SubSeq(Reverse(t.stack), 1, n)
Unstacked(t, n) == [t EXCEPT !.stack = SubSeq(@, 1, Len(@) - n)]
Has(t, n) == Len(t.stack) >= n

Total(vs) == FoldLeft(LAMBDA acc, v : Apply("+", acc, v), Number(0), vs)

\* The turns of a loop for (int i = 0; i < q; ++i).
Turns(q) == IF Less(q, Number(0)) THEN 0 ELSE Rounded("ceil", q)[1]

\* ResourceCounter::EndIterate and EndMap.
CounterEndLoop(t, s, mode, c) ==
    LET n == IF mode = "Explicit" THEN Turns(c) ELSE 1
        v == Total(Popped(t, n))
    IN  IF c = NoValue THEN Failed
        ELSE IF ~Has(t, n) THEN Underflow
        ELSE Pushed(Unstacked(t, n), IF mode = "Explicit" THEN v ELSE Apply("*", c, v))

\* ResourceExpression: a loop is a sum or a product.
ExpressionEndLoop(t, s, mode, c) ==
    LET n == Turns(c)
        sum == IF s.kind = "iterate" THEN Sequence("+", Popped(t, n))
               ELSE BuiltSum(Popped(t, n))
    IN  IF mode = "Implicit"
        THEN IF ~Has(t, 1) THEN Underflow
             ELSE Pushed(Unstacked(t, 1), Binary("*", s.quantity, Popped(t, 1)[1]))
        ELSE IF c = NoValue THEN Failed
        ELSE IF ~Has(t, n) THEN Underflow
        ELSE Pushed(Unstacked(t, n), sum)

\* A mutant of Values: samples are counted as well.
ValuesOfAll(s) == Len(s.items)

\* EndSeq pops one value for every item that is not a sample, EndPar one for
\* every item.
Values(s) ==
    IF s.kind = "par" THEN Len(s.items)
    ELSE Len(SelectSeq(s.items, LAMBDA x : x.kind # "sample"))
CounterEndItems(t, s) ==
    IF ~Has(t, Values(s)) THEN Underflow
    ELSE Pushed(Unstacked(t, Values(s)), Total(Popped(t, Values(s))))
ExpressionEndItems(t, s) ==
    IF ~Has(t, Values(s)) THEN Underflow
    ELSE Pushed(Unstacked(t, Values(s)), Sequence("+", Popped(t, Values(s))))

\* A mutant of CounterEndProbability: values are popped from the first item on.
CounterEndProbabilityInOrder(t, s, mode, weights, uninitialised) ==
    LET n == Len(s.items)
        rest == Apply("-", Number(1), Apply("+", uninitialised, Total(weights)))
        popped == Popped(t, n + 1)
        items == [i \in 1..n |-> Apply("*", weights[i], popped[i + 1])]
    IN  IF mode = "Explicit" THEN t
        ELSE IF \E i \in 1..n : weights[i] = NoValue THEN Failed
        ELSE IF ~Has(t, n + 1) THEN Underflow
        ELSE Pushed(Unstacked(t, n + 1), Total(Append(items, Apply("*", rest, popped[1]))))

\* EndProbability: explicitly one item was walked, implicitly all of them and
\* then the else.  The counter adds the probabilities to an uninitialised
\* double.
CounterEndProbability(t, s, mode, weights, uninitialised) ==
    LET n == Len(s.items)
        rest == Apply("-", Number(1), Apply("+", uninitialised, Total(weights)))
        popped == Popped(t, n + 1)
        Weighted(i) == Apply("*", weights[i], popped[n + 2 - i])
        items == [i \in 1..n |-> Weighted(i)]
    IN  IF mode = "Explicit" THEN t
        ELSE IF \E i \in 1..n : weights[i] = NoValue THEN Failed
        ELSE IF ~Has(t, n + 1) THEN Underflow
        ELSE Pushed(Unstacked(t, n + 1), Total(Append(items, Apply("*", rest, popped[1]))))

ExpressionEndProbability(t, s, mode) ==
    LET n == Len(s.items)
        weights == [i \in 1..n |-> s.items[i].quantity]
        popped == Popped(t, n + 1)
        elseterm == Binary("*", Binary("-", Literal(1), BuiltSum(weights)), popped[1])
        items == [i \in 1..n |-> Binary("*", weights[n + 1 - i], popped[i + 1])]
    IN  IF mode = "Explicit" THEN t
        ELSE IF ~Has(t, n + 1) THEN Underflow
        ELSE Pushed(Unstacked(t, n + 1), BuiltSum(<<elseterm>> \o items))

\* The values of the probabilities of a probability statement.
Weights(s) == [i \in DOMAIN s.items |-> Here(s.items[i].quantity)]

\* What a block requires of the resource the tool counts.
Matched(block) ==
    LET rs == SelectSeq(block.statements, LAMBDA r : r.resource = setting.resource)
    IN  [i \in DOMAIN rs |-> rs[i].quantity]

\* A value that could not be computed was an exception.
PushedValue(t, v) == IF v = NoValue THEN Failed ELSE Pushed(t, v)
PushedFormula(t, e) == IF HasThrown(e) THEN Failed ELSE Pushed(t, e)

CounterExecute(t, block) ==
    LET values == [i \in DOMAIN Matched(block) |-> Here(Matched(block)[i])]
    IN  PushedValue(t, Apply("*", Here(block.parallelism), Total(values)))

\* Only local names are expanded.  Where nothing matches the parallelism alone
\* is the formula.
LocalOnly(e) == Expanded(e, [paramStack EXCEPT !.localExpansionOnly = TRUE], {})
ExpressionExecute(t, block) ==
    PushedFormula(t, LocalOnly(Built("*", BuiltSum(Matched(block)), block.parallelism)))

BlockTime(block) == GetTimeExpression(block, setting.machine, setting.socket)

RuntimeCounterExecute(t, block) ==
    PushedValue(t, ValueOf(ExpandedInPlace(BlockTime(block), paramStack)))

RuntimeExpressionExecute(t, block) ==
    PushedFormula(t, LocalOnly(BlockTime(block)))

\* MultiplicityTracker: an implicit loop multiplies, by its quantity over the
\* global parameters alone.
MultiplicityStartLoop(t, mode, c) ==
    IF mode = "Explicit" THEN t
    ELSE IF c = NoValue THEN Failed
    ELSE Pushed(t, Truncated(c) * Last(t.stack))
MultiplicityEndLoop(t, mode) == IF mode = "Explicit" THEN t ELSE Unstacked(t, 1)

\* Engine::StartIterate and StartMap: the first iterate ends the warm-up; a
\* map multiplies the parallelism, in either mode.
EngineStartLoop(t, s, c) ==
    IF c = NoValue THEN Failed
    ELSE IF s.kind = "iterate" THEN [t EXCEPT !.is_warmup = FALSE]
    ELSE Pushed(t, Apply("*", Last(t.stack), c))
EngineEndLoop(t, s) == IF s.kind = "map" THEN Unstacked(t, 1) ELSE t

\* Engine::Execute: the graph of a block is built once, with the parameters of
\* its first launch, and a launch goes to the core group its label is mapped
\* to or to the first one.
EngineExecute(t, block, new_par) ==
    LET built == {i \in DOMAIN t.executeblock_map : t.executeblock_map[i].label = block.label}
        graph == [label |-> block.label,
                  sizes |-> [i \in DOMAIN block.statements |->
                                Here(block.statements[i].quantity)]]
        core_group == IF block.label \in DOMAIN setting.mapping
                      THEN setting.mapping[block.label] ELSE setting.core_groups[1]
        launch == [label |-> block.label, core_group |-> core_group,
                   nThreads |-> Truncated(Apply("*", Number(Truncated(new_par)),
                                                Last(t.stack))),
                   is_warmup |-> t.is_warmup]
    IN  IF new_par = NoValue
           \/ (built = {} /\ \E i \in DOMAIN graph.sizes : graph.sizes[i] = NoValue)
        THEN Failed
        ELSE [t EXCEPT !.executeblock_map = IF built = {} THEN Append(@, graph) ELSE @,
                       !.launches = Append(@, launch)]

-----------------------------------------------------------------------------
(* Enter, leave and execute: the handler of the tool.                       *)

StartLoop(s, mode) ==
    CASE tool.kind = "multiplicity" -> MultiplicityStartLoop(tool, mode, Global(s.quantity))
      [] tool.kind = "engine" -> EngineStartLoop(tool, s, Global(s.quantity))
      [] OTHER -> tool

EndLoop(s, mode) ==
    CASE tool.kind \in Counters -> CounterEndLoop(tool, s, mode, Here(s.quantity))
      [] tool.kind \in Expressions -> ExpressionEndLoop(tool, s, mode, Here(s.quantity))
      [] tool.kind = "multiplicity" -> MultiplicityEndLoop(tool, mode)
      [] tool.kind = "engine" -> EngineEndLoop(tool, s)
      [] OTHER -> tool

EndItems(s) ==
    CASE tool.kind \in Counters -> CounterEndItems(tool, s)
      [] tool.kind \in Expressions -> ExpressionEndItems(tool, s)
      [] OTHER -> tool

EndProbability(s, mode, uninitialised) ==
    CASE tool.kind \in Counters -> CounterEndProbability(tool, s, mode, Weights(s), uninitialised)
      [] tool.kind \in Expressions -> ExpressionEndProbability(tool, s, mode)
      [] OTHER -> tool

Execute(block) ==
    CASE tool.kind = "counter" -> CounterExecute(tool, block)
      [] tool.kind = "formula" -> ExpressionExecute(tool, block)
      [] tool.kind = "runtime" -> RuntimeCounterExecute(tool, block)
      [] tool.kind = "time" -> RuntimeExpressionExecute(tool, block)
      [] tool.kind = "engine" -> EngineExecute(tool, block, Here(block.parallelism))
      [] OTHER -> tool

TracerStart(name) == IF tool.kind = "tracer" THEN Pushed(tool, name) ELSE tool
TracerEnd == IF tool.kind = "tracer" THEN Unstacked(tool, 1) ELSE tool

-----------------------------------------------------------------------------
(* The traversal.                                                           *)

Traverse(s) == [do |-> "traverse", s |-> s]
Leave(s, mode) == [do |-> "leave", s |-> s, mode |-> mode]
LeaveKernel == [do |-> "leavekernel"]
Turn(s, i, q) == [do |-> "turn", s |-> s, i |-> i, q |-> q]

Top == Head(work)
Doing(what, kinds) == work # <<>> /\ Top.do = what /\ Top.s.kind \in kinds

TraverseAll(items) == [i \in DOMAIN items |-> Traverse(items[i])]

End(what) ==
    /\ thrown' = what
    /\ work' = <<>>
    /\ UNCHANGED <<app, setting, tool, paramStack>>
Throw == End("exception")

\* Go on with the tool a handler left, or end the walk where it threw.
GoOn(t, rest, stack) ==
    IF t \in {Failed, Underflow} THEN End(t.kind)
    ELSE /\ tool' = t
         /\ work' = rest
         /\ paramStack' = stack
         /\ UNCHANGED <<app, setting, thrown>>

PushFrame(frame) == [paramStack EXCEPT !.LocalStack = Append(@, frame)]
PopFrame == [paramStack EXCEPT
                !.LocalStack = IF @ = <<>> THEN @ ELSE SubSeq(@, 1, Len(@) - 1)]

\* A statement whose mode cannot be told, and the statements that are not
\* implemented.
CannotTraverse ==
    /\ work # <<>> /\ Top.do \in {"traverse", "kernel"}
    /\ \/ Top.s.kind \in {"if", "switch"}
       \/ /\ Top.s.kind \in {"iterate", "map", "seq", "par", "probability", "call"}
          /\ Mode(Top.s) = "throws"
    /\ Throw

\* Iterate and map.  Explicitly the quantity says how many turns there are;
\* implicitly the item is walked once.
BeginLoop(s, mode, q) ==
    LET first == IF mode = "Implicit" THEN Traverse(s.item) ELSE Turn(s, 0, q)
    IN  IF mode = "Explicit" /\ q = NoValue THEN Throw
        ELSE GoOn(StartLoop(s, mode), <<first, Leave(s, mode)>> \o Tail(work), paramStack)

TraverseLoop ==
    /\ Doing("traverse", {"iterate", "map"})
    /\ Mode(Top.s) # "throws"
    /\ BeginLoop(Top.s, Mode(Top.s), Here(Top.s.quantity))

\* A turn pops the counter of the turn before and pushes its own.
TakeTurn ==
    /\ Doing("turn", {"iterate", "map"})
    /\ LET s == Top.s
           before == IF s.counter # "" /\ Top.i > 0 THEN PopFrame ELSE paramStack
           frame == Bind(s.counter, Literal(Top.i))
       IN  IF ~Less(Number(Top.i), Top.q)
           THEN GoOn(tool, Tail(work), before)
           ELSE GoOn(tool, <<Traverse(s.item), Turn(s, Top.i + 1, Top.q)>> \o Tail(work),
                     IF s.counter = "" THEN before
                     ELSE [before EXCEPT !.LocalStack = Append(@, frame)])

LeaveLoop ==
    /\ Doing("leave", {"iterate", "map"})
    /\ GoOn(EndLoop(Top.s, Top.mode), Tail(work), paramStack)

TraverseItems ==
    /\ Doing("traverse", {"seq", "par"})
    /\ Mode(Top.s) # "throws"
    /\ GoOn(tool, TraverseAll(Top.s.items) \o <<Leave(Top.s, Mode(Top.s))>> \o Tail(work),
            paramStack)

LeaveItems ==
    /\ Doing("leave", {"seq", "par"})
    /\ GoOn(EndItems(Top.s), Tail(work), paramStack)

Else(s) == IF s.elseitem = <<>> THEN EmptyExecution ELSE s.elseitem[1]

\* Implicitly all items and the else are walked.  Explicitly a random number
\* between 0 and 1 picks the first item up to which the probabilities add up
\* to it, or the else; an else that is not there is an empty block.
Picked(s, weights) ==
    LET UpTo(i) == Total(SubSeq(weights, 1, i))
        Reaches(i, r) == ~Less(UpTo(i), r)
        first(r) == {i \in DOMAIN s.items :
                        Reaches(i, r) /\ \A j \in 1..(i - 1) : ~Reaches(j, r)}
    IN  UNION {IF first(r) = {} THEN {Else(s)} ELSE {s.items[i].item : i \in first(r)} :
                  r \in Samples}

WalkItems(s, mode, weights) ==
    LET items == [i \in DOMAIN s.items |-> s.items[i].item]
        rest  == <<Leave(s, mode)>> \o Tail(work)
    IN  IF mode = "Implicit"
        THEN GoOn(tool, TraverseAll(Append(items, Else(s))) \o rest, paramStack)
        ELSE IF \E i \in DOMAIN weights : weights[i] = NoValue THEN Throw
        ELSE \E item \in Picked(s, weights) :
                GoOn(tool, <<Traverse(item)>> \o rest, paramStack)

TraverseProbability ==
    /\ Doing("traverse", {"probability"})
    /\ Mode(Top.s) # "throws"
    /\ WalkItems(Top.s, Mode(Top.s), Weights(Top.s))

LeaveProbability ==
    /\ Doing("leave", {"probability"})
    /\ \E sum \in Sums : GoOn(EndProbability(Top.s, Top.mode, sum), Tail(work), paramStack)

PerformExecute ==
    /\ Doing("traverse", {"execute"})
    /\ GoOn(Execute(Top.s), Tail(work), paramStack)

\* Sample statements are assigned where their kernel is entered.
TraverseSample ==
    /\ Doing("traverse", {"sample"})
    /\ GoOn(tool, Tail(work), paramStack)

\* EnterKernelCall binds the arguments, which are not expanded, and then the
\* kernel is walked.  A kernel with more arguments than the call has reads past
\* the call's: every call has as many as its kernel.
TraverseCall ==
    /\ Doing("traverse", {"call"})
    /\ Mode(Top.s) # "throws"
    /\ LET s == Top.s
           k == app.kernels[s.name]
           argument(name) == CHOOSE i \in DOMAIN k.args : k.args[i] = name
           frame == [name \in {k.args[i] : i \in DOMAIN k.args} |->
                        s.arguments[argument(name)]]
       IN  GoOn(tool, <<[do |-> "kernel", s |-> k.statements, name |-> s.name],
                        Leave(s, Mode(s))>> \o Tail(work), PushFrame(frame))

LeaveCall ==
    /\ Doing("leave", {"call"})
    /\ GoOn(tool, Tail(work), PopFrame)

\* EnterKernel pushes the kernel's variables and a number for each of the
\* samples among its own statements.
EnterKernel ==
    /\ Doing("kernel", {"seq"})
    /\ Mode(Top.s) # "throws"
    /\ LET k == app.kernels[Top.name]
           names == {s.name : s \in {x \in ToSet(k.statements.items) : x.kind = "sample"}}
       IN  \E values \in [names -> Samples] :
              GoOn(TracerStart(Top.name),
                   <<Traverse(k.statements), LeaveKernel>> \o Tail(work),
                   PushFrame([n \in names \cup DOMAIN k.paramMap |->
                                 IF n \in names THEN Value(values[n]) ELSE k.paramMap[n]]))

ExitKernel ==
    /\ work # <<>> /\ Top.do = "leavekernel"
    /\ GoOn(TracerEnd, Tail(work), PopFrame)

WalkInit(a, set, kind) ==
    /\ app = a
    /\ setting = set
    /\ tool = InitialTool(kind)
    /\ paramStack = ParameterStack(<<a.paramMap>> \o set.globals)
    /\ work = <<[do |-> "kernel", s |-> a.kernels["main"].statements, name |-> "main"]>>
    /\ thrown = ""

WalkNext ==
    \/ CannotTraverse
    \/ TraverseLoop \/ TakeTurn \/ LeaveLoop
    \/ TraverseItems \/ LeaveItems
    \/ TraverseProbability \/ LeaveProbability
    \/ PerformExecute \/ TraverseSample
    \/ TraverseCall \/ LeaveCall \/ EnterKernel \/ ExitKernel
=============================================================================
