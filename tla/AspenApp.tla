------------------------------ MODULE AspenApp -------------------------------
(***************************************************************************)
(* An application model of the Aspen language (aspen/app, aspen/model) and  *)
(* the formula of what it requires of a resource.                           *)
(*                                                                          *)
(* A statement is a record with its "kind".  A kernel has the names of its  *)
(* arguments, the values of its variables (paramMap) and the statements of  *)
(* its body; an application has global values and kernels, one of them      *)
(* "main".                                                                  *)
(***************************************************************************)
EXTENDS AspenExpr
LOCAL INSTANCE SequencesExt

\* A requires statement; traits are records of a name and a value.
Requires(resource, quantity, traits) ==
    [resource |-> resource, quantity |-> quantity, traits |-> traits]

Execution(label, parallelism, statements) ==
    [kind |-> "execute", label |-> label, parallelism |-> parallelism,
     statements |-> statements]
\* The block a probability statement without else falls back to.
EmptyExecution == Execution("", Literal(1), <<>>)

\* Iterate and map statements; the counter is "" where there is none.
Repeated(kind, quantity, counter, item) ==
    [kind |-> kind, quantity |-> quantity, counter |-> counter, item |-> item]
\* Sequential and parallel statements.
Block(kind, items) == [kind |-> kind, items |-> items]
\* Probability and switch statements: items are records of a quantity and a
\* statement, elseitem is empty or holds one statement.
Cases(kind, value, items, elseitem) ==
    [kind |-> kind, value |-> value, items |-> items, elseitem |-> elseitem]
IfStatement(comparison, thenitem, elseitem) ==
    [kind |-> "if", comparison |-> comparison, thenitem |-> thenitem,
     elseitem |-> elseitem]
KernelCall(name, arguments) ==
    [kind |-> "call", name |-> name, arguments |-> arguments]
Sample(name) == [kind |-> "sample", name |-> name]

Kernel(args, paramMap, items) ==
    [args |-> args, paramMap |-> paramMap, statements |-> Block("seq", items)]

-----------------------------------------------------------------------------
(* ASTRequiresStatement::ContainResource: a resource with traits is asked   *)
(* for as the sequence of its parts, loads_random as <<"loads", "random">>. *)

\* The traits of the statement that match a part: a stride of at most one
\* refuses the statement, and so does double precision where single is asked.
Matching(requires, part) ==
    {t \in DOMAIN requires.traits : requires.traits[t].name = part}
Refuses(requires, part) ==
    \E t \in DOMAIN requires.traits :
       LET trait == requires.traits[t]
       IN  \/ /\ trait.name = part /\ part = "stride"
              /\ Evaluate(trait.value) # NoValue
              /\ ~Less(Number(1), Evaluate(trait.value))
           \/ part = "sp" /\ trait.name = "dp"

\* A part counts as found once for every trait that matches it, and a single
\* part left over refuses the statement unless it can be the precision: two
\* parts left over do not.
ContainResource(requires, parts) ==
    LET traits  == Tail(parts)
        Found(i) == {t \in Matching(requires, traits[i]) :
                        \/ traits[i] # "stride"
                        \/ Evaluate(requires.traits[t].value) # NoValue}
        checked == Len(traits) - FoldLeft(LAMBDA n, i : n + Cardinality(Found(i)), 0,
                                          [i \in DOMAIN traits |-> i])
        sp == \E i \in DOMAIN traits :
                 /\ traits[i] = "sp"
                 /\ \E t \in DOMAIN requires.traits : requires.traits[t].name # "sp"
    IN  /\ IF Head(parts) = "bytes" THEN requires.resource \in {"loads", "stores"}
           ELSE Head(parts) = requires.resource
        /\ \A i \in DOMAIN traits : ~Refuses(requires, traits[i])
        /\ checked = 1 => sp

\* Whether a block's requires statement is asked for; bytes are loads and stores.
Asked(requires, parts) ==
    \/ parts = <<requires.resource>>
    \/ parts = <<"bytes">> /\ requires.resource \in {"loads", "stores"}
    \/ ContainResource(requires, parts)

-----------------------------------------------------------------------------
(* GetResourceRequirementExpression, by kind of statement.                  *)

Null == Node("null", "", NoValue, <<>>)

\* ExpressionBuilder: the first expression as it is, then one sequence.
Built(op, builder, e) ==
    IF builder = Null THEN e
    ELSE IF IsSequence(builder, op) THEN Sequence(op, Append(builder.args, e))
    ELSE Sequence(op, <<builder, e>>)
BuiltSum(es) == FoldLeft(LAMBDA b, e : Built("+", b, e), Null, es)

\* A chain of binary sums.
Chained(es) == FoldLeft(LAMBDA acc, e : IF acc = Null THEN e ELSE Binary("+", acc, e),
                        Null, es)

ExecutionRequires(block, parts) ==
    LET asked == SelectSeq(block.statements, LAMBDA r : Asked(r, parts))
        quantities == [i \in DOMAIN asked |-> asked[i].quantity]
    IN  IF asked = <<>> THEN Literal(0)
        ELSE Binary("*", block.parallelism, Chained(quantities))

RECURSIVE GetResourceRequirementExpression(_, _, _)
Requirements(app, items, parts) ==
    [i \in DOMAIN items |-> GetResourceRequirementExpression(app, items[i], parts)]

KernelRequires(app, k, parts) ==
    IF k.statements.items = <<>> THEN Literal(0)
    ELSE BuiltSum(Requirements(app, k.statements.items, parts))

\* A call has the formula of the kernel with its arguments to be substituted.
CallRequires(app, s, parts) ==
    LET k == app.kernels[s.name]
        argument(name) == CHOOSE i \in DOMAIN k.args : k.args[i] = name
        callsubst == [name \in {k.args[i] : i \in DOMAIN k.args} |->
                         s.arguments[argument(name)]]
    IN  IF s.name \notin DOMAIN app.kernels THEN Identifier(s.name)
        ELSE IF Len(k.args) # Len(s.arguments) THEN Thrown
        ELSE IF k.args = <<>> THEN KernelRequires(app, k, parts)
        ELSE CallStackSubstitution(callsubst, KernelRequires(app, k, parts))

\* The else of a probability has what the other items leave over.
ProbabilityRequires(app, s, parts) ==
    LET quantities == [i \in DOMAIN s.items |-> s.items[i].quantity]
        Weighted(i) == Binary("*", quantities[i],
                           GetResourceRequirementExpression(app, s.items[i].item, parts))
        items == [i \in DOMAIN s.items |-> Weighted(i)]
        elseexpr == Binary("*", Binary("-", Literal(1), Chained(quantities)),
                       GetResourceRequirementExpression(app, s.elseitem[1], parts))
    IN  Chained(IF s.elseitem = <<>> THEN items ELSE Append(items, elseexpr))

\* A switch is a chain of tests from the first item to the else.
RECURSIVE SwitchRequires(_, _, _)
SwitchRequires(app, s, parts) ==
    LET case == Head(s.items)
        rest == [s EXCEPT !.items = Tail(@)]
        test == Comparison("==", s.value, case.quantity)
        then == GetResourceRequirementExpression(app, case.item, parts)
    IN  IF Len(s.items) > 1 THEN IfThenElse(test, then, SwitchRequires(app, rest, parts))
        ELSE IF s.elseitem = <<>> THEN IfThen(test, then)
        ELSE IfThenElse(test, then,
                        GetResourceRequirementExpression(app, s.elseitem[1], parts))

IterateRequires(app, s, parts) ==
    Binary("*", s.quantity, GetResourceRequirementExpression(app, s.item, parts))
MapRequires(app, s, parts) ==
    Binary("*", s.quantity, GetResourceRequirementExpression(app, s.item, parts))
SequentialRequires(app, s, parts) == Sequence("+", Requirements(app, s.items, parts))
ParallelRequires(app, s, parts) == Sequence("+", Requirements(app, s.items, parts))

IfThenRequires(app, s, parts) ==
    LET else == IF s.elseitem = <<>> THEN Literal(0)
                ELSE GetResourceRequirementExpression(app, s.elseitem[1], parts)
    IN  IfThenElse(s.comparison,
                   GetResourceRequirementExpression(app, s.thenitem, parts), else)

GetResourceRequirementExpression(app, s, parts) ==
    CASE s.kind = "execute" -> ExecutionRequires(s, parts)
      [] s.kind = "iterate" -> IterateRequires(app, s, parts)
      [] s.kind = "map" -> MapRequires(app, s, parts)
      [] s.kind = "seq" -> SequentialRequires(app, s, parts)
      [] s.kind = "par" -> ParallelRequires(app, s, parts)
      [] s.kind = "probability" -> ProbabilityRequires(app, s, parts)
      [] s.kind = "switch" -> SwitchRequires(app, s, parts)
      [] s.kind = "if" -> IfThenRequires(app, s, parts)
      [] s.kind = "call" -> CallRequires(app, s, parts)
      [] s.kind = "sample" -> Literal(0)

\* ASTAppModel::Count: the value of the formula of main.  Without a result
\* there is no value.
Count(app, parts) ==
    EvaluateWithExpansion(KernelRequires(app, app.kernels["main"], parts),
                          ParameterStack(<<app.paramMap>>))

-----------------------------------------------------------------------------
(* ContainsRandomSample.  The first statement that has one, or that cannot  *)
(* answer (an if, a switch or a call of an unknown kernel throws), decides. *)

FirstAnswer(answers) ==
    LET decides == {i \in DOMAIN answers : answers[i] # "no"}
    IN  IF decides = {} THEN "no"
        ELSE answers[CHOOSE i \in decides : \A j \in decides : i <= j]

RECURSIVE ContainsRandomSample(_, _)
AnyContains(app, items) ==
    FirstAnswer([i \in DOMAIN items |-> ContainsRandomSample(app, items[i])])
CaseContains(app, s) ==
    AnyContains(app, [i \in DOMAIN s.items |-> s.items[i].item] \o s.elseitem)
CallContains(app, s) ==
    IF s.name \in DOMAIN app.kernels
    THEN ContainsRandomSample(app, app.kernels[s.name].statements) ELSE "throws"

ContainsRandomSample(app, s) ==
    CASE s.kind = "execute" -> "no"
      [] s.kind = "sample" -> "yes"
      [] s.kind \in {"iterate", "map"} -> ContainsRandomSample(app, s.item)
      [] s.kind \in {"seq", "par"} -> AnyContains(app, s.items)
      [] s.kind = "probability" -> CaseContains(app, s)
      [] s.kind = "call" -> CallContains(app, s)
      [] s.kind \in {"if", "switch"} -> "throws"
=============================================================================
