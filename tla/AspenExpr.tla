------------------------------ MODULE AspenExpr ------------------------------
(***************************************************************************)
(* The expressions of the Aspen language (aspen/expr) and the parameter     *)
(* stack that gives their identifiers a meaning (common/ParameterStack.h).  *)
(*                                                                          *)
(* An expression is a tree of nodes.  Every class of the code is a "kind";  *)
(* a node has an operator or name, a number (of a Value), its operands and  *)
(* (of a CallStackSubstitution) the arguments it binds.  Numbers are exact  *)
(* fractions <<numerator, denominator>> where the code has doubles, so that *)
(* rounding is not modelled; a division by zero (an infinity in the code)   *)
(* and an exception both give no value, written NoValue.                    *)
(***************************************************************************)
EXTENDS Integers, Sequences, FiniteSets
LOCAL INSTANCE SequencesExt

-----------------------------------------------------------------------------
(* Numbers.                                                                 *)

NoValue == <<>>

RECURSIVE Gcd(_, _)
Gcd(a, b) == IF b = 0 THEN a ELSE Gcd(b, a % b)

Magnitude(n) == IF n < 0 THEN -n ELSE n

Fraction(n, d) ==
    IF d = 0 THEN NoValue
    ELSE LET g    == Gcd(Magnitude(n), Magnitude(d))
             sign == IF d < 0 THEN -1 ELSE 1
         IN  <<(sign * n) \div g, (sign * d) \div g>>

Number(n) == <<n, 1>>
Less(a, b) == a[1] * b[2] < b[1] * a[2]

\* The integer a double is converted to: the fraction is cut off.
Truncated(a) ==
    IF a[1] < 0 THEN -((-a[1]) \div a[2]) ELSE a[1] \div a[2]

RECURSIVE Power(_, _)
Power(a, n) == IF n = 0 THEN Number(1)
               ELSE LET p == Power(a, n - 1) IN Fraction(a[1] * p[1], a[2] * p[2])

Truth(b) == Number(IF b THEN 1 ELSE 0)

\* What BinaryExpr, SequenceExpr, Comparison and FunctionCall compute of two
\* numbers.  Only natural powers are exact, so no others are enumerated.
Apply(op, a, b) ==
    IF a = NoValue \/ b = NoValue THEN NoValue
    ELSE CASE op = "+"   -> Fraction(a[1] * b[2] + b[1] * a[2], a[2] * b[2])
           [] op = "-"   -> Fraction(a[1] * b[2] - b[1] * a[2], a[2] * b[2])
           [] op = "*"   -> Fraction(a[1] * b[1], a[2] * b[2])
           [] op = "/"   -> Fraction(a[1] * b[2], a[2] * b[1])
           [] op = "^"   -> Power(a, b[1])
           [] op = "max" -> IF Less(a, b) THEN b ELSE a
           [] op = "min" -> IF Less(b, a) THEN b ELSE a
           [] op = "and" -> Truth(a[1] # 0 /\ b[1] # 0)
           [] op = "or"  -> Truth(a[1] # 0 \/ b[1] # 0)
           [] op = "=="  -> Truth(a = b)
           [] op = "!="  -> Truth(a # b)
           [] op = "<"   -> Truth(Less(a, b))
           [] op = ">"   -> Truth(Less(b, a))
           [] op = "<="  -> Truth(~Less(b, a))
           [] op = ">="  -> Truth(~Less(a, b))

-----------------------------------------------------------------------------
(* Nodes.                                                                   *)

Node(kind, op, num, args) == [kind |-> kind, op |-> op, num |-> num, args |-> args]

Value(num)          == Node("value", "", num, <<>>)
Literal(n)              == Value(Number(n))
Identifier(name)    == Node("identifier", name, NoValue, <<>>)
Binary(op, l, r)    == Node("binary", op, NoValue, <<l, r>>)
Unary(e)            == Node("unary", "-", NoValue, <<e>>)
Sequence(op, es)    == Node("sequence", op, NoValue, es)
Comparison(op, l, r) == Node("comparison", op, NoValue, <<l, r>>)
IfThen(c, t)        == Node("if", "", NoValue, <<c, t>>)
IfThenElse(c, t, e) == Node("if", "", NoValue, <<c, t, e>>)
FunctionCall(name, args) == Node("function", name, NoValue, args)
Array(values)       == Node("array", "", NoValue, values)
Dereference(a, is)  == Node("dereference", "", NoValue, <<a>> \o is)
CallStackSubstitution(arguments, e) ==
    [kind |-> "substitution", op |-> "", num |-> NoValue, args |-> <<e>>,
     arguments |-> arguments]

\* Where an exception was thrown while an expression was being built.
Thrown == Node("thrown", "", NoValue, <<>>)

IsValue(e) == e.kind = "value"
IsIdentifier(e) == e.kind = "identifier"
Is(e, n) == IsValue(e) /\ e.num = Number(n)
IsBinary(e, op) == e.kind = "binary" /\ e.op = op
IsSequence(e, op) == e.kind = "sequence" /\ e.op = op

\* The node and all nodes below it.
RECURSIVE Nodes(_)
Nodes(e) == {e} \cup UNION {Nodes(e.args[i]) : i \in DOMAIN e.args}

HasThrown(e) == Thrown \in Nodes(e)

-----------------------------------------------------------------------------
(* Evaluate.                                                                *)

\* LookupTime: linear interpolation between the two sizes that enclose n, or
\* along the first or the last segment.  The index must be a Real.
Interpolated(vals, sizes, n) ==
    LET k == Len(sizes)
        Encloses(i) == /\ i = 1 \/ ~Less(n, sizes[i].num)
                       /\ i = k - 1 \/ ~Less(sizes[i + 1].num, n)
        Slope(i) == Apply("/", Apply("-", vals[i + 1].num, vals[i].num),
                               Apply("-", sizes[i + 1].num, sizes[i].num))
        Along(i) == Apply("+", vals[i].num,
                          Apply("*", Slope(i), Apply("-", n, sizes[i].num)))
        segments == {i \in 1..(k - 1) : Encloses(i)}
    IN  IF segments = {} THEN NoValue
        ELSE Along(CHOOSE i \in segments : \A j \in segments : i <= j)

Lookup(args) ==
    IF /\ Len(args) = 3 /\ args[1].kind = "array" /\ args[2].kind = "array"
       /\ IsValue(args[3]) /\ Len(args[1].args) = Len(args[2].args)
    THEN Interpolated(args[1].args, args[2].args, args[3].num)
    ELSE NoValue

Rounded(name, a) ==
    CASE name = "floor" -> Number(a[1] \div a[2])
      [] name = "ceil"  -> Number(-((-a[1]) \div a[2]))

RECURSIVE Evaluate(_)

Evaluated(es) == [i \in DOMAIN es |-> Evaluate(es[i])]

EvaluateOperator(op, values) ==
    IF NoValue \in {values[i] : i \in DOMAIN values} THEN NoValue
    ELSE Apply(op, values[1], values[2])

\* All entries are combined from the first on; a sequence without entries throws.
EvaluateSequence(op, values) ==
    IF values = <<>> THEN NoValue
    ELSE FoldLeft(LAMBDA acc, v : Apply(op, acc, v), values[1], Tail(values))

\* Only the operand the test picks is evaluated; without an else it is zero.
EvaluateIf(e, test) ==
    CASE test = NoValue -> NoValue
      [] test # NoValue /\ test # Number(0) -> Evaluate(e.args[2])
      [] OTHER -> IF Len(e.args) = 3 THEN Evaluate(e.args[3]) ELSE Number(0)

EvaluateFunction(name, values) ==
    IF NoValue \in {values[i] : i \in DOMAIN values} THEN NoValue
    ELSE IF name \in {"max", "min"}
    THEN IF Len(values) = 2 THEN Apply(name, values[1], values[2]) ELSE NoValue
    ELSE IF Len(values) = 1 THEN Rounded(name, values[1]) ELSE NoValue

Evaluate(e) ==
    CASE e.kind = "value" -> e.num
      [] e.kind \in {"binary", "comparison"} -> EvaluateOperator(e.op, Evaluated(e.args))
      [] e.kind = "unary" -> Apply("-", Number(0), Evaluate(e.args[1]))
      [] e.kind = "sequence" -> EvaluateSequence(e.op, Evaluated(e.args))
      [] e.kind = "if" -> EvaluateIf(e, Evaluate(e.args[1]))
      [] e.kind = "function" ->
           IF e.op = "lookup" THEN Lookup(e.args) ELSE EvaluateFunction(e.op, Evaluated(e.args))
      [] e.kind = "substitution" -> Evaluate(e.args[1])
      [] OTHER -> NoValue

-----------------------------------------------------------------------------
(* The parameter stack and expansion.                                       *)

ParameterStack(globals) ==
    [GlobalValues |-> globals, LocalStack |-> <<>>, localExpansionOnly |-> FALSE]

Unbound == <<>>

\* Find: the innermost local frame that has the name, then, unless only local
\* names are expanded, the global map pushed last.
Find(stack, name) ==
    LET maps == (IF stack.localExpansionOnly THEN <<>> ELSE stack.GlobalValues)
                    \o stack.LocalStack
        with == {i \in DOMAIN maps : name \in DOMAIN maps[i]}
    IN  IF with = {} THEN Unbound
        ELSE <<maps[CHOOSE i \in with : \A j \in with : j <= i][name]>>

\* The element an index names.  An index out of range throws inside the try
\* block after the expanded index was deleted, and the handler then builds a
\* node on the deleted index: no such index is enumerated.
RECURSIVE Element(_, _)
Element(array, indices) ==
    IF indices = <<>> THEN array
    ELSE IF Head(indices) \in 0..(Len(array.args) - 1)
         THEN Element(array.args[Head(indices) + 1], Tail(indices)) ELSE Thrown

\* An index without a value leaves the dereference as it is.
Dereferenced(array, indices, values) ==
    IF \E i \in DOMAIN values : values[i] = NoValue THEN Dereference(array, indices)
    ELSE Element(array, [i \in DOMAIN values |-> Truncated(values[i])])

RECURSIVE Expanded(_, _, _)

ExpandedName(name, stack, expandedset) ==
    LET found == Find(stack, name)
    IN  IF found = Unbound THEN Identifier(name)
        ELSE IF name \in expandedset THEN Thrown
        ELSE Expanded(found[1], stack, expandedset \cup {name})

ExpandedElement(e, stack, expandedset) ==
    LET array   == Head(e.args)
        indices == [i \in DOMAIN Tail(e.args) |->
                        Expanded(Tail(e.args)[i], stack, expandedset)]
        found   == IF array.kind = "array" THEN <<array>>
                   ELSE IF IsIdentifier(array) THEN Find(stack, array.op) ELSE Unbound
    IN  IF found = Unbound
        THEN Dereference(Expanded(array, stack, expandedset), indices)
        ELSE Dereferenced(found[1], indices, [i \in DOMAIN indices |-> Evaluate(indices[i])])

\* The arguments of a call are put in alone, then the rest is expanded.
ExpandedSubstitution(e, stack, expandedset) ==
    Expanded(Expanded(e.args[1], ParameterStack(<<e.arguments>>), {}), stack, expandedset)

ExpandedOperands(e, stack, expandedset) ==
    [e EXCEPT !.args = [i \in DOMAIN e.args |-> Expanded(e.args[i], stack, expandedset)]]

Expanded(e, stack, expandedset) ==
    CASE e.kind = "identifier" -> ExpandedName(e.op, stack, expandedset)
      [] e.kind = "dereference" -> ExpandedElement(e, stack, expandedset)
      [] e.kind = "substitution" -> ExpandedSubstitution(e, stack, expandedset)
      [] e.kind \in {"value", "array", "thrown"} -> e
      [] OTHER -> ExpandedOperands(e, stack, expandedset)

\* ExpandInPlace, which the code calls only on nodes with operands: an operand
\* that is a name is replaced by its expansion, any other is expanded in place.
RECURSIVE ExpandedInPlace(_, _)
IsName(e) == e.kind \in {"identifier", "dereference"}
OperandInPlace(e, stack) ==
    IF IsName(e) THEN Expanded(e, stack, {}) ELSE ExpandedInPlace(e, stack)

OperandsInPlace(e, stack) ==
    [e EXCEPT !.args = [i \in DOMAIN e.args |-> OperandInPlace(e.args[i], stack)]]

SubstitutionInPlace(e, stack) ==
    LET bound == ParameterStack(<<e.arguments>>)
        inner == e.args[1]
    IN  [e EXCEPT !.args =
           <<IF IsName(inner) THEN Expanded(Expanded(inner, bound, {}), stack, {})
             ELSE ExpandedInPlace(ExpandedInPlace(inner, bound), stack)>>]

\* Where the second operand of an if is no name the test is expanded a second
\* time and the operand is not.
IfInPlace(e, stack) ==
    LET test == OperandInPlace(e.args[1], stack)
        then == e.args[2]
    IN  [e EXCEPT !.args =
           <<IF IsName(then) THEN test ELSE ExpandedInPlace(test, stack),
             IF IsName(then) THEN Expanded(then, stack, {}) ELSE then>>
           \o [i \in 1..(Len(e.args) - 2) |-> OperandInPlace(e.args[i + 2], stack)]]

ExpandedInPlace(e, stack) ==
    CASE e.kind \in {"value", "thrown"} -> e
      [] IsName(e) \/ e.kind = "array" -> Thrown
      [] e.kind = "substitution" -> SubstitutionInPlace(e, stack)
      [] e.kind = "if" -> IfInPlace(e, stack)
      [] OTHER -> OperandsInPlace(e, stack)

\* EvaluateWithExpansion: an exception of either step leaves no value.
ValueOf(expanded) == IF HasThrown(expanded) THEN NoValue ELSE Evaluate(expanded)
EvaluateWithExpansion(e, stack) == ValueOf(Expanded(e, stack, {}))

-----------------------------------------------------------------------------
(* Simplification.  Simplified takes one hundred of these steps.             *)

RECURSIVE OneStepSimplified(_)
AllSimplified(es) == [i \in DOMAIN es |-> OneStepSimplified(es[i])]

\* The rules of BinaryExpr, the first that applies.
SimplifiedBinary(e) ==
    LET op == e.op
        l  == e.args[1]
        r  == e.args[2]
        Parts(x) == IF x.kind = "binary" /\ x.op = op
                    THEN AllSimplified(x.args) ELSE <<OneStepSimplified(x)>>
        matching == op \in {"+", "*"} /\ (IsBinary(l, op) \/ IsBinary(r, op))
        SumWithNumber(x) == IsBinary(x, "+") /\ \E i \in 1..2 : IsValue(x.args[i])
        Distributed(sum, v) ==
            LET i == IF IsValue(sum.args[1]) THEN 1 ELSE 2
            IN  Binary("+", Value(Apply("*", sum.args[i].num, v.num)),
                       Binary("*", OneStepSimplified(sum.args[3 - i]), v))
    IN  IF op = "+" /\ Is(l, 0) THEN OneStepSimplified(r)
        ELSE IF op \in {"+", "-"} /\ Is(r, 0) THEN OneStepSimplified(l)
        ELSE IF op = "*" /\ Is(l, 1) THEN OneStepSimplified(r)
        ELSE IF op \in {"*", "/"} /\ Is(r, 1) THEN OneStepSimplified(l)
        ELSE IF op = "*" /\ (Is(l, 0) \/ Is(r, 0)) THEN Literal(0)
        ELSE IF op = "/" /\ Is(l, 0) THEN Literal(0)
        ELSE IF op = "/" /\ IsValue(r)
             THEN Binary("*", OneStepSimplified(l), Value(Apply("/", Number(1), r.num)))
        ELSE IF op = "*" /\ IsValue(r) /\ SumWithNumber(l) THEN Distributed(l, r)
        ELSE IF op = "*" /\ IsValue(l) /\ SumWithNumber(r) THEN Distributed(r, l)
        ELSE IF IsValue(l) /\ IsValue(r) THEN Value(Evaluate(e))
        ELSE IF matching THEN Sequence(op, Parts(l) \o Parts(r))
        ELSE IF IsSequence(l, op) THEN Sequence(op, Append(l.args, OneStepSimplified(r)))
        ELSE IF IsSequence(r, op) THEN Sequence(op, Append(r.args, OneStepSimplified(l)))
        ELSE Binary(op, OneStepSimplified(l), OneStepSimplified(r))

\* Numbers are combined into one, put last and left out where it changes
\* nothing, and entries with the same operator are merged into the sequence.
Combined(e) ==
    LET Merges(x) == x.kind \in {"binary", "sequence"} /\ x.op = e.op
        Add(acc, x) ==
            acc \o (IF IsValue(x) THEN <<>>
                    ELSE IF Merges(x) THEN AllSimplified(x.args)
                    ELSE <<OneStepSimplified(x)>>)
        Times(v, x) == Apply(e.op, v, x.num)
        others == FoldLeft(Add, <<>>, e.args)
        values == SelectSeq(e.args, IsValue)
        value  == FoldLeft(Times, Head(values).num, Tail(values))
        identity == \/ e.op = "*" /\ value = Number(1)
                    \/ e.op = "+" /\ value = Number(0)
    IN  Sequence(e.op, IF values = <<>> \/ (identity /\ others # <<>>)
                       THEN others ELSE Append(others, Value(value)))

\* The names an entry of a sum is a multiple of, in the order looked at.
Factors(x) ==
    LET named == IF IsIdentifier(x) THEN <<x>>
                 ELSE IF IsBinary(x, "*") \/ IsSequence(x, "*")
                 THEN SelectSeq(x.args, IsIdentifier) ELSE <<>>
    IN  [i \in DOMAIN named |-> named[i].op]

\* A mutant of Cofactor: the first factor is left out, whichever it is.
CofactorFirst(x, id) ==
    IF IsIdentifier(x) THEN Literal(1)
    ELSE IF IsBinary(x, "*") THEN OneStepSimplified(x.args[2])
    ELSE Sequence("*", Tail(AllSimplified(x.args)))

\* What is left of an entry without its first factor id: nothing at all of a
\* product sequence that has no other entry.
Cofactor(x, id) ==
    LET i    == CHOOSE j \in DOMAIN x.args :
                    /\ x.args[j] = Identifier(id)
                    /\ \A k \in 1..(j - 1) : x.args[k] # Identifier(id)
        rest == RemoveAt(AllSimplified(x.args), i)
    IN  IF IsIdentifier(x) THEN Literal(1)
        ELSE IF IsBinary(x, "*") THEN rest[1] ELSE Sequence("*", rest)

\* The first name found among the entries is factored out of those that have it.
Factored(e, id) ==
    LET Has(x)  == \E i \in DOMAIN Factors(x) : Factors(x)[i] = id
        HasNot(x) == ~Has(x)
        having  == SelectSeq(e.args, Has)
        withID  == [i \in DOMAIN having |-> Cofactor(having[i], id)]
        without == AllSimplified(SelectSeq(e.args, HasNot))
        newterm == IF Len(withID) > 1
                   THEN Binary("*", Identifier(id), Sequence("+", withID))
                   ELSE IF IsIdentifier(having[1]) THEN Identifier(id)
                   ELSE Binary("*", Identifier(id), withID[1])
    IN  IF without = <<>> THEN newterm ELSE Sequence("+", Append(without, newterm))

SimplifiedSequence(e) ==
    LET Merges(x) == x.kind \in {"binary", "sequence"} /\ x.op = e.op
        identity == \E i \in DOMAIN e.args : \/ e.op = "*" /\ Is(e.args[i], 1)
                                             \/ e.op = "+" /\ Is(e.args[i], 0)
        Names(acc, x) == acc \o Factors(x)
        names == FoldLeft(Names, <<>>, e.args)
    IN  IF Len(e.args) = 1 THEN OneStepSimplified(e.args[1])
        ELSE IF \/ \E i \in DOMAIN e.args : Merges(e.args[i])
                \/ identity
                \/ Len(SelectSeq(e.args, IsValue)) > 1
        THEN Combined(e)
        ELSE IF e.op = "+" /\ Len(e.args) > 2 /\ names # <<>>
        THEN Factored(e, Head(names))
        ELSE Sequence(e.op, AllSimplified(e.args))

\* Unary expressions, comparisons and function calls of numbers.
SimplifiedOperator(e) ==
    IF \A i \in DOMAIN e.args : IsValue(e.args[i]) THEN Value(Evaluate(e))
    ELSE [e EXCEPT !.args = AllSimplified(e.args)]

SimplifiedIf(e) ==
    CASE ~IsValue(e.args[1]) -> [e EXCEPT !.args = AllSimplified(e.args)]
      [] IsValue(e.args[1]) /\ ~Is(e.args[1], 0) -> OneStepSimplified(e.args[2])
      [] Is(e.args[1], 0) ->
           IF Len(e.args) = 3 THEN OneStepSimplified(e.args[3]) ELSE Literal(0)

OneStepSimplified(e) ==
    CASE e.kind = "binary" -> SimplifiedBinary(e)
      [] e.kind = "sequence" -> SimplifiedSequence(e)
      [] e.kind \in {"unary", "comparison", "function"} -> SimplifiedOperator(e)
      [] e.kind = "if" -> SimplifiedIf(e)
      [] OTHER -> e
=============================================================================
