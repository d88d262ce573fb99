------------------------------ MODULE AspenMach ------------------------------
(***************************************************************************)
(* An abstract machine of the Aspen language (aspen/mach) and the formula   *)
(* of the time an execution block takes on one of its sockets.              *)
(*                                                                          *)
(* A component has a type, a name, the resources it provides (a function    *)
(* from their names), the pairs of resources that conflict, and its         *)
(* subcomponents, each with an optional quantity.                           *)
(***************************************************************************)
EXTENDS AspenApp
LOCAL INSTANCE SequencesExt

\* Names of resources in the order of a map<string, _>.
ResourceNames == <<"flops", "intracomm", "loads", "messages", "stores">>
Rank(r) == CHOOSE i \in DOMAIN ResourceNames : ResourceNames[i] = r

\* A resource of a component: the formula of the time an amount named arg
\* takes, and the traits that change it, with "base" for what they change.
ASTMachResource(arg, quantity, traits) ==
    [arg |-> arg, quantity |-> quantity, traits |-> traits]
TraitDefinition(name, arg, quantity) ==
    [name |-> name, arg |-> arg, quantity |-> quantity]

Component(type, name, resources, conflicts, subcomponents) ==
    [type |-> type, name |-> name, resources |-> resources,
     conflicts |-> conflicts, subcomponents |-> subcomponents]
\* Quantity is empty or holds one formula.
SubComponent(component, quantity) == [component |-> component, quantity |-> quantity]

\* A component of the restricted type but not of the restricted name is not
\* looked at, and neither is what is below it.
MappingRestriction(type, name) == [type |-> type, name |-> name]
Excluded(c, restriction) == restriction.type = c.type /\ restriction.name # c.name

Bind(name, e) == [n \in {name} |-> e]

\* The time of the resource at the component itself, every trait of the
\* requirement that is defined for it applied in turn.
GetSelfTimeExpression(c, resource, traits, value) ==
    LET r == c.resources[resource]
        Applied(expr, trait) ==
            LET with == {i \in DOMAIN r.traits : r.traits[i].name = trait.name}
                t    == r.traits[CHOOSE i \in with : \A j \in with : i <= j]
                argmap == IF t.arg = "" THEN Bind("base", expr)
                          ELSE [n \in {"base", t.arg} |->
                                   IF n = t.arg THEN trait.value ELSE expr]
            IN  IF with = {} THEN expr
                ELSE IF t.arg # "" /\ trait.value = Null THEN Thrown
                ELSE Expanded(t.quantity, ParameterStack(<<argmap>>), {})
        time == Expanded(r.quantity, ParameterStack(<<Bind(r.arg, value)>>), {})
    IN  FoldLeft(Applied, time, traits)

\* The first component that provides the resource, the component itself, then
\* its subcomponents in turn.
RECURSIVE GetSerialTimeExpression(_, _, _, _, _)
GetSerialTimeExpression(c, resource, traits, value, restriction) ==
    LET Of(i) == GetSerialTimeExpression(c.subcomponents[i].component, resource,
                                         traits, value, restriction)
        with == {i \in DOMAIN c.subcomponents : Of(i) # Null}
    IN  IF Excluded(c, restriction) THEN Null
        ELSE IF resource \in DOMAIN c.resources
        THEN GetSelfTimeExpression(c, resource, traits, value)
        ELSE IF with = {} THEN Null
        ELSE Of(CHOOSE i \in with : \A j \in with : i <= j)

\* How many there are of that component: the product of the quantities on the
\* way down to it.
RECURSIVE GetTotalQuantityExpression(_, _, _)
GetTotalQuantityExpression(c, resource, restriction) ==
    LET Of(i) == GetTotalQuantityExpression(c.subcomponents[i].component, resource,
                                            restriction)
        with == {i \in DOMAIN c.subcomponents : Of(i) # Null}
        first == CHOOSE i \in with : \A j \in with : i <= j
        quantity == c.subcomponents[first].quantity
    IN  IF Excluded(c, restriction) THEN Null
        ELSE IF resource \in DOMAIN c.resources THEN Literal(1)
        ELSE IF with = {} THEN Null
        ELSE IF quantity = <<>> THEN Of(first)
        ELSE Binary("*", Of(first), quantity[1])

RECURSIVE CheckConflict(_, _, _, _)
CheckConflict(c, ra, rb, restriction) ==
    /\ ~Excluded(c, restriction)
    /\ \/ {ra, rb} \in c.conflicts
       \/ \E i \in DOMAIN c.subcomponents :
             CheckConflict(c.subcomponents[i].component, ra, rb, restriction)

-----------------------------------------------------------------------------
(* ASTExecutionBlock::GetTimeExpression.                                    *)

\* The time of one requires statement: as many rounds as the parallelism
\* needs of the components there are.  A resource no component provides
\* makes a formula without an operand, which throws.
TimeOfRounds(parallelism, sertime, quant) ==
    IF sertime = Null \/ quant = Null THEN Thrown
    ELSE Binary("*", FunctionCall("ceil", <<Binary("/", parallelism, quant)>>), sertime)
RequirementTime(block, s, machine, restriction) ==
    TimeOfRounds(block.parallelism,
        GetSerialTimeExpression(machine, s.resource, s.traits, s.quantity, restriction),
        GetTotalQuantityExpression(machine, s.resource, restriction))

\* The requirements of a block, a sum of times for every resource.
TimesByResource(block, machine, restriction) ==
    LET Of(r) == SelectSeq(block.statements, LAMBDA s : s.resource = r)
        Times(r) == [i \in DOMAIN Of(r) |->
                        RequirementTime(block, Of(r)[i], machine, restriction)]
    IN  [r \in {block.statements[i].resource : i \in DOMAIN block.statements} |->
            Chained(Times(r))]

\* The folding of conflicting resources: the requirements that are not folded
\* yet and the sets of resources that conflict, each with its sum of times.
Folding(requirements, conflicting) ==
    [requirements |-> requirements, conflicting |-> conflicting]

\* The order of a map<set<string>, _>.
RankSeq(S) == SetToSortSeq({Rank(r) : r \in S}, <)
SetBefore(S, T) ==
    LET s == RankSeq(S)
        t == RankSeq(T)
        differ == {i \in DOMAIN s \cap DOMAIN t : s[i] # t[i]}
        first == CHOOSE i \in differ : \A j \in differ : i <= j
    IN  IF differ = {} THEN Len(s) < Len(t) ELSE s[first] < t[first]

FirstName(S) == CHOOSE r \in S : \A q \in S : Rank(r) <= Rank(q)
FirstSet(SS) == CHOOSE S \in SS : \A T \in SS : S = T \/ SetBefore(S, T)

Without(f, S) == [x \in DOMAIN f \ S |-> f[x]]
With(f, x, e) == [y \in DOMAIN f \cup {x} |-> IF y = x THEN e ELSE f[y]]

\* The first requirement that conflicts with a member of a folded set joins
\* the first such set.
Joined(f, conflicts) ==
    LET Meets(r) == {S \in DOMAIN f.conflicting : \E c \in S : {r, c} \in conflicts}
        req  == FirstName({r \in DOMAIN f.requirements : Meets(r) # {}})
        conf == FirstSet(Meets(req))
        sum  == Binary("+", f.conflicting[conf], f.requirements[req])
    IN  Folding(Without(f.requirements, {req}),
                With(Without(f.conflicting, {conf}), conf \cup {req}, sum))

\* The first two requirements that conflict start a set.
Paired(f, conflicts) ==
    LET Meets(r) == {q \in DOMAIN f.requirements \ {r} : {r, q} \in conflicts}
        req1 == FirstName({r \in DOMAIN f.requirements : Meets(r) # {}})
        req2 == FirstName(Meets(req1))
        sum  == Binary("+", f.requirements[req1], f.requirements[req2])
    IN  Folding(Without(f.requirements, {req1, req2}),
                With(f.conflicting, {req1, req2}, sum))

JoinsSet(f, conflicts) ==
    \E r \in DOMAIN f.requirements, c \in UNION DOMAIN f.conflicting : {r, c} \in conflicts
MakesPair(f, conflicts) ==
    \E r, q \in DOMAIN f.requirements : r # q /\ {r, q} \in conflicts

\* A mutant of FoldedOnce: pairs are looked for first.
FoldedOncePairsFirst(f, conflicts) ==
    IF MakesPair(f, conflicts) THEN Paired(f, conflicts)
    ELSE IF JoinsSet(f, conflicts) THEN Joined(f, conflicts) ELSE f

\* A turn of the loop: pairs are looked for only when nothing joined a set.
FoldedOnce(f, conflicts) ==
    IF JoinsSet(f, conflicts) THEN Joined(f, conflicts)
    ELSE IF MakesPair(f, conflicts) THEN Paired(f, conflicts) ELSE f

\* Whatever does not conflict overlaps: the block takes as long as the
\* longest of the requirements and the folded sets.
Longest(f) ==
    LET singles == SetToSortSeq(DOMAIN f.requirements, LAMBDA r, q : Rank(r) < Rank(q))
        sets    == SetToSortSeq(DOMAIN f.conflicting, SetBefore)
        times   == [i \in DOMAIN singles |-> f.requirements[singles[i]]]
                       \o [i \in DOMAIN sets |-> f.conflicting[sets[i]]]
        Later(acc, e) == FunctionCall("max", <<acc, e>>)
    IN  FoldLeft(Later, Head(times), Tail(times))

RECURSIVE FullyFolded(_, _)
FullyFolded(f, conflicts) ==
    LET next == FoldedOnce(f, conflicts)
    IN  IF next = f THEN f ELSE FullyFolded(next, conflicts)

\* The pairs among some resources that conflict on the socket.
Conflicts(names, machine, restriction) ==
    {pair \in {{ra, rb} : ra, rb \in names} :
        \E ra, rb \in names : pair = {ra, rb} /\ CheckConflict(machine, ra, rb, restriction)}

GetTimeExpression(block, machine, socket) ==
    LET restriction == MappingRestriction("socket", socket)
        names == {block.statements[i].resource : i \in DOMAIN block.statements}
    IN  IF names = {} THEN Literal(0)
        ELSE Longest(FullyFolded(Folding(TimesByResource(block, machine, restriction), <<>>),
                                 Conflicts(names, machine, restriction)))
=============================================================================
