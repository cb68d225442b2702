----------------------------- MODULE MCExpressions -----------------------------
(* All texts of seven tokens, whose sub-expressions are alike, and single       *)
(* sub-expressions that are spelled in different ways.                          *)
EXTENDS Expressions

PlainSub == [func |-> "max", metric |-> "cpu", dims |-> <<>>, period |-> <<>>, op |-> "<",
             threshold |-> [value |-> 20, exponent |-> FALSE], periods |-> <<>>]
Token(kind, sub) == [kind |-> kind, sub |-> sub]
Kinds == {"sub", "(", ")", "and", "or"}
Shapes == UNION {[1..n -> {Token(k, PlainSub) : k \in Kinds}] : n \in 0..7}

Number(n, zeros) == [n |-> n, zeros |-> zeros]
Spelled ==
    {[PlainSub EXCEPT !.metric = m, !.op = o, !.period = p, !.periods = n, !.threshold.value = v] :
        m \in {"cpu", "CPU"}, o \in {"<", "gt"}, p \in {<<>>, <<Number(60, 0)>>, <<Number(60, 1)>>},
        n \in {<<>>, <<Number(3, 0)>>}, v \in {1, 21}}
    \cup {PlainSub} \cup {[PlainSub EXCEPT !.dims = d] : d \in {<<<<"host", "a">>>>, <<<<"host", "b">>, <<"host", "a">>>>}}
Pair(s, u) == <<Token("sub", s), Token("and", s), Token("sub", u)>>
MCEdits == {<<Token("sub", s)>> : s \in Spelled}
             \cup {Pair(PlainSub, [PlainSub EXCEPT !.threshold.value = v]) : v \in {1, 21}}
MCTexts == Shapes \cup MCEdits
MCLower == [m \in {"cpu", "CPU"} |-> "cpu"]
==============================================================================
