-------------------------- MODULE MCAlarmDefinitions --------------------------
EXTENDS AlarmDefinitions, TLC
CONSTANTS d1, m1, cpu, gt90, gt95

E90 == <<[key |-> cpu, test |-> gt90]>>
E95 == <<[key |-> cpu, test |-> gt95]>>
MCExpressions == {E90, E95}
MCLower == [k \in {cpu} |-> k]
OneExpression == {E90}

Act(S) == [s \in AlarmStates |-> S]
Full == [name |-> "n", expr |-> E95, details |-> "low", enabled |-> "true",
         actions |-> Act({m1})]
Partial == [name |-> "n", expr |-> E90, details |-> None, enabled |-> None,
            actions |-> Act(None)]

\* Well formed: one body, or that one and one that leaves out what it can.
FullBody == {Full}
TwoBodies == {Full, Partial}
\* With the bodies the handlers refuse or trip over, all with one expression.
MCBodies == {[Full EXCEPT !.expr = E90], [Partial EXCEPT !.name = None],
             [Partial EXCEPT !.expr = None], [Partial EXCEPT !.expr = Unparsable]}

Symmetry == Permutations(Requests)
==============================================================================
