----------------------- MODULE MCSubExpressionUpdates -----------------------
(* One metric with three tests, the same metric in capitals, another metric; *)
(* expressions of one or two sub-expressions.                                *)
EXTENDS SubExpressionUpdates, FiniteSets
CONSTANTS cpu, CPU, disk, gt90, gt95, lt10
MCKeys == {cpu, CPU, disk}
MCTests == {gt90, gt95, lt10}
MCLower == [k \in MCKeys |-> IF k = CPU THEN cpu ELSE k]
MCSubExprs == [key : {cpu}, test : MCTests]
                \cup {[key |-> CPU, test |-> gt90], [key |-> disk, test |-> gt90]}
MCExpressions == {E \in SUBSET MCSubExprs : Cardinality(E) \in 1..2}
=============================================================================
