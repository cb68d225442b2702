------------------------------- MODULE MCAlarms -------------------------------
(* One definition, of tenant t1, with all the alarms. *)
EXTENDS Alarms, TLC
CONSTANTS d1, t1

MCDefinitionOf == [a \in Alarms |-> d1]
MCTenantOf == [d \in {d1} |-> t1]
Symmetry == Permutations(Requests)
==============================================================================
