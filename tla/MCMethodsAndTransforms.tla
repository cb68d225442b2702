------------------------ MODULE MCMethodsAndTransforms ------------------------
EXTENDS MethodsAndTransforms, TLC
Symmetry == Permutations(Requests) \cup Permutations(Tenants) \cup Permutations(Names)
==============================================================================
