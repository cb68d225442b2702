----------------------------- MODULE MCIngestion -----------------------------
(* Eight processes: the reference dispatcher, synchronous as in etc/monasca.conf    *)
(* and asynchronous as by default, or with a format that fails, behind the          *)
(* validator or not; the Kafka dispatcher, which drops data or not, and which       *)
(* forwards compact bodies, behind the validator or not.                            *)
EXTENDS Ingestion, TLC

Options(async, compact, drop, format, dispatcher, validator) ==
    [async |-> async, compact |-> compact, dropData |-> drop, format |-> format,
     dispatcher |-> dispatcher, validator |-> validator]
MCConfigurations ==
    {Options(a, FALSE, FALSE, "identity", "reference", FALSE) : a \in BOOLEAN}
    \cup {Options(FALSE, FALSE, FALSE, "reference", "reference", v) : v \in BOOLEAN}
    \cup {Options(FALSE, FALSE, drop, "identity", "kafka", FALSE) : drop \in BOOLEAN}
    \cup {Options(FALSE, TRUE, FALSE, "identity", "kafka", v) : v \in BOOLEAN}
Symmetry == Permutations(Requests)
==============================================================================
