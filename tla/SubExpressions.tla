---------------------------- MODULE SubExpressions ----------------------------
(***************************************************************************)
(* How an update of an alarm definition finds out which of its             *)
(* sub-expressions were kept, changed, removed and added                   *)
(* (update_or_patch_alarm_definition of the MySQL repository).             *)
(*                                                                         *)
(* A sub-expression such as max(cpu{host=a}, 60) > 90 times 3 is a record  *)
(* [key, test]: the key stands for function, metric name, dimensions,      *)
(* period and periods, the test for the operator and the threshold.  A row *)
(* of table sub_alarm_definition is [id, key, test].                       *)
(***************************************************************************)

\* SubAlarmDefinition.__eq__ and __hash__: everything but the id counts.
Value(row) == [key |-> row.key, test |-> row.test]

\* SubAlarmDefinition.same_key_fields: everything but operator and threshold.
SameEverything(s, t) == s.key = t.key /\ s.test = t.test   \* mutant
SameKeyFields(s, t) == s.key = t.key

\* set(old_sub_alarm_defs_dict_by_id.values()): of rows that are equal, a
\* Python set keeps the one it meets first, which may be any of them.
OldSets(rows) ==
    {S \in SUBSET rows :
        /\ \A row \in rows : \E s \in S : Value(s) = Value(row)
        /\ \A s, t \in S : Value(s) = Value(t) => s = t}

\* "Find changed expressions": for every old row that has new ones with the
\* same key fields, the new one the inner loop meets last.
Pairings(outdated, missing) ==
    LET matched == {s \in outdated : \E e \in missing : SameKeyFields(s, e)}
    IN  {f \in [matched -> missing] : \A s \in matched : SameKeyFields(s, f[s])}

\* The old rows without a counterpart (`temp` in the code).
NothingRemoved(outdated, pairing) == {}   \* mutant: temp is never filled
Removed(outdated, pairing) == {s.id : s \in outdated \ DOMAIN pairing}

\* The four parts an update is cut into, given the set of old rows and the
\* pairing the loops arrived at.  `removed` and `unchanged` are ids, `changed`
\* maps an id to its new value, `added` are values that get an id later.
DiffOf(rows, old, wanted, missing, pairing) ==
    LET outdated == {s \in old : Value(s) \notin wanted}
    IN  [removed   |-> Removed(outdated, pairing),
         changed   |-> {[id |-> s.id, key |-> pairing[s].key, test |-> pairing[s].test] :
                            s \in DOMAIN pairing},
         added     |-> {e \in missing :
                            ~ \E s \in DOMAIN pairing : SameKeyFields(s, e)},
         unchanged |-> {row.id : row \in rows} \ {s.id : s \in outdated}]

\* new_or_changed_sub_alarm_defs_set
AllWanted(rows, wanted) == wanted   \* mutant: the old set is not taken away
Missing(rows, wanted) == wanted \ {Value(row) : row \in rows}

\* Every outcome of the diff of the stored rows against the sub-expressions of
\* the new expression: the order of Python's sets is not determined.
Diffs(rows, wanted) ==
    LET missing == Missing(rows, wanted)
    IN  UNION {{DiffOf(rows, old, wanted, missing, pairing) :
                    pairing \in Pairings({s \in old : Value(s) \notin wanted}, missing)} :
               old \in OldSets(rows)}

\* The delete loop binds the SubAlarmDefinition object, not its id, to
\* "where id = %s" (`for ... in old_sub_alarm_defs_dict_by_id.values()`): no
\* row has an id that is the text of an object, so no row is deleted.
DeleteRemoved(rows, diff) == rows

NothingUpdated(rows, diff) == rows   \* mutant
\* The UPDATE of the changed rows sets operator and threshold, by id.
UpdateChanged(rows, diff) ==
    {IF \E c \in diff.changed : c.id = row.id
       THEN [row EXCEPT !.test = (CHOOSE c \in diff.changed : c.id = row.id).test]
       ELSE row : row \in rows}

==============================================================================
