------------------------- MODULE SubExpressionUpdates -------------------------
(***************************************************************************)
(* The life of the sub_alarm_definition rows of one alarm definition that  *)
(* is created with one expression and then updated with others, one        *)
(* request after the other: nothing runs concurrently here, so whatever    *)
(* goes wrong is the doing of the diff of module SubExpressions.           *)
(***************************************************************************)
EXTENDS SubExpressions, Naturals

CONSTANTS Keys,         \* metric, function, dimensions, period and periods
          Tests,        \* operator and threshold
          Lower,        \* the key with its metric name in lower case
          Expressions,  \* the sets of sub-expressions that requests bring
          MaxUpdates    \* bound: how many updates a behaviour has
SubExprs == [key : Keys, test : Tests]
ASSUME ExpressionsAssumption == Expressions \subseteq ((SUBSET SubExprs) \ {{}})
ASSUME LowerAssumption == Lower \in [Keys -> Keys]
ASSUME MaxUpdatesAssumption == MaxUpdates \in Nat

VARIABLES rows,     \* sub_alarm_definition rows of the definition
          wanted,   \* the sub-expressions of the expression last stored
          diff,     \* the diff of the last update, as its event reports it
          before,   \* history: the rows the last update found
          updates   \* history: updates made so far
vars == <<rows, wanted, diff, before, updates>>

NoDiff == [removed |-> {}, changed |-> {}, added |-> {}, unchanged |-> {}]

\* Ids are fresh uuids: here the update and the value they were made for.
NewRow(u, e) == [id |-> <<u, e>>, key |-> e.key, test |-> e.test]

\* create_alarm_definition inserts one row for every sub-expression, with the
\* normalized (lower case) metric name.
CreatedRow(e) == [NewRow(0, e) EXCEPT !.key = Lower[e.key]]
Init ==
    /\ wanted \in Expressions
    /\ rows = {CreatedRow(e) : e \in wanted}
    /\ diff = NoDiff
    /\ before = {}
    /\ updates = 0

\* update_or_patch_alarm_definition with an expression, from its first read of
\* the rows to its last insert.
Update(expression) ==
    /\ updates < MaxUpdates
    /\ \E d \in Diffs(rows, expression) :
        /\ diff' = d
        /\ rows' = UpdateChanged(DeleteRemoved(rows, d), d)
                     \cup {NewRow(updates + 1, e) : e \in d.added}
    /\ wanted' = expression
    /\ before' = rows
    /\ updates' = updates + 1

Next == \E expression \in Expressions : Update(expression)
Spec == Init /\ [][Next]_vars
------------------------------------------------------------------------------
Ids(S) == {row.id : row \in S}
Values(S) == {Value(row) : row \in S}
UniqueKeys(S) == \A s, t \in S : s.key = t.key => s = t
UniqueValues(S) == \A s, t \in S : Value(s) = Value(t) => s = t

\* After an update every sub-expression of the stored expression has a row,
\* as long as no two of them have the same key fields.  The rows are what the
\* threshold engine reads back when it restarts.  This is so of every update the
\* code accepts, those with other metrics or another number of sub-expressions
\* among them, which the documentation has refused (MetricsAndNumberKept of
\* module Expressions).
UpdatedExpressionStored ==
    updates > 0 /\ UniqueKeys(wanted) => wanted \subseteq Values(rows)

\* A row that is not part of the stored expression was reported as removed by
\* the update that stored the expression: the engine is told to drop it, even
\* when it was left over by an update before the last one.
OutdatedRowsReported ==
    updates > 0 /\ UniqueKeys(wanted) /\ UniqueValues(before) =>
        \A row \in rows : Value(row) \notin wanted => row.id \in diff.removed

\* Where every key occurs once on each side, the loops over Python sets find
\* what a reader would call the difference.
DiffMeetsReference ==
    updates > 0 /\ UniqueKeys(before) /\ UniqueKeys(wanted) =>
        LET Same(row, e) == row.key = e.key
        IN  /\ diff.removed = Ids({row \in before : ~ \E e \in wanted : Same(row, e)})
            /\ diff.added = {e \in wanted : ~ \E row \in before : Same(row, e)}
            /\ diff.unchanged = Ids({row \in before : Value(row) \in wanted})
            /\ diff.changed = {[id |-> p[1].id, key |-> p[2].key, test |-> p[2].test] :
                                p \in {q \in before \X wanted :
                                        Same(q[1], q[2]) /\ Value(q[1]) # q[2]}}

\* Repeating an update, as a client does whose answer was lost, changes no row
\* and reports nothing but rows that are unchanged or already reported removed.
RepeatedUpdateChangesNothing ==
    [][updates > 0 /\ wanted' = wanted /\ UniqueKeys(wanted) /\ UniqueValues(before)
        => /\ rows' = rows
           /\ diff'.changed = {} /\ diff'.added = {}
           /\ diff'.removed = diff.removed]_vars
------------------------------------------------------------------------------
\* What a comment of the repository says and the code does not do.

\* "Delete the old sub alarm definitions": what an update reports as removed
\* is no longer stored.
RemovedRowsAreDeleted == diff.removed \cap Ids(rows) = {}
==============================================================================
