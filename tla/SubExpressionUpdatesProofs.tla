----------------------- MODULE SubExpressionUpdatesProofs -----------------------
(***************************************************************************)
(* Theorems about the diff of an update and the rows it leaves behind      *)
(* (SubExpressions, SubExpressionUpdates), for any keys, tests and         *)
(* expressions and any number of updates.                                  *)
(***************************************************************************)
EXTENDS SubExpressionUpdates, TLAPS

USE ExpressionsAssumption, LowerAssumption, MaxUpdatesAssumption

------------------------------------------------------------------------------
(* An update, given the set of old rows and the pairing it arrives at.     *)

\* Ids come from the update that made them, so no two rows have one.
RowsInv ==
    /\ updates \in Nat /\ wanted \in Expressions
    /\ \A row \in rows :
        /\ row = [id |-> row.id, key |-> row.key, test |-> row.test]
        /\ \E u \in 0..updates, e \in SubExprs : row.id = <<u, e>>
    /\ \A s, t \in rows : s.id = t.id => s = t

\* A row that is not wanted any more, and its new test where it has one.
Stale(s, W) == Value(s) \notin W
Paired(f, s) == s \in DOMAIN f
After(f, s) == IF Paired(f, s) THEN [s EXCEPT !.test = f[s].test] ELSE s
Changes(f) == {[id |-> s.id, key |-> f[s].key, test |-> f[s].test] : s \in DOMAIN f}

Outcome(old, f, W) ==
    /\ old \subseteq rows /\ \A row \in rows : \E s \in old : Value(s) = Value(row)
    /\ \A s, t \in old : Value(s) = Value(t) => s = t
    /\ \A s : Paired(f, s) <=> /\ s \in old /\ Stale(s, W)
                               /\ \E e \in W \ Values(rows) : s.key = e.key
    /\ \A s \in DOMAIN f : f[s] \in W \ Values(rows) /\ f[s].key = s.key
    /\ diff'.removed = {s.id : s \in {x \in old : Stale(x, W) /\ ~ Paired(f, x)}}
    /\ diff'.changed = Changes(f)
    /\ diff'.added = {e \in W \ Values(rows) : ~ \E s \in DOMAIN f : s.key = e.key}
    /\ diff'.unchanged = {row.id : row \in rows} \ {s.id : s \in {x \in old : Stale(x, W)}}
    /\ rows' = {After(f, row) : row \in rows} \cup {NewRow(updates + 1, e) : e \in diff'.added}
    /\ wanted' = W /\ before' = rows /\ updates' = updates + 1

\* Sub-expressions are what their key and their test are.
LEMMA ExpressionIs ==
    ASSUME NEW W \in Expressions
    PROVE  \A e \in W : e \in SubExprs /\ e = [key |-> e.key, test |-> e.test]
  BY DEF SubExprs

\* The UPDATE by id meets the row it is for, and no other.
LEMMA UpdateChangedIs ==
    ASSUME RowsInv, NEW f, DOMAIN f \subseteq rows, NEW d, d.changed = Changes(f)
    PROVE  UpdateChanged(rows, d) = {After(f, row) : row \in rows}
<1> DEFINE changed(row) == \E c \in d.changed : c.id = row.id
           chosen(row) == CHOOSE c \in d.changed : c.id = row.id
<1>1. ASSUME NEW row \in rows
      PROVE  (IF changed(row) THEN [row EXCEPT !.test = chosen(row).test] ELSE row) = After(f, row)
  <2>1. \A c \in d.changed : c.id = row.id =>
            Paired(f, row) /\ c = [id |-> row.id, key |-> f[row].key, test |-> f[row].test]
    BY DEF Changes, Paired, RowsInv
  <2>2. Paired(f, row) => [id |-> row.id, key |-> f[row].key, test |-> f[row].test] \in d.changed
    BY DEF Changes, Paired
  <2>3. changed(row) <=> Paired(f, row)
    BY <2>1, <2>2
  <2>4. changed(row) => chosen(row) \in d.changed /\ chosen(row).id = row.id
    OBVIOUS
  <2>5. changed(row) => chosen(row).test = f[row].test
    BY <2>1, <2>4
  <2> QED
    BY <2>3, <2>5 DEF After
<1> QED
  BY <1>1 DEF UpdateChanged

LEMMA UpdateIs ==
    ASSUME RowsInv, NEW W \in Expressions, Update(W)
    PROVE  \E old, f : Outcome(old, f, W)
<1>1. PICK d \in Diffs(rows, W) :
          /\ diff' = d
          /\ rows' = UpdateChanged(DeleteRemoved(rows, d), d) \cup {NewRow(updates + 1, e) : e \in d.added}
  BY DEF Update
<1> DEFINE missing == Missing(rows, W)
<1>2. PICK old \in OldSets(rows) :
          \E f \in Pairings({s \in old : Value(s) \notin W}, missing) : d = DiffOf(rows, old, W, missing, f)
  BY DEF Diffs
<1>3. PICK f \in Pairings({s \in old : Value(s) \notin W}, missing) : d = DiffOf(rows, old, W, missing, f)
  BY <1>2
<1>4. missing = W \ Values(rows)
  BY DEF Missing, Values
<1>5. /\ DOMAIN f = {s \in {x \in old : Value(x) \notin W} : \E e \in missing : s.key = e.key}
      /\ \A s \in DOMAIN f : f[s] \in missing /\ s.key = f[s].key
  BY DEF Pairings, SameKeyFields
<1>6. /\ old \subseteq rows /\ \A row \in rows : \E s \in old : Value(s) = Value(row)
      /\ \A s, t \in old : Value(s) = Value(t) => s = t
  BY DEF OldSets
<1>7. /\ d.removed = {s.id : s \in {x \in old : Value(x) \notin W} \ DOMAIN f}
      /\ d.changed = Changes(f)
      /\ d.added = {e \in missing : ~ \E s \in DOMAIN f : s.key = e.key}
      /\ d.unchanged = {row.id : row \in rows} \ {s.id : s \in {x \in old : Value(x) \notin W}}
  BY <1>3 DEF DiffOf, Removed, Changes, SameKeyFields
<1>8. {x \in old : Value(x) \notin W} \ DOMAIN f = {x \in old : Stale(x, W) /\ ~ Paired(f, x)}
  BY DEF Stale, Paired
<1>9. rows' = {After(f, row) : row \in rows} \cup {NewRow(updates + 1, e) : e \in d.added}
  BY <1>1, <1>5, <1>6, <1>7, UpdateChangedIs DEF DeleteRemoved
<1>10. wanted' = W /\ before' = rows /\ updates' = updates + 1
  BY DEF Update
<1>11. \A s : Paired(f, s) <=> s \in old /\ Stale(s, W) /\ \E e \in W \ Values(rows) : s.key = e.key
  BY <1>4, <1>5 DEF Paired, Stale
<1>12. diff'.unchanged = {row.id : row \in rows} \ {s.id : s \in {x \in old : Stale(x, W)}}
  BY <1>1, <1>7 DEF Stale
<1>13. diff'.removed = {s.id : s \in {x \in old : Stale(x, W) /\ ~ Paired(f, x)}}
  BY <1>1, <1>7, <1>8
<1>14. \A s \in DOMAIN f : f[s] \in W \ Values(rows) /\ f[s].key = s.key
  BY <1>4, <1>5
<1>15. diff'.added = {e \in W \ Values(rows) : ~ \E s \in DOMAIN f : s.key = e.key}
  BY <1>1, <1>4, <1>7
<1>16. diff'.changed = Changes(f)
  BY <1>1, <1>7
<1>17. rows' = {After(f, row) : row \in rows} \cup {NewRow(updates + 1, e) : e \in diff'.added}
  BY <1>1, <1>9
<1>18. Outcome(old, f, W)
  BY <1>6, <1>10, <1>11, <1>12, <1>13, <1>14, <1>15, <1>16, <1>17 DEF Outcome
<1> QED
  BY <1>18

\* The rows after an update, one by one.
LEMMA RowsAfter ==
    ASSUME RowsInv, NEW old, NEW f, NEW W \in Expressions, Outcome(old, f, W)
    PROVE  /\ \A row \in rows : /\ After(f, row) \in rows' /\ After(f, row).id = row.id
                                /\ ~ Paired(f, row) => After(f, row) = row
                                /\ Paired(f, row) => Value(After(f, row)) = f[row]
           /\ \A e \in diff'.added : NewRow(updates + 1, e) \in rows' /\ Value(NewRow(updates + 1, e)) = e
           /\ \A row \in rows' : \/ \E s \in rows : row = After(f, s)
                                 \/ \E e \in diff'.added : row = NewRow(updates + 1, e)
<1>1. \A row \in rows : row = [id |-> row.id, key |-> row.key, test |-> row.test]
  BY DEF RowsInv
<1>2. ASSUME NEW row \in rows
      PROVE  /\ After(f, row) \in rows' /\ After(f, row).id = row.id
             /\ ~ Paired(f, row) => After(f, row) = row
             /\ Paired(f, row) => Value(After(f, row)) = f[row]
  <2>1. After(f, row) \in rows'
    BY DEF Outcome
  <2>2. CASE Paired(f, row)
    <3>1. f[row] \in W /\ f[row].key = row.key
      BY <2>2 DEF Outcome, Paired
    <3>2. After(f, row) = [id |-> row.id, key |-> row.key, test |-> f[row].test]
      BY <1>1, <2>2 DEF After
    <3>3. f[row] = [key |-> f[row].key, test |-> f[row].test]
      BY <3>1, ExpressionIs
    <3> QED
      BY <2>1, <2>2, <3>1, <3>2, <3>3 DEF Value
  <2>3. CASE ~ Paired(f, row)
    BY <2>1, <2>3 DEF After
  <2> QED
    BY <2>2, <2>3
<1>3. ASSUME NEW e \in diff'.added
      PROVE  NewRow(updates + 1, e) \in rows' /\ Value(NewRow(updates + 1, e)) = e
  <2>1. NewRow(updates + 1, e) \in rows' /\ e \in W
    BY DEF Outcome
  <2>2. e = [key |-> e.key, test |-> e.test]
    BY <2>1, ExpressionIs
  <2> QED
    BY <2>1, <2>2 DEF NewRow, Value
<1>4. \A row \in rows' : \/ \E s \in rows : row = After(f, s)
                         \/ \E e \in diff'.added : row = NewRow(updates + 1, e)
  BY DEF Outcome
<1> QED
  BY <1>2, <1>3, <1>4

LEMMA RowsInit == Init => RowsInv
<1> SUFFICES ASSUME Init PROVE RowsInv
  OBVIOUS
<1>1. \A e \in wanted : /\ CreatedRow(e) = [id |-> <<0, e>>, key |-> Lower[e.key], test |-> e.test]
                        /\ e \in SubExprs
  <2>1. \A e : CreatedRow(e) = [id |-> <<0, e>>, key |-> Lower[e.key], test |-> e.test]
    BY DEF CreatedRow, NewRow
  <2>2. \A e \in wanted : e \in SubExprs
    BY DEF Init
  <2> QED
    BY <2>1, <2>2
<1>2. \A row \in rows : \E e \in wanted : row = CreatedRow(e)
  BY DEF Init
<1>3. \A row \in rows : /\ row = [id |-> row.id, key |-> row.key, test |-> row.test]
                        /\ \E u \in 0..updates, e \in SubExprs : row.id = <<u, e>>
  BY <1>1, <1>2 DEF Init
<1>4. \A s, t \in rows : s.id = t.id => s = t
  BY <1>1, <1>2
<1> QED
  BY <1>3, <1>4 DEF Init, RowsInv

LEMMA RowsStep == RowsInv /\ [Next]_vars => RowsInv'
<1>1. ASSUME RowsInv, NEW W \in Expressions, Update(W) PROVE RowsInv'
  <2>1. PICK old, f : Outcome(old, f, W)
    BY <1>1, UpdateIs
  <2>2. /\ updates \in Nat /\ wanted' = W /\ updates' = updates + 1
        /\ \A e \in diff'.added : e \in SubExprs
    BY <1>1, <2>1, ExpressionIs DEF RowsInv, Outcome
  <2>3. ASSUME NEW row \in rows'
        PROVE  \/ \E s \in rows : row = After(f, s) /\ row.id = s.id
                    /\ row = [id |-> row.id, key |-> row.key, test |-> row.test]
               \/ \E e \in diff'.added : /\ row = NewRow(updates + 1, e) /\ row.id = <<updates + 1, e>>
                                         /\ row = [id |-> row.id, key |-> row.key, test |-> row.test]
    <3>1. CASE \E s \in rows : row = After(f, s)
      <4>1. PICK s \in rows : row = After(f, s)
        BY <3>1
      <4>2. s = [id |-> s.id, key |-> s.key, test |-> s.test]
        BY <1>1 DEF RowsInv
      <4>3. row = [id |-> s.id, key |-> s.key, test |-> row.test]
        <5>1. [s EXCEPT !.test = f[s].test] = [id |-> s.id, key |-> s.key, test |-> f[s].test]
          BY <4>2
        <5> QED
          BY <4>1, <4>2, <5>1 DEF After
      <4> QED
        BY <4>1, <4>3
    <3>2. CASE \E e \in diff'.added : row = NewRow(updates + 1, e)
      <4>1. PICK e \in diff'.added : row = NewRow(updates + 1, e)
        BY <3>2
      <4>2. row = [id |-> <<updates + 1, e>>, key |-> e.key, test |-> e.test]
        BY <4>1 DEF NewRow
      <4>3. row.id = <<updates + 1, e>> /\ row = [id |-> row.id, key |-> row.key, test |-> row.test]
        BY <4>2
      <4> QED
        BY <4>1, <4>3
    <3> QED
      BY <1>1, <2>1, <3>1, <3>2, RowsAfter
  <2>4. \A s \in rows : \E u \in 0..updates, e \in SubExprs : s.id = <<u, e>>
    BY <1>1 DEF RowsInv
  <2>5. \A row \in rows' : \E u \in 0..updates', e \in SubExprs : row.id = <<u, e>>
    BY <2>2, <2>3, <2>4
  <2>6. ASSUME NEW s \in rows', NEW t \in rows', s.id = t.id PROVE s = t
    <3>1. \A e \in diff'.added : \A x \in rows : x.id # <<updates + 1, e>>
      BY <2>2, <2>4
    <3>2. \A x, y \in rows : x.id = y.id => x = y
      BY <1>1 DEF RowsInv
    <3>3. CASE \E x \in rows : s = After(f, x) /\ s.id = x.id
      BY <2>3, <2>6, <3>1, <3>2, <3>3
    <3>4. CASE \E e \in diff'.added : s = NewRow(updates + 1, e) /\ s.id = <<updates + 1, e>>
      <4>1. PICK e \in diff'.added : s = NewRow(updates + 1, e) /\ s.id = <<updates + 1, e>>
        BY <3>4
      <4>2. PICK d \in diff'.added : t = NewRow(updates + 1, d) /\ t.id = <<updates + 1, d>>
        BY <2>3, <2>6, <3>1, <4>1
      <4> QED
        BY <2>6, <4>1, <4>2
    <3> QED
      BY <2>3, <3>3, <3>4
  <2> QED
    BY <2>2, <2>3, <2>5, <2>6 DEF RowsInv
<1>2. RowsInv /\ UNCHANGED vars => RowsInv'
  BY DEF RowsInv, vars
<1> QED
  BY <1>1, <1>2 DEF Next

LEMMA RowsAlways == Spec => []RowsInv
  BY RowsInit, RowsStep, PTL DEF Spec


------------------------------------------------------------------------------
(* What an update leaves behind.                                           *)

LEMMA StoresWanted ==
    ASSUME RowsInv, NEW old, NEW f, NEW W \in Expressions, Outcome(old, f, W), UniqueKeys(W),
           NEW e \in W
    PROVE  \E row \in rows' : Value(row) = e
<1>1. CASE e \in Values(rows)
  <2>1. PICK row \in rows : Value(row) = e
    BY <1>1 DEF Values
  <2>2. ~ Paired(f, row)
    BY <2>1 DEF Outcome, Stale
  <2> QED
    BY <2>1, <2>2, RowsAfter
<1>2. CASE e \notin Values(rows) /\ \E s \in DOMAIN f : s.key = e.key
  <2>1. PICK s \in DOMAIN f : s.key = e.key
    BY <1>2
  <2>2. f[s] = e
    BY <2>1 DEF Outcome, UniqueKeys
  <2>3. s \in rows /\ Paired(f, s)
    BY <2>1 DEF Outcome, Paired
  <2> QED
    BY <2>2, <2>3, RowsAfter
<1>3. CASE e \notin Values(rows) /\ ~ \E s \in DOMAIN f : s.key = e.key
  <2>1. e \in diff'.added
    BY <1>3 DEF Outcome
  <2> QED
    BY <2>1, RowsAfter
<1> QED
  BY <1>1, <1>2, <1>3

\* What is in the way after an update was there before and is reported as removed.
LEMMA StaleRows ==
    ASSUME RowsInv, NEW old, NEW f, NEW W \in Expressions, Outcome(old, f, W), UniqueValues(rows)
    PROVE  /\ old = rows
           /\ \A row \in rows' : Stale(row, W) => row \in rows /\ ~ Paired(f, row)
           /\ \A row \in rows : Stale(row, W) /\ ~ Paired(f, row) => row \in rows'
           /\ diff'.removed = {row.id : row \in {x \in rows' : Stale(x, W)}}
           /\ \A s, t \in rows' : Stale(s, W) /\ Value(s) = Value(t) => s = t
<1>1. old = rows
  <2>1. old \subseteq rows /\ \A row \in rows : \E s \in old : Value(s) = Value(row)
    BY DEF Outcome
  <2>2. \A s, t \in rows : Value(s) = Value(t) => s = t
    BY DEF UniqueValues
  <2>3. rows \subseteq old
    BY <2>1, <2>2
  <2> QED
    BY <2>1, <2>3
<1>2. ASSUME NEW row \in rows', Stale(row, W) PROVE row \in rows /\ ~ Paired(f, row)
  <2>1. CASE \E e \in diff'.added : row = NewRow(updates + 1, e)
    <3>1. PICK e \in diff'.added : row = NewRow(updates + 1, e)
      BY <2>1
    <3>2. Value(row) = e
      BY <3>1, RowsAfter
    <3>3. e \in W
      BY DEF Outcome
    <3> QED
      BY <1>2, <3>2, <3>3 DEF Stale
  <2>2. CASE \E s \in rows : row = After(f, s)
    <3>1. PICK s \in rows : row = After(f, s)
      BY <2>2
    <3>2. ~ Paired(f, s)
      <4> SUFFICES ASSUME Paired(f, s) PROVE FALSE
        OBVIOUS
      <4>1. Value(row) = f[s]
        BY <3>1, RowsAfter
      <4>2. f[s] \in W
        BY DEF Outcome, Paired
      <4> QED
        BY <1>2, <4>1, <4>2 DEF Stale
    <3> QED
      BY <3>1, <3>2, RowsAfter
  <2> QED
    BY <2>1, <2>2, RowsAfter
<1>3. \A row \in rows : Stale(row, W) /\ ~ Paired(f, row) => row \in rows'
  BY RowsAfter
<1>4. {x \in old : Stale(x, W) /\ ~ Paired(f, x)} = {x \in rows' : Stale(x, W)}
  BY <1>1, <1>2, <1>3
<1>5. diff'.removed = {row.id : row \in {x \in rows' : Stale(x, W)}}
  BY <1>4 DEF Outcome
<1>6. \A s, t \in rows' : Stale(s, W) /\ Value(s) = Value(t) => s = t
  BY <1>2 DEF UniqueValues, Stale
<1> QED
  BY <1>1, <1>2, <1>3, <1>5, <1>6

\* After an update the stored expression is there, whatever else is there, if none of its
\* sub-expressions has the key of another.
THEOREM ExpressionStored == Spec => []UpdatedExpressionStored
<1>1. Init => UpdatedExpressionStored
  <2>1. Init => updates = 0
    BY DEF Init
  <2> QED
    BY <2>1 DEF UpdatedExpressionStored
<1>2. RowsInv /\ UpdatedExpressionStored /\ [Next]_vars => UpdatedExpressionStored'
  <2>1. ASSUME RowsInv, NEW W \in Expressions, Update(W) PROVE UpdatedExpressionStored'
    <3>1. PICK old, f : Outcome(old, f, W)
      BY <2>1, UpdateIs
    <3>2. wanted' = W
      BY <3>1 DEF Outcome
    <3>3. UniqueKeys(W) => \A e \in W : \E row \in rows' : Value(row) = e
      BY <2>1, <3>1, StoresWanted
    <3> QED
      BY <3>2, <3>3 DEF UpdatedExpressionStored, Values, UniqueKeys
  <2>2. UpdatedExpressionStored /\ UNCHANGED vars => UpdatedExpressionStored'
    BY DEF UpdatedExpressionStored, vars, Values, Value, UniqueKeys
  <2> QED
    BY <2>1, <2>2 DEF Next
<1> QED
  BY <1>1, <1>2, RowsAlways, PTL DEF Spec


\* A row that is not part of the stored expression was reported as removed, unless an
\* earlier update had left two rows that say the same.
THEOREM StaleReported == Spec => []OutdatedRowsReported
<1>1. Init => OutdatedRowsReported
  <2>1. Init => updates = 0
    BY DEF Init
  <2> QED
    BY <2>1 DEF OutdatedRowsReported
<1>2. RowsInv /\ OutdatedRowsReported /\ [Next]_vars => OutdatedRowsReported'
  <2>1. ASSUME RowsInv, NEW W \in Expressions, Update(W) PROVE OutdatedRowsReported'
    <3>1. PICK old, f : Outcome(old, f, W)
      BY <2>1, UpdateIs
    <3>2. wanted' = W /\ before' = rows
      BY <3>1 DEF Outcome
    <3>3. UniqueValues(rows) => \A row \in rows' : Stale(row, W) => row.id \in diff'.removed
      BY <2>1, <3>1, StaleRows
    <3> QED
      BY <3>2, <3>3 DEF OutdatedRowsReported, Stale, UniqueValues
  <2>2. OutdatedRowsReported /\ UNCHANGED vars => OutdatedRowsReported'
    BY DEF OutdatedRowsReported, vars, UniqueKeys, UniqueValues, Value
  <2> QED
    BY <2>1, <2>2 DEF Next
<1> QED
  BY <1>1, <1>2, RowsAlways, PTL DEF Spec


------------------------------------------------------------------------------
(* The diff itself.                                                        *)

\* Where keys occur once, the loops pair the rows and sub-expressions of one key.
LEMMA PairsAre ==
    ASSUME RowsInv, NEW old, NEW f, NEW W \in Expressions, Outcome(old, f, W),
           UniqueKeys(rows), UniqueKeys(W)
    PROVE  /\ old = rows
           /\ \A s \in rows : Stale(s, W) => (Paired(f, s) <=> \E e \in W : s.key = e.key)
           /\ \A s \in rows, e \in W : s.key = e.key /\ Stale(s, W) => Paired(f, s) /\ f[s] = e
           /\ \A s \in rows : Paired(f, s) => Stale(s, W)
           /\ \A e \in W : e \in Values(rows) <=> \E s \in rows : s.key = e.key /\ ~ Stale(s, W)
<1>1. UniqueValues(rows)
  <2>1. \A s, t \in rows : Value(s) = Value(t) => s.key = t.key
    BY DEF Value
  <2> QED
    BY <2>1 DEF UniqueKeys, UniqueValues
<1>2. old = rows
  BY <1>1, StaleRows
<1>3. ASSUME NEW e \in W, e \in Values(rows) PROVE \E s \in rows : s.key = e.key /\ ~ Stale(s, W)
  <2>1. PICK s \in rows : Value(s) = e
    BY <1>3 DEF Values
  <2> QED
    BY <2>1 DEF Value, Stale
<1>4. ASSUME NEW e \in W, NEW s \in rows, s.key = e.key, ~ Stale(s, W) PROVE e \in Values(rows)
  <2>1. Value(s) \in W /\ Value(s).key = e.key
    BY <1>4 DEF Stale, Value
  <2>2. Value(s) = e
    BY <2>1 DEF UniqueKeys
  <2> QED
    BY <2>2 DEF Values
<1>5. ASSUME NEW s \in rows, NEW e \in W, s.key = e.key, Stale(s, W)
      PROVE  Paired(f, s) /\ f[s] = e
  <2>1. e \notin Values(rows)
    <3> SUFFICES ASSUME e \in Values(rows) PROVE FALSE
      OBVIOUS
    <3>1. PICK t \in rows : t.key = e.key /\ ~ Stale(t, W)
      BY <1>3
    <3> QED
      BY <1>5, <3>1 DEF UniqueKeys
  <2>2. Paired(f, s)
    BY <1>2, <1>5, <2>1 DEF Outcome
  <2>3. f[s] \in W /\ f[s].key = e.key
    BY <1>5, <2>2 DEF Outcome, Paired
  <2> QED
    BY <2>2, <2>3 DEF UniqueKeys
<1>6. \A s : Paired(f, s) => Stale(s, W) /\ \E e \in W : s.key = e.key
  BY DEF Outcome
<1> QED
  BY <1>2, <1>3, <1>4, <1>5, <1>6

\* What DiffMeetsReference asks of a diff of these rows against these sub-expressions.
Meets(S, W, d) ==
    /\ d.removed = Ids({row \in S : ~ \E e \in W : row.key = e.key})
    /\ d.added = {e \in W : ~ \E row \in S : row.key = e.key}
    /\ d.unchanged = Ids({row \in S : Value(row) \in W})
    /\ d.changed = {[id |-> p[1].id, key |-> p[2].key, test |-> p[2].test] :
                     p \in {q \in S \X W : q[1].key = q[2].key /\ Value(q[1]) # q[2]}}

LEMMA MeetsIs ==
    /\ DiffMeetsReference <=>
        (updates > 0 /\ UniqueKeys(before) /\ UniqueKeys(wanted) => Meets(before, wanted, diff))
    /\ DiffMeetsReference' <=>
        (updates' > 0 /\ UniqueKeys(before') /\ UniqueKeys(wanted') => Meets(before', wanted', diff'))
<1>1. DiffMeetsReference <=>
        (updates > 0 /\ UniqueKeys(before) /\ UniqueKeys(wanted) => Meets(before, wanted, diff))
  BY DEF DiffMeetsReference, Meets
<1>2. DiffMeetsReference' <=>
        (updates' > 0 /\ UniqueKeys(before') /\ UniqueKeys(wanted') => Meets(before', wanted', diff'))
  BY DEF DiffMeetsReference, Meets, UniqueKeys, Ids, Value
<1> QED
  BY <1>1, <1>2

\* What a step owes the reference, part by part.
LEMMA ReferenceMet ==
    ASSUME RowsInv, NEW old, NEW f, NEW W \in Expressions, Outcome(old, f, W),
           UniqueKeys(rows), UniqueKeys(W)
    PROVE  Meets(rows, W, diff')
<1>1. \A s \in rows, e \in W : s.key = e.key => (Stale(s, W) <=> Value(s) # e)
  <2> SUFFICES ASSUME NEW s \in rows, NEW e \in W, s.key = e.key, ~ Stale(s, W)
               PROVE  Value(s) = e
    BY DEF Stale
  <2> QED
    BY DEF Stale, Value, UniqueKeys
<1>2. {x \in old : Stale(x, W) /\ ~ Paired(f, x)} = {row \in rows : ~ \E e \in W : row.key = e.key}
  <2>1. \A row \in rows : ~ (\E e \in W : row.key = e.key) => Stale(row, W)
    BY DEF Stale, Value
  <2> QED
    BY <2>1, PairsAre
<1>3. diff'.removed = Ids({row \in rows : ~ \E e \in W : row.key = e.key})
  BY <1>2 DEF Outcome, Ids
<1>4. diff'.added = {e \in W : ~ \E row \in rows : row.key = e.key}
  <2>1. diff'.added = {e \in W \ Values(rows) : ~ \E s \in DOMAIN f : s.key = e.key}
    BY DEF Outcome
  <2>2. \A s : s \in DOMAIN f => s \in rows /\ Paired(f, s)
    BY PairsAre DEF Outcome, Paired
  <2>3. ASSUME NEW e \in W
        PROVE  e \notin Values(rows) /\ (~ \E s \in DOMAIN f : s.key = e.key)
                 <=> ~ \E row \in rows : row.key = e.key
    <3>1. ASSUME NEW row \in rows, row.key = e.key
          PROVE  e \in Values(rows) \/ row \in DOMAIN f
      BY <3>1, PairsAre DEF Paired
    <3>2. e \in Values(rows) => \E row \in rows : row.key = e.key
      BY PairsAre
    <3> QED
      BY <2>2, <3>1, <3>2
  <2> QED
    BY <2>1, <2>3
<1>5. diff'.unchanged = Ids({row \in rows : Value(row) \in W})
  <2>0. old = rows
    BY PairsAre
  <2>1. diff'.unchanged = {row.id : row \in rows} \ {s.id : s \in {x \in rows : Stale(x, W)}}
    <3>1. diff'.unchanged = {row.id : row \in rows} \ {s.id : s \in {x \in old : Stale(x, W)}}
      BY DEF Outcome
    <3> QED
      BY <2>0, <3>1
  <2>2. \A s, t \in rows : s.id = t.id => s = t
    BY DEF RowsInv
  <2> QED
    BY <2>1, <2>2 DEF Ids, Stale
<1>6. diff'.changed = {[id |-> p[1].id, key |-> p[2].key, test |-> p[2].test] :
                        p \in {q \in rows \X W : q[1].key = q[2].key /\ Value(q[1]) # q[2]}}
  <2> DEFINE Report(s, e) == [id |-> s.id, key |-> e.key, test |-> e.test]
             pairs == {q \in rows \X W : q[1].key = q[2].key /\ Value(q[1]) # q[2]}
  <2>1. diff'.changed = {Report(s, f[s]) : s \in DOMAIN f}
    BY DEF Outcome, Changes
  <2>2. ASSUME NEW s \in DOMAIN f PROVE \E p \in pairs : p[1] = s /\ p[2] = f[s]
    <3>1. s \in rows /\ Paired(f, s) /\ f[s] \in W /\ f[s].key = s.key
      BY PairsAre DEF Outcome, Paired
    <3>2. Value(s) # f[s]
      BY <1>1, <3>1, PairsAre
    <3>3. <<s, f[s]>> \in pairs
      BY <3>1, <3>2
    <3> QED
      BY <3>3
  <2>3. ASSUME NEW p \in pairs PROVE p[1] \in DOMAIN f /\ f[p[1]] = p[2]
    <3>1. p[1] \in rows /\ p[2] \in W /\ p[1].key = p[2].key /\ Value(p[1]) # p[2]
      OBVIOUS
    <3>2. Stale(p[1], W)
      BY <1>1, <3>1
    <3> QED
      BY <3>1, <3>2, PairsAre DEF Paired
  <2>4. {Report(s, f[s]) : s \in DOMAIN f} = {Report(p[1], p[2]) : p \in pairs}
    <3> HIDE DEF pairs, Report
    <3>1. \A s \in DOMAIN f : \E p \in pairs : Report(s, f[s]) = Report(p[1], p[2])
      BY <2>2
    <3>2. \A p \in pairs : \E s \in DOMAIN f : Report(p[1], p[2]) = Report(s, f[s])
      BY <2>3
    <3> QED
      BY <3>1, <3>2
  <2> QED
    BY <2>1, <2>4
<1> QED
  BY <1>3, <1>4, <1>5, <1>6 DEF Meets

\* Where every key occurs once among the rows and once in the expression, the loops find
\* what a reader would call the difference.
THEOREM DiffIsTheDifference == Spec => []DiffMeetsReference
<1>1. Init => DiffMeetsReference
  <2>1. Init => updates = 0
    BY DEF Init
  <2> QED
    BY <2>1 DEF DiffMeetsReference
<1>2. RowsInv /\ DiffMeetsReference /\ [Next]_vars => DiffMeetsReference'
  <2>1. ASSUME RowsInv, NEW W \in Expressions, Update(W) PROVE DiffMeetsReference'
    <3>1. PICK old, f : Outcome(old, f, W)
      BY <2>1, UpdateIs
    <3>2. wanted' = W /\ before' = rows
      BY <3>1 DEF Outcome
    <3>3. UniqueKeys(rows) /\ UniqueKeys(W) => Meets(rows, W, diff')
      BY <2>1, <3>1, ReferenceMet
    <3> QED
      BY <3>2, <3>3, MeetsIs
  <2>2. DiffMeetsReference /\ UNCHANGED vars => DiffMeetsReference'
    BY MeetsIs DEF vars
  <2> QED
    BY <2>1, <2>2 DEF Next
<1> QED
  BY <1>1, <1>2, RowsAlways, PTL DEF Spec


------------------------------------------------------------------------------
(* An update made again.                                                   *)

\* After an update the rows that are not wanted any more are the reported ones, and no two
\* of them say the same: the next update meets every one of them again.
RepeatInv ==
    updates > 0 /\ UniqueKeys(wanted) /\ UniqueValues(before) =>
        /\ diff.removed = {row.id : row \in {x \in rows : Stale(x, wanted)}}
        /\ \A s, t \in rows : Stale(s, wanted) /\ Value(s) = Value(t) => s = t

LEMMA RepeatAlways == Spec => []RepeatInv
<1>1. Init => RepeatInv
  <2>1. Init => updates = 0
    BY DEF Init
  <2> QED
    BY <2>1 DEF RepeatInv
<1>2. RowsInv /\ RepeatInv /\ [Next]_vars => RepeatInv'
  <2>1. ASSUME RowsInv, NEW W \in Expressions, Update(W) PROVE RepeatInv'
    <3>1. PICK old, f : Outcome(old, f, W)
      BY <2>1, UpdateIs
    <3>2. wanted' = W /\ before' = rows
      BY <3>1 DEF Outcome
    <3>3. UniqueValues(rows) =>
            /\ diff'.removed = {row.id : row \in {x \in rows' : Stale(x, W)}}
            /\ \A s, t \in rows' : Stale(s, W) /\ Value(s) = Value(t) => s = t
      BY <2>1, <3>1, StaleRows
    <3> QED
      BY <3>2, <3>3 DEF RepeatInv, Stale, UniqueValues, Value
  <2>2. RepeatInv /\ UNCHANGED vars => RepeatInv'
    BY DEF RepeatInv, vars, Stale, UniqueKeys, UniqueValues, Value
  <2> QED
    BY <2>1, <2>2 DEF Next
<1> QED
  BY <1>1, <1>2, RowsAlways, PTL DEF Spec

\* Where the expression is stored already there is nothing to pair, to insert or to change.
LEMMA NothingMissing ==
    ASSUME RowsInv, NEW old, NEW f, NEW W \in Expressions, Outcome(old, f, W), W \subseteq Values(rows)
    PROVE  /\ diff'.changed = {} /\ diff'.added = {} /\ rows' = rows
           /\ diff'.removed = {s.id : s \in {x \in old : Stale(x, W)}}
<1>1. W \ Values(rows) = {}
  OBVIOUS
<1>2. DOMAIN f = {} /\ \A s : ~ Paired(f, s)
  BY <1>1 DEF Outcome, Paired
<1>3. diff'.changed = {} /\ diff'.added = {}
  BY <1>1, <1>2 DEF Outcome, Changes
<1>4. rows' = rows
  <2>1. \A row \in rows : row \in rows'
    BY <1>2, RowsAfter
  <2>2. \A row \in rows' : row \in rows
    BY <1>2, <1>3, RowsAfter
  <2> QED
    BY <2>1, <2>2
<1>5. {x \in old : Stale(x, W) /\ ~ Paired(f, x)} = {x \in old : Stale(x, W)}
  BY <1>2
<1>6. diff'.removed = {s.id : s \in {x \in old : Stale(x, W)}}
  BY <1>5 DEF Outcome
<1> QED
  BY <1>3, <1>4, <1>6

\* A client that sends its update again, not having heard the answer, changes no row and
\* makes the event say nothing new.
THEOREM RepeatIsHarmless == Spec => RepeatedUpdateChangesNothing
<1> DEFINE Harmless ==
        updates > 0 /\ wanted' = wanted /\ UniqueKeys(wanted) /\ UniqueValues(before)
          => rows' = rows /\ diff'.changed = {} /\ diff'.added = {} /\ diff'.removed = diff.removed
<1>1. RowsInv /\ UpdatedExpressionStored /\ RepeatInv /\ [Next]_vars => [Harmless]_vars
  <2> SUFFICES ASSUME RowsInv, UpdatedExpressionStored, RepeatInv, NEW W \in Expressions, Update(W)
               PROVE  Harmless
    BY DEF Next
  <2>1. PICK old, f : Outcome(old, f, W)
    BY UpdateIs
  <2> SUFFICES ASSUME updates > 0, W = wanted, UniqueKeys(wanted), UniqueValues(before)
               PROVE  /\ rows' = rows
                      /\ diff'.changed = {} /\ diff'.added = {} /\ diff'.removed = diff.removed
    BY <2>1 DEF Outcome
  <2>2. W \subseteq Values(rows)
    BY DEF UpdatedExpressionStored
  <2>3. /\ diff'.changed = {} /\ diff'.added = {} /\ rows' = rows
        /\ diff'.removed = {s.id : s \in {x \in old : Stale(x, W)}}
    BY <2>1, <2>2, NothingMissing
  <2>4. /\ diff.removed = {row.id : row \in {x \in rows : Stale(x, W)}}
        /\ \A s, t \in rows : Stale(s, W) /\ Value(s) = Value(t) => s = t
    BY DEF RepeatInv
  <2>5. {x \in old : Stale(x, W)} = {x \in rows : Stale(x, W)}
    <3>1. old \subseteq rows /\ \A row \in rows : \E s \in old : Value(s) = Value(row)
      BY <2>1 DEF Outcome
    <3>2. \A row \in rows : Stale(row, W) => row \in old
      BY <2>4, <3>1
    <3> QED
      BY <3>1, <3>2
  <2> QED
    BY <2>3, <2>4, <2>5
<1> QED
  BY <1>1, RowsAlways, ExpressionStored, RepeatAlways, PTL DEF Spec, RepeatedUpdateChangesNothing


==============================================================================
