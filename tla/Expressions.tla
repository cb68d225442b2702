------------------------------ MODULE Expressions ------------------------------
(***************************************************************************)
(* The text of an alarm expression on its way through the Python API: the  *)
(* parser takes it apart, a POST stores its sub-expressions as rows, a PUT *)
(* or PATCH compares those of another text with the rows (module           *)
(* SubExpressions has that diff), and an event tells all of them to the    *)
(* threshold engine, as texts again.                                       *)
(*                                                                         *)
(* A text is a sequence of tokens: parentheses, `and`, `or`, and whole     *)
(* sub-expressions such as max(CPU{host=a}, 060) < 9 times 3.  These are   *)
(* records, where a number is kept as it is written: with leading zeros,   *)
(* or with more digits than str() of a float has.                          *)
(***************************************************************************)
EXTENDS SubExpressions, Integers, Sequences, SequencesExt, FiniteSets

CONSTANTS Texts,      \* those a definition may be created with ...
          Edits,      \* ... and those of updates
          Lower,      \* the name of a metric in lower case
          Small,      \* a float below this is written with an exponent
          Digits,     \* floats that differ by less than this are written alike
          MaxUpdates  \* bound

\* Tokens: what a sub-expression leaves out is an empty sequence, and no one writes an
\* exponent.
Numbers == [n : Nat, zeros : Nat]
Subs == [func : STRING, metric : DOMAIN Lower, dims : Seq(STRING \X STRING), period : Seq(Numbers),
         op : STRING, threshold : [value : Nat, exponent : {FALSE}], periods : Seq(Numbers)]
Tokens == [kind : {"sub", "(", ")", "and", "or"}, sub : Subs]

ASSUME TextsAssumption == Texts \cup Edits \subseteq Seq(Tokens)
ASSUME NumbersAssumption == Small \in Nat /\ Digits \in Nat \ {0} /\ MaxUpdates \in Nat

VARIABLES text,     \* the expression posted, or of the last update that was accepted
          stage,    \* new, stored, refused (400) or failed (500)
          rows,     \* sub_alarm_definition rows: id, key and test
          diff,     \* the diff of the last update
          event,    \* the sub-expressions in the last event: as text, and field by field
          updates
vars == <<text, stage, rows, diff, event, updates>>
NoDiff == [removed |-> {}, changed |-> {}, added |-> {}, unchanged |-> {}]
------------------------------------------------------------------------------
\* The parser.  What it has read ends before `end`; `subs` are the places of the
\* sub-expressions.
Failed == [end |-> 0, subs |-> <<>>]
Is(t, p, kind) == p \in DOMAIN t /\ t[p].kind = kind

\* operands_list: the operands are every second token.
TwoOperands(left, right) ==   \* mutant: the first and the last of them
    [end |-> right.end, subs |-> left.subs \o <<Last(right.subs)>>]
Operands(left, right) == [end |-> right.end, subs |-> left.subs \o right.subs]

\* operatorPrecedence: sub_expression or an expression in parentheses; these with `and`
\* in between, as far as they go; and those with `or`.  from[p] is what can be read
\* from place p on.
Base(t, from, p) ==
    IF Is(t, p, "sub") THEN [end |-> p + 1, subs |-> <<p>>]
    ELSE LET inner == IF Is(t, p, "(") THEN from[p + 1].or ELSE Failed
         IN  IF Is(t, inner.end, ")") THEN [inner EXCEPT !.end = @ + 1] ELSE Failed
Level(t, from, op, first) ==
    LET next == IF Is(t, first.end, op) THEN from[first.end + 1][op] ELSE Failed
    IN  IF next = Failed THEN first ELSE Operands(first, next)
Levels(t, from, p) ==
    LET ands == Level(t, from, "and", Base(t, from, p))
    IN  [and |-> ands, or |-> Level(t, from, "or", ands)]
Readings(t) == LET from[p \in 1..(Len(t) + 1)] == Levels(t, from, p) IN from

\* sub_expr_list: to the end of the text, or a ParseException.
Parsed(t) == LET all == Readings(t)[1].or IN IF all.end = Len(t) + 1 THEN all ELSE Failed
SubExprs(t) == LET places == Parsed(t).subs IN [n \in DOMAIN places |-> t[places[n]].sub]
------------------------------------------------------------------------------
\* SubAlarmDefinition of a sub-expression.
Normalized(op) == IF op \in {"<", "lt", "LT"} THEN "LT" ELSE "GT"
Given(number, default) == IF number = <<>> THEN [n |-> default, zeros |-> 0] ELSE number[1]
Dictionary(pairs) == {pairs[i] : i \in {j \in DOMAIN pairs :
                                          \A k \in DOMAIN pairs : k > j => pairs[k][1] # pairs[j][1]}}
Definition(sub) ==
    [key |-> [func |-> sub.func, metric |-> sub.metric, dims |-> Dictionary(sub.dims),
              period |-> Given(sub.period, 60), periods |-> Given(sub.periods, 1)],
     test |-> [op |-> Normalized(sub.op), value |-> sub.threshold.value]]

\* Columns period and periods are integers, ...
Column(key) == [key EXCEPT !.period.zeros = 0, !.periods.zeros = 0]
Row(u, n, def) == [id |-> <<u, n, def>>, key |-> Column(def.key), test |-> def.test]
CreatedRow(n, def) == LET row == Row(0, n, def) IN [row EXCEPT !.key.metric = Lower[@]]

\* ... and a threshold is a float, of which str() keeps 12 digits: SubAlarmDefinition
\* of a row.
Rounded(value) == IF value < Small THEN value ELSE value - (value % Digits)
Unconverted(row) ==   \* mutant: the numbers are not made texts, and equal none
    [row EXCEPT !.key.period.zeros = -1, !.key.periods.zeros = -1]
Read(row) == [row EXCEPT !.test.value = Rounded(@)]

\* SubAlarmDefinition.expression, of one that comes from a row or from a text.
WithoutPeriods(def, exponent) ==   \* mutant: `times` is left out
    [func |-> def.key.func, metric |-> def.key.metric, dims |-> SetToSeq(def.key.dims),
     period |-> <<def.key.period>>, op |-> def.test.op,
     threshold |-> [value |-> def.test.value, exponent |-> exponent], periods |-> <<>>]
Formatted(def, exponent) ==
    [func |-> def.key.func, metric |-> def.key.metric, dims |-> SetToSeq(def.key.dims),
     period |-> <<def.key.period>>, op |-> def.test.op,
     threshold |-> [value |-> def.test.value, exponent |-> exponent], periods |-> <<def.key.periods>>]

\* What an event has of a sub-expression.  That of a creation has its text as it was
\* written (fmtd_sub_expr_str).  In that of an update every dimension is named `uname`:
\* one of them is left.
Named(dims) == IF dims = {} THEN {} ELSE {<<"uname", (CHOOSE d \in dims : TRUE)[2]>>}
Written(sub) ==
    LET def == Definition(sub)
    IN  [text |-> sub, key |-> [def.key EXCEPT !.metric = Lower[@]], test |-> def.test]
Told(def, exponent) ==
    [text |-> Formatted(def, exponent), key |-> [def.key EXCEPT !.dims = Named(@)], test |-> def.test]
ToldRow(row) == Told(Read(row), row.test.value < Small)
------------------------------------------------------------------------------
Init ==
    /\ text \in Texts /\ stage = "new"
    /\ rows = {} /\ diff = NoDiff /\ event = {} /\ updates = 0

\* A row for every dimension, by name: two of one name in a sub-expression are one too
\* many for the primary key, and all is rolled back.
Clash(sub) == \E i, j \in DOMAIN sub.dims : i # j /\ sub.dims[i][1] = sub.dims[j][1]

\* _alarm_definition_create, with create_alarm_definition.
Create ==
    LET subs == SubExprs(text)
    IN  /\ stage = "new"
        /\ IF Parsed(text) = Failed THEN stage' = "refused" /\ UNCHANGED <<rows, event>>
           ELSE IF \E n \in DOMAIN subs : Clash(subs[n])
             THEN stage' = "failed" /\ UNCHANGED <<rows, event>>
           ELSE /\ stage' = "stored"
                /\ rows' = {CreatedRow(n, Definition(subs[n])) : n \in DOMAIN subs}
                /\ event' = {Written(sub) : sub \in ToSet(subs)}
        /\ UNCHANGED <<text, diff, updates>>

\* _build_sub_alarm_def_update_dict is given one part after the other.  Changed
\* sub-expressions have no id: they share a place in the event, which one of them gets.
Reported(d, one) ==
    {ToldRow(row) : row \in {x \in rows : x.id \in d.removed \cup d.unchanged}}
        \cup {Told(e, FALSE) : e \in d.added}
        \cup {Told(c, FALSE) : c \in one}

\* _alarm_definition_update_or_patch, with update_or_patch_alarm_definition.
Update(t) ==
    /\ stage = "stored" /\ updates < MaxUpdates /\ Parsed(t) # Failed
    /\ \E d \in Diffs({Read(row) : row \in rows}, {Definition(e) : e \in ToSet(SubExprs(t))}) :
        /\ diff' = d
        /\ rows' = UpdateChanged(DeleteRemoved(rows, d), d)
                     \cup {Row(updates + 1, 0, e) : e \in d.added}
        /\ \E one \in SUBSET d.changed :
            /\ Cardinality(one) = (IF d.changed = {} THEN 0 ELSE 1)
            /\ event' = Reported(d, one)
    /\ text' = t
    /\ updates' = updates + 1
    /\ UNCHANGED stage

Next == Create \/ \E t \in Edits : Update(t)
Spec == Init /\ [][Next]_vars
------------------------------------------------------------------------------
(* Properties *)
Begins == {"sub", "("}
Ends == {"sub", ")"}
Depth(t, n) == Cardinality({i \in 1..n : t[i].kind = "("}) - Cardinality({i \in 1..n : t[i].kind = ")"})

\* Sub-expressions and parenthesised texts alternate with `and` and `or`, and every
\* parenthesis has its other.
WellFormed(t) ==
    /\ t # <<>> /\ t[1].kind \in Begins /\ t[Len(t)].kind \in Ends
    /\ \A i \in 1..(Len(t) - 1) : t[i + 1].kind \in IF t[i].kind \in Ends THEN {"and", "or", ")"} ELSE Begins
    /\ \A n \in DOMAIN t : Depth(t, n) \in Nat
    /\ Depth(t, Len(t)) = 0

\* Whatever the precedence and the parentheses: the parser takes the texts that are
\* well formed, and finds every sub-expression of such a text once, in its order.
ParserReadsTheLanguage ==
    LET subs == Parsed(text).subs
    IN  IF WellFormed(text)
          THEN /\ ToSet(subs) = {p \in DOMAIN text : text[p].kind = "sub"}
               /\ \A i, j \in DOMAIN subs : i < j => subs[i] < subs[j]
          ELSE Parsed(text) = Failed

\* What a sub-expression means, whatever its spelling.
Meaning(sub) ==
    LET def == Definition(sub)
    IN  [key |-> [Column(def.key) EXCEPT !.metric = Lower[@]], test |-> def.test]
Capital(sub) == sub.metric # Lower[sub.metric]
Padded(sub) == Given(sub.period, 60).zeros > 0 \/ Given(sub.periods, 1).zeros > 0
Long(sub) == Rounded(sub.threshold.value) # sub.threshold.value

\* An update with a text that means what the stored one means reports nothing new or
\* changed, however it is spelled: but for metrics in capitals, numbers with leading
\* zeros and thresholds with too many digits, which the rows do not have.  (Two
\* tests of one key are another matter: module SubExpressionUpdates.)
SameMeaningChangesNothing ==
    [][LET before == {Meaning(s) : s \in ToSet(SubExprs(text))}
           written == ToSet(SubExprs(text) \o SubExprs(text'))
       IN  stage = "stored" /\ updates' > updates
           /\ before = {Meaning(s) : s \in ToSet(SubExprs(text'))}
           /\ (\A m1, m2 \in before : SameKeyFields(m1, m2) => m1 = m2) =>
             (diff'.added \cup diff'.changed # {} =>
                 \E s \in written : Capital(s) \/ Padded(s) \/ Long(s))]_vars

Readable(one) == ~ one.text.threshold.exponent
SameButDims(key, other) == [key EXCEPT !.dims = other.dims] = other

\* Text and fields of a sub-expression tell a row: but for capitals in the text, and
\* for the dimensions in the fields of an update.
Tells(one, row) ==
    LET def == Definition(one.text)
        metric == IF updates = 0 THEN Lower[def.key.metric] ELSE def.key.metric
    IN  /\ Column([def.key EXCEPT !.metric = metric]) = row.key
        /\ IF updates = 0 THEN Column(one.key) = row.key ELSE SameButDims(Column(one.key), row.key)
        /\ \A test \in {def.test, one.test} :
              test.op = row.test.op /\ Rounded(test.value) = Rounded(row.test.value)

\* What the engine reads in an event is what it would read in the rows, to the last
\* row but those of changed sub-expressions; only a very small threshold that comes
\* from a row cannot be read, and a new metric is spelled as it was written.
EventTellsTheRows ==
    stage = "stored" =>
        /\ \A one \in event : IF Readable(one) THEN \E row \in rows : Tells(one, row)
                                               ELSE one.test.value < Small
        /\ \A row \in rows : \/ \E one \in event : Tells(one, row)
                             \/ \E c \in diff.changed : c.id = row.id
------------------------------------------------------------------------------
\* What the documentation says and the code does not do.

\* "The function, operator, period, periods and any boolean operators can change, but
\* not the metrics in subexpressions or the number of subexpressions": an update that
\* is accepted keeps both.  The handler goes from the parser to the repository without
\* a look at what is stored.
Metrics(t) == {<<Lower[sub.metric], Dictionary(sub.dims)>> : sub \in ToSet(SubExprs(t))}
MetricsAndNumberKept ==
    [][stage = "stored" /\ updates' > updates =>
           /\ Metrics(text') = Metrics(text)
           /\ Len(SubExprs(text')) = Len(SubExprs(text))]_vars
==============================================================================
