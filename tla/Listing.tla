------------------------------- MODULE Listing -------------------------------
(***************************************************************************)
(* The lists of the Python API, page by page: a client asks for the first  *)
(* page of a list (offset=x), follows the `next` links of the answers till *)
(* there is none, and others add and delete rows between two pages.        *)
(*                                                                         *)
(* The kinds of list differ in what a row is, in the column the offset is  *)
(* compared with and in the id that the next offset is taken from:         *)
(*   notifications  rows by id; definitions, whose filter by dimensions    *)
(*     joins a row for every sub-expression that matches;                  *)
(*   alarms         rows by alarm and metric, put together by alarm; the   *)
(*     offset is an alarm's id, and is compared with the definition's;     *)
(*   metrics        series names, from the offset on; it is decoded once   *)
(*     more than it was encoded;                                           *)
(*   history, measurements   points, the newest first; the offset is a     *)
(*     second, and several points may have it.                             *)
(* An item stands for its id: their order is that of the ids.  Where the   *)
(* order is by time, it is that of the points of one second.               *)
(***************************************************************************)
EXTENDS Naturals, FiniteSets, FiniteSetsExt

CONSTANTS Items,       \* rows a list may have, 1..n
          Limit,       \* PAGE_LIMIT
          Kinds,
          MaxChanges   \* bound: rows added or deleted during a walk

ASSUME ItemsAssumption == IsFiniteSet(Items) /\ Items = 1..Cardinality(Items)
ASSUME LimitAssumption == Limit \in Nat \ {0} /\ MaxChanges \in Nat

VARIABLES kind,
          data,      \* what the rows of a list have, besides their ids
          present,   \* the items that are in the list now
          changes,
          place,     \* of the client: idle, more, done, failed
          offset,    \* of the next link, 0 in the first request
          seen,      \* the items the client was shown ...
          again,     \* ... more than once, ...
          part,      \* ... or with a part of their rows
          cuts,      \* history: the offsets of the links followed
          stayed     \* history: items that were in the list all the while
vars == <<kind, data, present, changes, place, offset, seen, again, part, cuts, stayed>>
walk == <<place, offset, seen, again, part, cuts>>
------------------------------------------------------------------------------
\* copies: how many sub-expressions of a definition match, how many metrics an alarm
\* has; definition: where the id of an alarm's definition stands among the ids of
\* alarms; filtered: the request has a filter; decoded: the first name that is not before
\* the name of a series decoded once more, which may be any (%20 becomes a character that
\* is before %, %3D one that is after it), or none; second: when a point was measured;
\* series: of two that have the same name; bare: it has no dimension.
Seconds == 11..13
Plain == [copies |-> [i \in Items |-> 1], definition |-> [i \in Items |-> 0],
          filtered |-> FALSE, decoded |-> [i \in Items |-> i],
          second |-> [i \in Items |-> 11], series |-> [i \in Items |-> 1], bare |-> FALSE]
Data(k) ==
    IF k = "definitions" THEN {[Plain EXCEPT !.copies = c] : c \in [Items -> 0..2]}
    ELSE IF k = "alarms"
      THEN {[Plain EXCEPT !.filtered = TRUE]} \cup
           UNION {{[Plain EXCEPT !.copies = c, !.definition = d] : d \in [Items -> {0, Max(Items)}]} :
                      c \in [Items -> 1..2]}
    ELSE IF k = "metrics" THEN {[Plain EXCEPT !.decoded = d] : d \in [Items -> 1..(Max(Items) + 1)]}
    ELSE IF k = "history" THEN {[Plain EXCEPT !.second = s] : s \in [Items -> Seconds]}
    ELSE IF k = "measurements"
      THEN {[Plain EXCEPT !.bare = TRUE]} \cup
           UNION {{[Plain EXCEPT !.second = s, !.series = [Plain.series EXCEPT ![Max(Items)] = n]] :
                       n \in 1..2} : s \in [Items -> Seconds]}
    ELSE {Plain}

Init ==
    /\ kind \in Kinds /\ data \in Data(kind) /\ present \in SUBSET Items
    /\ changes = 0
    /\ place = "idle" /\ offset = 0 /\ stayed = {}
    /\ seen = {} /\ again = {} /\ part = {} /\ cuts = {}
------------------------------------------------------------------------------
\* The rows of items, in the order of the query: by id, or the newest first.
Rows(S) == UNION {{<<i, n>> : n \in 1..data.copies[i]} : i \in S}
ByTime == kind \in {"history", "measurements"}
Precedes(x, y) ==
    IF ByTime /\ data.second[x[1]] # data.second[y[1]]
      THEN data.second[x[1]] > data.second[y[1]]
      ELSE x[1] < y[1] \/ (x[1] = y[1] /\ x[2] < y[2])
Ahead(x, rows) == {y \in rows : Precedes(y, x)}

\* "order by ... limit": the rows that have fewer before them.
TakeLess(rows) == {x \in rows : Cardinality(Ahead(x, rows)) < Limit - 1}   \* mutant: one less
Take(rows) == {x \in rows : Cardinality(Ahead(x, rows)) < Limit}

\* list_notifications, get_alarm_definitions: "and id > %s order by id limit %s"
After(o) == {i \in present : i > o}
RowsById(o) == Rows(After(o))

\* get_alarms: "and ad.id > %s", "order by a.id".  The limit comes before the values of
\* filters in the list of parameters and after them in the query, which MySQL refuses.
LimitMisplaced == kind = "alarms" /\ data.filtered
AlarmRows(o) == Rows(IF o = 0 THEN present ELSE {i \in present : data.definition[i] > o})

\* _decode_influxdb_serie_name_list: what comes before the offset, unquoted, is skipped.
Unquoted(o) == IF o = 0 THEN 0 ELSE data.decoded[o]
SeriesAfter(o) == Rows({i \in present : i > Unquoted(o)})   \* mutant: skips one more
SeriesNames(o) == Rows({i \in present : i >= Unquoted(o)})

\* _build_offset_clause: "and time < {}s limit {}".
NotAfter(i, o) == o = 0 \/ data.second[i] <= o   \* mutant: time <= offset
Before(i, o) == o = 0 \/ data.second[i] < o
Points(s, o) == Rows({i \in present : data.series[i] = s /\ Before(i, o)})
HistoryPoints(o) == Points(1, o)

\* The first page of measurements is asked with the dimensions of series 1.  A next
\* link has lost them: it asks for all the series of that name.
SeriesAsked(o) == IF o = 0 THEN {1} ELSE {1, 2}

PageRows(o) ==
    IF kind \in {"notifications", "definitions"} THEN Take(RowsById(o))
    ELSE IF kind = "alarms" THEN Take(AlarmRows(o))
    ELSE IF kind = "metrics" THEN Take(SeriesNames(o))
    ELSE Take(HistoryPoints(o))

\* _alarm_list puts the rows of an alarm together; the others are one element each.
ItemsOf(rows) == {x[1] : x \in rows}
Elements(rows) == IF kind = "alarms" THEN ItemsOf(rows) ELSE rows

\* paginate: a page that is full has a next link, from the id of its last element.
LastId(rows) == IF ByTime THEN Min({data.second[i] : i \in ItemsOf(rows)}) ELSE Max(ItemsOf(rows))
FullOrMore(elements) == Cardinality(elements) > Limit   \* mutant: more than full
NotEmpty(elements) == elements # {}   \* mutant: as long as there are rows
HasNext(elements) == Cardinality(elements) >= Limit

Times(i, rows) == Cardinality({x \in rows : x[1] = i})
Show(rows) ==
    /\ seen' = seen \cup ItemsOf(rows)
    /\ again' = again \cup {i \in ItemsOf(rows) : i \in seen \/ (kind # "alarms" /\ Times(i, rows) > 1)}
    /\ part' = IF kind = "alarms" THEN part \cup {i \in ItemsOf(rows) : Times(i, rows) < data.copies[i]}
                                  ELSE part
Answer(o) ==
    LET rows == PageRows(o)
    IN  /\ Show(rows)
        /\ IF HasNext(Elements(rows))
             THEN /\ place' = "more" /\ offset' = LastId(rows)
                  /\ cuts' = cuts \cup {LastId(rows)}
             ELSE place' = "done" /\ UNCHANGED <<offset, cuts>>

Fail == place' = "failed" /\ UNCHANGED <<offset, seen, again, part, cuts>>

\* The metric that is decoded from the name of a series has no `dimensions` when it has
\* none, and measurement_list asks for them (503).
NoDimensions(shown) == data.bare /\ shown # {}

\* Of the points of several series, each series has a page and a link.  The page of a
\* request that came by a link has none: its query cannot be split (503).
AnswerMeasurements(o) ==
    LET pages == [s \in SeriesAsked(o) |-> Take(Points(s, o))]
        shown == UNION {ItemsOf(pages[s]) : s \in DOMAIN pages}
    IN  IF NoDimensions(shown) \/ (o # 0 /\ \E s \in DOMAIN pages : HasNext(pages[s])) THEN Fail
        ELSE IF o = 0 THEN Answer(o)
        ELSE /\ seen' = seen \cup shown /\ again' = again \cup (seen \cap shown)
             /\ place' = "done" /\ UNCHANGED <<offset, part, cuts>>
Get(o) == IF kind = "measurements" THEN AnswerMeasurements(o)
          ELSE IF LimitMisplaced THEN Fail ELSE Answer(o)
------------------------------------------------------------------------------
\* GET with offset=x, ...
GetFirst ==
    /\ place = "idle"
    /\ Get(0)
    /\ stayed' = present
    /\ UNCHANGED <<kind, data, present, changes>>

\* ... with the offset of a link ...
Follow ==
    /\ place = "more"
    /\ Get(offset)
    /\ UNCHANGED <<kind, data, present, changes, stayed>>

\* ... or without one: no limit, and no link.
GetAll ==
    LET rows == IF kind = "alarms" THEN AlarmRows(0)
                ELSE IF kind \in {"notifications", "definitions"} THEN RowsById(0)
                ELSE IF kind = "metrics" THEN SeriesNames(0) ELSE Points(1, 0)
    IN  /\ place = "idle"
        /\ IF kind = "measurements" /\ NoDimensions(ItemsOf(rows)) THEN Fail
           ELSE Show(rows) /\ place' = "done" /\ UNCHANGED <<offset, cuts>>
        /\ stayed' = present
        /\ UNCHANGED <<kind, data, present, changes>>

Change(p) ==
    /\ place = "more" /\ changes < MaxChanges
    /\ changes' = changes + 1
    /\ present' = p
    /\ stayed' = stayed \cap p
    /\ UNCHANGED <<kind, data, walk>>
Insert(i) == i \notin present /\ Change(present \cup {i})
\* Nobody deletes what is in InfluxDB.
Delete(i) == /\ i \in present /\ kind \in {"notifications", "definitions", "alarms"}
             /\ Change(present \ {i})

Next == GetFirst \/ GetAll \/ Follow \/ \E i \in Items : Insert(i) \/ Delete(i)
Spec == Init /\ [][Next]_vars
\* The client goes on.
FairSpec == Spec /\ WF_vars(Follow)
------------------------------------------------------------------------------
(* Properties *)
Matching == {i \in Items : data.copies[i] > 0}

\* Who follows the links of notification methods or of alarm definitions to the end has
\* seen every row that was there all the while, however full the pages are, and saw
\* none on two pages; a definition comes again only where two sub-expressions match.
ListedById ==
    kind \in {"notifications", "definitions"} =>
        /\ place = "done" => stayed \cap Matching \subseteq seen
        /\ \A i \in again : data.copies[i] > 1

\* So it is with metrics, but for what is between the last name of a page and that name
\* decoded once more.  If it goes on there, it is lost; if it goes back there, it comes
\* again, as does the last of a page that is as it was, the first of the next.
Skipped(i) == \E o \in cuts : o < i /\ i < data.decoded[o]
Repeated(i) == \E o \in cuts : data.decoded[o] <= i /\ i <= o
MetricsListed ==
    kind = "metrics" =>
        /\ place = "done" => \A i \in stayed \ seen : Skipped(i)
        /\ \A i \in again : Repeated(i)

\* A point of the history, or of the series asked for, is lost only where a page ended
\* within its second; no point is shown twice.
PointsListed ==
    kind \in {"history", "measurements"} =>
        /\ place = "done" => \A i \in stayed \ seen : data.series[i] = 1 => data.second[i] \in cuts
        /\ again = {}

\* Alarms are all shown, with all their metrics, if the rows of those that are there fit
\* on the first page, to the last: they may be lost, shown in part or shown again as soon
\* as they do not.
AlarmsThatFit ==
    kind = "alarms" /\ Cardinality(Rows(present \cup seen)) <= Limit =>
        /\ place = "done" => stayed \subseteq seen
        /\ part = {}

\* A walk ends, where the offset goes on.  That of alarms may come back to the same page
\* for ever, and so may that of metrics as soon as it has gone back by a page.
Crowded == \E o \in cuts : Cardinality({i \in present : data.decoded[o] <= i /\ i <= o}) >= Limit
WalkEnds ==
    place = "more" ~> \/ place \in {"done", "failed"}
                      \/ kind = "alarms"
                      \/ kind = "metrics" /\ Crowded
==============================================================================
