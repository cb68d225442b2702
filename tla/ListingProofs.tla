------------------------------ MODULE ListingProofs ------------------------------
(***************************************************************************)
(* Theorems about module Listing, for every number of items, every limit   *)
(* and any rows added and deleted between two pages: what a client that    *)
(* follows the links of each of the six kinds of list has seen in the end. *)
(***************************************************************************)
EXTENDS Listing, Integers, FiniteSetTheorems, WellFoundedInduction, TLAPS

------------------------------------------------------------------------------
(* The least and the greatest of a set.                                    *)

LEMMA Least ==
    ASSUME NEW S \in SUBSET Nat, S # {}
    PROVE  \E n \in S : \A m \in S : n <= m
<1> DEFINE R == OpToRel(<, Nat)
<1>1. IsWellFoundedOn(R, Nat)
  BY NatLessThanWellFounded
<1>2. \A m, n \in Nat : m < n => <<m, n>> \in R
  BY DEF OpToRel
<1> HIDE DEF R
<1>3. PICK n \in S : \A m \in S : ~ (<<m, n>> \in R)
  BY <1>1, WFMin
<1>4. \A m \in S : ~ (m < n)
  BY <1>2, <1>3
<1> QED
  BY <1>4

LEMMA MinIs ==
    ASSUME NEW S \in SUBSET Nat, S # {}
    PROVE  Min(S) \in S /\ \A m \in S : Min(S) <= m
  BY Least DEF Min

LEMMA MaxIs ==
    ASSUME NEW S \in SUBSET Items, S # {}
    PROVE  Max(S) \in S /\ \A m \in S : m <= Max(S)
<1> DEFINE n == Cardinality(Items)
           T == {n - m : m \in S}
<1>1. n \in Nat
  BY ItemsAssumption, FS_CardinalityType
<1>2. T \in SUBSET Nat /\ T # {}
  BY <1>1, ItemsAssumption
<1>3. PICK t \in T : \A u \in T : t <= u
  BY <1>2, Least
<1>4. PICK m \in S : t = n - m
  OBVIOUS
<1>5. \A k \in S : m >= k
  <2> SUFFICES ASSUME NEW k \in S PROVE m >= k
    OBVIOUS
  <2>1. n - m <= n - k
    BY <1>3, <1>4
  <2> QED
    BY <1>1, <2>1, ItemsAssumption
<1>6. \E k \in S : \A l \in S : k >= l
  BY <1>5
<1>7. Max(S) \in S /\ \A l \in S : Max(S) >= l
  BY <1>6 DEF Max
<1> QED
  BY <1>1, <1>7, ItemsAssumption

------------------------------------------------------------------------------
(* Pages: what "order by ... limit" leaves of a set of rows.               *)

Counts == 0..2
DataOK ==
    /\ data.copies \in [Items -> Counts]
    /\ data.decoded \in [Items -> Nat]
    /\ data.second \in [Items -> Seconds]
    /\ kind \notin {"definitions", "alarms"} => \A i \in Items : data.copies[i] = 1
    /\ kind = "alarms" => \A i \in Items : data.copies[i] > 0

AllRows == Items \X Counts

LEMMA ItemsAre ==
    /\ Items \in SUBSET Nat /\ 0 \notin Items /\ IsFiniteSet(Items)
    /\ IsFiniteSet(AllRows) /\ Limit \in Nat /\ Limit > 0
<1>1. IsFiniteSet(Items) /\ Cardinality(Items) \in Nat
  BY ItemsAssumption, FS_CardinalityType
<1>2. IsFiniteSet(0..2)
  <2>1. 0 \in Int /\ 2 \in Int
    OBVIOUS
  <2> QED
    BY <2>1, FS_Interval
<1>3. IsFiniteSet(AllRows)
  BY <1>1, <1>2, FS_Product DEF AllRows, Counts
<1>4. Items \in SUBSET Nat /\ 0 \notin Items
  BY <1>1, ItemsAssumption
<1> QED
  BY <1>1, <1>3, <1>4, LimitAssumption

LEMMA DataAre ==
    ASSUME DataOK, NEW i \in Items
    PROVE  /\ i \in Nat /\ data.second[i] \in Nat /\ data.second[i] > 0
           /\ data.copies[i] \in Nat /\ data.decoded[i] \in Nat
<1>1. i \in Nat
  BY ItemsAre
<1>2. data.second[i] \in Nat /\ data.second[i] > 0
  <2>1. data.second[i] \in Seconds
    BY DEF DataOK
  <2> QED
    BY <2>1 DEF Seconds
<1>3. data.copies[i] \in Nat
  <2>1. data.copies[i] \in Counts
    BY DEF DataOK
  <2> QED
    BY <2>1 DEF Counts
<1>4. data.decoded[i] \in Nat
  BY DEF DataOK
<1> QED
  BY <1>1, <1>2, <1>3, <1>4

LEMMA RowsAre ==
    ASSUME DataOK, NEW S \in SUBSET Items
    PROVE  /\ Rows(S) \in SUBSET AllRows
           /\ \A x \in Rows(S) : x = <<x[1], x[2]>> /\ x[1] \in S /\ x[2] \in 1..data.copies[x[1]]
           /\ \A i \in S : \A n \in 1..data.copies[i] : <<i, n>> \in Rows(S)
<1>1. \A i \in S : data.copies[i] \in Counts
  BY DEF DataOK
<1>2. \A x \in Rows(S) : \E i \in S : \E n \in 1..data.copies[i] : x = <<i, n>>
  BY DEF Rows
<1>3. \A i \in S : \A n \in 1..data.copies[i] : <<i, n>> \in Rows(S) /\ <<i, n>> \in AllRows
  BY <1>1 DEF Rows, AllRows, Counts
<1> QED
  BY <1>2, <1>3

\* The order of the rows.
LEMMA Ordering ==
    ASSUME DataOK
    PROVE  /\ \A x \in AllRows : ~ Precedes(x, x)
           /\ \A x, y \in AllRows : Precedes(x, y) \/ Precedes(y, x) \/ x = y
           /\ \A x, y, z \in AllRows : Precedes(x, y) /\ Precedes(y, z) => Precedes(x, z)
<1>1. \A x \in AllRows : /\ x = <<x[1], x[2]>> /\ x[1] \in Nat /\ x[2] \in Nat
                         /\ data.second[x[1]] \in Nat
  <2> SUFFICES ASSUME NEW x \in Items \X Counts
               PROVE  x = <<x[1], x[2]>> /\ x[1] \in Nat /\ x[2] \in Nat /\ data.second[x[1]] \in Nat
    BY DEF AllRows
  <2>1. x = <<x[1], x[2]>> /\ x[1] \in Items /\ x[2] \in Counts
    OBVIOUS
  <2>2. x[1] \in Nat /\ data.second[x[1]] \in Nat
    BY <2>1, DataAre
  <2>3. x[2] \in Nat
    BY <2>1 DEF Counts
  <2> QED
    BY <2>1, <2>2, <2>3
<1>2. \A x \in AllRows : ~ Precedes(x, x)
  BY <1>1 DEF Precedes
<1>3. \A x, y \in AllRows : Precedes(x, y) \/ Precedes(y, x) \/ x = y
  <2> SUFFICES ASSUME NEW x \in AllRows, NEW y \in AllRows, ~ Precedes(x, y), ~ Precedes(y, x)
               PROVE  x = y
    OBVIOUS
  <2>1. x[1] = y[1] /\ x[2] = y[2]
    BY <1>1 DEF Precedes
  <2> QED
    BY <1>1, <2>1
<1>4. ASSUME NEW x \in AllRows, NEW y \in AllRows, NEW z \in AllRows, Precedes(x, y), Precedes(y, z)
      PROVE  Precedes(x, z)
  BY <1>1, <1>4 DEF Precedes
<1> QED
  BY <1>2, <1>3, <1>4

\* A page is the beginning of its rows, and all of them unless it is full.
LEMMA PageBegins ==
    ASSUME DataOK, NEW R \in SUBSET AllRows
    PROVE  /\ Take(R) \in SUBSET R /\ IsFiniteSet(R) /\ IsFiniteSet(Take(R))
           /\ Cardinality(Take(R)) \in Nat
           /\ \A x \in Take(R), y \in R : Precedes(y, x) => y \in Take(R)
           /\ Cardinality(Take(R)) < Limit => Take(R) = R
<1>1. Take(R) \in SUBSET R
  BY DEF Take
<1>2. IsFiniteSet(R) /\ IsFiniteSet(Take(R))
  BY <1>1, ItemsAre, FS_Subset
<1>3. \A x \in R : /\ Ahead(x, R) \in SUBSET R /\ IsFiniteSet(Ahead(x, R))
                   /\ Cardinality(Ahead(x, R)) \in Nat
                   /\ x \in Take(R) <=> Cardinality(Ahead(x, R)) < Limit
  <2> SUFFICES ASSUME NEW x \in R
               PROVE  /\ Ahead(x, R) \in SUBSET R /\ IsFiniteSet(Ahead(x, R))
                      /\ Cardinality(Ahead(x, R)) \in Nat
                      /\ x \in Take(R) <=> Cardinality(Ahead(x, R)) < Limit
    OBVIOUS
  <2>1. Ahead(x, R) \in SUBSET R
    BY DEF Ahead
  <2>2. IsFiniteSet(Ahead(x, R)) /\ Cardinality(Ahead(x, R)) \in Nat
    BY <1>2, <2>1, FS_Subset, FS_CardinalityType
  <2> QED
    BY <2>1, <2>2 DEF Take
<1>4. Cardinality(Take(R)) \in Nat
  BY <1>2, FS_CardinalityType
<1>5. ASSUME NEW x \in R, NEW y \in R, Precedes(y, x)
      PROVE  /\ Cardinality(Ahead(y, R)) < Cardinality(Ahead(x, R))
  <2>1. Ahead(y, R) \in SUBSET Ahead(x, R) /\ y \in Ahead(x, R) /\ y \notin Ahead(y, R)
    BY <1>5, Ordering DEF Ahead
  <2>2. /\ Cardinality(Ahead(y, R)) <= Cardinality(Ahead(x, R))
        /\ Cardinality(Ahead(y, R)) # Cardinality(Ahead(x, R))
    BY <1>3, <2>1, FS_Subset
  <2> QED
    BY <1>3, <2>2
<1>6. \A x \in Take(R), y \in R : Precedes(y, x) => y \in Take(R)
  <2> SUFFICES ASSUME NEW x \in Take(R), NEW y \in R, Precedes(y, x) PROVE y \in Take(R)
    OBVIOUS
  <2>1. x \in R /\ Cardinality(Ahead(x, R)) < Limit
    BY <1>1, <1>3
  <2>2. Cardinality(Ahead(y, R)) < Cardinality(Ahead(x, R))
    BY <1>5, <2>1
  <2> QED
    BY ItemsAre, <1>3, <2>1, <2>2
<1>7. ASSUME Cardinality(Take(R)) < Limit PROVE Take(R) = R
  <2> SUFFICES ASSUME R \ Take(R) # {} PROVE FALSE
    BY <1>1
  <2> DEFINE Places == {Cardinality(Ahead(x, R)) : x \in R \ Take(R)}
  <2>1. Places \in SUBSET Nat /\ Places # {}
    BY <1>3
  <2>2. PICK n \in Places : \A m \in Places : n <= m
    BY <2>1, Least
  <2>3. PICK x \in R \ Take(R) : n = Cardinality(Ahead(x, R))
    OBVIOUS
  <2>4. ASSUME NEW y \in Ahead(x, R) PROVE y \in Take(R)
    <3>1. y \in R /\ Cardinality(Ahead(y, R)) < n
      BY <1>5, <2>3 DEF Ahead
    <3>2. y \notin Take(R) => n <= Cardinality(Ahead(y, R))
      BY <2>2, <3>1
    <3> QED
      BY <1>3, <2>3, <3>1, <3>2
  <2>5. Cardinality(Ahead(x, R)) <= Cardinality(Take(R))
    BY <1>2, <2>4, FS_Subset
  <2> QED
    BY ItemsAre, <1>3, <1>4, <1>7, <2>3, <2>5
<1> QED
  BY <1>1, <1>2, <1>4, <1>6, <1>7

\* The items of a page of the rows of S: which of them it leaves out, and for what others.
Page(S) == Take(Rows(S))
LEMMA PageIs ==
    ASSUME DataOK, NEW S \in SUBSET Items
    PROVE  /\ Page(S) \in SUBSET Rows(S) /\ ItemsOf(Page(S)) \in SUBSET S
           /\ IsFiniteSet(Page(S)) /\ IsFiniteSet(ItemsOf(Page(S))) /\ Cardinality(Page(S)) \in Nat
           /\ \A i \in S \ ItemsOf(Page(S)) : data.copies[i] > 0 =>
                /\ Cardinality(Page(S)) >= Limit
                /\ \A j \in ItemsOf(Page(S)) :
                        IF ByTime THEN data.second[j] >= data.second[i] ELSE j < i
<1>1. /\ Page(S) \in SUBSET Rows(S) /\ IsFiniteSet(Page(S)) /\ Cardinality(Page(S)) \in Nat
      /\ \A x \in Page(S), y \in Rows(S) : Precedes(y, x) => y \in Page(S)
      /\ Cardinality(Page(S)) < Limit => Page(S) = Rows(S)
  BY RowsAre, PageBegins DEF Page
<1>2. ItemsOf(Page(S)) \in SUBSET S
  BY <1>1, RowsAre DEF ItemsOf
<1>3. IsFiniteSet(ItemsOf(Page(S)))
  BY ItemsAre, <1>2, FS_Subset
<1>4. ASSUME NEW i \in S \ ItemsOf(Page(S)), data.copies[i] > 0
      PROVE  /\ Cardinality(Page(S)) >= Limit
             /\ \A j \in ItemsOf(Page(S)) : IF ByTime THEN data.second[j] >= data.second[i] ELSE j < i
  <2>1. <<i, 1>> \in Rows(S) /\ <<i, 1>> \notin Page(S)
    <3>1. data.copies[i] \in Nat /\ 1 \in 1..data.copies[i]
      BY <1>4 DEF DataOK, Counts
    <3>2. <<i, 1>> \in Rows(S)
      BY <3>1, RowsAre
    <3>3. <<i, 1>>[1] = i
      OBVIOUS
    <3> QED
      BY <3>2, <3>3 DEF ItemsOf
  <2>2. Cardinality(Page(S)) >= Limit
    BY ItemsAre, <1>1, <2>1
  <2>3. ASSUME NEW j \in ItemsOf(Page(S))
        PROVE  IF ByTime THEN data.second[j] >= data.second[i] ELSE j < i
    <3>1. PICK x \in Page(S) : x[1] = j
      BY DEF ItemsOf
    <3>2. ~ Precedes(<<i, 1>>, x) /\ x # <<i, 1>>
      BY <1>1, <2>1
    <3>3. x \in AllRows /\ <<i, 1>> \in AllRows
      BY <1>1, <2>1, RowsAre
    <3>4. Precedes(x, <<i, 1>>)
      BY <3>2, <3>3, Ordering
    <3>5. i \in Nat /\ j \in Nat /\ j # i /\ data.second[i] \in Nat /\ data.second[j] \in Nat
      <4>1. i \in Items /\ j \in Items /\ j # i
        BY <1>2
      <4> QED
        BY <4>1, DataAre
    <3>6. <<i, 1>>[1] = i /\ <<i, 1>>[2] = 1
      OBVIOUS
    <3> QED
      BY <3>1, <3>4, <3>5, <3>6 DEF Precedes
  <2> QED
    BY <2>2, <2>3
<1> QED
  BY <1>1, <1>2, <1>3, <1>4

------------------------------------------------------------------------------
(* The invariant.                                                          *)

ById == kind \in {"notifications", "definitions"}
TypeInv ==
    /\ DataOK
    /\ place \in {"idle", "more", "done", "failed"}
    /\ present \in SUBSET Items /\ seen \in SUBSET Items /\ stayed \in SUBSET present
    /\ offset \in Nat /\ cuts \in SUBSET Nat
    /\ place = "idle" => /\ offset = 0 /\ cuts = {} /\ stayed = {}
                         /\ seen = {} /\ again = {} /\ part = {}
    /\ place = "more" => offset > 0 /\ offset \in cuts /\ (~ ByTime => offset \in Items)

\* What is behind a walk by id, and what is ahead of it.
IdInv ==
    ById =>
        /\ place = "more" => /\ \A i \in seen : i <= offset
                             /\ \A i \in stayed \cap Matching : i \in seen \/ i > offset
        /\ place = "done" => stayed \cap Matching \subseteq seen
        /\ \A i \in again : data.copies[i] > 1

\* By name: what a decoded offset has jumped over, forward or back, is neither.
NameInv ==
    kind = "metrics" =>
        /\ place = "more" => /\ \A i \in seen : i <= offset \/ Repeated(i)
                             /\ \A i \in stayed : i \in seen \/ i > offset \/ Skipped(i)
        /\ place = "done" => \A i \in stayed : i \in seen \/ Skipped(i)
        /\ \A i \in again : i \in Items /\ Repeated(i)
        /\ cuts \subseteq Items

\* By time, the newest first: what shares a second with the end of a page is neither.
PointInv ==
    ByTime =>
        /\ place = "more" =>
             /\ \A i \in seen : data.second[i] >= offset
             /\ \A i \in stayed : data.series[i] = 1 =>
                    i \in seen \/ data.second[i] < offset \/ data.second[i] \in cuts
        /\ place = "done" =>
             \A i \in stayed : data.series[i] = 1 => i \in seen \/ data.second[i] \in cuts
        /\ again = {}

\* Of the alarms: unless as many rows were shown as a page has, all were.
AlarmInv ==
    kind = "alarms" =>
        /\ place \in {"more", "done"} => stayed \subseteq seen \/ Cardinality(Rows(seen)) >= Limit
        /\ part = {} \/ Cardinality(Rows(seen)) > Limit

Inv == TypeInv /\ IdInv /\ NameInv /\ PointInv /\ AlarmInv

------------------------------------------------------------------------------
(* What a request is answered.                                             *)

\* The items that a request asks for.
Asked(o) ==
    IF ById THEN After(o)
    ELSE IF kind = "alarms" THEN IF o = 0 THEN present ELSE {i \in present : data.definition[i] > o}
    ELSE IF kind = "metrics" THEN {i \in present : i >= Unquoted(o)}
    ELSE {i \in present : data.series[i] = 1 /\ Before(i, o)}

LEMMA AskedIs ==
    ASSUME NEW o \in Nat
    PROVE  Asked(o) \in SUBSET present /\ PageRows(o) = Page(Asked(o))
<1>1. Asked(o) \in SUBSET present
  BY DEF Asked, After
<1>2. PageRows(o) = Page(Asked(o))
  BY DEF Asked, PageRows, Page, ById, RowsById, AlarmRows, SeriesNames, HistoryPoints, Points
<1> QED
  BY <1>1, <1>2

LEMMA UpTo ==
    ASSUME NEW c \in Nat
    PROVE  IsFiniteSet(1..c) /\ Cardinality(1..c) = c
<1>1. 1 \in Int /\ c \in Int
  OBVIOUS
<1>2. IsFiniteSet(1..c) /\ Cardinality(1..c) = IF 1 > c THEN 0 ELSE c - 1 + 1
  BY <1>1, FS_Interval
<1> QED
  BY <1>2

LEMMA TimesIs ==
    ASSUME DataOK, NEW S \in SUBSET Items, NEW R \in SUBSET Rows(S), NEW i \in Items
    PROVE  /\ Times(i, R) \in Nat /\ Times(i, R) <= data.copies[i]
           /\ (\A n \in 1..data.copies[i] : <<i, n>> \in R) => Times(i, R) = data.copies[i]
<1> DEFINE Mine == {x \in R : x[1] = i}
           Whole == {i} \X (1..data.copies[i])
<1>1. data.copies[i] \in Nat
  BY DataAre
<1>2. IsFiniteSet(Whole) /\ Cardinality(Whole) = data.copies[i]
  <2>1. IsFiniteSet({i}) /\ Cardinality({i}) = 1
    BY FS_Singleton
  <2>3. IsFiniteSet(1..data.copies[i]) /\ Cardinality(1..data.copies[i]) = data.copies[i]
    BY <1>1, UpTo
  <2>4. IsFiniteSet(Whole) /\ Cardinality(Whole) = Cardinality({i}) * Cardinality(1..data.copies[i])
    BY <2>1, <2>3, FS_Product
  <2>5. 1 * data.copies[i] = data.copies[i]
    BY <1>1
  <2> HIDE DEF Whole
  <2> QED
    BY <2>1, <2>3, <2>4, <2>5
<1>3. Mine \in SUBSET Whole
  <2> SUFFICES ASSUME NEW x \in Mine PROVE x \in Whole
    OBVIOUS
  <2>1. x = <<x[1], x[2]>> /\ x[1] = i /\ x[2] \in 1..data.copies[i]
    BY RowsAre
  <2> QED
    BY <2>1
<1>4. IsFiniteSet(Mine) /\ Cardinality(Mine) <= data.copies[i] /\ Cardinality(Mine) \in Nat
  BY <1>2, <1>3, FS_Subset, FS_CardinalityType
<1>5. ASSUME \A n \in 1..data.copies[i] : <<i, n>> \in R PROVE Cardinality(Mine) = data.copies[i]
  <2>1. Whole \in SUBSET Mine
    <3> SUFFICES ASSUME NEW x \in Whole PROVE x \in Mine
      OBVIOUS
    <3>1. PICK n \in 1..data.copies[i] : x = <<i, n>>
      OBVIOUS
    <3>2. x[1] = i
      BY <3>1
    <3> QED
      BY <1>5, <3>1, <3>2
  <2>2. Mine = Whole
    BY <1>3, <2>1
  <2> QED
    BY <1>2, <2>2
<1> QED
  BY <1>4, <1>5 DEF Times

LEMMA ShowIs ==
    ASSUME DataOK, NEW S \in SUBSET Items, NEW R \in SUBSET Rows(S), Show(R)
    PROVE  /\ ItemsOf(R) \in SUBSET S /\ seen' = seen \cup ItemsOf(R)
           /\ \A i \in again' :
                i \in again \/ (i \in ItemsOf(R) /\ (i \in seen \/ data.copies[i] > 1))
           /\ kind = "alarms" =>
                \A i \in part' : \/ i \in part
                                 \/ \E n \in 1..data.copies[i] : i \in ItemsOf(R) /\ <<i, n>> \notin R
<1>1. ItemsOf(R) \in SUBSET S
  BY RowsAre DEF ItemsOf
<1>2. ASSUME NEW i \in again', i \notin again
      PROVE  i \in ItemsOf(R) /\ (i \in seen \/ data.copies[i] > 1)
  <2>1. i \in ItemsOf(R) /\ (i \in seen \/ Times(i, R) > 1)
    BY <1>2 DEF Show
  <2>2. i \in Items
    BY <1>1, <2>1
  <2>3. Times(i, R) \in Nat /\ Times(i, R) <= data.copies[i] /\ data.copies[i] \in Nat
    BY <2>2, TimesIs, DataAre
  <2> QED
    BY <2>1, <2>3
<1>3. ASSUME kind = "alarms", NEW i \in part', i \notin part
      PROVE  \E n \in 1..data.copies[i] : i \in ItemsOf(R) /\ <<i, n>> \notin R
  <2>1. i \in ItemsOf(R) /\ Times(i, R) < data.copies[i]
    BY <1>3 DEF Show
  <2>2. i \in Items
    BY <1>1, <2>1
  <2>3. Times(i, R) # data.copies[i]
    BY <2>1, <2>2, TimesIs, DataAre
  <2> QED
    BY <2>1, <2>2, <2>3, TimesIs
<1> QED
  BY <1>1, <1>2, <1>3 DEF Show

LEMMA LastIdIs ==
    ASSUME DataOK, NEW S \in SUBSET Items, NEW R \in SUBSET Rows(S), R # {}
    PROVE  /\ ItemsOf(R) \in SUBSET S /\ ItemsOf(R) # {}
           /\ ByTime => /\ \E j \in ItemsOf(R) : LastId(R) = data.second[j]
                        /\ \A i \in ItemsOf(R) : LastId(R) <= data.second[i]
           /\ ~ ByTime => LastId(R) \in ItemsOf(R) /\ \A i \in ItemsOf(R) : i <= LastId(R)
<1>1. ItemsOf(R) \in SUBSET S /\ ItemsOf(R) # {}
  BY RowsAre DEF ItemsOf
<1>2. CASE ByTime
  <2> DEFINE T == {data.second[i] : i \in ItemsOf(R)}
  <2>1. \A i \in ItemsOf(R) : data.second[i] \in Nat
    BY <1>1, DataAre
  <2>2. T \in SUBSET Nat /\ T # {}
    BY <1>1, <2>1
  <2>3. Min(T) \in T /\ \A m \in T : Min(T) <= m
    BY <2>2, MinIs
  <2> QED
    BY <1>1, <1>2, <2>3 DEF LastId
<1>3. CASE ~ ByTime
  <2>1. ItemsOf(R) \in SUBSET Items
    BY <1>1
  <2> QED
    BY <1>1, <1>3, <2>1, MaxIs DEF LastId
<1> QED
  BY <1>1, <1>2, <1>3


\* What a request that is answered does to the walk: it is shown the items of P, ...
Served(o, P) ==
    /\ P \in SUBSET Asked(o) /\ seen' = seen \cup P
    /\ \A i \in again' : i \in again \/ (i \in P /\ (i \in seen \/ data.copies[i] > 1))
Last(o, P) ==   \* ... all that it has asked for ...
    /\ place' = "done" /\ UNCHANGED <<offset, cuts>>
    /\ kind # "alarms" => \A i \in Asked(o) : data.copies[i] > 0 => i \in P
Linked(o, P) ==   \* ... or those up to the next offset.
    /\ place' = "more" /\ offset' \in Nat /\ offset' > 0 /\ cuts' = cuts \cup {offset'}
    /\ ByTime => /\ \E j \in P : offset' = data.second[j]
                 /\ \A j \in P : offset' <= data.second[j]
    /\ ~ ByTime => offset' \in P /\ \A j \in P : j <= offset'
    /\ \A i \in Asked(o) \ P : data.copies[i] > 0 =>
           IF ByTime THEN data.second[i] <= offset' ELSE i > offset'

LEMMA AnswerIs ==
    ASSUME TypeInv, NEW o \in Nat, Answer(o)
    PROVE  LET P == ItemsOf(Page(Asked(o)))
           IN  Show(Page(Asked(o))) /\ Served(o, P) /\ (Last(o, P) \/ Linked(o, P))
<1> DEFINE R == Page(Asked(o))
           P == ItemsOf(R)
<1>1. /\ Asked(o) \in SUBSET present /\ Asked(o) \in SUBSET Items /\ DataOK /\ PageRows(o) = R
  BY AskedIs DEF TypeInv
<1>2. /\ R \in SUBSET Rows(Asked(o)) /\ P \in SUBSET Asked(o) /\ IsFiniteSet(R) /\ Cardinality(R) \in Nat
      /\ \A i \in Asked(o) \ P : data.copies[i] > 0 =>
            /\ Cardinality(R) >= Limit
            /\ \A j \in P : IF ByTime THEN data.second[j] >= data.second[i] ELSE j < i
  BY <1>1, PageIs
<1> HIDE DEF R
<1>3. Show(R) /\ (IF HasNext(Elements(R))
                    THEN /\ place' = "more" /\ offset' = LastId(R) /\ cuts' = cuts \cup {LastId(R)}
                    ELSE place' = "done" /\ UNCHANGED <<offset, cuts>>)
  BY <1>1 DEF Answer
<1>4. Served(o, P)
  BY <1>1, <1>2, <1>3, ShowIs DEF Served
<1>5. CASE ~ HasNext(Elements(R))
  <2>1. ASSUME kind # "alarms" PROVE Cardinality(R) < Limit
    BY <1>2, <1>5, <2>1, ItemsAre DEF HasNext, Elements
  <2>2. ASSUME kind # "alarms", NEW i \in Asked(o), data.copies[i] > 0 PROVE i \in P
    BY <1>2, <2>1, <2>2, ItemsAre
  <2>3. Last(o, P)
    BY <1>3, <1>5, <2>2 DEF Last
  <2> QED
    BY <1>3, <1>4, <2>3 DEF R
<1>6. CASE HasNext(Elements(R))
  <2>1. R # {}
    <3>1. Elements(R) # {}
      BY <1>6, ItemsAre, FS_EmptySet DEF HasNext
    <3> QED
      BY <3>1 DEF Elements, ItemsOf
  <2>2. /\ P # {}
        /\ ByTime => /\ \E j \in P : LastId(R) = data.second[j]
                     /\ \A i \in P : LastId(R) <= data.second[i]
        /\ ~ ByTime => LastId(R) \in P /\ \A i \in P : i <= LastId(R)
    BY <1>1, <1>2, <2>1, LastIdIs
  <2>3. \A i \in P : i \in Nat /\ i > 0 /\ data.second[i] \in Nat /\ data.second[i] > 0
    <3> SUFFICES ASSUME NEW i \in P PROVE i \in Nat /\ i > 0 /\ data.second[i] \in Nat /\ data.second[i] > 0
      OBVIOUS
    <3>1. i \in Items
      BY <1>1, <1>2
    <3> QED
      BY <1>1, <3>1, ItemsAre, DataAre
  <2>4. LastId(R) \in Nat /\ LastId(R) > 0
    BY <2>2, <2>3
  <2>5. ASSUME NEW i \in Asked(o) \ P, data.copies[i] > 0
        PROVE  IF ByTime THEN data.second[i] <= LastId(R) ELSE i > LastId(R)
    BY <1>2, <2>2, <2>5
  <2>6. Linked(o, P)
    BY <1>3, <1>6, <2>2, <2>4, <2>5 DEF Linked
  <2> QED
    BY <1>3, <1>4, <2>6 DEF R
<1> QED
  BY <1>5, <1>6

LEMMA AllIs ==
    ASSUME TypeInv, GetAll, place' # "failed"
    PROVE  LET P == ItemsOf(Rows(Asked(0)))
           IN  Show(Rows(Asked(0))) /\ Served(0, P) /\ Last(0, P)
<1> DEFINE R == Rows(Asked(0))
<1>1. Asked(0) \in SUBSET Items /\ DataOK
  BY AskedIs DEF TypeInv
<1>2. Show(R) /\ place' = "done" /\ UNCHANGED <<offset, cuts>>
  BY DEF GetAll, Asked, ById, Fail, AlarmRows, RowsById, SeriesNames, Points
<1>3. Served(0, ItemsOf(R))
  BY <1>1, <1>2, ShowIs DEF Served
<1>4. ASSUME NEW i \in Asked(0), data.copies[i] > 0 PROVE i \in ItemsOf(R)
  <2>1. <<i, 1>> \in R
    <3>1. i \in Items
      BY <1>1
    <3>2. 1 \in 1..data.copies[i]
      BY <1>1, <1>4, <3>1, DataAre
    <3> QED
      BY <1>1, <3>2, RowsAre
  <2>2. <<i, 1>>[1] = i
    OBVIOUS
  <2> QED
    BY <2>1, <2>2 DEF ItemsOf
<1>5. Last(0, ItemsOf(R))
  BY <1>2, <1>4 DEF Last
<1> QED
  BY <1>2, <1>3, <1>5


------------------------------------------------------------------------------
(* What a request that is answered preserves, kind by kind.                *)

LEMMA IdServed ==
    ASSUME TypeInv, ById, NEW o \in Nat, NEW P, Served(o, P), Last(o, P) \/ Linked(o, P),
           UNCHANGED <<kind, data>>, stayed' \in SUBSET present,
           \A i \in seen : i <= o,
           \A i \in stayed' \cap Matching : i \in seen \/ i > o,
           \A i \in again : data.copies[i] > 1
    PROVE  IdInv'
<1>1. /\ Asked(o) = {i \in present : i > o} /\ P \in SUBSET Asked(o) /\ seen' = seen \cup P
      /\ ~ ByTime /\ kind # "alarms"
  BY DEF Asked, After, Served, ById, ByTime
<1>2. \A i \in Items : i \in Nat /\ data.copies[i] \in Nat
  BY DataAre DEF TypeInv
<1>3. seen \in SUBSET Items /\ present \in SUBSET Items /\ P \in SUBSET Items /\ stayed' \in SUBSET Items
  BY <1>1 DEF TypeInv
<1>4. \A i \in again' : data.copies[i] > 1
  BY <1>1, <1>2, <1>3 DEF Served
<1>5. \A i \in stayed' \cap Matching : i \in seen \/ (i \in Asked(o) /\ data.copies[i] > 0)
  BY <1>1, <1>3 DEF Matching
<1>6. CASE Last(o, P)
  <2>1. place' = "done" /\ \A i \in Asked(o) : data.copies[i] > 0 => i \in P
    BY <1>1, <1>6 DEF Last
  <2>2. stayed' \cap Matching \subseteq seen'
    BY <1>1, <1>5, <2>1
  <2>3. Matching' = Matching
    BY DEF Matching
  <2> QED
    BY <1>4, <2>1, <2>2, <2>3 DEF IdInv
<1>7. CASE Linked(o, P)
  <2>1. /\ place' = "more" /\ offset' \in P /\ \A j \in P : j <= offset'
        /\ \A i \in Asked(o) \ P : data.copies[i] > 0 => i > offset'
    BY <1>1, <1>7 DEF Linked
  <2>2. \A i \in seen' : i <= offset'
    <3>1. offset' > o /\ offset' \in Nat
      BY <1>1, <1>2, <1>3, <2>1
    <3> QED
      BY <1>1, <1>2, <1>3, <2>1, <3>1
  <2>3. \A i \in stayed' \cap Matching : i \in seen' \/ i > offset'
    BY <1>1, <1>5, <2>1
  <2>4. Matching' = Matching
    BY DEF Matching
  <2> QED
    BY <1>4, <2>1, <2>2, <2>3, <2>4 DEF IdInv
<1> QED
  BY <1>6, <1>7

LEMMA NameServed ==
    ASSUME TypeInv, kind = "metrics", NEW o \in Nat, NEW P,
           Served(o, P), Last(o, P) \/ Linked(o, P),
           UNCHANGED <<kind, data>>, stayed' \in SUBSET present,
           o = 0 => seen = {}, o # 0 => o \in cuts,
           \A i \in seen : i <= o \/ Repeated(i),
           \A i \in stayed' : i \in seen \/ i > o \/ Skipped(i),
           \A i \in again : i \in Items /\ Repeated(i), cuts \subseteq Items
    PROVE  NameInv'
<1>1. /\ Asked(o) = {i \in present : i >= Unquoted(o)} /\ P \in SUBSET Asked(o) /\ seen' = seen \cup P
      /\ ~ ByTime /\ kind # "alarms"
  BY DEF Asked, Served, ById, ByTime
<1>2. \A i \in Items : i \in Nat /\ data.decoded[i] \in Nat /\ data.copies[i] = 1
  BY DataAre DEF TypeInv, DataOK
<1>3. seen \in SUBSET Items /\ present \in SUBSET Items /\ P \in SUBSET Items /\ stayed' \in SUBSET Items
  BY <1>1 DEF TypeInv
<1>4. Unquoted(o) \in Nat /\ (o # 0 => Unquoted(o) = data.decoded[o])
  BY <1>2 DEF Unquoted
<1>5. cuts' \subseteq Items /\ cuts \subseteq cuts'
  BY <1>1, <1>3 DEF Last, Linked
<1>6. \A i \in Items : (Skipped(i) => Skipped(i)') /\ (Repeated(i) => Repeated(i)')
  BY <1>5 DEF Skipped, Repeated
\* What is seen again is where the offset went back.
<1>7. ASSUME NEW i \in Items, i \in seen, i >= Unquoted(o) PROVE Repeated(i)
  <2>1. CASE i <= o
    <3>1. o \in cuts /\ Unquoted(o) = data.decoded[o]
      BY <1>4, <1>7
    <3>2. data.decoded[o] <= i
      BY <1>2, <1>3, <1>7, <3>1
    <3> QED
      BY <2>1, <3>1, <3>2 DEF Repeated
  <2> QED
    BY <1>7, <2>1
<1>8. \A i \in again' : i \in Items /\ Repeated(i)'
  <2> SUFFICES ASSUME NEW i \in again', i \notin again PROVE i \in Items /\ Repeated(i)'
    BY <1>6
  <2>1. i \in P /\ i \in seen
    BY <1>2, <1>3 DEF Served
  <2>2. i \in Items /\ i >= Unquoted(o)
    BY <1>1, <1>3, <2>1
  <2> QED
    BY <1>6, <1>7, <2>1, <2>2
<1>9. ASSUME NEW i \in stayed', i \notin seen PROVE i \in Asked(o) \/ Skipped(i)
  <2>0. i \in Items /\ i \in present /\ i \in Nat
    BY <1>2, <1>3
  <2>1. CASE i > o /\ i < Unquoted(o)
    <3>1. o \in cuts /\ Unquoted(o) = data.decoded[o]
      BY <1>4, <2>0, <2>1 DEF Unquoted
    <3> QED
      BY <2>1, <3>1 DEF Skipped
  <2>2. CASE i > o /\ i >= Unquoted(o)
    BY <1>1, <2>0, <2>2
  <2> QED
    BY <1>4, <1>9, <2>0, <2>1, <2>2
<1>10. CASE Last(o, P)
  <2>1. place' = "done" /\ \A i \in Asked(o) : i \in P
    <3>1. \A i \in Asked(o) : data.copies[i] > 0
      BY <1>1, <1>2, <1>3
    <3> QED
      BY <1>1, <1>10, <3>1 DEF Last
  <2>2. \A i \in stayed' : i \in seen' \/ Skipped(i)'
    BY <1>1, <1>3, <1>6, <1>9, <2>1
  <2> QED
    BY <1>5, <1>8, <2>1, <2>2 DEF NameInv
<1>11. CASE Linked(o, P)
  <2>1. /\ place' = "more" /\ offset' \in P /\ \A j \in P : j <= offset'
        /\ \A i \in Asked(o) \ P : i > offset'
    <3>1. \A i \in Asked(o) : data.copies[i] > 0
      BY <1>1, <1>2, <1>3
    <3> QED
      BY <1>1, <1>11, <3>1 DEF Linked
  <2>2. offset' \in Nat /\ offset' >= Unquoted(o)
    BY <1>1, <1>2, <1>3, <2>1
  <2>3. ASSUME NEW i \in seen' PROVE i <= offset' \/ Repeated(i)'
    <3>0. i \in Items /\ i \in Nat
      BY <1>1, <1>2, <1>3
    <3>1. CASE i \in P
      BY <2>1, <3>1
    <3>2. CASE i \in seen /\ i > offset'
      <4>1. i >= Unquoted(o)
        BY <1>4, <2>2, <3>0, <3>2
      <4> QED
        BY <1>6, <1>7, <3>0, <3>2, <4>1
    <3> QED
      BY <1>1, <2>2, <3>0, <3>1, <3>2
  <2>4. \A i \in stayed' : i \in seen' \/ i > offset' \/ Skipped(i)'
    BY <1>1, <1>3, <1>6, <1>9, <2>1
  <2> QED
    BY <1>5, <1>8, <2>1, <2>3, <2>4 DEF NameInv
<1> QED
  BY <1>10, <1>11

LEMMA PointServed ==
    ASSUME TypeInv, ByTime, NEW o \in Nat, NEW P, Served(o, P), Last(o, P) \/ Linked(o, P),
           UNCHANGED <<kind, data>>, stayed' \in SUBSET present,
           o = 0 => seen = {},
           o # 0 => /\ \A i \in seen : data.second[i] >= o
                    /\ \A i \in stayed' : data.series[i] = 1 =>
                            i \in seen \/ data.second[i] < o \/ data.second[i] \in cuts,
           again = {}
    PROVE  PointInv'
<1>1. /\ Asked(o) = {i \in present : data.series[i] = 1 /\ Before(i, o)}
      /\ P \in SUBSET Asked(o) /\ seen' = seen \cup P /\ kind # "alarms"
  BY DEF Asked, Served, ById, ByTime
<1>2. \A i \in Items : data.second[i] \in Nat /\ data.copies[i] = 1
  BY DataAre DEF TypeInv, DataOK, ByTime
<1>3. seen \in SUBSET Items /\ present \in SUBSET Items /\ P \in SUBSET Items /\ stayed' \in SUBSET Items
  BY <1>1 DEF TypeInv
<1>4. again' = {}
  <2> SUFFICES ASSUME NEW i \in again' PROVE FALSE
    OBVIOUS
  <2>1. i \in P /\ i \in seen
    BY <1>2, <1>3 DEF Served
  <2>2. o # 0 /\ data.second[i] >= o /\ data.second[i] < o
    BY <1>1, <2>1 DEF Before
  <2> QED
    BY <1>2, <1>3, <2>1, <2>2
<1>5. cuts \subseteq cuts'
  BY DEF Last, Linked
<1>6. ASSUME NEW i \in stayed', data.series[i] = 1
      PROVE  i \in seen \/ data.second[i] \in cuts \/ i \in Asked(o)
  BY <1>1, <1>6 DEF Before
<1>7. ByTime'
  BY DEF ByTime
<1>8. CASE Last(o, P)
  <2>1. place' = "done" /\ \A i \in Asked(o) : i \in P
    <3>1. \A i \in Asked(o) : data.copies[i] > 0
      BY <1>1, <1>2, <1>3
    <3> QED
      BY <1>1, <1>8, <3>1 DEF Last
  <2>2. \A i \in stayed' : data.series[i] = 1 => i \in seen' \/ data.second[i] \in cuts'
    BY <1>1, <1>5, <1>6, <2>1
  <2> QED
    BY <1>4, <2>1, <2>2 DEF PointInv
<1>9. CASE Linked(o, P)
  <2>1. /\ place' = "more" /\ offset' \in Nat /\ offset' \in cuts'
        /\ \E j \in P : offset' = data.second[j]
        /\ \A j \in P : offset' <= data.second[j]
        /\ \A i \in Asked(o) \ P : data.second[i] <= offset'
    <3>1. \A i \in Asked(o) : data.copies[i] > 0
      BY <1>1, <1>2, <1>3
    <3> QED
      BY <1>1, <1>9, <3>1 DEF Linked
  <2>2. \A i \in seen' : data.second[i] >= offset'
    <3>1. ASSUME o # 0 PROVE offset' < o
      BY <1>1, <2>1, <3>1 DEF Before
    <3>2. ASSUME NEW i \in seen PROVE data.second[i] >= offset'
      <4>1. o # 0 /\ data.second[i] >= o /\ data.second[i] \in Nat
        BY <1>2, <1>3, <3>2
      <4> QED
        BY <2>1, <3>1, <4>1
    <3>3. ASSUME NEW i \in P PROVE data.second[i] >= offset'
      <4>1. offset' <= data.second[i] /\ data.second[i] \in Nat
        BY <1>2, <1>3, <2>1
      <4> QED
        BY <2>1, <4>1
    <3> QED
      BY <1>1, <3>2, <3>3
  <2>3. ASSUME NEW i \in stayed', data.series[i] = 1
        PROVE  i \in seen' \/ data.second[i] < offset' \/ data.second[i] \in cuts'
    <3>1. CASE i \in Asked(o) \ P
      <4>1. data.second[i] <= offset' /\ data.second[i] \in Nat
        BY <1>2, <1>3, <2>1, <3>1
      <4> QED
        BY <2>1, <4>1
    <3> QED
      BY <1>1, <1>5, <1>6, <2>3, <3>1
  <2> QED
    BY <1>4, <2>1, <2>2, <2>3 DEF PointInv
<1> QED
  BY <1>8, <1>9


LEMMA RowsGrow ==
    ASSUME DataOK, NEW S \in SUBSET Items, NEW T \in SUBSET S
    PROVE  /\ Rows(T) \in SUBSET Rows(S) /\ IsFiniteSet(Rows(S))
           /\ Cardinality(Rows(T)) \in Nat /\ Cardinality(Rows(S)) \in Nat
           /\ Cardinality(Rows(T)) <= Cardinality(Rows(S))
           /\ \A R \in SUBSET Rows(S) :
                /\ Cardinality(R) \in Nat /\ Cardinality(R) <= Cardinality(Rows(S))
                /\ R # Rows(S) => Cardinality(R) < Cardinality(Rows(S))
<1>1. Rows(T) \in SUBSET Rows(S)
  BY DEF Rows
<1>2. IsFiniteSet(Rows(S))
  BY RowsAre, ItemsAre, FS_Subset
<1>3. ASSUME NEW R \in SUBSET Rows(S)
      PROVE  /\ Cardinality(R) \in Nat /\ Cardinality(R) <= Cardinality(Rows(S))
             /\ R # Rows(S) => Cardinality(R) # Cardinality(Rows(S))
             /\ Cardinality(Rows(S)) \in Nat
  BY <1>2, FS_Subset, FS_CardinalityType
<1>4. \A R \in SUBSET Rows(S) :
                /\ Cardinality(R) \in Nat /\ Cardinality(R) <= Cardinality(Rows(S))
                /\ R # Rows(S) => Cardinality(R) < Cardinality(Rows(S))
                /\ Cardinality(Rows(S)) \in Nat
  BY <1>3
<1> QED
  BY <1>1, <1>2, <1>4

LEMMA AlarmServed ==
    ASSUME TypeInv, kind = "alarms", NEW o \in Nat, NEW R, Show(R),
           R = Page(Asked(o)) \/ R = Rows(Asked(o)),
           UNCHANGED <<kind, data>>, stayed' \in SUBSET present,
           o = 0 \/ stayed' \subseteq seen \/ Cardinality(Rows(seen)) >= Limit,
           part = {} \/ Cardinality(Rows(seen)) > Limit
    PROVE  AlarmInv'
<1>1. /\ Asked(o) \in SUBSET present /\ Asked(o) \in SUBSET Items /\ DataOK
      /\ o = 0 => Asked(o) = present
      /\ present \in SUBSET Items /\ seen \in SUBSET Items
  BY AskedIs DEF TypeInv, Asked, ById
<1>2. R \in SUBSET Rows(Asked(o))
  BY <1>1, PageIs
<1>3. /\ seen' = seen \cup ItemsOf(R) /\ ItemsOf(R) \in SUBSET Asked(o) /\ seen' \in SUBSET Items
      /\ \A i \in part' : \/ i \in part
                          \/ \E n \in 1..data.copies[i] : i \in ItemsOf(R) /\ <<i, n>> \notin R
  BY <1>1, <1>2, ShowIs
<1> DEFINE All == Rows(seen')
<1>4. R \in SUBSET All
  <2> SUFFICES ASSUME NEW x \in R PROVE x \in All
    OBVIOUS
  <2>1. x = <<x[1], x[2]>> /\ x[2] \in 1..data.copies[x[1]]
    BY <1>1, <1>2, RowsAre
  <2>2. x[1] \in seen'
    BY <1>3 DEF ItemsOf
  <2> QED
    BY <1>1, <1>3, <2>1, <2>2, RowsAre
<1>5. /\ Cardinality(Rows(seen)) \in Nat /\ Cardinality(All) \in Nat /\ Cardinality(R) \in Nat
      /\ Cardinality(Rows(seen)) <= Cardinality(All) /\ Cardinality(R) <= Cardinality(All)
      /\ R # All => Cardinality(R) < Cardinality(All)
  BY <1>1, <1>3, <1>4, RowsGrow
<1>6. R # Rows(Asked(o)) => Cardinality(R) >= Limit
  BY <1>1, <1>5, RowsAre, PageBegins, ItemsAre DEF Page
<1>7. stayed' \subseteq seen' \/ Cardinality(All) >= Limit
  <2>1. CASE o = 0 /\ R = Rows(Asked(o))
    <3>1. ASSUME NEW i \in stayed' PROVE i \in ItemsOf(R)
      <4>1. i \in Asked(o) /\ i \in Items
        BY <1>1, <2>1
      <4>2. data.copies[i] \in Nat /\ data.copies[i] > 0
        BY <1>1, <4>1, DataAre DEF DataOK
      <4>3. <<i, 1>> \in R /\ <<i, 1>>[1] = i
        BY <1>1, <2>1, <4>1, <4>2, RowsAre
      <4> QED
        BY <4>3 DEF ItemsOf
    <3> QED
      BY <1>3, <3>1
  <2>2. CASE R # Rows(Asked(o))
    BY <1>5, <1>6, <2>2, ItemsAre
  <2>3. CASE stayed' \subseteq seen \/ Cardinality(Rows(seen)) >= Limit
    BY <1>3, <1>5, <2>3, ItemsAre
  <2> QED
    BY <2>1, <2>2, <2>3
<1>8. part' = {} \/ Cardinality(All) > Limit
  <2>1. CASE part = {}
    <3> SUFFICES ASSUME NEW i \in part' PROVE Cardinality(All) > Limit
      OBVIOUS
    <3>1. PICK n \in 1..data.copies[i] : i \in ItemsOf(R) /\ <<i, n>> \notin R
      BY <1>3, <2>1
    <3>2. i \in Asked(o) /\ i \in seen'
      BY <1>3, <3>1
    <3>3. <<i, n>> \in Rows(Asked(o)) /\ <<i, n>> \in All
      BY <1>1, <1>3, <3>2, RowsAre
    <3>4. Cardinality(R) >= Limit /\ Cardinality(R) < Cardinality(All)
      BY <1>5, <1>6, <3>1, <3>3
    <3> QED
      BY <1>5, <3>4, ItemsAre
  <2>2. CASE Cardinality(Rows(seen)) > Limit
    BY <1>5, <2>2, ItemsAre
  <2> QED
    BY <2>1, <2>2
<1>9. Rows(seen)' = All
  BY DEF Rows
<1> QED
  BY <1>7, <1>8, <1>9 DEF AlarmInv

LEMMA TypeServed ==
    ASSUME TypeInv, NEW o \in Nat, NEW P, Served(o, P), Last(o, P) \/ Linked(o, P),
           UNCHANGED <<kind, data, present>>, stayed' \in SUBSET present
    PROVE  TypeInv'
<1>1. P \in SUBSET Items /\ seen' = seen \cup P
  BY AskedIs DEF TypeInv, Served
<1>2. DataOK' /\ ByTime' = ByTime
  BY DEF TypeInv, DataOK, ByTime
<1>3. /\ place' \in {"done", "more"} /\ offset' \in Nat /\ cuts' \in SUBSET Nat
      /\ place' = "more" => offset' > 0 /\ offset' \in cuts' /\ (~ ByTime => offset' \in P)
  <2>1. CASE Last(o, P)
    BY <2>1 DEF Last, TypeInv
  <2>2. CASE Linked(o, P)
    BY <2>2 DEF Linked, TypeInv
  <2> QED
    BY <2>1, <2>2
<1> QED
  BY <1>1, <1>2, <1>3 DEF TypeInv


------------------------------------------------------------------------------
(* The steps.                                                              *)

\* A page of the points of each series that a link of measurements asks for.
LEMMA LastPoints ==
    ASSUME TypeInv, kind = "measurements", NEW o \in Nat, o # 0, AnswerMeasurements(o),
           place' # "failed"
    PROVE  \E shown \in SUBSET {i \in present : Before(i, o)} :
             /\ seen' = seen \cup shown /\ again' = again \cup (seen \cap shown)
             /\ place' = "done" /\ UNCHANGED <<offset, part, cuts>>
             /\ \A i \in present : data.series[i] = 1 /\ Before(i, o) => i \in shown
<1> DEFINE Mine(s) == {i \in present : data.series[i] = s /\ Before(i, o)}
           pages == [s \in SeriesAsked(o) |-> Take(Points(s, o))]
           shown == UNION {ItemsOf(pages[s]) : s \in DOMAIN pages}
<1>1. SeriesAsked(o) = {1, 2} /\ DOMAIN pages = {1, 2}
  BY DEF SeriesAsked
<1>2. \A s \in {1, 2} : pages[s] = Page(Mine(s))
  BY <1>1 DEF Points, Page
<1>3. DataOK /\ \A s \in {1, 2} : Mine(s) \in SUBSET Items
  BY DEF TypeInv
<1>4. /\ \A s \in DOMAIN pages : ~ HasNext(pages[s])
      /\ seen' = seen \cup shown /\ again' = again \cup (seen \cap shown)
      /\ place' = "done" /\ UNCHANGED <<offset, part, cuts>>
  BY DEF AnswerMeasurements, Fail
<1> HIDE DEF pages, Mine
<1>5. \A s \in {1, 2} : ItemsOf(pages[s]) \in SUBSET Mine(s)
  BY <1>2, <1>3, PageIs
<1>6. shown \in SUBSET {i \in present : Before(i, o)}
  BY <1>1, <1>5 DEF Mine
<1>7. ASSUME NEW i \in present, data.series[i] = 1, Before(i, o) PROVE i \in shown
  <2>1. i \in Mine(1) /\ i \in Items /\ data.copies[i] > 0
    BY <1>7 DEF Mine, TypeInv, DataOK
  <2>2. Cardinality(Page(Mine(1))) < Limit
    <3>1. ~ (Cardinality(Page(Mine(1))) >= Limit)
      BY <1>1, <1>2, <1>4 DEF HasNext
    <3>2. Cardinality(Page(Mine(1))) \in Nat
      BY <1>3, PageIs
    <3> QED
      BY <3>1, <3>2, ItemsAre
  <2>3. i \notin ItemsOf(Page(Mine(1))) => Cardinality(Page(Mine(1))) >= Limit
    BY <1>3, <2>1, PageIs
  <2>4. i \in ItemsOf(pages[1])
    <3>1. Cardinality(Page(Mine(1))) \in Nat
      BY <1>3, PageIs
    <3> QED
      BY <1>2, <2>2, <2>3, <3>1, ItemsAre
  <2> QED
    BY <1>1, <2>4
<1> HIDE DEF shown
<1> QED
  BY <1>4, <1>6, <1>7

LEMMA GetIs ==
    ASSUME NEW o \in Nat, Get(o), place' # "failed"
    PROVE  Answer(o) \/ (kind = "measurements" /\ o # 0 /\ AnswerMeasurements(o))
  BY DEF Get, AnswerMeasurements, Fail

\* A request for a page, the first or that of a link.
Requested(o) ==
    \/ place = "idle" /\ o = 0 /\ stayed' = present
    \/ place = "more" /\ o = offset /\ stayed' = stayed

LEMMA AnswerKeeps ==
    ASSUME Inv, NEW o \in Nat, Requested(o), Answer(o), UNCHANGED <<kind, data, present>>
    PROVE  Inv'
<1> DEFINE R == Page(Asked(o))
           P == ItemsOf(R)
<1>1. TypeInv /\ stayed' \in SUBSET present /\ present \in SUBSET Items /\ stayed' \in SUBSET Items
  BY DEF Inv, TypeInv, Requested
<1>2. Show(R) /\ Served(o, P) /\ (Last(o, P) \/ Linked(o, P))
  BY <1>1, AnswerIs
<1> HIDE DEF R, P
<1>3. TypeInv'
  BY <1>1, <1>2, TypeServed
<1>4. o = 0 => place = "idle"
  BY <1>1 DEF Requested, TypeInv
<1>5. \A i \in Items : i \in Nat /\ i > 0
  BY ItemsAre
<1>6. place = "idle" => o = 0 /\ seen = {} /\ again = {} /\ part = {} /\ cuts = {}
  BY <1>1 DEF Requested, TypeInv
<1>7. IdInv'
  <2>1. CASE ById
    <3>1. /\ \A i \in seen : i <= o
          /\ \A i \in stayed' \cap Matching : i \in seen \/ i > o
          /\ \A i \in again : data.copies[i] > 1
      BY <1>1, <1>5, <1>6, <2>1 DEF Inv, IdInv, Requested
    <3> QED
      BY <1>1, <1>2, <2>1, <3>1, IdServed
  <2>2. CASE ~ ById
    BY <2>2 DEF IdInv, ById
  <2> QED
    BY <2>1, <2>2
<1>8. NameInv'
  <2>1. CASE kind = "metrics"
    <3>1. /\ o = 0 => seen = {}
          /\ o # 0 => o \in cuts
          /\ \A i \in seen : i <= o \/ Repeated(i)
          /\ \A i \in stayed' : i \in seen \/ i > o \/ Skipped(i)
          /\ \A i \in again : i \in Items /\ Repeated(i)
          /\ cuts \subseteq Items
      BY <1>1, <1>4, <1>5, <1>6, <2>1 DEF Inv, TypeInv, NameInv, Requested
    <3> QED
      BY <1>1, <1>2, <2>1, <3>1, NameServed
  <2>2. CASE kind # "metrics"
    BY <2>2 DEF NameInv
  <2> QED
    BY <2>1, <2>2
<1>9. PointInv'
  <2>1. CASE ByTime
    <3>1. /\ o = 0 => seen = {}
          /\ o # 0 => /\ \A i \in seen : data.second[i] >= o
                      /\ \A i \in stayed' : data.series[i] = 1 =>
                            i \in seen \/ data.second[i] < o \/ data.second[i] \in cuts
          /\ again = {}
      BY <1>1, <1>4, <1>6, <2>1 DEF Inv, PointInv, Requested
    <3> QED
      BY <1>1, <1>2, <2>1, <3>1, PointServed
  <2>2. CASE ~ ByTime
    BY <2>2 DEF PointInv, ByTime
  <2> QED
    BY <2>1, <2>2
<1>10. AlarmInv'
  <2>1. CASE kind = "alarms"
    <3>1. /\ o = 0 \/ stayed' \subseteq seen \/ Cardinality(Rows(seen)) >= Limit
          /\ part = {} \/ Cardinality(Rows(seen)) > Limit
      BY <1>6, <2>1 DEF Inv, AlarmInv, Requested
    <3> QED
      BY <1>1, <1>2, <2>1, <3>1, AlarmServed DEF R
  <2>2. CASE kind # "alarms"
    BY <2>2 DEF AlarmInv
  <2> QED
    BY <2>1, <2>2
<1> QED
  BY <1>3, <1>7, <1>8, <1>9, <1>10 DEF Inv


LEMMA LastPointsKeep ==
    ASSUME Inv, NEW o \in Nat, o # 0, Requested(o), kind = "measurements",
           AnswerMeasurements(o), place' # "failed", UNCHANGED <<kind, data, present>>
    PROVE  Inv'
<1>1. TypeInv /\ present \in SUBSET Items /\ stayed \in SUBSET present
  BY DEF Inv, TypeInv
<1>2. place = "more" /\ o = offset /\ stayed' = stayed
  BY <1>1 DEF Requested
<1>3. PICK shown \in SUBSET {i \in present : Before(i, o)} :
             /\ seen' = seen \cup shown /\ again' = again \cup (seen \cap shown)
             /\ place' = "done" /\ UNCHANGED <<offset, part, cuts>>
             /\ \A i \in present : data.series[i] = 1 /\ Before(i, o) => i \in shown
  BY <1>1, LastPoints
<1>4. ByTime /\ ByTime'
  BY DEF ByTime
<1>5. TypeInv'
  <2>1. DataOK'
    BY <1>1 DEF TypeInv, DataOK
  <2> QED
    BY <1>1, <1>2, <1>3, <2>1 DEF TypeInv
<1>6. /\ \A i \in seen : data.second[i] >= o
      /\ \A i \in stayed : data.series[i] = 1 =>
            i \in seen \/ data.second[i] < o \/ data.second[i] \in cuts
      /\ again = {}
  BY <1>2, <1>4 DEF Inv, PointInv
<1>7. again' = {}
  <2> SUFFICES ASSUME NEW i \in seen \cap shown PROVE FALSE
    BY <1>3, <1>6
  <2>1. data.second[i] >= o /\ data.second[i] < o /\ data.second[i] \in Nat
    BY <1>1, <1>3, <1>6, DataAre DEF Before, TypeInv
  <2> QED
    BY <2>1
<1>8. \A i \in stayed' : data.series[i] = 1 => i \in seen' \/ data.second[i] \in cuts'
  BY <1>1, <1>2, <1>3, <1>6 DEF Before
<1>9. PointInv'
  BY <1>3, <1>7, <1>8 DEF PointInv
<1> QED
  BY <1>5, <1>9 DEF Inv, IdInv, ById, NameInv, AlarmInv

LEMMA FailKeeps ==
    ASSUME Inv, place' = "failed", UNCHANGED <<kind, data, present, offset, seen, again, part, cuts>>,
           stayed' \in SUBSET present
    PROVE  Inv'
<1>1. DataOK' /\ ByTime' = ByTime /\ ById' = ById /\ Rows(seen)' = Rows(seen)
  BY DEF Inv, TypeInv, DataOK, ByTime, ById, Rows
<1>2. TypeInv'
  BY <1>1 DEF Inv, TypeInv
<1>3. IdInv' /\ NameInv' /\ PointInv' /\ AlarmInv'
  BY <1>1 DEF Inv, IdInv, NameInv, Repeated, PointInv, AlarmInv
<1> QED
  BY <1>2, <1>3 DEF Inv

LEMMA GetKeeps ==
    ASSUME Inv, NEW o \in Nat, Requested(o), Get(o), UNCHANGED <<kind, data, present>>
    PROVE  Inv'
<1>1. CASE place' = "failed"
  <2>1. UNCHANGED <<offset, seen, again, part, cuts>>
    BY <1>1 DEF Get, AnswerMeasurements, Answer, Fail
  <2>2. stayed' \in SUBSET present
    BY DEF Inv, TypeInv, Requested
  <2> QED
    BY <1>1, <2>1, <2>2, FailKeeps
<1>2. CASE place' # "failed"
  BY <1>2, GetIs, AnswerKeeps, LastPointsKeep
<1> QED
  BY <1>1, <1>2

LEMMA GetAllKeeps ==
    ASSUME Inv, GetAll
    PROVE  Inv'
<1>1. /\ TypeInv /\ place = "idle" /\ stayed' = present /\ UNCHANGED <<kind, data, present>>
      /\ present \in SUBSET Items
      /\ offset = 0 /\ seen = {} /\ again = {} /\ part = {} /\ cuts = {}
  BY DEF Inv, TypeInv, GetAll
<1>2. CASE place' = "failed"
  <2>1. UNCHANGED <<offset, seen, again, part, cuts>>
    BY <1>2 DEF GetAll, Fail
  <2> QED
    BY <1>1, <1>2, <2>1, FailKeeps
<1>3. CASE place' # "failed"
  <2> DEFINE R == Rows(Asked(0))
             P == ItemsOf(R)
  <2>0. PICK o \in Nat : o = 0
    OBVIOUS
  <2>1. Show(R) /\ Served(o, P) /\ Last(o, P)
    BY <1>1, <1>3, <2>0, AllIs
  <2>2. R = Rows(Asked(o)) /\ stayed' \in SUBSET present
    BY <1>1, <2>0
  <2> HIDE DEF R, P
  <2>3. TypeInv'
    BY <1>1, <2>1, <2>2, TypeServed
  <2>4. /\ \A i \in seen : i <= o
        /\ \A i \in stayed' : i > o
        /\ again = {} /\ cuts \subseteq Items
    BY <1>1, <2>0, ItemsAre
  <2>5. ById => IdInv'
    BY <1>1, <2>1, <2>2, <2>4, IdServed
  <2>6. kind = "metrics" => NameInv'
    BY <1>1, <2>0, <2>1, <2>2, <2>4, NameServed
  <2>7. ByTime => PointInv'
    BY <1>1, <2>0, <2>1, <2>2, PointServed
  <2>8. kind = "alarms" => AlarmInv'
    BY <1>1, <2>0, <2>1, <2>2, AlarmServed
  <2>9. (ById \/ IdInv') /\ (kind = "metrics" \/ NameInv') /\ (ByTime \/ PointInv')
        /\ (kind = "alarms" \/ AlarmInv')
    BY <1>1 DEF IdInv, ById, NameInv, PointInv, ByTime, AlarmInv
  <2> QED
    BY <2>3, <2>5, <2>6, <2>7, <2>8, <2>9 DEF Inv
<1> QED
  BY <1>2, <1>3

LEMMA ChangeKeeps ==
    ASSUME Inv, NEW p \in SUBSET Items, Change(p)
    PROVE  Inv'
<1>1. /\ place = "more" /\ present' = p /\ stayed' = stayed \cap p
      /\ UNCHANGED <<kind, data, place, offset, seen, again, part, cuts>>
  BY DEF Change, walk
<1>2. /\ DataOK' /\ ByTime' = ByTime /\ ById' = ById /\ Rows(seen)' = Rows(seen)
      /\ Matching' = Matching
  BY <1>1 DEF Inv, TypeInv, DataOK, ByTime, ById, Rows, Matching
<1>3. TypeInv'
  BY <1>1, <1>2 DEF Inv, TypeInv
<1>4. IdInv'
  BY <1>1, <1>2 DEF Inv, IdInv
<1>5. NameInv'
  BY <1>1 DEF Inv, NameInv, Skipped, Repeated
<1>6. PointInv' /\ AlarmInv'
  BY <1>1, <1>2 DEF Inv, PointInv, AlarmInv
<1> QED
  BY <1>3, <1>4, <1>5, <1>6 DEF Inv


LEMMA PlainIs ==
    /\ DOMAIN Plain = {"copies", "definition", "filtered", "decoded", "second", "series", "bare"}
    /\ Plain.copies = [i \in Items |-> 1] /\ Plain.decoded = [i \in Items |-> i]
    /\ Plain.second = [i \in Items |-> 11]
  BY DEF Plain

\* What the rows of the kinds of list may have.
Joined == {[Plain EXCEPT !.copies = c] : c \in [Items -> 0..2]}
Grouped ==
    UNION {{[Plain EXCEPT !.copies = c, !.definition = d] : d \in [Items -> {0, Max(Items)}]} :
               c \in [Items -> 1..2]}
Named == {[Plain EXCEPT !.decoded = d] : d \in [Items -> 1..(Max(Items) + 1)]}
Timed == {[Plain EXCEPT !.second = s] : s \in [Items -> Seconds]}
InSeries ==
    UNION {{[Plain EXCEPT !.second = s, !.series = [Plain.series EXCEPT ![Max(Items)] = n]] :
                n \in 1..2} : s \in [Items -> Seconds]}

LEMMA KindsOfData ==
    ASSUME NEW k
    PROVE  Data(k) = IF k = "definitions" THEN Joined
                     ELSE IF k = "alarms" THEN {[Plain EXCEPT !.filtered = TRUE]} \cup Grouped
                     ELSE IF k = "metrics" THEN Named
                     ELSE IF k = "history" THEN Timed
                     ELSE IF k = "measurements" THEN {[Plain EXCEPT !.bare = TRUE]} \cup InSeries
                     ELSE {Plain}
  BY Zenon DEF Data, Joined, Grouped, Named, Timed, InSeries

LEMMA InitInv ==
    ASSUME Init
    PROVE  Inv
<1>1. data \in Data(kind)
  BY DEF Init
<1>2. /\ data.copies \in [Items -> Counts] /\ data.decoded \in [Items -> Nat]
      /\ data.second \in [Items -> Seconds]
      /\ kind \notin {"definitions", "alarms"} => \A i \in Items : data.copies[i] = 1
      /\ kind = "alarms" => \A i \in Items : data.copies[i] > 0
  <2>0. \A i \in Items : i \in Nat /\ i >= i
    BY ItemsAre
  <2>1. CASE data \in {Plain, [Plain EXCEPT !.filtered = TRUE], [Plain EXCEPT !.bare = TRUE]}
    <3>1. data.copies = Plain.copies /\ data.decoded = Plain.decoded /\ data.second = Plain.second
      BY <2>1 DEF Plain
    <3> QED
      BY <2>0, <3>1, PlainIs DEF Counts, Seconds
  <2>2. CASE kind = "definitions" /\ data \in Joined
    <3>1. PICK c \in [Items -> 0..2] : data = [Plain EXCEPT !.copies = c]
      BY <2>2 DEF Joined
    <3>2. data.copies = c /\ data.decoded = Plain.decoded /\ data.second = Plain.second
      BY <3>1 DEF Plain
    <3> QED
      BY <2>0, <2>2, <3>2, PlainIs DEF Counts, Seconds
  <2>3. CASE kind = "alarms" /\ data \in Grouped
    <3>1. PICK c \in [Items -> 1..2], d \in [Items -> {0, Max(Items)}] :
             data = [Plain EXCEPT !.copies = c, !.definition = d]
      BY <2>3 DEF Grouped
    <3>2. data.copies = c /\ data.decoded = Plain.decoded /\ data.second = Plain.second
      BY <3>1 DEF Plain
    <3>3. c \in [Items -> Counts] /\ \A i \in Items : c[i] > 0
      BY DEF Counts
    <3> QED
      BY <2>0, <2>3, <3>2, <3>3, PlainIs DEF Seconds
  <2>4. CASE kind = "metrics" /\ data \in Named
    <3>1. PICK d \in [Items -> 1..(Max(Items) + 1)] : data = [Plain EXCEPT !.decoded = d]
      BY <2>4 DEF Named
    <3>2. data.copies = Plain.copies /\ data.decoded = d /\ data.second = Plain.second
      BY <3>1 DEF Plain
    <3>3. d \in [Items -> Nat]
      OBVIOUS
    <3> QED
      BY <2>4, <3>2, <3>3, PlainIs DEF Counts, Seconds
  <2>5. CASE kind \notin {"definitions", "alarms"} /\ data \in Timed \cup InSeries
    <3>1. PICK s \in [Items -> Seconds] :
             data.copies = Plain.copies /\ data.decoded = Plain.decoded /\ data.second = s
      <4>1. CASE data \in Timed
        <5>1. PICK s \in [Items -> Seconds] : data = [Plain EXCEPT !.second = s]
          BY <4>1 DEF Timed
        <5> QED
          BY <5>1 DEF Plain
      <4>2. CASE data \in InSeries
        <5>1. PICK s \in [Items -> Seconds], n \in 1..2 :
                 data = [Plain EXCEPT !.second = s, !.series = [Plain.series EXCEPT ![Max(Items)] = n]]
          BY <4>2 DEF InSeries
        <5> QED
          BY <5>1 DEF Plain
      <4> QED
        BY <2>5, <4>1, <4>2
    <3> QED
      BY <2>0, <2>5, <3>1, PlainIs DEF Counts
  <2>6. CASE kind = "definitions"
    BY <1>1, <2>2, <2>6, KindsOfData
  <2>7. CASE kind = "alarms"
    <3>1. data = [Plain EXCEPT !.filtered = TRUE] \/ data \in Grouped
      BY <1>1, <2>7, KindsOfData
    <3> QED
      BY <2>1, <2>3, <2>7, <3>1
  <2>8. CASE kind = "metrics"
    BY <1>1, <2>4, <2>8, KindsOfData
  <2>9. CASE kind = "history"
    BY <1>1, <2>5, <2>9, KindsOfData
  <2>10. CASE kind = "measurements"
    <3>1. data = [Plain EXCEPT !.bare = TRUE] \/ data \in InSeries
      BY <1>1, <2>10, KindsOfData
    <3> QED
      BY <2>1, <2>5, <2>10, <3>1
  <2>11. CASE kind \notin {"definitions", "alarms", "metrics", "history", "measurements"}
    <3>1. data = Plain
      BY <1>1, <2>11, KindsOfData
    <3> QED
      BY <2>1, <3>1
  <2> QED
    BY <2>6, <2>7, <2>8, <2>9, <2>10, <2>11
<1>3. DataOK
  BY <1>2 DEF DataOK
<1>4. /\ place = "idle" /\ offset = 0 /\ present \in SUBSET Items
      /\ stayed = {} /\ seen = {} /\ again = {} /\ part = {} /\ cuts = {}
  BY DEF Init
<1> QED
  BY <1>3, <1>4 DEF Inv, TypeInv, IdInv, NameInv, PointInv, AlarmInv

LEMMA NextInv ==
    ASSUME Inv, [Next]_vars
    PROVE  Inv'
<1>1. CASE GetFirst
  <2>1. Requested(0) /\ Get(0) /\ UNCHANGED <<kind, data, present>>
    BY <1>1 DEF GetFirst, Requested
  <2> QED
    BY <2>1, GetKeeps
<1>2. CASE GetAll
  BY <1>2, GetAllKeeps
<1>3. CASE Follow
  <2>1. Requested(offset) /\ Get(offset) /\ UNCHANGED <<kind, data, present>> /\ offset \in Nat
    BY <1>3 DEF Follow, Requested, Inv, TypeInv
  <2> QED
    BY <2>1, GetKeeps
<1>4. CASE \E i \in Items : Insert(i) \/ Delete(i)
  <2>1. PICK p \in SUBSET Items : Change(p)
    BY <1>4 DEF Insert, Delete, Inv, TypeInv
  <2> QED
    BY <2>1, ChangeKeeps
<1>5. CASE UNCHANGED vars
  <2>1. /\ DataOK' = DataOK /\ ByTime' = ByTime /\ ById' = ById /\ Rows(seen)' = Rows(seen)
        /\ Matching' = Matching
    BY <1>5 DEF vars, DataOK, ByTime, ById, Rows, Matching
  <2> QED
    BY <1>5, <2>1 DEF vars, Inv, TypeInv, IdInv, NameInv, Skipped, Repeated, PointInv, AlarmInv
<1> QED
  BY <1>1, <1>2, <1>3, <1>4, <1>5 DEF Next

\* The invariant holds in every state.
LEMMA Invariant == Spec => []Inv
<1>1. Init => Inv
  BY InitInv
<1>2. Inv /\ [Next]_vars => Inv'
  BY NextInv
<1> QED
  BY <1>1, <1>2, PTL DEF Spec


------------------------------------------------------------------------------
(* What a client has seen.                                                 *)

\* However many rows there are, however few fit on a page and whatever is added or
\* deleted on the way: who follows the links of notification methods or of alarm
\* definitions to the end has seen every row that was there all the while, and none
\* again that matches only once ("and id > %s order by id limit %s", paginate).
THEOREM NothingMissedById == Spec => []ListedById
<1>1. Inv => ListedById
  BY DEF Inv, IdInv, ById, ListedById
<1> QED
  BY <1>1, Invariant, PTL

\* Of the metrics, all but names that an offset has jumped over, because it is decoded
\* once more ("if serie_name < urllib.unquote(offset): continue") to one that is after
\* them; and none again but those it has gone back to, when what it is decoded to is
\* before itself, or itself.  Nothing is assumed of where a name is decoded to.
THEOREM NamesSkippedAreBetween == Spec => []MetricsListed
<1>1. Inv => MetricsListed
  BY DEF Inv, NameInv, MetricsListed
<1> QED
  BY <1>1, Invariant, PTL

\* Of the alarm history and of the measurements of a series, all but points of a second
\* that a page ended in ("and time < {}s limit {}"); none is shown twice.
THEOREM PointsLostShareASecond == Spec => []PointsListed
<1>1. Inv => PointsListed
  BY DEF Inv, PointInv, ByTime, PointsListed
<1> QED
  BY <1>1, Invariant, PTL

\* Alarms are all shown, and with all their metrics, if the rows of those that are in
\* the database fit on a page, whatever the ids of their definitions are.
THEOREM AlarmsOfAPage == Spec => []AlarmsThatFit
<1>1. Inv => AlarmsThatFit
  <2> SUFFICES ASSUME Inv, kind = "alarms", Cardinality(Rows(present \cup seen)) <= Limit
               PROVE  (place = "done" => stayed \subseteq seen) /\ part = {}
    BY DEF AlarmsThatFit
  <2>1. /\ DataOK /\ stayed \in SUBSET present /\ present \cup seen \in SUBSET Items
        /\ seen \in SUBSET (present \cup seen)
    BY DEF Inv, TypeInv
  <2> DEFINE All == Rows(present \cup seen)
  <2>2. /\ Rows(seen) \in SUBSET All
        /\ Cardinality(Rows(seen)) \in Nat /\ Cardinality(All) \in Nat
        /\ Cardinality(Rows(seen)) <= Cardinality(All)
        /\ Rows(seen) # All => Cardinality(Rows(seen)) < Cardinality(All)
    BY <2>1, RowsGrow
  <2>3. part = {}
    BY <2>2, ItemsAre DEF Inv, AlarmInv
  <2>4. ASSUME place = "done", NEW i \in stayed PROVE i \in seen
    <3>1. CASE Cardinality(Rows(seen)) >= Limit
      <4>1. Rows(seen) = All
        BY <2>2, <3>1, ItemsAre
      <4>2. i \in Items /\ 1 \in 1..data.copies[i]
        BY <2>1, DataAre DEF DataOK
      <4>3. <<i, 1>> \in All
        BY <2>1, <4>2, RowsAre
      <4>4. <<i, 1>>[1] \in seen
        BY <2>1, <4>1, <4>3, RowsAre
      <4> QED
        BY <4>4
    <3>2. CASE stayed \subseteq seen
      BY <3>2
    <3> QED
      BY <2>4, <3>1, <3>2 DEF Inv, AlarmInv
  <2> QED
    BY <2>3, <2>4
<1> QED
  BY <1>1, Invariant, PTL

==============================================================================
