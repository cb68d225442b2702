----------------------- MODULE MethodsAndTransformsProofs -----------------------
(***************************************************************************)
(* Theorems about module MethodsAndTransforms, for every number of         *)
(* requests, methods, tenants and names.                                   *)
(***************************************************************************)
EXTENDS MethodsAndTransforms, TLAPS

USE ClockAssumption, IdsAssumption, NoneAssumption DEF Ids

------------------------------------------------------------------------------
(* What tables and requests look like: TypeOK made inductive. *)

Places == {"idle", "select", "insert", "update", "delete", "query", "save", "done"}
MethodRequests ==
    [op : {"create", "update"}, tenant : Tenants, id : Ids, name : Names,
     address : Addresses, after : SUBSET Requests]
OtherRequests ==
    [op : {"delete", "show", "list", "createTransform", "deleteTransform", "listTransforms"},
     tenant : Tenants, id : Ids \cup {None}, name : {None}, address : {None},
     after : SUBSET Requests]
ControlOK ==
    /\ pc \in [Requests -> Places]
    /\ request \in [Requests -> MethodRequests \cup OtherRequests \cup {NoRequest}]

\* What a request names is there, or was; a POST names itself.
WhereOK(r) ==
    /\ pc[r] = "idle" => request[r] = NoRequest /\ answer[r] = None
    /\ pc[r] \in {"select", "insert", "update", "delete", "query", "save"} =>
            request[r].op # "none" /\ answer[r] = None
    /\ pc[r] = "update" => request[r].op = "update"
    /\ pc[r] = "save" => request[r].op = "createTransform"
    /\ request[r].op = "create" => request[r].id = r
    /\ request[r].op \in {"update", "delete", "show"} =>
            request[r].id \in Existing \cup {q \in Requests : pc[q] = "done"}
    /\ \A q \in request[r].after : pc[q] = "done"
TypeInv == TypeOK /\ ControlOK /\ \A r \in Requests : WhereOK(r)

\* How a request arrives: nothing but its own place and contents changes.
Arrival(r, q, place) ==
    /\ pc[r] = "idle"
    /\ pc' = [pc EXCEPT ![r] = place] /\ request' = [request EXCEPT ![r] = q]
    /\ q \in MethodRequests \cup OtherRequests
    /\ place \in {"select", "insert", "update", "delete", "query"}
    /\ place = "update" => q.op = "update"
    /\ place = "insert" => q.op = "createTransform"
    /\ q.op = "create" => q.id = r
    /\ q.op \in {"update", "delete", "show"} => q.id \in Known
    /\ q.after = {x \in Requests : pc[x] = "done"}
    /\ UNCHANGED <<Tables, clock, answer, shown>>
Arrives(r) == \E q, place : Arrival(r, q, place)

LEMMA KnownOK ==
    ASSUME TypeInv
    PROVE  Known \subseteq Existing \cup {q \in Requests : pc[q] = "done"}
BY DEF Known

LEMMA ReceiveArrives ==
    ASSUME TypeInv, NEW r \in Requests, Receive(r)
    PROVE  Arrives(r) \/ \E fault \in DOMAIN Refusal : ReceiveRefused(r, fault)
<1>0. Known \subseteq Ids
  BY KnownOK
<1>a. ASSUME NEW op, NEW t, NEW i, NEW n, NEW a, NEW place, Accept(r, op, t, i, n, a, place),
             [op |-> op, tenant |-> t, id |-> i, name |-> n, address |-> a,
              after |-> {x \in Requests : pc[x] = "done"}] \in MethodRequests \cup OtherRequests,
             place \in {"select", "insert", "update", "delete", "query"},
             place = "update" => op = "update", place = "insert" => op = "createTransform",
             op = "create" => i = r, op \in {"update", "delete", "show"} => i \in Known
      PROVE  Arrives(r)
  <2> DEFINE q == [op |-> op, tenant |-> t, id |-> i, name |-> n, address |-> a,
                   after |-> {x \in Requests : pc[x] = "done"}]
  <2>1. Arrival(r, q, place)
    BY <1>a DEF Accept, Go, Arrival, Tables
  <2> QED
    BY <2>1 DEF Arrives
<1>b. ASSUME NEW op \in {"delete", "show", "list", "createTransform", "deleteTransform",
                         "listTransforms"}, NEW t \in Tenants, NEW i \in Ids \cup {None}
      PROVE  [op |-> op, tenant |-> t, id |-> i, name |-> None, address |-> None,
              after |-> {x \in Requests : pc[x] = "done"}] \in OtherRequests
  BY DEF OtherRequests
<1>1. ASSUME NEW t \in Tenants, NEW n \in Names, NEW a \in Addresses, ReceiveCreate(r, t, n, a)
      PROVE  Arrives(r)
  BY <1>1, <1>a DEF ReceiveCreate, MethodRequests
<1>2. ASSUME NEW t \in Tenants, NEW n \in Names, NEW a \in Addresses, NEW m \in Known,
             ReceiveUpdate(r, t, m, n, a)
      PROVE  Arrives(r)
  <2>1. Accept(r, "update", t, m, n, a, "update")
    BY <1>2 DEF ReceiveUpdate
  <2>2. [op |-> "update", tenant |-> t, id |-> m, name |-> n, address |-> a,
         after |-> {x \in Requests : pc[x] = "done"}] \in MethodRequests
    BY <1>0 DEF MethodRequests
  <2> QED
    BY <2>1, <2>2, <1>a
<1>3. ASSUME NEW t \in Tenants, NEW m \in Known, ReceiveDelete(r, t, m)
      PROVE  Arrives(r)
  <2>1. Accept(r, "delete", t, m, None, None, "select")
    BY <1>3 DEF ReceiveDelete
  <2>2. [op |-> "delete", tenant |-> t, id |-> m, name |-> None, address |-> None,
         after |-> {x \in Requests : pc[x] = "done"}] \in OtherRequests
    BY <1>0, <1>b
  <2> QED
    BY <2>1, <2>2, <1>a
<1>4. ASSUME NEW t \in Tenants, NEW m \in Known, ReceiveShow(r, t, m)
      PROVE  Arrives(r)
  <2>1. Accept(r, "show", t, m, None, None, "query")
    BY <1>4 DEF ReceiveShow
  <2>2. [op |-> "show", tenant |-> t, id |-> m, name |-> None, address |-> None,
         after |-> {x \in Requests : pc[x] = "done"}] \in OtherRequests
    BY <1>0, <1>b
  <2> QED
    BY <2>1, <2>2, <1>a
<1>5. ASSUME NEW t \in Tenants, NEW i \in Known \cap Requests, ReceiveDeleteTransform(r, t, i)
      PROVE  Arrives(r)
  <2>1. Accept(r, "deleteTransform", t, i, None, None, "delete")
    BY <1>5 DEF ReceiveDeleteTransform
  <2>2. [op |-> "deleteTransform", tenant |-> t, id |-> i, name |-> None, address |-> None,
         after |-> {x \in Requests : pc[x] = "done"}] \in OtherRequests
    BY <1>0, <1>b
  <2> QED
    BY <2>1, <2>2, <1>a
<1>6. ASSUME NEW t \in Tenants, ReceiveList(r, t)
      PROVE  Arrives(r)
  <2>1. Accept(r, "list", t, None, None, None, "query")
    BY <1>6 DEF ReceiveList
  <2>2. [op |-> "list", tenant |-> t, id |-> None, name |-> None, address |-> None,
         after |-> {x \in Requests : pc[x] = "done"}] \in OtherRequests
    BY <1>0, <1>b
  <2> QED
    BY <2>1, <2>2, <1>a
<1>7. ASSUME NEW t \in Tenants, ReceiveCreateTransform(r, t)
      PROVE  Arrives(r)
  <2>1. Accept(r, "createTransform", t, r, None, None, "insert")
    BY <1>7 DEF ReceiveCreateTransform
  <2>2. [op |-> "createTransform", tenant |-> t, id |-> r, name |-> None, address |-> None,
         after |-> {x \in Requests : pc[x] = "done"}] \in OtherRequests
    BY <1>0, <1>b
  <2> QED
    BY <2>1, <2>2, <1>a
<1>8. ASSUME NEW t \in Tenants, ReceiveListTransforms(r, t)
      PROVE  Arrives(r)
  <2>1. Accept(r, "listTransforms", t, None, None, None, "query")
    BY <1>8 DEF ReceiveListTransforms
  <2>2. [op |-> "listTransforms", tenant |-> t, id |-> None, name |-> None, address |-> None,
         after |-> {x \in Requests : pc[x] = "done"}] \in OtherRequests
    BY <1>0, <1>b
  <2> QED
    BY <2>1, <2>2, <1>a
<1> QED
  BY <1>1, <1>2, <1>3, <1>4, <1>5, <1>6, <1>7, <1>8 DEF Receive

LEMMA InitTyped == Init => TypeInv
BY DEF Init, TypeInv, TypeOK, ControlOK, WhereOK, NoRequest, Places

\* What a request asks for, by its operation.
LEMMA Asked ==
    ASSUME TypeInv, NEW r \in Requests
    PROVE  /\ request[r].op \in {"create", "update"} => request[r] \in MethodRequests
           /\ request[r].op \notin {"none", "create", "update"} => request[r] \in OtherRequests
           /\ request[r].op \in {"update", "delete", "show"} => request[r].id \in Ids
BY DEF TypeInv, ControlOK, WhereOK, MethodRequests, OtherRequests, NoRequest

LEMMA ArrivalTyped ==
    ASSUME TypeInv, NEW r \in Requests, Arrives(r)
    PROVE  TypeInv'
<1> PICK q, place : Arrival(r, q, place)
  BY DEF Arrives
<1>1. TypeOK'
  BY DEF Arrival, TypeInv, TypeOK, Tables
<1>2. ControlOK'
  BY DEF Arrival, TypeInv, ControlOK, Places
<1>3. ASSUME NEW s \in Requests PROVE WhereOK(s)'
  <2>1. q.op # "none"
    BY DEF Arrival, MethodRequests, OtherRequests
  <2>2. \A x \in Requests : pc[x] = "done" => pc'[x] = "done"
    BY DEF Arrival, TypeInv, ControlOK
  <2>3. CASE s = r
    BY <2>1, <2>2, <2>3, KnownOK DEF Arrival, TypeInv, ControlOK, WhereOK
  <2>4. CASE s # r
    BY <2>2, <2>4 DEF Arrival, TypeInv, ControlOK, WhereOK, TypeOK, MethodRequests, OtherRequests, NoRequest
  <2> QED
    BY <2>3, <2>4
<1> QED
  BY <1>1, <1>2, <1>3 DEF TypeInv

\* A step of a handler, as far as places and requests are concerned.
Handles(r) ==
    \E place \in {"insert", "delete", "save", "done"}, status \in Statuses :
        /\ pc[r] \in {"select", "insert", "update", "delete", "query", "save"} \ {place}
        /\ pc' = [pc EXCEPT ![r] = place] /\ UNCHANGED <<request, clock>>
        /\ place = "save" => request[r].op = "createTransform"
        /\ answer' = IF place = "done" THEN [answer EXCEPT ![r] = status] ELSE answer

LEMMA HandleHandles ==
    ASSUME TypeInv, NEW r \in Requests, Handle(r)
    PROVE  Handles(r)
<1>0. pc[r] \in Places
  BY DEF TypeInv, ControlOK
<1>b. ASSUME NEW status \in Statuses, Reply(r, status), UNCHANGED <<request, clock>>,
             pc[r] \in {"update", "delete"}
      PROVE  Handles(r)
  BY <1>b DEF Reply, Handles
<1>1. CASE SelectName(r)
  BY <1>0, <1>1 DEF SelectName, Go, Reply, Handles, Statuses, Places, Tables
<1>2. CASE InsertMethod(r)
  BY <1>0, <1>2 DEF InsertMethod, Go, Reply, Handles, Statuses, Places
<1>3. CASE UpdateMethod(r)
  BY <1>b, <1>3 DEF UpdateMethod, Statuses
<1>4. CASE SelectMethod(r)
  BY <1>0, <1>4 DEF SelectMethod, Go, Reply, Handles, Statuses, Places, Tables
<1>5. CASE DeleteMethod(r)
  BY <1>0, <1>5 DEF DeleteMethod, Go, Reply, Handles, Statuses, Places
<1>6. CASE ShowMethod(r)
  BY <1>0, <1>6 DEF ShowMethod, Go, Reply, Handles, Statuses, Places, Tables
<1>7. CASE ListMethods(r)
  BY <1>0, <1>7 DEF ListMethods, Go, Reply, Handles, Statuses, Places, Tables
<1>8. CASE InsertTransform(r)
  BY <1>0, <1>8 DEF InsertTransform, Go, Reply, Handles, Statuses, Places
<1>9. CASE SaveTransform(r)
  BY <1>0, <1>9 DEF SaveTransform, Go, Reply, Handles, Statuses, Places, Tables
<1>10. CASE DeleteTransform(r)
  BY <1>b, <1>10 DEF DeleteTransform, Statuses
<1>11. CASE ListTransforms(r)
  BY <1>0, <1>11 DEF ListTransforms, Go, Reply, Handles, Statuses, Places, Tables
<1>12. CASE StatementFails(r)
  BY <1>0, <1>12 DEF StatementFails, Go, Reply, Handles, Statuses, Places, Tables
<1> QED
  BY <1>1, <1>2, <1>3, <1>4, <1>5, <1>6, <1>7, <1>8, <1>9, <1>10, <1>11, <1>12 DEF Handle

LEMMA HandlesControlled ==
    ASSUME TypeInv, NEW r \in Requests, Handles(r)
    PROVE  ControlOK' /\ \A s \in Requests : WhereOK(s)'
<1> PICK place \in {"insert", "delete", "save", "done"}, status \in Statuses :
        /\ pc[r] \in {"select", "insert", "update", "delete", "query", "save"} \ {place}
        /\ pc' = [pc EXCEPT ![r] = place] /\ UNCHANGED <<request, clock>>
        /\ place = "save" => request[r].op = "createTransform"
        /\ answer' = IF place = "done" THEN [answer EXCEPT ![r] = status] ELSE answer
  BY DEF Handles
<1>1. ControlOK'
  BY DEF TypeInv, ControlOK, Places
<1>2. \A x \in Requests : pc[x] = "done" => pc'[x] = "done"
  BY DEF TypeInv, ControlOK
<1>3. ASSUME NEW s \in Requests PROVE WhereOK(s)'
  BY <1>2 DEF TypeInv, TypeOK, ControlOK, WhereOK, MethodRequests, OtherRequests, NoRequest
<1> QED
  BY <1>1, <1>3

LEMMA HandleTyped ==
    ASSUME TypeInv, NEW r \in Requests, Handle(r)
    PROVE  TypeOK'
<1>0. answer' \in [Requests -> Statuses \cup {None}] /\ clock' = clock
  BY HandleHandles DEF Handles, TypeInv, TypeOK
<1>a. pc[r] \in {"insert", "update"} => request[r].op # "none"
  BY DEF TypeInv, WhereOK
<1>1. CASE SelectName(r)
  BY <1>0, <1>a, <1>1, Asked DEF SelectName, TypeInv, TypeOK, Tables
<1>2. CASE InsertMethod(r)
  BY <1>0, <1>a, <1>2, Asked DEF InsertMethod, TypeInv, TypeOK, MethodRequests, Rows, RowOf
<1>3. CASE UpdateMethod(r)
  BY <1>0, <1>a, <1>3, Asked DEF UpdateMethod, TypeInv, TypeOK, MethodRequests, Rows, RowOf, WhereOK
<1>4. CASE SelectMethod(r)
  BY <1>0, <1>a, <1>4, Asked DEF SelectMethod, TypeInv, TypeOK, Tables
<1>5. CASE DeleteMethod(r)
  BY <1>0, <1>a, <1>5, Asked DEF DeleteMethod, TypeInv, TypeOK
<1>6. CASE ShowMethod(r)
  BY <1>0, <1>a, <1>6, Asked DEF ShowMethod, TypeInv, TypeOK, Tables
<1>7. CASE ListMethods(r)
  BY <1>0, <1>a, <1>7, Asked DEF ListMethods, TypeInv, TypeOK, Tables, Mine
<1>8. CASE InsertTransform(r)
  BY <1>0, <1>a, <1>8, Asked DEF InsertTransform, TypeInv, TypeOK, OtherRequests
<1>9. CASE SaveTransform(r)
  BY <1>0, <1>a, <1>9, Asked DEF SaveTransform, TypeInv, TypeOK, Tables
<1>10. CASE DeleteTransform(r)
  BY <1>0, <1>a, <1>10, Asked DEF DeleteTransform, TypeInv, TypeOK
<1>11. CASE ListTransforms(r)
  BY <1>0, <1>a, <1>11, Asked DEF ListTransforms, TypeInv, TypeOK, Tables
<1>12. CASE StatementFails(r)
  BY <1>0, <1>a, <1>12, Asked DEF StatementFails, TypeInv, TypeOK, Tables
<1> QED
  BY <1>1, <1>2, <1>3, <1>4, <1>5, <1>6, <1>7, <1>8, <1>9, <1>10, <1>11, <1>12 DEF Handle

LEMMA StepTyped == TypeInv /\ [Next]_vars => TypeInv'
<1> SUFFICES ASSUME TypeInv, [Next]_vars PROVE TypeInv'
  OBVIOUS
<1>1. ASSUME NEW r \in Requests, Receive(r) PROVE TypeInv'
  <2>1. CASE Arrives(r)
    BY <2>1, ArrivalTyped
  <2>2. ASSUME NEW fault \in DOMAIN Refusal, ReceiveRefused(r, fault) PROVE TypeInv'
    <3>1. TypeOK' /\ ControlOK'
      BY <2>2 DEF ReceiveRefused, Reply, Refusal, TypeInv, TypeOK, ControlOK, Places, Statuses, Tables
    <3>2. \A x \in Requests : pc[x] = "done" => pc'[x] = "done"
      BY <2>2 DEF ReceiveRefused, Reply, TypeInv, ControlOK
    <3>3. ASSUME NEW s \in Requests PROVE WhereOK(s)'
      BY <2>2, <3>2 DEF ReceiveRefused, Reply, TypeInv, TypeOK, ControlOK, WhereOK,
                        MethodRequests, OtherRequests, NoRequest
    <3> QED
      BY <3>1, <3>3 DEF TypeInv
  <2> QED
    BY <1>1, <2>1, <2>2, ReceiveArrives
<1>2. ASSUME NEW r \in Requests, Handle(r) PROVE TypeInv'
  BY <1>2, HandleHandles, HandlesControlled, HandleTyped DEF TypeInv
<1>3. CASE Tick \/ UNCHANGED vars
  BY <1>3 DEF Tick, vars, Tables, TypeInv, TypeOK, ControlOK, WhereOK
<1> QED
  BY <1>1, <1>2, <1>3 DEF Next

LEMMA Typed == Spec => []TypeInv
BY InitTyped, StepTyped, PTL DEF Spec

\* The tables hold rows, the answers are those of the API, and what is shown are ids.
THEOREM TypeCorrect == Spec => []TypeOK
<1>1. TypeInv => TypeOK
  BY DEF TypeInv
<1> QED
  BY <1>1, Typed, PTL
------------------------------------------------------------------------------
(* What the steps do to the methods. *)

\* A handler inserts the row of its own id, or writes or deletes one that it owns.
Inserts(r) == /\ pc[r] = "insert" /\ request[r].op = "create"
              /\ method' = [method EXCEPT ![r] = RowOf(r)]
              /\ pc' = [pc EXCEPT ![r] = "done"] /\ answer' = [answer EXCEPT ![r] = 201]
Touching(r, row) == /\ request[r].op \in {"update", "delete"} /\ Own(r)
                    /\ method' = [method EXCEPT ![request[r].id] = row]
                    /\ row = IF request[r].op = "update" THEN RowOf(r) ELSE None

LEMMA HandleChanges ==
    ASSUME TypeInv, NEW r \in Requests, Handle(r)
    PROVE  UNCHANGED method \/ Inserts(r) \/ \E row : Touching(r, row)
<1>1. CASE SelectName(r) \/ SelectMethod(r) \/ ShowMethod(r) \/ ListMethods(r) \/ InsertTransform(r)
           \/ SaveTransform(r) \/ DeleteTransform(r) \/ ListTransforms(r) \/ StatementFails(r)
  BY <1>1 DEF SelectName, SelectMethod, ShowMethod, ListMethods, InsertTransform, SaveTransform,
              DeleteTransform, ListTransforms, StatementFails, Tables
<1>2. CASE InsertMethod(r)
  BY <1>2 DEF InsertMethod, Reply, Inserts
<1>3. CASE UpdateMethod(r)
  <2>1. request[r].op = "update"
    BY <1>3 DEF UpdateMethod, TypeInv, WhereOK
  <2> QED
    BY <1>3, <2>1 DEF UpdateMethod, Changes, Touching
<1>4. CASE DeleteMethod(r)
  BY <1>4 DEF DeleteMethod, Touching
<1> QED
  BY <1>1, <1>2, <1>3, <1>4 DEF Handle

\* Everything else leaves the methods alone, and what is done.
Quiet(r) == /\ pc[r] = "idle" /\ UNCHANGED <<method, shown>>
            /\ \A x \in Requests \ {r} : /\ pc'[x] = pc[x] /\ request'[x] = request[x]
                                         /\ answer'[x] = answer[x]
            /\ pc'[r] # "idle"
            /\ \/ answer'[r] = None
               \/ answer'[r] \in {400, 401, 500} /\ request'[r] = NoRequest

LEMMA ReceiveQuiet ==
    ASSUME TypeInv, NEW r \in Requests, Receive(r)
    PROVE  Quiet(r)
<1>1. CASE Arrives(r)
  BY <1>1 DEF Arrives, Arrival, Quiet, Tables, TypeInv, TypeOK, ControlOK, WhereOK
<1>2. ASSUME NEW fault \in DOMAIN Refusal, ReceiveRefused(r, fault) PROVE Quiet(r)
  BY <1>2 DEF ReceiveRefused, Reply, Refusal, Quiet, Tables, TypeInv, TypeOK, ControlOK, WhereOK
<1> QED
  BY <1>1, <1>2, ReceiveArrives

\* A row that a request made is there only once the request is answered 201.
StoredInv == \A q \in Requests : method[q] # None => pc[q] = "done" /\ answer[q] = 201

LEMMA InitStored == Init => StoredInv
BY DEF Init, StoredInv

LEMMA StepStored == TypeInv /\ StoredInv /\ [Next]_vars => StoredInv'
<1> SUFFICES ASSUME TypeInv, StoredInv, [Next]_vars, NEW q \in Requests, method'[q] # None
             PROVE  (pc[q] = "done" /\ answer[q] = 201)'
  BY DEF StoredInv
<1>1. ASSUME NEW r \in Requests, Receive(r) PROVE (pc[q] = "done" /\ answer[q] = 201)'
  BY <1>1, ReceiveQuiet DEF Quiet, StoredInv
<1>2. ASSUME NEW r \in Requests, Handle(r) PROVE (pc[q] = "done" /\ answer[q] = 201)'
  <2>1. CASE Inserts(r)
    BY <2>1 DEF Inserts, StoredInv, TypeInv, TypeOK, ControlOK
  <2>2. CASE UNCHANGED method \/ \E row : Touching(r, row)
    <3>1. method[q] # None
      BY <2>2 DEF Touching, Own, TypeInv, TypeOK
    <3>2. pc[q] = "done" /\ answer[q] = 201
      BY <3>1 DEF StoredInv
    <3> QED
      BY <1>2, <3>2, HandleHandles DEF Handles, TypeInv, TypeOK, ControlOK
  <2> QED
    BY <1>2, <2>1, <2>2, HandleChanges
<1>3. CASE Tick \/ UNCHANGED vars
  BY <1>3 DEF Tick, vars, Tables, StoredInv
<1> QED
  BY <1>1, <1>2, <1>3 DEF Next

LEMMA Stored == Spec => []StoredInv
BY InitStored, StepStored, Typed, PTL DEF Spec

\* Whatever a request is refused for, and wherever it fails: no method of its id is
\* stored, then or later.
THEOREM RefusedLeaveNothing == Spec => []RefusedStoresNothing
<1>1. StoredInv => RefusedStoresNothing
  BY DEF StoredInv, RefusedStoresNothing
<1> QED
  BY <1>1, Stored, PTL

\* A request changes and is shown methods of its own tenant, whatever came between its
\* statements; the insert of a POST finds its id free.
THEOREM TenantsApart == Spec => OwnMethodsOnly
<1> DEFINE Changed == \A m \in Ids : method'[m] # method[m] =>
                        \E r \in Requests :
                            /\ pc'[r] # pc[r] /\ request[r].id = m
                            /\ method[m] = None \/ method[m].tenant = request[r].tenant
                            /\ method'[m] = None \/ method'[m].tenant = request[r].tenant
           Shown == \A r \in Requests : request[r].op \in {"show", "list"} /\ shown'[r] # shown[r] =>
                        \A m \in shown'[r] : method[m] # None /\ method[m].tenant = request[r].tenant
<1>1. ASSUME TypeInv, StoredInv, Next PROVE Changed /\ Shown
  <2>1. ASSUME NEW r \in Requests, Receive(r) PROVE Changed /\ Shown
    BY <1>1, <2>1, ReceiveQuiet DEF Quiet
  <2>2. ASSUME NEW r \in Requests, Handle(r) PROVE Changed
    <3>1. pc'[r] # pc[r]
      BY <1>1, <2>2, HandleHandles DEF Handles, TypeInv, ControlOK, WhereOK
    <3>2. CASE Inserts(r)
      <4>1. request[r].id = r /\ method[r] = None
        BY <1>1, <3>2 DEF Inserts, TypeInv, WhereOK, StoredInv
      <4> QED
        BY <1>1, <3>1, <3>2, <4>1 DEF Inserts, RowOf, TypeInv, TypeOK
    <3>3. ASSUME NEW row, Touching(r, row) PROVE Changed
      BY <1>1, <3>1, <3>3 DEF Touching, Own, RowOf, TypeInv, TypeOK
    <3> QED
      BY <1>1, <2>2, <3>2, <3>3, HandleChanges
  <2>3. ASSUME NEW r \in Requests, Handle(r) PROVE Shown
    <3>1. CASE ShowMethod(r)
      BY <1>1, <3>1 DEF ShowMethod, Own, TypeInv, TypeOK
    <3>2. CASE ListMethods(r)
      BY <1>1, <3>2 DEF ListMethods, Mine, TypeInv, TypeOK
    <3>3. CASE ListTransforms(r)
      BY <1>1, <3>3 DEF ListTransforms, TypeInv, TypeOK
    <3>4. CASE SelectName(r) \/ InsertMethod(r) \/ UpdateMethod(r) \/ SelectMethod(r)
               \/ DeleteMethod(r) \/ InsertTransform(r) \/ SaveTransform(r) \/ DeleteTransform(r)
               \/ StatementFails(r)
      BY <3>4 DEF SelectName, InsertMethod, UpdateMethod, SelectMethod, DeleteMethod,
                  InsertTransform, SaveTransform, DeleteTransform, StatementFails
    <3> QED
      BY <2>3, <3>1, <3>2, <3>3, <3>4 DEF Handle
  <2>4. CASE Tick
    BY <2>4 DEF Tick, Tables
  <2> QED
    BY <1>1, <2>1, <2>2, <2>3, <2>4 DEF Next
<1>2. TypeInv /\ StoredInv /\ [Next]_vars => [Changed /\ Shown]_vars
  BY <1>1
<1> QED
  BY <1>2, Typed, Stored, PTL DEF Spec, OwnMethodsOnly
------------------------------------------------------------------------------
(* What an answer says of the methods, and goes on to say. *)

\* The statements that answer 404 of a method, and 201, and those that look for a name.
LEMMA Answer404 ==
    ASSUME TypeInv, NEW r \in Requests, Handle(r), answer'[r] = 404,
           request[r].op \in {"update", "delete", "show"}
    PROVE  /\ UNCHANGED method
           /\ ~Own(r) \/ (request[r].op = "update" /\ method[request[r].id] = RowOf(r))
<1>0. answer \in [Requests -> Statuses \cup {None}] /\ answer[r] = None
  BY HandleHandles DEF Handles, TypeInv, TypeOK, WhereOK
<1>1. CASE UpdateMethod(r)
  BY <1>0, <1>1 DEF UpdateMethod, Reply, Changes, TypeInv, WhereOK
<1>2. CASE SelectMethod(r)
  BY <1>0, <1>2 DEF SelectMethod, Go, Reply, Tables, Statuses
<1>3. CASE ShowMethod(r)
  BY <1>0, <1>3 DEF ShowMethod, Reply, Tables
<1>4. CASE DeleteMethod(r) \/ StatementFails(r)
  BY <1>0, <1>4 DEF DeleteMethod, StatementFails, Reply
<1>5. CASE SelectName(r) \/ InsertMethod(r) \/ ListMethods(r) \/ InsertTransform(r)
           \/ SaveTransform(r) \/ DeleteTransform(r) \/ ListTransforms(r)
  BY <1>5 DEF SelectName, InsertMethod, ListMethods, InsertTransform, SaveTransform,
              DeleteTransform, ListTransforms, TypeInv, WhereOK
<1> QED
  BY <1>1, <1>2, <1>3, <1>4, <1>5 DEF Handle

LEMMA Answer201 ==
    ASSUME TypeInv, NEW r \in Requests, Handle(r), answer'[r] = 201
    PROVE  Inserts(r)
<1>0. answer \in [Requests -> Statuses \cup {None}] /\ answer[r] = None
  BY HandleHandles DEF Handles, TypeInv, TypeOK, WhereOK
<1>1. CASE InsertMethod(r)
  BY <1>1 DEF InsertMethod, Reply, Inserts
<1>2. CASE SelectName(r) \/ UpdateMethod(r) \/ SelectMethod(r) \/ DeleteMethod(r) \/ ShowMethod(r)
           \/ ListMethods(r) \/ InsertTransform(r) \/ SaveTransform(r) \/ DeleteTransform(r)
           \/ ListTransforms(r) \/ StatementFails(r)
  BY <1>0, <1>2 DEF SelectName, UpdateMethod, SelectMethod, DeleteMethod, ShowMethod, ListMethods,
                    InsertTransform, SaveTransform, DeleteTransform, ListTransforms,
                    StatementFails, Go, Reply, Statuses
<1> QED
  BY <1>1, <1>2 DEF Handle

LEMMA NameWasFree ==
    ASSUME TypeInv, NEW r \in Requests, Handle(r), pc'[r] = "insert"
    PROVE  pc[r] = "select" /\ UNCHANGED <<method, answer>> /\ MineByName(r) = {}
<1>0. pc \in [Requests -> Places]
  BY DEF TypeInv, ControlOK
<1>1. CASE SelectName(r)
  BY <1>0, <1>1 DEF SelectName, Go, Reply, Tables
<1>2. CASE InsertMethod(r) \/ UpdateMethod(r) \/ SelectMethod(r) \/ DeleteMethod(r) \/ ShowMethod(r)
           \/ ListMethods(r) \/ InsertTransform(r) \/ SaveTransform(r) \/ DeleteTransform(r)
           \/ ListTransforms(r) \/ StatementFails(r)
  BY <1>0, <1>2 DEF InsertMethod, UpdateMethod, SelectMethod, DeleteMethod, ShowMethod, ListMethods,
                    InsertTransform, SaveTransform, DeleteTransform, ListTransforms,
                    StatementFails, Go, Reply
<1> QED
  BY <1>1, <1>2 DEF Handle

\* A request that is done stays as it is; one that has an operation keeps it.
LEMMA DoneStays ==
    ASSUME TypeInv, NEW s \in Requests, Receive(s) \/ Handle(s)
    PROVE  \A x \in Requests :
             /\ x # s => pc'[x] = pc[x] /\ answer'[x] = answer[x]
             /\ request[x].op # "none" => request'[x] = request[x]
<1>1. CASE Receive(s)
  <2>1. Quiet(s)
    BY <1>1, ReceiveQuiet
  <2>2. request[s].op = "none"
    BY <2>1 DEF Quiet, TypeInv, WhereOK, NoRequest
  <2> QED
    BY <2>1, <2>2 DEF Quiet
<1>2. CASE Handle(s)
  BY <1>2, HandleHandles DEF Handles, TypeInv, TypeOK, ControlOK
<1> QED
  BY <1>1, <1>2

LEMMA InitNotFound == Init => NotFoundIsTrue
BY DEF Init, NotFoundIsTrue, Statuses

LEMMA StepNotFound == TypeInv /\ NotFoundIsTrue /\ [Next]_vars => NotFoundIsTrue'
<1> DEFINE Right(r) ==
      LET row == method[request[r].id]
      IN  \/ row = None \/ row.tenant # request[r].tenant
          \/ /\ request[r].op = "update"
             /\ \/ row.name = request[r].name /\ row.address = request[r].address
                \/ \E u \in Requests \ {r} : request[u].op = "update" /\ request[u].id = request[r].id
           Asks(r) == answer[r] = 404 /\ request[r].op \in {"update", "delete", "show"}
<1> SUFFICES ASSUME TypeInv, NotFoundIsTrue, [Next]_vars, NEW r \in Requests, Asks(r)'
             PROVE  Right(r)'
  BY DEF NotFoundIsTrue
<1>0. Asks(r) => Right(r)
  BY DEF NotFoundIsTrue
<1>1. ASSUME NEW s \in Requests, Receive(s) PROVE Right(r)'
  <2>1. r # s
    BY <1>1, ReceiveQuiet DEF Quiet, Statuses, NoRequest
  <2>2. Asks(r) /\ request'[r] = request[r] /\ method' = method
    BY <1>1, <2>1, ReceiveQuiet DEF Quiet
  <2>3. \A u \in Requests : request[u].op = "update" => request'[u] = request[u]
    BY <1>1, DoneStays
  <2> QED
    BY <1>0, <2>2, <2>3
<1>2. ASSUME NEW s \in Requests, Handle(s) PROVE Right(r)'
  <2>0. request' = request
    BY <1>2, HandleHandles DEF Handles
  <2>1. CASE s = r
    <3>1. /\ UNCHANGED method
          /\ ~Own(r) \/ (request[r].op = "update" /\ method[request[r].id] = RowOf(r))
      BY <1>2, <2>0, <2>1, Answer404
    <3>2. CASE ~Own(r)
      BY <2>0, <3>1, <3>2 DEF Own
    <3>3. CASE request[r].op = "update" /\ method[request[r].id] = RowOf(r)
      BY <2>0, <3>1, <3>3 DEF RowOf
    <3> QED
      BY <3>1, <3>2, <3>3
  <2>2. CASE s # r
    <3>1. Asks(r)
      BY <1>2, <2>0, <2>2, DoneStays
    <3>2. CASE UNCHANGED method
      BY <1>0, <2>0, <3>1, <3>2
    <3>3. CASE Inserts(s)
      <4>1. request[r].id # s /\ request[r].id \in Ids
        BY <3>1, <3>3, Asked DEF Inserts, TypeInv, WhereOK
      <4>2. method'[request[r].id] = method[request[r].id]
        BY <3>3, <4>1 DEF Inserts, TypeInv, TypeOK
      <4> QED
        BY <1>0, <2>0, <3>1, <4>2
    <3>4. ASSUME NEW row, Touching(s, row) PROVE Right(r)'
      <4>1. CASE request[s].id # request[r].id
        <5>1. method'[request[r].id] = method[request[r].id]
          BY <3>1, <3>4, <4>1, Asked DEF Touching, TypeInv, TypeOK
        <5> QED
          BY <1>0, <2>0, <3>1, <5>1
      <4>2. CASE request[s].id = request[r].id
        <5>1. method'[request[r].id] = row
          BY <3>1, <3>4, <4>2, Asked DEF Touching, TypeInv, TypeOK
        <5>2. CASE request[s].op = "delete"
          BY <2>0, <3>4, <5>1, <5>2 DEF Touching
        <5>3. CASE request[s].op = "update"
          <6>1. row.tenant = method[request[r].id].tenant /\ method[request[r].id] # None
            BY <3>4, <4>2, <5>3 DEF Touching, Own, RowOf
          <6> QED
            BY <1>0, <2>0, <2>2, <3>1, <4>2, <5>1, <5>3, <6>1
        <5> QED
          BY <3>4, <5>2, <5>3 DEF Touching
      <4> QED
        BY <4>1, <4>2
    <3> QED
      BY <1>2, <3>2, <3>3, <3>4, HandleChanges
  <2> QED
    BY <2>1, <2>2
<1>3. CASE Tick \/ UNCHANGED vars
  BY <1>0, <1>3 DEF Tick, vars, Tables
<1> QED
  BY <1>1, <1>2, <1>3 DEF Next

\* Who is told that there is no such method is told so rightly, for good, but for an
\* update that had nothing to change.
THEOREM NotFoundTold == Spec => []NotFoundIsTrue
BY InitNotFound, StepNotFound, Typed, PTL DEF Spec

\* A method that was created has its name, or somebody has named it since.
Kept(q) ==
    Done(q, "create", 201) =>
        \/ /\ method[q] # None
           /\ method[q].tenant = request[q].tenant /\ method[q].name = request[q].name
        \/ \E u \in Requests : Touches(u, q)
\* Once a POST has looked for its name, whoever had it before has been touched before.
Past(r) == \/ pc[r] = "insert" /\ request[r].op = "create"
           \/ Done(r, "create", 201)
Twins(q, r) == /\ q \in request[r].after /\ Done(q, "create", 201)
               /\ request[q].tenant = request[r].tenant /\ request[q].name = request[r].name
Checked(r) ==
    Past(r) => \A q \in Requests : Twins(q, r) =>
                    \E u \in Requests : Touches(u, q) /\ r \notin request[u].after
NamesInv == \A r \in Requests : Kept(r) /\ Checked(r)

LEMMA InitNames == Init => NamesInv
BY DEF Init, NamesInv, Kept, Checked, Past, Done, NoRequest

LEMMA StepKept ==
    ASSUME TypeInv, NamesInv, NEW s \in Requests, Receive(s) \/ Handle(s), NEW q \in Requests,
           Done(q, "create", 201)'
    PROVE  Kept(q)'
<1>1. \A u \in Requests : Touches(u, q) => Touches(u, q)'
  BY DoneStays DEF Touches
<1>2. CASE Receive(s)
  <2>1. q # s
    BY <1>2, ReceiveQuiet DEF Quiet, Done, Statuses
  <2>2. Done(q, "create", 201) /\ request'[q] = request[q] /\ method' = method
    BY <1>2, <2>1, ReceiveQuiet DEF Quiet, Done
  <2> QED
    BY <1>1, <2>2 DEF NamesInv, Kept
<1>3. CASE Handle(s)
  <2>0. request' = request
    BY <1>3, HandleHandles DEF Handles
  <2>1. CASE s = q
    <3>1. Inserts(q)
      BY <1>3, <2>1, Answer201 DEF Done
    <3>2. RowOf(q) \in Rows
      BY <3>1, Asked DEF Inserts, RowOf, Rows, MethodRequests, TypeInv, TypeOK
    <3>3. method'[q] = RowOf(q)
      BY <3>1 DEF Inserts, TypeInv, TypeOK
    <3> QED
      BY <2>0, <3>2, <3>3 DEF Kept, RowOf
  <2>2. CASE s # q
    <3>1. Done(q, "create", 201)
      BY <1>3, <2>0, <2>2, DoneStays DEF Done
    <3>2. CASE \E u \in Requests : Touches(u, q)
      BY <1>1, <3>2 DEF Kept
    <3>3. CASE ~\E u \in Requests : Touches(u, q)
      <4>1. method'[q] = method[q]
        BY <1>3, <2>2, <3>3, HandleChanges DEF Inserts, Touching, Touches, TypeInv, TypeOK
      <4> QED
        BY <2>0, <3>1, <3>3, <4>1 DEF NamesInv, Kept
    <3> QED
      BY <3>2, <3>3
  <2> QED
    BY <2>1, <2>2
<1> QED
  BY <1>2, <1>3

LEMMA StepChecked ==
    ASSUME TypeInv, NamesInv, NEW s \in Requests, Receive(s) \/ Handle(s), NEW r \in Requests,
           Past(r)', NEW q \in Requests, Twins(q, r)'
    PROVE  (\E u \in Requests : Touches(u, q) /\ r \notin request[u].after)'
<1>1. \A u \in Requests : Touches(u, q) => Touches(u, q)' /\ request'[u] = request[u]
  BY DoneStays DEF Touches
<1>2. ASSUME Past(r), Twins(q, r)
      PROVE  (\E u \in Requests : Touches(u, q) /\ r \notin request[u].after)'
  BY <1>1, <1>2 DEF NamesInv, Checked
<1>3. ASSUME request'[r] = request[r] PROVE Twins(q, r)
  <2>1. pc[q] = "done"
    BY <1>3 DEF Twins, TypeInv, WhereOK
  <2>2. q # s /\ request[q].op # "none" => request'[q] = request[q] /\ answer'[q] = answer[q]
    BY DoneStays
  <2>3. q # s
    <3>1. CASE Receive(s)
      BY <2>1, <3>1, ReceiveQuiet DEF Quiet
    <3>2. CASE Handle(s)
      BY <2>1, <3>2, HandleHandles DEF Handles
    <3> QED
      BY <3>1, <3>2
  <2>4. request'[q] = request[q]
    <3>1. CASE Receive(s)
      BY <2>3, <3>1, ReceiveQuiet DEF Quiet
    <3>2. CASE Handle(s)
      BY <3>2, HandleHandles DEF Handles
    <3> QED
      BY <3>1, <3>2
  <2> QED
    BY <1>3, <2>3, <2>4, DoneStays DEF Twins, Done
<1>4. CASE Receive(s)
  <2>1. r # s
    <3>1. CASE Arrives(s)
      BY <3>1 DEF Arrives, Arrival, Past, Done, TypeInv, TypeOK, ControlOK, WhereOK, Statuses
    <3>2. ASSUME NEW fault \in DOMAIN Refusal, ReceiveRefused(s, fault) PROVE r # s
      BY <3>2 DEF ReceiveRefused, Reply, Past, Done, TypeInv, TypeOK, ControlOK, WhereOK, NoRequest
    <3> QED
      BY <1>4, <3>1, <3>2, ReceiveArrives
  <2>2. Past(r) /\ request'[r] = request[r]
    BY <1>4, <2>1, ReceiveQuiet DEF Quiet, Past, Done
  <2> QED
    BY <1>2, <1>3, <2>2
<1>5. CASE Handle(s)
  <2>0. request' = request
    BY <1>5, HandleHandles DEF Handles
  <2>1. Twins(q, r)
    BY <1>3, <2>0
  <2>2. CASE s # r
    <3>1. Past(r)
      BY <1>5, <2>0, <2>2, DoneStays DEF Past, Done
    <3> QED
      BY <1>2, <2>1, <3>1
  <2>3. CASE s = r /\ answer'[r] = 201
    <3>1. Past(r)
      BY <1>5, <2>3, Answer201 DEF Inserts, Past
    <3> QED
      BY <1>2, <2>1, <3>1
  <2>4. CASE s = r /\ answer'[r] # 201
    <3>1. pc'[r] = "insert"
      BY <2>4 DEF Past, Done
    <3>2. pc[r] = "select" /\ MineByName(r) = {}
      BY <1>5, <2>4, <3>1, NameWasFree
    <3>3. PICK u \in Requests : Touches(u, q)
      BY <2>1, <3>2 DEF NamesInv, Kept, Twins, MineByName
    <3>4. r \notin request[u].after
      BY <3>2 DEF TypeInv, WhereOK
    <3> QED
      BY <1>1, <3>3, <3>4
  <2> QED
    BY <2>2, <2>3, <2>4
<1> QED
  BY <1>4, <1>5

LEMMA StepNames == TypeInv /\ NamesInv /\ [Next]_vars => NamesInv'
<1> SUFFICES ASSUME TypeInv, NamesInv, [Next]_vars PROVE NamesInv'
  OBVIOUS
<1>1. ASSUME NEW s \in Requests, Receive(s) \/ Handle(s), NEW r \in Requests
      PROVE  Kept(r)' /\ Checked(r)'
  <2>1. Kept(r)'
    BY <1>1, StepKept DEF Kept
  <2>2. Checked(r)'
    BY <1>1, StepChecked DEF Checked
  <2> QED
    BY <2>1, <2>2
<1>2. CASE Tick \/ UNCHANGED vars
  BY <1>2 DEF Tick, vars, Tables, NamesInv, Kept, Checked, Past, Twins, Done, Touches
<1> QED
  BY <1>1, <1>2 DEF Next, NamesInv

\* Two methods of a tenant get one name from POSTs only where these overlap, or the
\* first was renamed or deleted by a request that did not wait for the second.
THEOREM NamesConflict == Spec => []ConflictIsReported
<1>1. NamesInv => ConflictIsReported
  BY DEF NamesInv, Checked, Past, Twins, ConflictIsReported
<1>2. Spec => []NamesInv
  BY InitNames, StepNames, Typed, PTL DEF Spec
<1> QED
  BY <1>1, <1>2, PTL
==============================================================================
