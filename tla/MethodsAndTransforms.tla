-------------------------- MODULE MethodsAndTransforms --------------------------
(***************************************************************************)
(* The two resources of the Python API that are one table each:            *)
(* notification methods (/v2.0/notification-methods) and event transforms  *)
(* (/v2.0/events/transforms).  Requests run in several API servers over    *)
(* one MySQL database, so a handler is cut between its statements: a       *)
(* SELECT takes no lock, and a row that was there may be gone when the     *)
(* statement that relies on it runs.                                       *)
(*                                                                         *)
(* A row has the id of the request that made it, or of nobody here.  A     *)
(* method's updated_at has the precision of a second: `clock` counts them. *)
(***************************************************************************)
EXTENDS Naturals, FiniteSets

CONSTANTS Requests,  \* the requests of a behaviour (bounds its length)
          Existing,  \* methods that are there from the start
          Tenants, Names, Addresses,
          MaxClock,  \* bound: seconds that pass
          None       \* no row, no request, no answer

Ids == Requests \cup Existing
Statuses == {200, 201, 204, 400, 401, 404, 409, 500}
ASSUME ClockAssumption == MaxClock \in Nat
ASSUME IdsAssumption == Existing \cap Requests = {}

VARIABLES method,     \* table notification_method, by id
          transform,  \* the table of transforms, by id: its tenant
          clock,
          pc, request, answer,
          shown       \* what the requests that read have found
vars == <<method, transform, clock, pc, request, answer, shown>>

Rows == [tenant : Tenants, name : Names, address : Addresses, at : 0..MaxClock]
ASSUME NoneAssumption ==
    None \notin Ids \cup Tenants \cup Names \cup Addresses \cup Statuses /\ None \notin Rows
NoRequest == [op |-> "none", tenant |-> None, id |-> None, name |-> None, address |-> None,
              after |-> {}]
------------------------------------------------------------------------------
\* The names of the existing methods of a tenant differ.
Init ==
    /\ method \in [Ids -> Rows \cup {None}]
    /\ \A m \in Ids : (method[m] # None) <=> (m \in Existing)
    /\ \A m \in Existing : method[m].at = 0
    /\ \A m, n \in Existing : m # n /\ method[m].tenant = method[n].tenant
                                => method[m].name # method[n].name
    /\ transform = [i \in Requests |-> None]
    /\ clock = 0
    /\ pc = [r \in Requests |-> "idle"]
    /\ request = [r \in Requests |-> NoRequest]
    /\ answer = [r \in Requests |-> None]
    /\ shown = [r \in Requests |-> {}]

Go(r, place) == pc' = [pc EXCEPT ![r] = place] /\ UNCHANGED answer
Reply(r, status) ==
    /\ pc' = [pc EXCEPT ![r] = "done"]
    /\ answer' = [answer EXCEPT ![r] = status]
Tables == <<method, transform>>

\* What is wrong with a request: the content type or the body, the role; a name with
\* letters outside ASCII, whose decode fails within the try block of the resource.
Refusal == [invalid |-> 400, role |-> 401, nonAscii |-> 500]
Accept(r, op, tenant, id, name, address, place) ==
    /\ pc[r] = "idle"
    /\ request' = [request EXCEPT ![r] = [op |-> op, tenant |-> tenant, id |-> id, name |-> name,
            address |-> address, after |-> {x \in Requests : pc[x] = "done"}]]
    /\ Go(r, place)
    /\ UNCHANGED <<Tables, clock, shown>>

\* do_post_notification_methods, do_put, do_delete and the two do_get
ReceiveCreate(r, t, n, a) == Accept(r, "create", t, r, n, a, "select")
ReceiveUpdate(r, t, m, n, a) == Accept(r, "update", t, m, n, a, "update")
ReceiveDelete(r, t, m) == Accept(r, "delete", t, m, None, None, "select")
ReceiveShow(r, t, m) == Accept(r, "show", t, m, None, None, "query")
ReceiveList(r, t) == Accept(r, "list", t, None, None, None, "query")
\* do_post_transforms, do_delete_transforms, do_get_transforms
ReceiveCreateTransform(r, t) == Accept(r, "createTransform", t, r, None, None, "insert")
ReceiveDeleteTransform(r, t, i) == Accept(r, "deleteTransform", t, i, None, None, "delete")
ReceiveListTransforms(r, t) == Accept(r, "listTransforms", t, None, None, None, "query")
ReceiveRefused(r, fault) ==
    /\ pc[r] = "idle"
    /\ Reply(r, Refusal[fault])
    /\ UNCHANGED <<Tables, clock, request, shown>>
------------------------------------------------------------------------------
Nobody(r) == {}   \* mutant: the SELECT asks for the name alone, encoded wrong
MineByName(r) ==
    {m \in Ids : /\ method[m] # None
                 /\ method[m].tenant = request[r].tenant /\ method[m].name = request[r].name}
\* "where tenant_id = %s and id = %s"
OwnOrNot(r) == method[request[r].id] # None   \* mutant: no tenant in the where
Own(r) == method[request[r].id] # None /\ method[request[r].id].tenant = request[r].tenant
RowOf(r) == [tenant |-> request[r].tenant, name |-> request[r].name,
             address |-> request[r].address, at |-> clock]

\* create_notification: a method of that name?  If not, ...
InsertFirst(r) ==   \* mutant: inserts before it looks
    /\ pc[r] = "select" /\ request[r].op = "create"
    /\ method' = [method EXCEPT ![r] = RowOf(r)]
    /\ IF MineByName(r) # {} THEN Reply(r, 409) ELSE Go(r, "insert")
    /\ UNCHANGED <<transform, clock, request, shown>>
SelectName(r) ==
    /\ pc[r] = "select" /\ request[r].op = "create"
    /\ IF MineByName(r) # {} THEN Reply(r, 409) ELSE Go(r, "insert")
    /\ UNCHANGED <<Tables, clock, request, shown>>

\* ... it is inserted, whatever came in between.
InsertMethod(r) ==
    /\ pc[r] = "insert" /\ request[r].op = "create"
    /\ method' = [method EXCEPT ![r] = RowOf(r)]
    /\ Reply(r, 201)
    /\ UNCHANGED <<transform, clock, request, shown>>

\* update_notification asks for no other method of that name, and takes a row that it
\* does not change for one that does not exist.
Moves(r) ==   \* mutant: a new name is no change
    Own(r) /\ method[request[r].id].address # request[r].address
Changes(r) == Own(r) /\ method[request[r].id] # RowOf(r)
UpdateMethod(r) ==
    /\ pc[r] = "update"
    /\ method' = IF Changes(r) THEN [method EXCEPT ![request[r].id] = RowOf(r)] ELSE method
    /\ Reply(r, IF Changes(r) THEN 200 ELSE 404)
    /\ UNCHANGED <<transform, clock, request, shown>>

\* delete_notification: the SELECT, ...
SelectMethod(r) ==
    /\ pc[r] = "select" /\ request[r].op = "delete"
    /\ IF Own(r) THEN Go(r, "delete") ELSE Reply(r, 404)
    /\ UNCHANGED <<Tables, clock, request, shown>>

\* ... and the DELETE, which may find the row gone.
DeleteMethod(r) ==
    /\ pc[r] = "delete" /\ request[r].op = "delete"
    /\ method' = IF Own(r) THEN [method EXCEPT ![request[r].id] = None] ELSE method
    /\ Reply(r, 204)
    /\ UNCHANGED <<transform, clock, request, shown>>

\* list_notification and list_notifications
ShowMethod(r) ==
    /\ pc[r] = "query" /\ request[r].op = "show"
    /\ IF Own(r) THEN /\ shown' = [shown EXCEPT ![r] = {request[r].id}]
                      /\ Reply(r, 200)
                 ELSE Reply(r, 404) /\ UNCHANGED shown
    /\ UNCHANGED <<Tables, clock, request>>
Mine(r) == {m \in Ids : method[m] # None /\ method[m].tenant = request[r].tenant}
ListMethods(r) ==
    /\ pc[r] = "query" /\ request[r].op = "list"
    /\ shown' = [shown EXCEPT ![r] = Mine(r)]
    /\ Reply(r, 200)
    /\ UNCHANGED <<Tables, clock, request>>
------------------------------------------------------------------------------
\* create_transforms: create inserts the row, and commits it; ...
InsertTransform(r) ==
    /\ pc[r] = "insert" /\ request[r].op = "createTransform"
    /\ transform' = [transform EXCEPT ![r] = request[r].tenant]
    /\ Go(r, "save")
    /\ UNCHANGED <<method, clock, request, shown>>

\* ... save writes it once more.
SaveTransform(r) ==
    /\ pc[r] = "save"
    /\ Reply(r, 200)
    /\ UNCHANGED <<Tables, clock, request, shown>>

\* delete_transform: one statement, whose count of rows decides.
DeleteTransform(r) ==
    LET own == transform[request[r].id] = request[r].tenant
    IN  /\ pc[r] = "delete" /\ request[r].op = "deleteTransform"
        /\ transform' = IF own THEN [transform EXCEPT ![request[r].id] = None] ELSE transform
        /\ Reply(r, IF own THEN 204 ELSE 404)
        /\ UNCHANGED <<method, clock, request, shown>>

ListTransforms(r) ==
    /\ pc[r] = "query" /\ request[r].op = "listTransforms"
    /\ shown' = [shown EXCEPT ![r] = {i \in Requests : transform[i] = request[r].tenant}]
    /\ Reply(r, 200)
    /\ UNCHANGED <<Tables, clock, request>>

\* RepositoryException, and whatever else a statement raises, is answered 500; the
\* transaction of a method is rolled back.
StatementFails(r) ==
    /\ pc[r] \notin {"idle", "done"}
    /\ Reply(r, 500)
    /\ UNCHANGED <<Tables, clock, request, shown>>

Tick == clock < MaxClock /\ clock' = clock + 1 /\ UNCHANGED <<Tables, pc, request, answer, shown>>

\* Ids are random: a client has those of rows that are or were there.
Known == Existing \cup {r \in Requests : pc[r] = "done" /\ answer[r] \in {200, 201}}
Receive(r) ==
    \/ \E t \in Tenants :
        \/ \E n \in Names, a \in Addresses :
            ReceiveCreate(r, t, n, a) \/ \E m \in Known : ReceiveUpdate(r, t, m, n, a)
        \/ \E m \in Known : ReceiveDelete(r, t, m) \/ ReceiveShow(r, t, m)
        \/ \E i \in Known \cap Requests : ReceiveDeleteTransform(r, t, i)
        \/ ReceiveList(r, t) \/ ReceiveCreateTransform(r, t) \/ ReceiveListTransforms(r, t)
    \/ \E fault \in DOMAIN Refusal : ReceiveRefused(r, fault)
Handle(r) ==
    \/ SelectName(r) \/ InsertMethod(r) \/ UpdateMethod(r) \/ SelectMethod(r) \/ DeleteMethod(r)
    \/ ShowMethod(r) \/ ListMethods(r)
    \/ InsertTransform(r) \/ SaveTransform(r) \/ DeleteTransform(r) \/ ListTransforms(r)
    \/ StatementFails(r)
Next == Tick \/ \E r \in Requests : Receive(r) \/ Handle(r)
Spec == Init /\ [][Next]_vars
------------------------------------------------------------------------------
(* Properties *)
TypeOK ==
    /\ method \in [Ids -> Rows \cup {None}]
    /\ transform \in [Requests -> Tenants \cup {None}]
    /\ clock \in 0..MaxClock
    /\ answer \in [Requests -> Statuses \cup {None}]
    /\ shown \in [Requests -> SUBSET Ids]

Done(r, op, status) == request[r].op = op /\ answer[r] = status
\* The tenant that made a method, which only its row says of an existing one.
Touches(q, m) == request[q].op \in {"update", "delete"} /\ request[q].id = m

\* Of two methods of a tenant with one name, one was renamed to it, or the two were
\* created at once.  So a method created after another of that name was, is refused,
\* unless that one was changed or deleted meanwhile.
ConflictIsReported ==
    \A r, q \in Requests :
        /\ Done(q, "create", 201) /\ Done(r, "create", 201) /\ q \in request[r].after
        /\ request[q].tenant = request[r].tenant /\ request[q].name = request[r].name
        => \E u \in Requests : Touches(u, q) /\ r \notin request[u].after

\* 404 means that the method is gone, or is not the tenant's, or that an update
\* repeats within a second what the row says, or said till another update came.
NotFoundIsTrue ==
    \A r \in Requests : answer[r] = 404 /\ request[r].op \in {"update", "delete", "show"} =>
        LET row == method[request[r].id]
        IN  \/ row = None \/ row.tenant # request[r].tenant
            \/ /\ request[r].op = "update"
               /\ \/ row.name = request[r].name /\ row.address = request[r].address
                  \/ \E u \in Requests \ {r} : request[u].op = "update" /\ request[u].id = request[r].id

\* A request refused has stored nothing.  A transform may be stored all the same.
RefusedStoresNothing ==
    \A r \in Requests : pc[r] = "done" /\ answer[r] \notin {200, 201} => method[r] = None

\* A method changes only by a request of its tenant, and never its tenant; nobody is
\* shown the method of another.
OwnMethodsOnly ==
    [][/\ \A m \in Ids : method'[m] # method[m] =>
            \E r \in Requests :
                /\ pc'[r] # pc[r] /\ request[r].id = m
                /\ method[m] = None \/ method[m].tenant = request[r].tenant
                /\ method'[m] = None \/ method'[m].tenant = request[r].tenant
       /\ \A r \in Requests : request[r].op \in {"show", "list"} /\ shown'[r] # shown[r] =>
            \A m \in shown'[r] : method[m] # None /\ method[m].tenant = request[r].tenant]_vars
==============================================================================
