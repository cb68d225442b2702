--------------------------- MODULE AlarmDefinitions ---------------------------
(***************************************************************************)
(* The alarm definition resource of the Python API server: POST, PUT,      *)
(* PATCH and DELETE of /v2.0/alarm-definitions, over the MySQL repository  *)
(* and the Kafka topic `events`.                                           *)
(*                                                                         *)
(* Every request runs in a greenlet of its own, in one of several servers, *)
(* and gives way at every call of the database and of the queue.  A        *)
(* handler is therefore cut where it touches one of them: a transaction of *)
(* the repository is one step (two for an update: its reads come from the  *)
(* snapshot its first query takes, its writes see the newest rows and hold *)
(* the lock of the definition's row from then to the commit), and so is    *)
(* each message that is published.  Between two steps of a request any     *)
(* step of the others may happen, and so may a crash of its server.        *)
(*                                                                         *)
(* The threshold engine, another program, reads the events and creates the *)
(* alarms, in the same database.                                           *)
(***************************************************************************)
EXTENDS SubExpressions, Naturals, Sequences

CONSTANTS Requests,      \* the requests of a behaviour (bounds its length)
          Stored,        \* definitions stored before the behaviour starts
          Tenants,
          Names,
          Details,       \* values of description, severity and match_by
          DefaultDetails,
          Expressions,   \* expressions: sequences of [key, test]
          Lower,         \* a key with its metric name in lower case
          Methods,       \* notification methods that exist at the start
          AlarmStates,   \* ALARM, OK, UNDETERMINED
          Alarms,        \* alarms the engine may create (bounds their number)
          Bare,          \* alarms with a metric that has no dimensions
          Bodies,        \* request bodies
          Faults,        \* what may go wrong: see FaultsAssumption
          None,          \* a field the body leaves out, no request, no answer
          Unparsable     \* an expression the parser rejects

\* The definition a POST creates gets a fresh uuid: here the POST's own name.
Defs == Requests \cup Stored
Elems(expr) == {expr[i] : i \in DOMAIN expr}

\* The HTTP statuses the handlers answer with.
Statuses == {200, 201, 204, 400, 404, 500}

ASSUME DefsAssumption == Requests \cap Stored = {}
ASSUME NoneAssumption ==
    /\ None \notin Requests /\ None \notin Names
    /\ None \notin Details /\ None \notin Expressions /\ None \notin Statuses
    /\ None # Unparsable /\ Unparsable \notin Expressions
ASSUME BodiesAssumption ==
    Bodies \subseteq [name    : Names \cup {None},
                      expr    : Expressions \cup {None, Unparsable},
                      details : Details \cup {None},
                      enabled : {"true", "false", None},
                      actions : [AlarmStates -> (SUBSET Methods) \cup {None}]]
ASSUME DetailsAssumption == DefaultDetails \in Details
\* A statement fails, Kafka does not take a message, a server goes down.
ASSUME FaultsAssumption == Faults \subseteq {"database", "queue", "crash"}

VARIABLES definition,   \* table alarm_definition: rows by id
          subDef,       \* table sub_alarm_definition
          alarmAction,  \* table alarm_action
          method,       \* table notification_method: the ids
          alarm,        \* table alarm, and which alarms were deleted
          events,       \* the Kafka topic `events`
          heard,        \* how many of the events the engine has read
          pc,           \* where the handler of each request stands
          request,      \* what each request asks for
          local,        \* what each handler has read
          answer        \* HTTP status each request was answered with
tables == <<definition, subDef, alarmAction, method, alarm>>
vars == <<tables, events, heard, pc, request, local, answer>>
------------------------------------------------------------------------------
AbsentRow == [stage |-> "absent", tenant |-> None, name |-> None, expr |-> <<>>,
              details |-> None, enabled |-> "false"]
NoDiff == [removed |-> {}, changed |-> {}, added |-> {}, unchanged |-> {}]
Nothing == [row |-> AbsentRow, subDefs |-> {}, methods |-> {}, alarms |-> {},
            diff |-> NoDiff]
NoRequest == [op |-> "none", tenant |-> None, target |-> None, body |-> None,
              after |-> {}]

\* "where tenant_id = %s and id = %s and deleted_at is NULL"
Found(tenant, d) ==
    /\ d \in Defs
    /\ definition[d].stage = "live"
    /\ definition[d].tenant = tenant

SubDefsOf(d) == {row \in subDef : row.definition = d}

\* Rows of table sub_alarm_definition: the id is a fresh uuid, here the one who
\* made it and the place of the sub-expression in the expression.
SubDefRow(id, d, key, test) ==
    [id |-> id, definition |-> d, key |-> key, test |-> test]

\* create_alarm_definition: one row for each sub-expression, duplicates
\* included, with the normalized metric name.
RowsOfNew(d, expr) ==
    {SubDefRow(<<d, i>>, d, Lower[expr[i].key], expr[i].test) : i \in DOMAIN expr}

\* The new SubAlarmDefinitions of an update: a set, with the name as written.
RowsAdded(r, d, expr, added) ==
    {SubDefRow(<<r, CHOOSE i \in DOMAIN expr : expr[i] = e>>, d, e.key, e.test) :
        e \in added}

\* _insert_into_alarm_action looks every action up and raises when one is not
\* a notification method.  `known` is what the transaction's snapshot shows.
ActionsExist(actions, known) ==
    \A s \in AlarmStates : actions[s] # None => actions[s] \subseteq known
ActionRows(d, actions) ==
    UNION {{[definition |-> d, state |-> s, method |-> m] : m \in actions[s]} :
              s \in {t \in AlarmStates : actions[t] # None}}

\* PUT clears the actions of every state, PATCH those of the states it names.
ClearedActions(d, op, actions) ==
    {row \in alarmAction : row.definition = d /\ (op = "patch" => actions[row.state] # None)}

Init ==
    /\ definition \in [Defs -> {AbsentRow} \cup
            [stage : {"live"}, tenant : Tenants, name : Names, expr : Expressions,
             details : {DefaultDetails}, enabled : {"true"}]]
    /\ \A d \in Defs : definition[d].stage = "absent" <=> d \in Requests
    /\ subDef = UNION {RowsOfNew(d, definition[d].expr) : d \in Stored}
    /\ alarmAction = {}
    /\ method = Methods
    /\ alarm = [a \in Alarms |-> [stage |-> "unborn", definition |-> None]]
    /\ events = <<>>
    /\ heard = 0
    /\ pc = [r \in Requests |-> "idle"]
    /\ request = [r \in Requests |-> NoRequest]
    /\ local = [r \in Requests |-> Nothing]
    /\ answer = [r \in Requests |-> None]

Go(r, place) == pc' = [pc EXCEPT ![r] = place] /\ UNCHANGED answer
Reply(r, status) ==
    /\ pc' = [pc EXCEPT ![r] = "done"]
    /\ answer' = [answer EXCEPT ![r] = status]
------------------------------------------------------------------------------
\* Requests come in.  What a handler checks before its first query decides
\* whether it goes on, and where.

\* schema_alarms.validate, the get_query_* functions, the expression parser and
\* the check of actions_enabled in PUT.  PATCH validates the expression only.
BadRequest(op, body) ==
    IF op = "patch"
      THEN body.expr = Unparsable
      ELSE \/ body.name = None
           \/ body.expr \in {None, Unparsable}
           \/ op = "put" /\ body.enabled # "true"

\* PATCH without an expression: the parser is given None and raises.
ParserRaises(op, body) == op = "patch" /\ body.expr = None

Answered == {r \in Requests : pc[r] = "done"}
Accept(r, op, tenant, d, body) ==
    /\ pc[r] = "idle"
    /\ request' = [request EXCEPT ![r] =
            [op |-> op, tenant |-> tenant, target |-> d, body |-> body,
             after |-> Answered]]
    /\ UNCHANGED <<tables, events, heard, local>>

\* do_post_alarm_definitions
ReceivePost(r, tenant, body) ==
    /\ Accept(r, "create", tenant, r, body)
    /\ IF BadRequest("create", body) THEN Reply(r, 400) ELSE Go(r, "insert")

\* do_put_alarm_definitions, do_patch_alarm_definitions.  A client can name any
\* definition that a GET or its own POST has shown it, deleted since or not.
ReceiveUpdate(r, op, tenant, d, body) ==
    /\ definition[d].stage # "absent"
    /\ Accept(r, op, tenant, d, body)
    /\ IF BadRequest(op, body) THEN Reply(r, 400)
       ELSE IF ParserRaises(op, body) THEN Reply(r, 500)
       ELSE Go(r, "read")

\* do_delete_alarm_definitions
ReceiveDelete(r, tenant, d) ==
    /\ definition[d].stage # "absent"
    /\ Accept(r, "delete", tenant, d, None)
    /\ Go(r, "readSubDefs")
------------------------------------------------------------------------------
\* Transactions.  All their statements commit together, or none does.

\* The rows create_alarm_definition inserts: the definition, then its
\* sub-expressions, then its actions.
NewRow(q) ==
    [stage |-> "live", tenant |-> q.tenant, name |-> q.body.name, expr |-> q.body.expr,
     details |-> IF q.body.details = None THEN DefaultDetails ELSE q.body.details,
     enabled |-> "true"]
InsertRows(r, actions) ==
    /\ definition' = [definition EXCEPT ![r] = NewRow(request[r])]
    /\ subDef' = subDef \cup RowsOfNew(r, request[r].body.expr)
    /\ alarmAction' = alarmAction \cup actions

\* The row the UPDATE statement leaves: fields the body leaves out are written
\* back as they were read, actions_enabled is "1 if actions_enabled else 0".
UpdatedRow(row, read, body) ==
    [row EXCEPT !.name = body.name,
                !.expr = body.expr,
                !.details = IF body.details = None THEN read.details ELSE body.details,
                !.enabled = IF body.enabled = "true" THEN "true" ELSE "false"]

\* What update_or_patch_alarm_definition writes, in the same order.
UpdateRows(r, diff, actions) ==
    LET q == request[r]
        d == q.target
    IN  /\ definition' = [definition EXCEPT ![d] =
                              UpdatedRow(definition[d], local[r].row, q.body)]
        /\ subDef' = UpdateChanged(DeleteRemoved(subDef, diff), diff)
                        \cup RowsAdded(r, d, q.body.expr, diff.added)
        /\ alarmAction' = (alarmAction \ ClearedActions(d, q.op, q.body.actions)) \cup actions

\* Leaving "with cnxn" by an exception rolls the transaction back.
HalfCommitted(r) ==   \* mutant: what was written before the new actions is kept
    /\ \/ pc[r] = "insert" /\ InsertRows(r, {})
       \/ /\ pc[r] = "write" /\ request[r].body.name # None
          /\ Found(request[r].tenant, request[r].target)
          /\ \E diff \in Diffs(local[r].subDefs, Elems(request[r].body.expr)) :
                UpdateRows(r, diff, {})
       \/ UNCHANGED <<definition, subDef, alarmAction>>
    /\ UNCHANGED <<alarm, local>>
RolledBack(r) == UNCHANGED <<definition, subDef, alarmAction, alarm, local>>

\* create_alarm_definition
InsertDefinition(r) ==
    LET q == request[r]
    IN  /\ pc[r] = "insert"
        /\ UNCHANGED <<method, alarm, events, heard, request>>
        /\ IF ActionsExist(q.body.actions, method)
             THEN /\ InsertRows(r, ActionRows(r, q.body.actions))
                  /\ local' = [local EXCEPT ![r].subDefs = RowsOfNew(r, q.body.expr)]
                  /\ Go(r, "tell")
             ELSE Reply(r, 500) /\ RolledBack(r)

\* update_or_patch_alarm_definition, its first two queries.
ReadDefinition(r) ==
    LET q == request[r]
    IN  /\ pc[r] = "read"
        /\ UNCHANGED <<tables, events, heard, request>>
        /\ IF Found(q.tenant, q.target)
             THEN /\ local' = [local EXCEPT ![r].row = definition[q.target],
                                            ![r].subDefs = SubDefsOf(q.target),
                                            ![r].methods = method]
                  /\ Go(r, "write")
             ELSE Reply(r, 404) /\ UNCHANGED local

\* The re-read at the end of the transaction finds no row that is not deleted
\* when another request deleted the definition since the first read.
NotReadAgain(d, tenant) == definition[d].tenant = tenant   \* mutant
StillThere(d, tenant) == Found(tenant, d)

\* update_or_patch_alarm_definition, from the diff to the commit.  Without a name
\* it fails at `name.encode`, before the first write.
WriteDefinition(r) ==
    LET q == request[r]
        d == q.target
        read == local[r]
    IN  /\ pc[r] = "write"
        /\ UNCHANGED <<method, alarm, events, heard, request>>
        /\ IF /\ q.body.name # None
              /\ ActionsExist(q.body.actions, read.methods)
              /\ StillThere(d, q.tenant)
             THEN /\ \E diff \in Diffs(read.subDefs, Elems(q.body.expr)) :
                        /\ UpdateRows(r, diff, ActionRows(d, q.body.actions))
                        /\ local' = [local EXCEPT ![r].diff = diff,
                                ![r].subDefs = RowsAdded(r, d, q.body.expr, diff.added)]
                  /\ Go(r, "tell")
             ELSE Reply(r, 500) /\ RolledBack(r)

\* _alarm_definition_delete reads the sub alarm definitions, of any tenant and
\* deleted or not, ...
ReadSubDefs(r) ==
    /\ pc[r] = "readSubDefs"
    /\ local' = [local EXCEPT ![r].subDefs = SubDefsOf(request[r].target)]
    /\ Go(r, "readAlarms")
    /\ UNCHANGED <<tables, events, heard, request>>

\* ... then the alarms with their metrics and sub alarms (get_alarm_metrics and
\* get_sub_alarms: the second only adds to the text of the events), ...
ReadAlarms(r) ==
    LET q == request[r]
        mine == {a \in Alarms : /\ alarm[a].stage = "stored"
                                /\ alarm[a].definition = q.target
                                /\ definition[q.target].tenant = q.tenant}
    IN  /\ pc[r] = "readAlarms"
        /\ local' = [local EXCEPT ![r].alarms = mine]
        /\ Go(r, "softDelete")
        /\ UNCHANGED <<tables, events, heard, request>>

\* ... and then runs delete_alarm_definition: a soft delete of the definition,
\* guarded by "deleted_at is NULL", and a hard delete of its alarms.
DeletableAgain(d, tenant) == definition[d].tenant = tenant   \* mutant
Deletable(d, tenant) == Found(tenant, d)
AlarmsLeftBehind(d) == alarm   \* mutant
AlarmsWithout(d) ==
    [a \in Alarms |-> IF alarm[a].stage = "stored" /\ alarm[a].definition = d
                        THEN [alarm[a] EXCEPT !.stage = "gone"] ELSE alarm[a]]
SoftDelete(r) ==
    LET q == request[r]
        d == q.target
    IN  /\ pc[r] = "softDelete"
        /\ UNCHANGED <<subDef, alarmAction, method, events, heard, request, local>>
        /\ IF Deletable(d, q.tenant)
             THEN /\ definition' = [definition EXCEPT ![d].stage = "deleted"]
                  /\ alarm' = AlarmsWithout(d)
                  /\ Go(r, "tell")
             ELSE Reply(r, 404) /\ UNCHANGED <<definition, alarm>>

\* Any statement may fail: mysql_try_catch_block and resource_try_catch_block
\* turn that into a 500, and leaving "with cnxn" rolls back.
InDatabase == {"insert", "read", "write", "readSubDefs", "readAlarms", "softDelete"}
FailsSilently(r) ==   \* mutant: the exception gets lost, with no answer
    /\ pc[r] \in InDatabase
    /\ Go(r, "done")
    /\ UNCHANGED <<tables, events, heard, request, local>>
DatabaseFails(r) ==
    /\ "database" \in Faults
    /\ pc[r] \in InDatabase
    /\ Reply(r, 500) /\ RolledBack(r)
    /\ UNCHANGED <<method, events, heard, request>>
------------------------------------------------------------------------------
\* Messages.

Event(type, r, content) ==
    [type |-> type, definition |-> request[r].target, by |-> r, content |-> content]

\* send_event with a synchronous producer: the message is written to the topic;
\* or something goes wrong, KafkaPublisher makes a MessageQueueException of any
\* exception and send_event makes a 500 of that.  The topic may have the message
\* all the same, when only the acknowledgement was lost.
PublishUnordered(r, event, Continue) ==   \* mutant: a producer that overtakes
    (events' = Append(events, event) \/ events' = <<event>> \o events) /\ Continue
PublishOrForget(r, event, Continue) ==   \* mutant: the exception is only logged
    events' \in {events, Append(events, event)} /\ Continue
Publish(r, event, Continue) ==
    \/ events' = Append(events, event) /\ Continue
    \/ /\ "queue" \in Faults
       /\ events' \in {events, Append(events, event)}
       /\ Reply(r, 500)

\* _send_alarm_definition_created_event; 201
TellCreated(r) ==
    /\ pc[r] = "tell" /\ request[r].op = "create"
    /\ Publish(r, Event("created", r, local[r].subDefs), Reply(r, 201))
    /\ UNCHANGED <<tables, heard, request, local>>

\* _build_sub_alarm_def_update_dict keys its entries by sub_alarm_def.id, which
\* the changed ones do not have (it is still ''): one of them is left.
NoId == None
AnnouncedChanges(diff) ==
    IF diff.changed = {} THEN {{}} ELSE {{[c EXCEPT !.id = NoId]} : c \in diff.changed}

\* The alarm-definition-updated event of _alarm_definition_update_or_patch; 200
TellUpdated(r) ==
    /\ pc[r] = "tell" /\ request[r].op \in {"put", "patch"}
    /\ \E changed \in AnnouncedChanges(local[r].diff) :
        Publish(r, Event("updated", r, [old       |-> local[r].diff.removed,
                                        changed   |-> changed,
                                        new       |-> local[r].subDefs,
                                        unchanged |-> local[r].diff.unchanged]),
                Reply(r, 200))
    /\ UNCHANGED <<tables, heard, request, local>>

\* _send_alarm_definition_deleted_event
TellNobody(r) ==   \* mutant: the event is built and not sent
    /\ pc[r] = "tell" /\ request[r].op = "delete"
    /\ Go(r, "tellAlarms")
    /\ UNCHANGED <<tables, events, heard, request, local>>
TellDeleted(r) ==
    /\ pc[r] = "tell" /\ request[r].op = "delete"
    /\ Publish(r, Event("deleted", r, local[r].subDefs), Go(r, "tellAlarms"))
    /\ UNCHANGED <<tables, heard, request, local>>

\* _send_alarm_event for the alarms read before the delete; 204.  It raises, with
\* nothing sent, at a metric without dimensions (None has no split) and on its way
\* to a second alarm (it takes a slice of a dict).
TellAlarmsDeleted(r) ==
    LET alarms == local[r].alarms
    IN  /\ pc[r] = "tellAlarms"
        /\ \/ alarms = {} /\ Reply(r, 204) /\ UNCHANGED events
           \/ \E a \in Alarms \ Bare :
                /\ alarms = {a}
                /\ Publish(r, Event("alarm-deleted", r, a), Reply(r, 204))
           \/ /\ (\E a, b \in alarms : a # b) \/ alarms \cap Bare # {}
              /\ Reply(r, 500) /\ UNCHANGED events
        /\ UNCHANGED <<tables, heard, request, local>>

\* A server goes down: its handlers stop where they stand, open transactions
\* are rolled back, nothing resumes them.
Crash(r) ==
    /\ "crash" \in Faults
    /\ pc[r] \notin {"idle", "done", "crashed"}
    /\ Go(r, "crashed")
    /\ UNCHANGED <<tables, events, heard, request, local>>
------------------------------------------------------------------------------
\* The rest of the system.

\* do_delete_notification_methods: rows of alarm_action stay behind.
DeleteMethod(m) ==
    /\ m \in method
    /\ method' = method \ {m}
    /\ UNCHANGED <<definition, subDef, alarmAction, alarm,
                   events, heard, pc, request, local, answer>>

\* The threshold engine reads the events in order, ...
EngineHears ==
    /\ heard < Len(events)
    /\ heard' = heard + 1
    /\ UNCHANGED <<tables, events, pc, request, local, answer>>

\* ... and creates alarms of the definitions they told it of.
Heard(type, d) ==
    \E i \in 1..heard : events[i].type = type /\ events[i].definition = d
EngineCreatesAlarm(a, d) ==
    /\ d \in Stored \/ Heard("created", d)
    /\ ~ Heard("deleted", d)
    /\ alarm[a].stage = "unborn"
    /\ alarm' = [alarm EXCEPT ![a] = [stage |-> "stored", definition |-> d]]
    /\ UNCHANGED <<definition, subDef, alarmAction, method,
                   events, heard, pc, request, local, answer>>
------------------------------------------------------------------------------
Receive(r) ==
    \E tenant \in Tenants :
        \/ \E body \in Bodies : ReceivePost(r, tenant, body)
        \/ \E body \in Bodies, d \in Defs, op \in {"put", "patch"} :
                ReceiveUpdate(r, op, tenant, d, body)
        \/ \E d \in Defs : ReceiveDelete(r, tenant, d)

\* What the server does next for a request it has accepted.
Handle(r) ==
    \/ InsertDefinition(r)
    \/ ReadDefinition(r)
    \/ WriteDefinition(r)
    \/ ReadSubDefs(r)
    \/ ReadAlarms(r)
    \/ SoftDelete(r)
    \/ DatabaseFails(r)
    \/ TellCreated(r)
    \/ TellUpdated(r)
    \/ TellDeleted(r)
    \/ TellAlarmsDeleted(r)

Engine == EngineHears \/ \E a \in Alarms, d \in Defs : EngineCreatesAlarm(a, d)

Next ==
    \/ \E r \in Requests : Receive(r) \/ Handle(r) \/ Crash(r)
    \/ \E m \in Methods : DeleteMethod(m)
    \/ Engine

\* The servers keep running every greenlet that is ready, and the engine keeps
\* reading the topic.  No request has to come and nothing has to fail.
Fairness ==
    /\ \A r \in Requests : WF_vars(Handle(r))
    /\ WF_vars(EngineHears)

Spec == Init /\ [][Next]_vars
FairSpec == Spec /\ Fairness
------------------------------------------------------------------------------
Places == InDatabase \cup {"idle", "tell", "tellAlarms", "done", "crashed"}
Position(type, r) ==
    {i \in DOMAIN events : events[i].type = type /\ events[i].by = r}
Says(i, type, d) == events[i].type = type /\ events[i].definition = d

\* Requests stand at one of their places, and exactly those that are done have
\* an answer; the engine is never ahead of the topic.
TypeOK ==
    /\ definition \in [Defs -> [stage : {"absent", "live", "deleted"},
                                tenant : Tenants \cup {None},
                                name : Names \cup {None},
                                expr : Expressions \cup {<<>>},
                                details : Details \cup {None},
                                enabled : {"true", "false"}]]
    /\ \A row \in subDef : row.definition \in Defs
    /\ alarmAction \subseteq [definition : Defs, state : AlarmStates, method : Methods]
    /\ method \subseteq Methods
    /\ alarm \in [Alarms -> [stage : {"unborn", "stored", "gone"},
                             definition : Defs \cup {None}]]
    /\ \A i \in DOMAIN events : events[i].by \in Requests /\ events[i].definition \in Defs
    /\ heard \in 0..Len(events)
    /\ pc \in [Requests -> Places]
    /\ answer \in [Requests -> Statuses \cup {None}]
    /\ \A r \in Requests : pc[r] = "done" <=> answer[r] # None

\* However many requests delete a definition at the same time, the engine is
\* told once, by one of them: the guard of the UPDATE decides which.
DeletionAnnouncedOnce ==
    \A i, j \in DOMAIN events : \A d \in Defs :
        Says(i, "deleted", d) /\ Says(j, "deleted", d) => i = j

\* An event says what has been committed, about a definition of the sender's
\* tenant: deleted definitions and alarms are really gone when the engine hears
\* of it, and the definition of any other event has really been stored.
AnnouncementsAreTrue ==
    \A i \in DOMAIN events :
        LET e == events[i]
        IN  /\ definition[e.definition].stage # "absent"
            /\ definition[e.definition].tenant = request[e.by].tenant
            /\ e.type \in {"deleted", "alarm-deleted"} =>
                    definition[e.definition].stage = "deleted"
            /\ e.type = "alarm-deleted" => alarm[e.content].stage = "gone"

\* The engine hears that a definition is deleted before it hears the same of its
\* alarms, from the request that deleted them all, or it would create the alarms again.
DefinitionDeletedBeforeItsAlarms ==
    \A j \in DOMAIN events : events[j].type = "alarm-deleted" =>
        \E i \in 1..(j - 1) : /\ Says(i, "deleted", events[j].definition)
                              /\ events[i].by = events[j].by

\* Who is told that a request succeeded can rely on the topic to have its event,
\* whatever failed on the way.
SuccessIsAnnounced ==
    \A r \in Requests :
        /\ answer[r] = 201 => Position("created", r) # {}
        /\ answer[r] = 200 => Position("updated", r) # {}
        /\ answer[r] = 204 => Position("deleted", r) # {}

\* A refused request has left nothing, and of a creation there is all or nothing:
\* while no update has come for it, its row and its actions are what was posted, and
\* its sub-expressions have their rows for good (no update deletes one).  Rows and
\* actions without the definition, or the definition without some of them, would be
\* those of a creation that failed halfway and was not rolled back.
ActionsOf(d) == {row \in alarmAction : row.definition = d}
MadeBy(r) == {row \in subDef : row.id[1] = r}
Created(r) ==
    LET q == request[r]
    IN  /\ q.op = "create"
        /\ {row.id : row \in MadeBy(r)} = {<<r, i>> : i \in DOMAIN q.body.expr}
        /\ (\A s \in Requests : request[s].op \in {"put", "patch"} => request[s].target # r) =>
                /\ definition[r] = [NewRow(q) EXCEPT !.stage = definition[r].stage]
                /\ ActionsOf(r) = ActionRows(r, q.body.actions)
RefusedLeavesNoTrace ==
    \A r \in Requests :
        /\ answer[r] \in {400, 404} =>
                /\ \A i \in DOMAIN events : events[i].by # r
                /\ MadeBy(r) = {} /\ definition[r].stage = "absent"
        /\ IF definition[r].stage # "absent" THEN Created(r)
           ELSE SubDefsOf(r) = {} /\ ActionsOf(r) = {}

\* If one request was answered before another came in, their events about one
\* definition are in that order: in particular the engine hears of a definition
\* before it hears that a client who was given its id changed or deleted it.
AnnouncedInRealTimeOrder ==
    \A i, j \in DOMAIN events :
        /\ events[i].definition = events[j].definition
        /\ events[i].by \in request[events[j].by].after
        => i < j

\* A deleted definition is never changed again: not its row, its sub alarm
\* definitions or its actions, whatever update was under way.
DeletedStaysDeleted ==
    [][\A d \in Defs : definition[d].stage = "deleted" =>
            /\ definition'[d] = definition[d]
            /\ SubDefsOf(d)' = SubDefsOf(d)
            /\ {row \in alarmAction' : row.definition = d}
                    = {row \in alarmAction : row.definition = d}]_vars

\* What a request stores it stores whole, and goes on to tell of it: a transaction
\* that fails at any of its statements leaves no row of an update and no definition
\* without its actions.  The row and the actions are those its body asks for, and no
\* other definition's: every id its statements are given was read from rows of its own.
Untouched(d) ==
    /\ definition'[d] = definition[d]
    /\ SubDefsOf(d)' = SubDefsOf(d)
    /\ ActionsOf(d)' = ActionsOf(d)
MethodsIn(rows, s) == {row.method : row \in {x \in rows : x.state = s}}
StoredWhole(r) ==
    LET q == request[r]
        d == q.target
    IN  \/ /\ pc[r] = "insert" /\ definition'[d] = NewRow(q)
           /\ SubDefsOf(d)' = RowsOfNew(d, q.body.expr)
           /\ ActionsOf(d)' = ActionRows(d, q.body.actions)
        \/ /\ pc[r] = "write" /\ definition'[d].expr = q.body.expr
           /\ \A s \in AlarmStates :
                MethodsIn(ActionsOf(d)', s) =
                    IF q.body.actions[s] # None THEN q.body.actions[s]
                    ELSE IF q.op = "put" THEN {}
                    ELSE MethodsIn(ActionsOf(d), s)
        \/ /\ pc[r] = "softDelete" /\ definition'[d].stage = "deleted"
           /\ UNCHANGED <<subDef, alarmAction>>
CommittedAsAWhole ==
    [][<<definition, subDef, alarmAction>>' # <<definition, subDef, alarmAction>> =>
        \E r \in Requests :
            /\ pc'[r] = "tell" /\ StoredWhole(r)
            /\ \A d \in Defs \ {request[r].target} : Untouched(d)]_vars

\* The engine hears of every deletion, unless the server went down or Kafka was
\* unavailable: the request that committed it is the only one who can tell.
DeletionIsHeard ==
    \A r \in Requests :
        (pc[r] = "tell" /\ request[r].op = "delete")
            ~> (Heard("deleted", request[r].target) \/ pc[r] = "crashed" \/ answer[r] = 500)
------------------------------------------------------------------------------
\* The tables, handlers and topic implement the contract with the engine: a
\* handler that stands at "tell" owes an announcement, one that deletes owes
\* that of the alarms until it is done, and the events without their content
\* are what was told.
EventTypes == {"created", "updated", "deleted", "alarm-deleted"}
TypeOf(op) ==
    IF op = "create" THEN "created" ELSE IF op = "delete" THEN "deleted" ELSE "updated"
OwedTypes(r) ==
    {t \in EventTypes :
        \/ pc[r] = "tell" /\ t = TypeOf(request[r].op)
        \/ pc[r] \in {"tell", "tellAlarms"} /\ request[r].op = "delete" /\ t = "alarm-deleted"}
OwedEvents ==
    UNION {{[type |-> t, definition |-> request[r].target, by |-> r] : t \in OwedTypes(r)} :
              r \in Requests}
ToldEvents ==
    [i \in DOMAIN events |-> [type |-> events[i].type,
                              definition |-> events[i].definition,
                              by |-> events[i].by]]
Contract == INSTANCE DefinitionContract WITH
    Definitions <- Defs,
    Senders <- Requests,
    InStore <- Stored,
    stage <- [d \in Defs |-> definition[d].stage],
    owed  <- OwedEvents,
    told  <- ToldEvents
ImplementsContract == Contract!ContractSpec
------------------------------------------------------------------------------
\* What the documentation says and the code does not do.

\* "Only the parameters that are specified will be updated": a PATCH without
\* description, severity and match_by leaves them as they are.
PatchKeepsUnnamedDetails ==
    [][\A r \in Requests :
        /\ pc[r] = "write" /\ pc'[r] = "tell"
        /\ request[r].op = "patch" /\ request[r].body.details = None
        => definition'[request[r].target].details = definition[request[r].target].details]_vars

\* DELETE answers "204 - No content": where no database, queue or server fails,
\* nothing in a request to delete can end in a server error.
DeleteDoesNotFail ==
    \A r \in Requests : request[r].op = "delete" => answer[r] # 500
==============================================================================
