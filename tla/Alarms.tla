-------------------------------- MODULE Alarms --------------------------------
(***************************************************************************)
(* The alarm resource of the Python API server: PUT, PATCH and DELETE of   *)
(* /v2.0/alarms/{id}, over the MySQL repository and the Kafka topics       *)
(* `events` and `alarm-state-transitions`, beside two others who change    *)
(* the same rows: the deletion of an alarm definition, with its alarms     *)
(* (module AlarmDefinitions has the whole of it), and the threshold engine,*)
(* which sets the states of alarms.                                        *)
(*                                                                         *)
(* Handlers are cut as in AlarmDefinitions: one step for each query or     *)
(* transaction and one for each message; two for the transaction that      *)
(* updates an alarm, whose SELECT takes no lock.                           *)
(***************************************************************************)
EXTENDS Naturals, Sequences

CONSTANTS Requests,      \* the requests of a behaviour (bounds its length)
          Alarms,        \* alarms the engine has created
          Bare,          \* those with a metric that has no dimensions
          Definitions,
          DefinitionOf,  \* the definition of each alarm
          Tenants,
          TenantOf,      \* the tenant of each definition
          States,        \* OK, ALARM, UNDETERMINED
          Faults,        \* what may go wrong
          None,          \* no request, no state, no answer
          Invalid        \* a state the handler refuses, or none in the body

Statuses == {200, 204, 400, 404, 500}
Topics == {"events", "alarm-state-transitions"}

ASSUME OwnersAssumption ==
    /\ DefinitionOf \in [Alarms -> Definitions]
    /\ TenantOf \in [Definitions -> Tenants]
ASSUME NoneAssumption ==
    /\ None \notin States /\ None \notin Statuses
    /\ Invalid \notin States \cup {None}
ASSUME FaultsAssumption == Faults \subseteq {"database", "queue", "crash"}

VARIABLES definition,   \* table alarm_definition: "live" or "deleted"
          alarm,        \* table alarm: stage and state by id
          topic,        \* the messages of each topic
          pc,           \* where the handler of each request stands
          request,      \* what each request asks for
          local,        \* what each handler has read
          answer,       \* HTTP status each request was answered with
          engineSet     \* history: alarms whose state the engine has set
vars == <<definition, alarm, topic, pc, request, local, answer, engineSet>>
------------------------------------------------------------------------------
NoRequest == [op |-> "none", tenant |-> None, target |-> None, state |-> None, after |-> {}]
Nothing == [alarms |-> {}, old |-> None]

Init ==
    /\ definition = [d \in Definitions |-> "live"]
    /\ alarm \in [Alarms -> [stage : {"stored"}, state : States]]
    /\ topic = [t \in Topics |-> <<>>]
    /\ pc = [r \in Requests |-> "idle"]
    /\ request = [r \in Requests |-> NoRequest]
    /\ local = [r \in Requests |-> Nothing]
    /\ answer = [r \in Requests |-> None]
    /\ engineSet = {}

Go(r, place) == pc' = [pc EXCEPT ![r] = place] /\ UNCHANGED answer
Reply(r, status) ==
    /\ pc' = [pc EXCEPT ![r] = "done"]
    /\ answer' = [answer EXCEPT ![r] = status]

IsStored(a) == alarm[a].stage = "stored"
AlarmsOf(d) == {a \in Alarms : IsStored(a) /\ DefinitionOf[a] = d}

\* "where ad.tenant_id = %s and a.id = %s": the joins of update_alarm, delete_alarm,
\* get_alarm, get_sub_alarms and get_alarm_definition.  They do not ask whether
\* the definition was deleted: its alarms went with it.
MineOrNot(r) == IsStored(request[r].target)   \* mutant: no tenant in the join
Mine(r) ==
    LET a == request[r].target
    IN  IsStored(a) /\ TenantOf[DefinitionOf[a]] = request[r].tenant
------------------------------------------------------------------------------
\* Requests come in.
Answered == {r \in Requests : pc[r] = "done"}
Accept(r, op, tenant, target, state) ==
    /\ pc[r] = "idle"
    /\ request' = [request EXCEPT ![r] =
            [op |-> op, tenant |-> tenant, target |-> target, state |-> state,
             after |-> Answered]]
    /\ UNCHANGED <<definition, alarm, topic, local>>

\* do_put_alarms, which do_patch_alarms calls.
ReceiveUpdate(r, tenant, a, state) ==
    /\ Accept(r, "update", tenant, a, state)
    /\ IF state = Invalid THEN Reply(r, 400) ELSE Go(r, "readMetrics")

\* do_delete_alarms
ReceiveDelete(r, tenant, a) ==
    Accept(r, "delete", tenant, a, None) /\ Go(r, "readMetrics")

\* do_delete_alarm_definitions
ReceiveDeleteDefinition(r, tenant, d) ==
    Accept(r, "deleteDefinition", tenant, d, None) /\ Go(r, "readAlarms")
------------------------------------------------------------------------------
\* Queries and transactions.

\* get_alarm_metrics(id) asks for no tenant; get_sub_alarms, next, only adds the
\* definition's id and the text of the events.
ReadMetrics(r) ==
    LET a == request[r].target
    IN  /\ pc[r] = "readMetrics"
        /\ local' = [local EXCEPT ![r].alarms = IF IsStored(a) THEN {a} ELSE {}]
        /\ Go(r, IF request[r].op = "update" THEN "select" ELSE "delete")
        /\ UNCHANGED <<definition, alarm, topic, request>>

\* update_alarm: its SELECT, without a lock, ...
SelectState(r) ==
    /\ pc[r] = "select"
    /\ IF Mine(r)
         THEN /\ local' = [local EXCEPT ![r].old = alarm[request[r].target].state]
              /\ Go(r, "update")
         ELSE Reply(r, 404) /\ UNCHANGED local
    /\ UNCHANGED <<definition, alarm, topic, request>>

\* ... and its UPDATE, left out when the state is the one that was read.  Where
\* the alarm has been deleted since, it matches no row, which nobody checks.
StateAsRead(r, old) == old   \* mutant: writes back what it read
NewState(r, old) == request[r].state
UpdateState(r) ==
    LET a == request[r].target
        old == local[r].old
    IN  /\ pc[r] = "update"
        /\ alarm' = IF Mine(r) /\ old # request[r].state
                      THEN [alarm EXCEPT ![a].state = NewState(r, old)] ELSE alarm
        /\ Go(r, "tellUpdated")
        /\ UNCHANGED <<definition, topic, request, local>>

\* delete_alarm: 404 when the DELETE finds no row.
DeleteAnyway(r) ==   \* mutant: rowcount is not looked at
    /\ pc[r] = "delete"
    /\ alarm' = [alarm EXCEPT ![request[r].target].stage = "gone"]
    /\ Go(r, "tellDeleted")
    /\ UNCHANGED <<definition, topic, request, local>>
DeleteUncommitted(r) ==   \* mutant: no commit
    /\ pc[r] = "delete"
    /\ IF Mine(r) THEN Go(r, "tellDeleted") ELSE Reply(r, 404)
    /\ UNCHANGED <<definition, alarm, topic, request, local>>
DeleteAlarm(r) ==
    /\ pc[r] = "delete"
    /\ IF Mine(r)
         THEN /\ alarm' = [alarm EXCEPT ![request[r].target].stage = "gone"]
              /\ Go(r, "tellDeleted")
         ELSE Reply(r, 404) /\ UNCHANGED alarm
    /\ UNCHANGED <<definition, topic, request, local>>

\* _alarm_update asks for the definition again when the state has changed, and
\* sends no transition when the alarm is gone.
ReadDefinitionAgain(r) ==
    /\ pc[r] = "readAgain"
    /\ Go(r, IF Mine(r) THEN "tellTransition" ELSE "show")
    /\ UNCHANGED <<definition, alarm, topic, request, local>>

\* _alarm_show, the answer of PUT and PATCH
ShowAlarm(r) ==
    /\ pc[r] = "show"
    /\ Reply(r, IF Mine(r) THEN 200 ELSE 404)
    /\ UNCHANGED <<definition, alarm, topic, request, local>>

\* _alarm_definition_delete: reads the alarms, ...
ReadAlarms(r) ==
    LET d == request[r].target
    IN  /\ pc[r] = "readAlarms"
        /\ local' = [local EXCEPT ![r].alarms =
                        IF TenantOf[d] = request[r].tenant THEN AlarmsOf(d) ELSE {}]
        /\ Go(r, "softDelete")
        /\ UNCHANGED <<definition, alarm, topic, request>>

\* ... deletes the definition with whatever alarms it has now.
SoftDelete(r) ==
    LET d == request[r].target
    IN  /\ pc[r] = "softDelete"
        /\ IF definition[d] = "live" /\ TenantOf[d] = request[r].tenant
             THEN /\ definition' = [definition EXCEPT ![d] = "deleted"]
                  /\ alarm' = [a \in Alarms |-> IF a \in AlarmsOf(d)
                                  THEN [alarm[a] EXCEPT !.stage = "gone"] ELSE alarm[a]]
                  /\ Go(r, "tellDefinition")
             ELSE Reply(r, 404) /\ UNCHANGED <<definition, alarm>>
        /\ UNCHANGED <<topic, request, local>>

\* Any statement may fail; its transaction is rolled back.
InDatabase == {"readMetrics", "select", "update", "delete", "readAgain", "show",
               "readAlarms", "softDelete"}
FailsSilently(r) ==   \* mutant: the exception gets lost, with no answer
    /\ pc[r] \in InDatabase
    /\ Go(r, "done")
    /\ UNCHANGED <<definition, alarm, topic, request, local>>
DatabaseFails(r) ==
    /\ "database" \in Faults
    /\ pc[r] \in InDatabase
    /\ Reply(r, 500)
    /\ UNCHANGED <<definition, alarm, topic, request, local>>
------------------------------------------------------------------------------
\* Messages.
Message(type, r, about) ==
    [type |-> type, by |-> r, about |-> about, old |-> local[r].old, new |-> request[r].state]

\* send_event, as in AlarmDefinitions.
PublishFirst(r, t, message, Continue) ==   \* mutant: a producer that overtakes
    /\ topic' = [topic EXCEPT ![t] = <<message>> \o @]
    /\ Continue
Publish(r, t, message, Continue) ==
    \/ topic' = [topic EXCEPT ![t] = Append(@, message)] /\ Continue
    \/ /\ "queue" \in Faults
       /\ topic' \in {topic, [topic EXCEPT ![t] = Append(@, message)]}
       /\ Reply(r, 500)

\* _send_alarm_event of one alarm: building the message raises, before it is
\* sent, when a metric has no dimensions (None has no split).
PublishEvent(r, type, a, Continue) ==
    IF a \in Bare THEN Reply(r, 500) /\ UNCHANGED topic
    ELSE Publish(r, "events", Message(type, r, a), Continue)

\* The event alarm-updated; the alarm has metrics, or update_alarm would not
\* have found it after get_alarm_metrics did not.
TellNoChange(r) ==   \* mutant: the branch that sends a transition is left out
    /\ pc[r] = "tellUpdated"
    /\ PublishEvent(r, "alarm-updated", request[r].target, Go(r, "show"))
    /\ UNCHANGED <<definition, alarm, request, local>>
TellUpdated(r) ==
    /\ pc[r] = "tellUpdated"
    /\ PublishEvent(r, "alarm-updated", request[r].target,
                    Go(r, IF local[r].old # request[r].state THEN "readAgain" ELSE "show"))
    /\ UNCHANGED <<definition, alarm, request, local>>

\* _send_alarm_transitioned_event
TellTransition(r) ==
    /\ pc[r] = "tellTransition"
    /\ Publish(r, "alarm-state-transitions",
               Message("alarm-transitioned", r, request[r].target), Go(r, "show"))
    /\ UNCHANGED <<definition, alarm, request, local>>

\* _send_alarm_event of DELETE; 204
TellDeleted(r) ==
    /\ pc[r] = "tellDeleted"
    /\ PublishEvent(r, "alarm-deleted", request[r].target, Reply(r, 204))
    /\ UNCHANGED <<definition, alarm, request, local>>

\* _send_alarm_definition_deleted_event
TellDefinitionDeleted(r) ==
    /\ pc[r] = "tellDefinition"
    /\ Publish(r, "events", Message("alarm-definition-deleted", r, request[r].target),
               Go(r, "tellAlarms"))
    /\ UNCHANGED <<definition, alarm, request, local>>

\* _send_alarm_event of the alarms that were read, which raises on its way to a
\* second one.
TellAlarmsDeleted(r) ==
    /\ pc[r] = "tellAlarms"
    /\ \/ local[r].alarms = {} /\ Reply(r, 204) /\ UNCHANGED topic
       \/ \E a \in Alarms :
            /\ local[r].alarms = {a}
            /\ PublishEvent(r, "alarm-deleted", a, Reply(r, 204))
       \/ /\ \E a, b \in local[r].alarms : a # b
          /\ Reply(r, 500) /\ UNCHANGED topic
    /\ UNCHANGED <<definition, alarm, request, local>>

\* A server goes down.
Crash(r) ==
    /\ "crash" \in Faults
    /\ pc[r] \notin {"idle", "done", "crashed"}
    /\ Go(r, "crashed")
    /\ UNCHANGED <<definition, alarm, topic, request, local>>

\* The threshold engine sets the state of an alarm it has evaluated.
EngineSetsState(a, state) ==
    /\ IsStored(a)
    /\ alarm[a].state # state
    /\ alarm' = [alarm EXCEPT ![a].state = state]
    /\ engineSet' = engineSet \cup {a}
    /\ UNCHANGED <<definition, topic, pc, request, local, answer>>
------------------------------------------------------------------------------
Receive(r) ==
    \E tenant \in Tenants :
        \/ \E a \in Alarms, state \in States \cup {Invalid} : ReceiveUpdate(r, tenant, a, state)
        \/ \E a \in Alarms : ReceiveDelete(r, tenant, a)
        \/ \E d \in Definitions : ReceiveDeleteDefinition(r, tenant, d)

Handle(r) ==
    \/ ReadMetrics(r)
    \/ SelectState(r)
    \/ UpdateState(r)
    \/ DeleteAlarm(r)
    \/ ReadDefinitionAgain(r)
    \/ ShowAlarm(r)
    \/ ReadAlarms(r)
    \/ SoftDelete(r)
    \/ DatabaseFails(r)
    \/ TellUpdated(r)
    \/ TellTransition(r)
    \/ TellDeleted(r)
    \/ TellDefinitionDeleted(r)
    \/ TellAlarmsDeleted(r)

Next ==
    \/ \E r \in Requests : (Receive(r) \/ Handle(r) \/ Crash(r)) /\ UNCHANGED engineSet
    \/ \E a \in Alarms, state \in States : EngineSetsState(a, state)

Spec == Init /\ [][Next]_vars
------------------------------------------------------------------------------
Places == InDatabase \cup {"idle", "tellUpdated", "tellTransition", "tellDeleted",
                           "tellDefinition", "tellAlarms", "done", "crashed"}
Events == topic["events"]
Transitions == topic["alarm-state-transitions"]
Updates(r, a) == request[r].op = "update" /\ request[r].target = a
\* s came in when r had been answered, or the other way round.
Apart(r, s) == r \in request[s].after \/ s \in request[r].after

\* Handlers stand at their places, and exactly those that are done have an answer.
TypeOK ==
    /\ definition \in [Definitions -> {"live", "deleted"}]
    /\ alarm \in [Alarms -> [stage : {"stored", "gone"}, state : States]]
    /\ DOMAIN topic = Topics
    /\ pc \in [Requests -> Places]
    /\ answer \in [Requests -> Statuses \cup {None}]
    /\ \A r \in Requests : local[r].alarms \subseteq Alarms /\ local[r].old \in States \cup {None}
    /\ \A r \in Requests : pc[r] = "done" <=> answer[r] # None

\* Of the requests that delete an alarm one announces it.  Only a deletion of its
\* definition may announce it again, and only if it was under way at the time
\* and had read the alarm before.
AlarmDeletionAnnouncedOnce ==
    \A i, j \in DOMAIN Events :
        LET e == Events[i]
            f == Events[j]
        IN  /\ i # j /\ e.type = "alarm-deleted" /\ f.type = "alarm-deleted"
            /\ e.about = f.about
            => request[e.by].op # request[f.by].op /\ ~ Apart(e.by, f.by)

\* Once a request to delete an alarm or its definition was answered, no request
\* that comes in later announces anything of the alarm.
GoneIsQuiet ==
    \A t \in Topics : \A i \in DOMAIN topic[t] : \A s \in request[topic[t][i].by].after :
        LET e == topic[t][i]
        IN  ~ (answer[s] = 204 /\ e.type # "alarm-definition-deleted"
               /\ \/ request[s].op = "delete" /\ request[s].target = e.about
                  \/ /\ request[s].op = "deleteDefinition"
                     /\ request[s].target = DefinitionOf[e.about])

\* Whatever is announced of an alarm was asked for by its own tenant, though the
\* first query of the handlers finds the alarms of all tenants.
OwnAlarmsOnly ==
    \A t \in Topics : \A i \in DOMAIN topic[t] :
        LET e == topic[t][i]
            d == IF e.type = "alarm-definition-deleted" THEN e.about ELSE DefinitionOf[e.about]
        IN  TenantOf[d] = request[e.by].tenant

\* Who is told that a request succeeded can rely on the topics: a new state
\* was announced and, if it was another one, a transition with it; a
\* deletion was announced.  An alarm that goes in between costs the transition,
\* but then the answer is not 200.
SuccessIsAnnounced ==
    \A r \in Requests :
        /\ answer[r] = 200 => \E i \in DOMAIN Events :
                /\ Events[i].type = "alarm-updated" /\ Events[i].by = r
                /\ Events[i].old # Events[i].new =>
                        \E j \in DOMAIN Transitions : Transitions[j].by = r
        /\ answer[r] = 204 /\ request[r].op = "delete" =>
                \E i \in DOMAIN Events : Events[i].type = "alarm-deleted" /\ Events[i].by = r

\* If one request was answered before another came in, their messages on a topic
\* are in that order.
InRealTimeOrder ==
    \A t \in Topics : \A i, j \in DOMAIN topic[t] :
        topic[t][i].by \in request[topic[t][j].by].after => i < j

\* Where the engine has not set the state of an alarm, and the requests that
\* update it come one after the other and succeed, who follows the transitions
\* knows its state: each one starts where the one before has ended.
OneAfterTheOther(a) ==
    \A r, s \in Requests : Updates(r, a) /\ Updates(s, a) /\ r # s =>
        Apart(r, s) /\ (r \in request[s].after => answer[r] = 200)
TransitionsChain ==
    \A a \in Alarms \ engineSet : OneAfterTheOther(a) =>
        \A i, j \in DOMAIN Transitions :
            /\ i < j /\ Transitions[i].about = a /\ Transitions[j].about = a
            /\ \A k \in (i + 1)..(j - 1) : Transitions[k].about # a
            => Transitions[j].old = Transitions[i].new
==============================================================================
