------------------------------ MODULE AlarmsProofs ------------------------------
(***************************************************************************)
(* Theorems about module Alarms, for every number of requests, alarms,     *)
(* definitions, tenants and states, with any faults: its types, whose      *)
(* alarms the messages are about, that they come in the order of the       *)
(* requests, that a request that succeeded has been announced; then, on    *)
(* these invariants, who announces that an alarm is deleted, that nothing  *)
(* is announced of it afterwards, and that its transitions form a chain.   *)
(***************************************************************************)
EXTENDS Alarms, TLAPS

------------------------------------------------------------------------------
(* What the tables, requests, handlers and topics look like: TypeOK made   *)
(* inductive.                                                              *)

TablesOK ==
    /\ definition \in [Definitions -> {"live", "deleted"}]
    /\ alarm \in [Alarms -> [stage : {"stored", "gone"}, state : States]]

ControlOK ==
    /\ pc \in [Requests -> Places]
    /\ answer \in [Requests -> Statuses \cup {None}]
    /\ \A r \in Requests : pc[r] = "done" <=> answer[r] # None

RequestOK ==
    request \in [Requests -> [op     : {"none", "update", "delete", "deleteDefinition"},
                              tenant : Tenants \cup {None},
                              target : Alarms \cup Definitions \cup {None},
                              state  : States \cup {None, Invalid},
                              after  : SUBSET Requests]]
LocalOK == local \in [Requests -> [alarms : SUBSET Alarms, old : States \cup {None}]]

\* Messages are about an alarm, but for those of deleted definitions.
Messages ==
    [type  : {"alarm-updated", "alarm-transitioned", "alarm-deleted"}, by : Requests,
     about : Alarms, old : States \cup {None}, new : States \cup {None}]
    \cup [type  : {"alarm-definition-deleted"}, by : Requests,
          about : Definitions, old : States \cup {None}, new : States \cup {None}]
TopicOK == topic \in [Topics -> Seq(Messages)]

\* A handler stands only at places of its operation, has a target of the kind
\* it asks for, and has read nothing before its request came in.
Updating == {"select", "update", "tellUpdated", "readAgain", "tellTransition", "show"}
WhereOK(r) ==
    LET q == request[r]
    IN  /\ pc[r] = "idle" => local[r] = Nothing /\ q = NoRequest
        /\ pc[r] # "idle" => q.tenant \in Tenants /\ q.op # "none"
        /\ q.op \in {"update", "delete"} => q.target \in Alarms
        /\ q.op = "deleteDefinition" => q.target \in Definitions
        /\ pc[r] \in Updating => q.op = "update"
        /\ pc[r] \in {"delete", "tellDeleted"} => q.op = "delete"
        /\ pc[r] = "readMetrics" => q.op \in {"update", "delete"}
        /\ pc[r] \in {"readAlarms", "softDelete", "tellDefinition", "tellAlarms"} =>
                q.op = "deleteDefinition"
        /\ pc[r] \notin {"idle", "done", "crashed"} =>
                q.state \in IF q.op = "update" THEN States ELSE {None}

TypeInv == TablesOK /\ TopicOK /\ ControlOK /\ RequestOK /\ LocalOK
               /\ \A r \in Requests : WhereOK(r)

USE OwnersAssumption, NoneAssumption

LEMMA InitTyped == Init => TypeInv
<1> SUFFICES ASSUME Init PROVE TypeInv
  OBVIOUS
<1>1. TablesOK /\ TopicOK /\ RequestOK /\ LocalOK
  BY DEF Init, TablesOK, TopicOK, RequestOK, LocalOK, NoRequest, Nothing
<1>2. ControlOK /\ \A r \in Requests : WhereOK(r)
  BY DEF Init, ControlOK, WhereOK, NoRequest, Updating, Places
<1> QED
  BY <1>1, <1>2 DEF TypeInv

\* A handler goes on at another place, or ends with an answer.
LEMMA GoControl ==
    ASSUME ControlOK, NEW r \in Requests, pc[r] # "done",
           NEW place \in Places \ {"done"}, Go(r, place)
    PROVE  ControlOK'
  BY DEF ControlOK, Go

LEMMA ReplyControl ==
    ASSUME ControlOK, NEW r \in Requests, NEW status \in Statuses, Reply(r, status)
    PROVE  ControlOK'
<1>1. status # None /\ "done" \in Places
  BY DEF Places
<1> QED
  BY <1>1 DEF ControlOK, Reply

LEMMA ReceiveTyped ==
    ASSUME TypeInv, NEW r \in Requests, Receive(r)
    PROVE  TypeInv'
<1> USE DEF TypeInv
<1>1. PICK op \in {"update", "delete", "deleteDefinition"}, tenant \in Tenants,
           target \in Alarms \cup Definitions, state \in States \cup {Invalid, None} :
        /\ Accept(r, op, tenant, target, state)
        /\ op \in {"update", "delete"} => target \in Alarms
        /\ op = "deleteDefinition" => target \in Definitions
        /\ \/ Reply(r, 400)
           \/ op = "update" /\ Go(r, "readMetrics") /\ state \in States
           \/ op = "delete" /\ Go(r, "readMetrics") /\ state = None
           \/ op = "deleteDefinition" /\ Go(r, "readAlarms") /\ state = None
  BY DEF Receive, ReceiveUpdate, ReceiveDelete, ReceiveDeleteDefinition
<1>2. TablesOK' /\ TopicOK' /\ LocalOK'
  BY <1>1 DEF Accept, TablesOK, TopicOK, LocalOK
<1>3. ControlOK'
  BY <1>1, GoControl, ReplyControl DEF Accept, Places, InDatabase, Statuses
<1>4. RequestOK'
  BY <1>1 DEF Accept, RequestOK, Answered
<1>5. ASSUME NEW s \in Requests PROVE WhereOK(s)'
  <2>1. CASE s # r
    BY <1>1, <2>1 DEF Accept, WhereOK, RequestOK, ControlOK, Go, Reply
  <2>2. CASE s = r
    BY <1>1, <2>2 DEF Accept, WhereOK, RequestOK, ControlOK, Go, Reply, Updating
  <2> QED
    BY <2>1, <2>2
<1> QED
  BY <1>2, <1>3, <1>4, <1>5

\* The steps that change no table and send no message.
LEMMA ReadTyped ==
    ASSUME TypeInv, NEW r \in Requests,
           \/ ReadMetrics(r) \/ SelectState(r) \/ ReadDefinitionAgain(r) \/ ShowAlarm(r)
           \/ ReadAlarms(r) \/ DatabaseFails(r) \/ Crash(r)
    PROVE  TypeInv'
<1> USE DEF TypeInv
<1>1. UNCHANGED <<definition, alarm, topic, request>>
  BY DEF ReadMetrics, SelectState, ReadDefinitionAgain, ShowAlarm, ReadAlarms, DatabaseFails,
         Crash
<1>2. TablesOK' /\ TopicOK' /\ RequestOK'
  BY <1>1 DEF TablesOK, TopicOK, RequestOK
<1>3. LocalOK'
  BY DEF ReadMetrics, SelectState, ReadDefinitionAgain, ShowAlarm, ReadAlarms, DatabaseFails,
         Crash, LocalOK, WhereOK, Updating, TablesOK, AlarmsOf, Mine, IsStored
<1>4. pc[r] # "done" /\ \/ \E place \in Places \ {"done"} : Go(r, place)
                        \/ \E status \in Statuses : Reply(r, status)
  BY DEF ReadMetrics, SelectState, ReadDefinitionAgain, ShowAlarm, ReadAlarms, DatabaseFails,
         Crash, Places, InDatabase, Statuses
<1>5. ControlOK'
  BY <1>4, GoControl, ReplyControl
<1>6. WhereOK(r)'
  BY <1>1 DEF ReadMetrics, SelectState, ReadDefinitionAgain, ShowAlarm, ReadAlarms,
         DatabaseFails, Crash, WhereOK, ControlOK, Go, Reply, Updating, InDatabase
<1>7. ASSUME NEW s \in Requests \ {r} PROVE WhereOK(s)'
  <2>1. local'[s] = local[s] /\ pc'[s] = pc[s]
    BY <1>4 DEF ReadMetrics, SelectState, ReadDefinitionAgain, ShowAlarm, ReadAlarms,
         DatabaseFails, Crash, LocalOK, ControlOK, Go, Reply
  <2> QED
    BY <1>1, <2>1 DEF WhereOK
<1> QED
  BY <1>2, <1>3, <1>5, <1>6, <1>7

\* The steps that change a table.
LEMMA WriteTyped ==
    ASSUME TypeInv, NEW r \in Requests, UpdateState(r) \/ DeleteAlarm(r) \/ SoftDelete(r)
    PROVE  TypeInv'
<1> USE DEF TypeInv
<1>1. UNCHANGED <<topic, request, local>> /\ pc[r] \in {"update", "delete", "softDelete"}
  BY DEF UpdateState, DeleteAlarm, SoftDelete
<1>2. TopicOK' /\ RequestOK' /\ LocalOK'
  BY <1>1 DEF TopicOK, RequestOK, LocalOK
<1>3. TablesOK'
  <2>1. CASE UpdateState(r)
    <3>1. CASE ~(Mine(r) /\ local[r].old # request[r].state)
      BY <2>1, <3>1 DEF UpdateState, TablesOK
    <3>2. CASE Mine(r) /\ local[r].old # request[r].state
      <4>1. request[r].target \in Alarms /\ request[r].state \in States
        BY <2>1 DEF UpdateState, WhereOK, Updating
      <4> QED
        BY <2>1, <3>2, <4>1 DEF UpdateState, TablesOK, NewState
    <3> QED
      BY <3>1, <3>2
  <2>2. CASE DeleteAlarm(r)
    BY <2>2 DEF DeleteAlarm, TablesOK
  <2>3. CASE SoftDelete(r)
    BY <2>3 DEF SoftDelete, TablesOK
  <2> QED
    BY <2>1, <2>2, <2>3
<1>4. \/ \E place \in Places \ {"done"} : Go(r, place)
      \/ \E status \in Statuses : Reply(r, status)
  BY DEF UpdateState, DeleteAlarm, SoftDelete, Places, InDatabase, Statuses
<1>5. ControlOK'
  BY <1>1, <1>4, GoControl, ReplyControl
<1>6. WhereOK(r)'
  BY <1>1 DEF UpdateState, DeleteAlarm, SoftDelete, WhereOK, ControlOK, Go, Reply, Updating
<1>7. ASSUME NEW s \in Requests \ {r} PROVE WhereOK(s)'
  BY <1>1, <1>4 DEF WhereOK, ControlOK, Go, Reply
<1> QED
  BY <1>2, <1>3, <1>5, <1>6, <1>7


------------------------------------------------------------------------------
(* Messages: what a handler that tells something puts on which topic. *)

\* The places a message is sent from, and what it is about.
Occasion(r, t, type, about) ==
    \/ /\ pc[r] = "tellUpdated" /\ t = "events" /\ type = "alarm-updated"
       /\ about = request[r].target
       /\ \/ pc'[r] = "readAgain" /\ local[r].old # request[r].state
          \/ pc'[r] = "show" /\ local[r].old = request[r].state
          \/ pc'[r] = "done" /\ answer'[r] = 500
    \/ /\ pc[r] = "tellTransition" /\ t = "alarm-state-transitions"
       /\ type = "alarm-transitioned" /\ about = request[r].target
       /\ pc'[r] = "show" \/ (pc'[r] = "done" /\ answer'[r] = 500)
    \/ /\ pc[r] = "tellDeleted" /\ t = "events" /\ type = "alarm-deleted"
       /\ about = request[r].target
       /\ pc'[r] = "done" /\ answer'[r] \in {204, 500}
    \/ /\ pc[r] = "tellDefinition" /\ t = "events" /\ type = "alarm-definition-deleted"
       /\ about = request[r].target
       /\ pc'[r] = "tellAlarms" \/ (pc'[r] = "done" /\ answer'[r] = 500)
    \/ /\ pc[r] = "tellAlarms" /\ t = "events" /\ type = "alarm-deleted"
       /\ about \in local[r].alarms
       /\ pc'[r] = "done" /\ answer'[r] \in {204, 500}

Tells(r) == \/ TellUpdated(r) \/ TellTransition(r) \/ TellDeleted(r)
            \/ TellDefinitionDeleted(r) \/ TellAlarmsDeleted(r)

\* Without a message, a handler that tells has failed, or has no alarm to tell of.
Silent(r) ==
    /\ UNCHANGED topic
    /\ Reply(r, 500) \/ (pc[r] = "tellAlarms" /\ local[r].alarms = {} /\ Reply(r, 204))

Speaks(r, t, type, about) ==
    /\ topic' = [topic EXCEPT ![t] = Append(@, Message(type, r, about))]
    /\ Occasion(r, t, type, about)
    /\ \/ \E place \in {"readAgain", "show", "tellAlarms"} : Go(r, place)
       \/ \E status \in {204, 500} : Reply(r, status)

LEMMA PublishSpeaks ==
    ASSUME TypeInv, NEW r \in Requests, NEW t \in Topics, NEW m,
           NEW place \in {"readAgain", "show", "tellAlarms"}, Publish(r, t, m, Go(r, place))
    PROVE  \/ UNCHANGED topic /\ Reply(r, 500)
           \/ /\ topic' = [topic EXCEPT ![t] = Append(@, m)]
              /\ \/ Go(r, place) /\ pc'[r] = place
                 \/ Reply(r, 500) /\ pc'[r] = "done" /\ answer'[r] = 500
  BY DEF Publish, Go, Reply, TypeInv, ControlOK

LEMMA PublishAnswers ==
    ASSUME TypeInv, NEW r \in Requests, NEW t \in Topics, NEW m,
           Publish(r, t, m, Reply(r, 204))
    PROVE  \/ UNCHANGED topic /\ Reply(r, 500)
           \/ /\ topic' = [topic EXCEPT ![t] = Append(@, m)]
              /\ pc'[r] = "done" /\ answer'[r] \in {204, 500}
              /\ \E status \in {204, 500} : Reply(r, status)
  BY DEF Publish, Reply, TypeInv, ControlOK

LEMMA TellsSpeaks ==
    ASSUME TypeInv, NEW r \in Requests, Tells(r)
    PROVE  /\ UNCHANGED <<definition, alarm, request, local>>
           /\ Silent(r) \/ \E t \in Topics : \E type, about : Speaks(r, t, type, about)
<1> "events" \in Topics /\ "alarm-state-transitions" \in Topics
  BY DEF Topics
<1>1. UNCHANGED <<definition, alarm, request, local>>
  BY DEF Tells, TellUpdated, TellTransition, TellDeleted, TellDefinitionDeleted,
         TellAlarmsDeleted
<1>2. CASE TellUpdated(r)
  <2> DEFINE a == request[r].target
             next == IF local[r].old # request[r].state THEN "readAgain" ELSE "show"
             m == Message("alarm-updated", r, a)
  <2>1. pc[r] = "tellUpdated" /\ \/ Reply(r, 500) /\ UNCHANGED topic
                                 \/ Publish(r, "events", m, Go(r, next))
    BY <1>2 DEF TellUpdated, PublishEvent
  <2>2. next \in {"readAgain", "show"}
    OBVIOUS
  <2>3. \/ UNCHANGED topic /\ Reply(r, 500)
        \/ /\ topic' = [topic EXCEPT !["events"] = Append(@, m)]
           /\ \/ Go(r, next) /\ pc'[r] = next
              \/ Reply(r, 500) /\ pc'[r] = "done" /\ answer'[r] = 500
    BY <2>1, <2>2, PublishSpeaks
  <2>4. Silent(r) \/ Speaks(r, "events", "alarm-updated", a)
    BY <2>1, <2>2, <2>3 DEF Silent, Speaks, Occasion
  <2> QED
    BY <1>1, <2>4
<1>3. CASE TellTransition(r)
  <2> DEFINE m == Message("alarm-transitioned", r, request[r].target)
  <2>1. \/ UNCHANGED topic /\ Reply(r, 500)
        \/ /\ topic' = [topic EXCEPT !["alarm-state-transitions"] = Append(@, m)]
           /\ \/ Go(r, "show") /\ pc'[r] = "show"
              \/ Reply(r, 500) /\ pc'[r] = "done" /\ answer'[r] = 500
    BY <1>3, PublishSpeaks DEF TellTransition
  <2>2. Silent(r) \/ Speaks(r, "alarm-state-transitions", "alarm-transitioned", request[r].target)
    BY <1>3, <2>1 DEF Silent, Speaks, Occasion, TellTransition
  <2> QED
    BY <1>1, <2>2
<1>4. CASE TellDeleted(r)
  <2> DEFINE m == Message("alarm-deleted", r, request[r].target)
  <2>1. \/ UNCHANGED topic /\ Reply(r, 500)
        \/ /\ topic' = [topic EXCEPT !["events"] = Append(@, m)]
           /\ pc'[r] = "done" /\ answer'[r] \in {204, 500}
           /\ \E status \in {204, 500} : Reply(r, status)
    BY <1>4, PublishAnswers DEF TellDeleted, PublishEvent
  <2>2. Silent(r) \/ Speaks(r, "events", "alarm-deleted", request[r].target)
    BY <1>4, <2>1 DEF Silent, Speaks, Occasion, TellDeleted
  <2> QED
    BY <1>1, <2>2
<1>5. CASE TellDefinitionDeleted(r)
  <2> DEFINE m == Message("alarm-definition-deleted", r, request[r].target)
  <2>1. \/ UNCHANGED topic /\ Reply(r, 500)
        \/ /\ topic' = [topic EXCEPT !["events"] = Append(@, m)]
           /\ \/ Go(r, "tellAlarms") /\ pc'[r] = "tellAlarms"
              \/ Reply(r, 500) /\ pc'[r] = "done" /\ answer'[r] = 500
    BY <1>5, PublishSpeaks DEF TellDefinitionDeleted
  <2>2. Silent(r) \/ Speaks(r, "events", "alarm-definition-deleted", request[r].target)
    BY <1>5, <2>1 DEF Silent, Speaks, Occasion, TellDefinitionDeleted
  <2> QED
    BY <1>1, <2>2
<1>6. CASE TellAlarmsDeleted(r)
  <2>1. CASE \E a \in Alarms : /\ local[r].alarms = {a}
                               /\ PublishEvent(r, "alarm-deleted", a, Reply(r, 204))
    <3>1. PICK a \in Alarms : /\ local[r].alarms = {a}
                              /\ PublishEvent(r, "alarm-deleted", a, Reply(r, 204))
      BY <2>1
    <3> DEFINE m == Message("alarm-deleted", r, a)
    <3>2. \/ UNCHANGED topic /\ Reply(r, 500)
          \/ /\ topic' = [topic EXCEPT !["events"] = Append(@, m)]
             /\ pc'[r] = "done" /\ answer'[r] \in {204, 500}
             /\ \E status \in {204, 500} : Reply(r, status)
      BY <3>1, PublishAnswers DEF PublishEvent
    <3>3. Silent(r) \/ Speaks(r, "events", "alarm-deleted", a)
      BY <1>6, <3>1, <3>2 DEF Silent, Speaks, Occasion, TellAlarmsDeleted
    <3> QED
      BY <1>1, <3>3
  <2>2. CASE ~ \E a \in Alarms : /\ local[r].alarms = {a}
                                 /\ PublishEvent(r, "alarm-deleted", a, Reply(r, 204))
    BY <1>1, <1>6, <2>2 DEF TellAlarmsDeleted, Silent
  <2> QED
    BY <2>1, <2>2
<1> QED
  BY <1>2, <1>3, <1>4, <1>5, <1>6 DEF Tells

\* What is put on a topic is a message.
LEMMA SaysAMessage ==
    ASSUME TypeInv, NEW r \in Requests, NEW t, NEW type, NEW about,
           Occasion(r, t, type, about)
    PROVE  Message(type, r, about) \in Messages
<1> USE DEF TypeInv
<1>1. local[r].old \in States \cup {None} /\ request[r].state \in States \cup {None}
      /\ local[r].alarms \subseteq Alarms
  BY DEF Occasion, WhereOK, LocalOK
<1>2. \/ type \in {"alarm-updated", "alarm-transitioned", "alarm-deleted"} /\ about \in Alarms
      \/ type = "alarm-definition-deleted" /\ about \in Definitions
  BY <1>1 DEF Occasion, WhereOK, Updating
<1> QED
  BY <1>1, <1>2 DEF Message, Messages

LEMMA TellTyped ==
    ASSUME TypeInv, NEW r \in Requests, Tells(r)
    PROVE  TypeInv'
<1> USE DEF TypeInv
<1>1. UNCHANGED <<definition, alarm, request, local>>
  BY TellsSpeaks
<1>2. TablesOK' /\ RequestOK' /\ LocalOK'
  BY <1>1 DEF TablesOK, RequestOK, LocalOK
<1>3. TopicOK'
  <2>1. CASE UNCHANGED topic
    BY <2>1 DEF TopicOK
  <2>2. CASE \E t \in Topics : \E type, about : Speaks(r, t, type, about)
    <3>1. PICK t \in Topics : \E type, about : Speaks(r, t, type, about)
      BY <2>2
    <3>2. PICK type, about : Speaks(r, t, type, about)
      BY <3>1
    <3> DEFINE m == Message(type, r, about)
    <3>3. m \in Messages
      BY <3>2, SaysAMessage DEF Speaks
    <3> HIDE DEF m
    <3>4. topic' = [topic EXCEPT ![t] = Append(topic[t], m)]
      BY <3>2 DEF Speaks, m
    <3>5. Append(topic[t], m) \in Seq(Messages)
      BY <3>3 DEF TopicOK
    <3> QED
      BY <3>4, <3>5 DEF TopicOK
  <2> QED
    BY <2>1, <2>2, TellsSpeaks DEF Silent
<1>4. \/ \E place \in {"readAgain", "show", "tellAlarms"} : Go(r, place)
      \/ \E status \in {204, 500} : Reply(r, status)
  BY TellsSpeaks DEF Speaks, Silent
<1>5. pc[r] \in {"tellUpdated", "tellTransition", "tellDeleted", "tellDefinition", "tellAlarms"}
  BY DEF Tells, TellUpdated, TellTransition, TellDeleted, TellDefinitionDeleted,
         TellAlarmsDeleted
<1>6. ControlOK'
  BY <1>4, <1>5, GoControl, ReplyControl DEF Places, InDatabase, Statuses
<1>7. WhereOK(r)'
  <2>1. \/ pc'[r] = "done"
        \/ pc'[r] \in {"readAgain", "show"} /\ pc[r] \in {"tellUpdated", "tellTransition"}
        \/ pc'[r] = "tellAlarms" /\ pc[r] = "tellDefinition"
    BY TellsSpeaks DEF Silent, Speaks, Occasion, Reply, ControlOK
  <2> QED
    BY <1>1, <1>5, <2>1 DEF WhereOK, Updating
<1>8. ASSUME NEW s \in Requests \ {r} PROVE WhereOK(s)'
  BY <1>1, <1>4 DEF WhereOK, ControlOK, Go, Reply
<1> QED
  BY <1>2, <1>3, <1>6, <1>7, <1>8


\* The engine changes the state of an alarm, and nothing else.
LEMMA EngineTyped ==
    ASSUME TypeInv, \E a \in Alarms, state \in States : EngineSetsState(a, state)
    PROVE  TypeInv'
<1> USE DEF TypeInv
<1>1. PICK a \in Alarms, state \in States : EngineSetsState(a, state)
  OBVIOUS
<1>2. TablesOK'
  BY <1>1 DEF EngineSetsState, TablesOK
<1>3. TopicOK' /\ ControlOK' /\ RequestOK' /\ LocalOK' /\ \A r \in Requests : WhereOK(r)'
  BY <1>1 DEF EngineSetsState, TopicOK, ControlOK, RequestOK, LocalOK, WhereOK
<1> QED
  BY <1>2, <1>3

LEMMA StepTyped == TypeInv /\ [Next]_vars => TypeInv'
<1> SUFFICES ASSUME TypeInv, [Next]_vars
             PROVE  TypeInv'
  OBVIOUS
<1>1. CASE \E r \in Requests : Receive(r)
  BY <1>1, ReceiveTyped
<1>2. CASE \E r \in Requests : Handle(r)
  BY <1>2, ReadTyped, WriteTyped, TellTyped DEF Handle, Tells
<1>3. CASE \E r \in Requests : Crash(r)
  BY <1>3, ReadTyped
<1>4. CASE \E a \in Alarms, state \in States : EngineSetsState(a, state)
  BY <1>4, EngineTyped
<1>5. CASE UNCHANGED vars
  BY <1>5 DEF vars, TypeInv, TablesOK, TopicOK, ControlOK, RequestOK, LocalOK, WhereOK
<1> QED
  BY <1>1, <1>2, <1>3, <1>4, <1>5 DEF Next

LEMMA Typed == Spec => []TypeInv
  BY InitTyped, StepTyped, PTL DEF Spec

\* Handlers stand at their places with the answers and readings TypeOK describes,
\* in every behaviour.
THEOREM AlarmTypes == Spec => []TypeOK
<1>1. TypeInv => TypeOK
  BY DEF TypeInv, TypeOK, TablesOK, ControlOK, LocalOK, TopicOK
<1> QED
  BY <1>1, Typed, PTL


------------------------------------------------------------------------------
(* What one step may do, and what it cannot take back. *)

\* A step of the handler of r leaves the other requests alone.
OnlyOne(r) ==
    \A s \in Requests \ {r} : /\ pc'[s] = pc[s] /\ answer'[s] = answer[s]
                              /\ local'[s] = local[s] /\ request'[s] = request[s]

Acts(r) == Receive(r) \/ Handle(r) \/ Crash(r)

Gone(a) == alarm[a].stage = "gone"

\* A request that has come in does not change, one that has ended stays as it is,
\* and who has committed or read the state keeps what was read.
HandlersGoOn ==
    \A r \in Requests :
        /\ pc[r] # "idle" => pc'[r] # "idle" /\ request'[r] = request[r]
        /\ pc[r] \in {"done", "crashed"} => pc'[r] = pc[r] /\ answer'[r] = answer[r]
        /\ pc[r] \notin {"idle", "readMetrics", "select", "readAlarms"} => local'[r] = local[r]

\* Deleted rows stay deleted.
RowsGoOn ==
    /\ \A d \in Definitions : definition[d] = "deleted" => definition'[d] = "deleted"
    /\ \A a \in Alarms : Gone(a) => Gone(a)'

LEMMA HandlerTypes ==
    ASSUME TypeInv
    PROVE  /\ DOMAIN pc = Requests /\ DOMAIN answer = Requests
           /\ DOMAIN local = Requests /\ DOMAIN request = Requests
           /\ \A r \in Requests : local[r].alarms \subseteq Alarms
  BY DEF TypeInv, ControlOK, RequestOK, LocalOK

LEMMA HandlerMoves ==
    ASSUME TypeInv, NEW r \in Requests, Acts(r)
    PROVE  /\ OnlyOne(r)
           /\ pc[r] \notin {"done", "crashed"} /\ pc'[r] # "idle"
           /\ pc[r] = "idle" => /\ Receive(r) /\ pc'[r] \in {"readMetrics", "readAlarms", "done"}
                                /\ UNCHANGED <<definition, alarm, topic, local>>
           /\ pc[r] # "idle" => UNCHANGED request
           /\ pc[r] \notin {"readMetrics", "select", "readAlarms"} => UNCHANGED local
<1> USE HandlerTypes
<1>1. CASE Receive(r)
  <2>1. PICK op, tenant, target, state :
            /\ Accept(r, op, tenant, target, state)
            /\ Reply(r, 400) \/ Go(r, "readMetrics") \/ Go(r, "readAlarms")
    BY <1>1 DEF Receive, ReceiveUpdate, ReceiveDelete, ReceiveDeleteDefinition
  <2> QED
    BY <1>1, <2>1 DEF Accept, Reply, Go, OnlyOne
<1>2. CASE \/ ReadMetrics(r) \/ SelectState(r) \/ UpdateState(r) \/ DeleteAlarm(r)
           \/ ReadDefinitionAgain(r) \/ ShowAlarm(r) \/ ReadAlarms(r) \/ SoftDelete(r)
           \/ DatabaseFails(r) \/ Crash(r)
  <2>1. UNCHANGED request /\ pc[r] \notin {"idle", "done", "crashed"}
    BY <1>2 DEF ReadMetrics, SelectState, UpdateState, DeleteAlarm, ReadDefinitionAgain,
                ShowAlarm, ReadAlarms, SoftDelete, DatabaseFails, Crash, InDatabase
  <2>2. \/ \E place \in Places \ {"idle"} : Go(r, place)
        \/ \E status \in Statuses : Reply(r, status)
    BY <1>2 DEF ReadMetrics, SelectState, UpdateState, DeleteAlarm, ReadDefinitionAgain,
                ShowAlarm, ReadAlarms, SoftDelete, DatabaseFails, Crash, InDatabase, Places,
                Statuses
  <2>3. /\ \A s \in Requests \ {r} : local'[s] = local[s]
        /\ pc[r] \notin {"readMetrics", "select", "readAlarms"} => UNCHANGED local
    BY <1>2 DEF ReadMetrics, SelectState, UpdateState, DeleteAlarm, ReadDefinitionAgain,
                ShowAlarm, ReadAlarms, SoftDelete, DatabaseFails, Crash
  <2> QED
    BY <2>1, <2>2, <2>3 DEF Go, Reply, OnlyOne
<1>3. CASE Tells(r)
  <2>1. UNCHANGED <<request, local>>
    BY <1>3, TellsSpeaks
  <2>2. \/ \E place \in {"readAgain", "show", "tellAlarms"} : Go(r, place)
        \/ \E status \in {204, 500} : Reply(r, status)
    BY <1>3, TellsSpeaks DEF Speaks, Silent
  <2>3. pc[r] \in {"tellUpdated", "tellTransition", "tellDeleted", "tellDefinition", "tellAlarms"}
    BY <1>3 DEF Tells, TellUpdated, TellTransition, TellDeleted, TellDefinitionDeleted,
                TellAlarmsDeleted
  <2> QED
    BY <2>1, <2>2, <2>3 DEF Go, Reply, OnlyOne
<1> QED
  BY <1>1, <1>2, <1>3 DEF Acts, Handle, Tells

\* A step is a handler's, or the engine sets a state, or nothing happens.
LEMMA WhoActs ==
    ASSUME TypeInv, [Next]_vars
    PROVE  \/ (\E r \in Requests : Acts(r)) /\ UNCHANGED engineSet
           \/ /\ UNCHANGED <<definition, topic, pc, request, local, answer>>
              /\ \A a \in Alarms : alarm'[a].stage = alarm[a].stage
              /\ \/ \E a \in Alarms, state \in States : EngineSetsState(a, state)
                 \/ UNCHANGED <<alarm, engineSet>>
<1>1. CASE \E a \in Alarms, state \in States : EngineSetsState(a, state)
  <2>1. PICK a \in Alarms, state \in States : EngineSetsState(a, state)
    BY <1>1
  <2>2. \A b \in Alarms : alarm'[b].stage = alarm[b].stage
    BY <2>1 DEF EngineSetsState, TypeInv, TablesOK
  <2> QED
    BY <1>1, <2>1, <2>2 DEF EngineSetsState
<1>2. CASE UNCHANGED vars
  BY <1>2 DEF vars
<1> QED
  BY <1>1, <1>2 DEF Next, Acts

LEMMA StepGoesOn ==
    ASSUME TypeInv, [Next]_vars
    PROVE  HandlersGoOn /\ RowsGoOn
<1>1. HandlersGoOn
  <2>1. CASE \E r \in Requests : Acts(r)
    BY <2>1, HandlerMoves DEF HandlersGoOn, OnlyOne
  <2>2. CASE UNCHANGED <<definition, topic, pc, request, local, answer>>
    BY <2>2 DEF HandlersGoOn
  <2> QED
    BY <2>1, <2>2, WhoActs
<1>2. RowsGoOn
  <2>1. CASE \E r \in Requests : Acts(r)
    <3>1. PICK r \in Requests : Acts(r)
      BY <2>1
    <3>2. CASE UpdateState(r) \/ DeleteAlarm(r) \/ SoftDelete(r)
      BY <3>2 DEF UpdateState, DeleteAlarm, SoftDelete, RowsGoOn, Gone, TypeInv, TablesOK,
                  AlarmsOf
    <3>3. CASE UNCHANGED <<definition, alarm>>
      BY <3>3 DEF RowsGoOn, Gone
    <3>4. \/ UpdateState(r) \/ DeleteAlarm(r) \/ SoftDelete(r) \/ UNCHANGED <<definition, alarm>>
      <4>1. Receive(r) => UNCHANGED <<definition, alarm>>
        BY DEF Receive, ReceiveUpdate, ReceiveDelete, ReceiveDeleteDefinition, Accept
      <4>2. Tells(r) => UNCHANGED <<definition, alarm>>
        BY TellsSpeaks
      <4> QED
        BY <3>1, <4>1, <4>2 DEF Acts, Handle, Tells, ReadMetrics, SelectState,
           ReadDefinitionAgain, ShowAlarm, ReadAlarms, DatabaseFails, Crash
    <3> QED
      BY <3>2, <3>3, <3>4
  <2>2. CASE UNCHANGED definition /\ \A a \in Alarms : alarm'[a].stage = alarm[a].stage
    BY <2>2 DEF RowsGoOn, Gone
  <2> QED
    BY <2>1, <2>2, WhoActs
<1> QED
  BY <1>1, <1>2

\* The topics change only when a handler speaks.
LEMMA StepSpeaks ==
    ASSUME TypeInv, [Next]_vars
    PROVE  \/ UNCHANGED topic
           \/ /\ UNCHANGED <<definition, alarm, request, local>>
              /\ \E r \in Requests : \E t \in Topics : \E type, about : Speaks(r, t, type, about)
<1>1. CASE \E r \in Requests : Acts(r)
  <2>1. PICK r \in Requests : Acts(r)
    BY <1>1
  <2>2. CASE Tells(r)
    BY <2>2, TellsSpeaks DEF Silent
  <2>3. CASE ~ Tells(r)
    BY <2>1, <2>3 DEF Acts, Handle, Tells, ReadMetrics, SelectState, UpdateState, DeleteAlarm,
       ReadDefinitionAgain, ShowAlarm, ReadAlarms, SoftDelete, DatabaseFails, Crash, Receive,
       ReceiveUpdate, ReceiveDelete, ReceiveDeleteDefinition, Accept
  <2> QED
    BY <2>2, <2>3
<1> QED
  BY <1>1, WhoActs

\* A topic keeps its messages in place; a new one is the last.
LEMMA StepTopic ==
    ASSUME TypeInv, [Next]_vars, NEW t \in Topics
    PROVE  /\ Len(topic[t]) \in Nat /\ Len(topic'[t]) \in Nat
           /\ DOMAIN topic[t] = 1..Len(topic[t]) /\ DOMAIN topic'[t] = 1..Len(topic'[t])
           /\ \A i \in 1..Len(topic[t]) : i \in 1..Len(topic'[t]) /\ topic'[t][i] = topic[t][i]
           /\ \A i \in 1..Len(topic'[t]) : i \notin 1..Len(topic[t]) =>
                /\ i = Len(topic[t]) + 1
                /\ UNCHANGED <<definition, alarm, request, local>>
                /\ \E r \in Requests : \E type, about :
                        Speaks(r, t, type, about) /\ topic'[t][i] = Message(type, r, about)
<1>1. topic[t] \in Seq(Messages) /\ DOMAIN topic = Topics
  BY DEF TypeInv, TopicOK
<1>2. topic'[t] \in Seq(Messages)
  BY StepTyped DEF TypeInv, TopicOK
<1>3. Len(topic[t]) \in Nat /\ Len(topic'[t]) \in Nat
      /\ DOMAIN topic[t] = 1..Len(topic[t]) /\ DOMAIN topic'[t] = 1..Len(topic'[t])
  BY <1>1, <1>2
<1>4. CASE topic'[t] = topic[t]
  BY <1>3, <1>4
<1>5. CASE topic'[t] # topic[t]
  <2>1. UNCHANGED <<definition, alarm, request, local>>
        /\ \E r \in Requests : \E u \in Topics : \E type, about : Speaks(r, u, type, about)
    BY <1>5, StepSpeaks
  <2>2. PICK r \in Requests, u \in Topics : \E type, about : Speaks(r, u, type, about)
    BY <2>1
  <2>3. PICK type, about : Speaks(r, u, type, about)
    BY <2>2
  <2> DEFINE m == Message(type, r, about)
  <2>4. m \in Messages
    BY <2>3, SaysAMessage DEF Speaks
  <2>5. topic' = [topic EXCEPT ![u] = Append(topic[u], m)]
    BY <2>3 DEF Speaks
  <2>6. u = t
    BY <1>1, <1>5, <2>5
  <2> HIDE DEF m
  <2>7. topic'[t] = Append(topic[t], m)
    BY <1>1, <2>5, <2>6
  <2>8. /\ Len(topic'[t]) = Len(topic[t]) + 1
        /\ topic'[t][Len(topic[t]) + 1] = m
        /\ \A i \in 1..Len(topic[t]) : topic'[t][i] = topic[t][i]
    BY <1>1, <2>4, <2>7
  <2>9. Speaks(r, t, type, about)
    BY <2>3, <2>6
  <2> QED
    BY <1>3, <2>1, <2>8, <2>9 DEF m
<1> QED
  BY <1>4, <1>5


------------------------------------------------------------------------------
(* Who speaks: the messages of a request are about what it asked for and    *)
(* what it has read, for an alarm or a definition of its own tenant.        *)

AfterIsDone == \A r \in Requests : \A s \in request[r].after : pc[s] = "done"

\* The target belongs to the tenant of the request.  A handler has asked for
\* that with the query that lets it go on to what it announces.
Own(r) ==
    LET q == request[r]
    IN  q.tenant = TenantOf[IF q.op = "deleteDefinition" THEN q.target ELSE DefinitionOf[q.target]]
Entitled ==
    \A r \in Requests :
        /\ pc[r] \in {"update", "tellUpdated", "readAgain", "tellTransition", "show",
                      "tellDeleted", "tellDefinition", "tellAlarms"} => Own(r)
        /\ pc[r] \in {"softDelete", "tellDefinition", "tellAlarms"} =>
                \A a \in local[r].alarms : DefinitionOf[a] = request[r].target

\* What a request says, and on which topic.
Speech(r, t, e) ==
    LET q == request[r]
    IN  \/ /\ q.op = "update" /\ e.about = q.target
           /\ e.old = local[r].old /\ e.new = q.state
           /\ \/ t = "events" /\ e.type = "alarm-updated"
              \/ t = "alarm-state-transitions" /\ e.type = "alarm-transitioned"
        \/ /\ q.op = "delete" /\ t = "events" /\ e.type = "alarm-deleted"
           /\ e.about = q.target
        \/ /\ q.op = "deleteDefinition" /\ t = "events" /\ e.type = "alarm-definition-deleted"
           /\ e.about = q.target
        \/ /\ q.op = "deleteDefinition" /\ t = "events" /\ e.type = "alarm-deleted"
           /\ e.about \in local[r].alarms /\ DefinitionOf[e.about] = q.target

Spoken(r) == pc[r] \in {"readAgain", "tellTransition", "show", "tellAlarms", "done", "crashed"}
SendersSpoke ==
    \A t \in Topics : \A i \in 1..Len(topic[t]) : \A r \in Requests :
        topic[t][i].by = r => Spoken(r) /\ Own(r) /\ Speech(r, t, topic[t][i])
Ordered ==
    \A t \in Topics : \A i, j \in 1..Len(topic[t]) :
        topic[t][i].by \in request[topic[t][j].by].after => i < j

SenderInv == AfterIsDone /\ Entitled /\ SendersSpoke /\ Ordered

LEMMA InitSenders == Init => SenderInv
<1> SUFFICES ASSUME Init PROVE SenderInv
  OBVIOUS
<1>1. \A t \in Topics : Len(topic[t]) = 0
  BY DEF Init
<1>2. AfterIsDone /\ Entitled
  BY DEF Init, AfterIsDone, Entitled, NoRequest
<1>3. SendersSpoke /\ Ordered
  BY <1>1 DEF SendersSpoke, Ordered
<1> QED
  BY <1>2, <1>3 DEF SenderInv

\* Only requests that have ended are remembered as such.
LEMMA StepAfter ==
    ASSUME TypeInv, AfterIsDone, [Next]_vars
    PROVE  AfterIsDone'
<1> SUFFICES ASSUME NEW r \in Requests, NEW s \in request'[r].after
             PROVE  pc'[s] = "done"
  BY DEF AfterIsDone
<1>1. HandlersGoOn
  BY StepGoesOn
<1>2. pc[s] = "done" /\ s \in Requests
  <2>1. CASE request'[r] = request[r]
    BY <2>1 DEF AfterIsDone, TypeInv, RequestOK
  <2>2. CASE request'[r] # request[r]
    <3>1. PICK x \in Requests : Acts(x)
      BY <2>2, WhoActs
    <3>2. x = r /\ pc[r] = "idle" /\ Receive(r)
      BY <2>2, <3>1, HandlerMoves DEF OnlyOne
    <3>3. request'[r].after = Answered
      BY <3>2, HandlerTypes DEF Receive, ReceiveUpdate, ReceiveDelete,
         ReceiveDeleteDefinition, Accept
    <3> QED
      BY <3>3 DEF Answered
  <2> QED
    BY <2>1, <2>2
<1> QED
  BY <1>1, <1>2 DEF HandlersGoOn

LEMMA OwnStays ==
    ASSUME TypeInv, [Next]_vars, NEW r \in Requests, pc[r] # "idle", Own(r)
    PROVE  Own(r)'
<1>1. request'[r] = request[r]
  BY StepGoesOn DEF HandlersGoOn
<1> QED
  BY <1>1 DEF Own

\* A handler gets to what it announces by a query that asks for its tenant.
LEMMA StepEntitled ==
    ASSUME TypeInv, Entitled, [Next]_vars
    PROVE  Entitled'
<1> DEFINE Entrusted == {"update", "tellUpdated", "readAgain", "tellTransition", "show",
                         "tellDeleted", "tellDefinition", "tellAlarms"}
           Deleting == {"softDelete", "tellDefinition", "tellAlarms"}
<1> SUFFICES ASSUME NEW r \in Requests
             PROVE  /\ pc'[r] \in Entrusted => Own(r)'
                    /\ pc'[r] \in Deleting =>
                        \A a \in local'[r].alarms : DefinitionOf[a] = request'[r].target
  BY DEF Entitled
<1>1. CASE UNCHANGED <<pc, request, local>>
  BY <1>1 DEF Entitled, Own
<1>2. CASE \E x \in Requests \ {r} : Acts(x)
  BY <1>2, HandlerMoves DEF OnlyOne, Entitled, Own
<1>3. CASE Acts(r)
  <2>1. CASE pc[r] = "idle"
    BY <1>3, <2>1, HandlerMoves
  <2>2. CASE pc[r] # "idle"
    <3>1. UNCHANGED request
      BY <1>3, <2>2, HandlerMoves
    <3>2. pc'[r] \in Entrusted => Own(r)
      <4>1. CASE SelectState(r) \/ DeleteAlarm(r)
        <5>1. pc'[r] \in Entrusted => Mine(r) /\ pc[r] \in {"select", "delete"}
          BY <4>1, HandlerTypes DEF SelectState, DeleteAlarm, Go, Reply
        <5>2. pc[r] \in {"select", "delete"} => request[r].op # "deleteDefinition"
          BY DEF TypeInv, WhereOK, Updating
        <5> QED
          BY <5>1, <5>2 DEF Mine, Own
      <4>2. CASE SoftDelete(r)
        <5>1. pc'[r] \in Entrusted =>
                TenantOf[request[r].target] = request[r].tenant /\ pc[r] = "softDelete"
          BY <4>2, HandlerTypes DEF SoftDelete, Go, Reply
        <5>2. pc[r] = "softDelete" => request[r].op = "deleteDefinition"
          BY DEF TypeInv, WhereOK
        <5> QED
          BY <5>1, <5>2 DEF Own
      <4>3. CASE Tells(r)
        <5>1. pc[r] \in Entrusted
          BY <4>3 DEF Tells, TellUpdated, TellTransition, TellDeleted, TellDefinitionDeleted,
                      TellAlarmsDeleted
        <5> QED
          BY <5>1 DEF Entitled
      <4>4. CASE UpdateState(r) \/ ReadDefinitionAgain(r) \/ ShowAlarm(r)
        <5>1. pc[r] \in Entrusted
          BY <4>4 DEF UpdateState, ReadDefinitionAgain, ShowAlarm
        <5> QED
          BY <5>1 DEF Entitled
      <4>5. CASE ReadMetrics(r) \/ ReadAlarms(r) \/ DatabaseFails(r) \/ Crash(r)
        BY <4>5, HandlerTypes DEF ReadMetrics, ReadAlarms, DatabaseFails, Crash, Go, Reply
      <4>6. ~ Receive(r)
        BY <2>2 DEF Receive, ReceiveUpdate, ReceiveDelete, ReceiveDeleteDefinition, Accept
      <4> QED
        BY <1>3, <4>1, <4>2, <4>3, <4>4, <4>5, <4>6 DEF Acts, Handle, Tells
    <3>3. pc'[r] \in Deleting => \A a \in local'[r].alarms : DefinitionOf[a] = request[r].target
      <4>1. CASE ReadAlarms(r)
        BY <4>1, HandlerTypes DEF ReadAlarms, AlarmsOf
      <4>2. CASE SoftDelete(r) \/ TellDefinitionDeleted(r)
        <5>1. pc[r] \in Deleting /\ UNCHANGED local
          BY <4>2 DEF SoftDelete, TellDefinitionDeleted
        <5> QED
          BY <5>1 DEF Entitled
      <4>3. CASE Tells(r) /\ ~TellDefinitionDeleted(r)
        <5>1. pc'[r] \notin Deleting
          <6>1. pc[r] # "tellDefinition"
            BY <4>3 DEF Tells, TellUpdated, TellTransition, TellDeleted, TellAlarmsDeleted
          <6> QED
            BY <4>3, <6>1, TellsSpeaks, HandlerTypes DEF Speaks, Silent, Occasion, Reply
        <5> QED
          BY <5>1
      <4>4. CASE \/ ReadMetrics(r) \/ SelectState(r) \/ UpdateState(r) \/ DeleteAlarm(r)
                 \/ ReadDefinitionAgain(r) \/ ShowAlarm(r) \/ DatabaseFails(r) \/ Crash(r)
        BY <4>4, HandlerTypes DEF ReadMetrics, SelectState, UpdateState, DeleteAlarm,
           ReadDefinitionAgain, ShowAlarm, DatabaseFails, Crash, Go, Reply
      <4>5. ~ Receive(r)
        BY <2>2 DEF Receive, ReceiveUpdate, ReceiveDelete, ReceiveDeleteDefinition, Accept
      <4> QED
        BY <1>3, <4>1, <4>2, <4>3, <4>4, <4>5 DEF Acts, Handle, Tells
    <3> QED
      BY <3>1, <3>2, <3>3 DEF Own
  <2> QED
    BY <2>1, <2>2
<1> QED
  BY <1>1, <1>2, <1>3, WhoActs


LEMMA SpokenStays ==
    ASSUME TypeInv, [Next]_vars, NEW r \in Requests, Spoken(r)
    PROVE  Spoken(r)'
<1>1. CASE pc'[r] = pc[r]
  BY <1>1 DEF Spoken
<1>2. CASE pc'[r] # pc[r]
  <2>1. Acts(r)
    BY <1>2, WhoActs, HandlerMoves DEF OnlyOne
  <2>2. pc[r] \in {"readAgain", "tellTransition", "show", "tellAlarms"}
    BY <2>1, HandlerMoves DEF Spoken
  <2>3. CASE Tells(r)
    <3>1. pc'[r] \in {"readAgain", "show", "tellAlarms", "done"}
      BY <2>3, TellsSpeaks, HandlerTypes DEF Speaks, Silent, Reply, Go
    <3> QED
      BY <3>1 DEF Spoken
  <2>4. CASE ReadDefinitionAgain(r) \/ ShowAlarm(r) \/ DatabaseFails(r) \/ Crash(r)
    BY <2>4, HandlerTypes DEF ReadDefinitionAgain, ShowAlarm, DatabaseFails, Crash, Go, Reply,
       Spoken
  <2> QED
    BY <2>1, <2>2, <2>3, <2>4 DEF Acts, Handle, Tells, Receive, ReceiveUpdate, ReceiveDelete,
       ReceiveDeleteDefinition, Accept, ReadMetrics, SelectState, UpdateState, DeleteAlarm,
       ReadAlarms, SoftDelete
<1> QED
  BY <1>1, <1>2

LEMMA SpeechStays ==
    ASSUME TypeInv, [Next]_vars, NEW r \in Requests, NEW t, NEW e, Spoken(r), Speech(r, t, e)
    PROVE  Speech(r, t, e)'
<1>1. request'[r] = request[r] /\ local'[r] = local[r]
  BY StepGoesOn DEF HandlersGoOn, Spoken
<1> QED
  BY <1>1 DEF Speech

\* What a handler says is about its request, which it has the right to change.
LEMMA SpeaksItsMind ==
    ASSUME TypeInv, Entitled, NEW r \in Requests, NEW t, NEW type, NEW about,
           Speaks(r, t, type, about), UNCHANGED <<request, local>>
    PROVE  /\ pc[r] \notin {"done", "crashed"}
           /\ Spoken(r)' /\ Own(r)'
           /\ \A e : e = Message(type, r, about) => Speech(r, t, e)'
<1>1. Occasion(r, t, type, about)
  BY DEF Speaks
<1>2. pc[r] \notin {"done", "crashed"} /\ Spoken(r)'
  BY <1>1 DEF Occasion, Spoken
<1>3. Own(r)
  BY <1>1 DEF Occasion, Entitled
<1>4. WhereOK(r)
  BY DEF TypeInv
<1>5. ASSUME NEW e, e = Message(type, r, about)
      PROVE  Speech(r, t, e)
  <2>1. /\ e.type = type /\ e.about = about
        /\ e.old = local[r].old /\ e.new = request[r].state
    BY <1>5 DEF Message
  <2>2. CASE pc[r] \in {"tellUpdated", "tellTransition"}
    BY <1>1, <1>4, <2>1, <2>2 DEF Occasion, WhereOK, Updating, Speech
  <2>3. CASE pc[r] = "tellDeleted"
    BY <1>1, <1>4, <2>1, <2>3 DEF Occasion, WhereOK, Speech
  <2>4. CASE pc[r] \in {"tellDefinition", "tellAlarms"}
    BY <1>1, <1>4, <2>1, <2>4 DEF Occasion, WhereOK, Speech, Entitled
  <2> QED
    BY <1>1, <2>2, <2>3, <2>4 DEF Occasion
<1> QED
  BY <1>2, <1>3, <1>5 DEF Own, Speech

LEMMA StepSenders ==
    ASSUME TypeInv, Entitled, SendersSpoke, [Next]_vars
    PROVE  SendersSpoke'
<1> SUFFICES ASSUME NEW t \in Topics, NEW i \in 1..Len(topic'[t]), NEW r \in Requests,
                    topic'[t][i].by = r
             PROVE  Spoken(r)' /\ Own(r)' /\ Speech(r, t, topic[t][i])'
  BY DEF SendersSpoke
<1>1. CASE i \in 1..Len(topic[t])
  <2>1. topic'[t][i] = topic[t][i]
    BY <1>1, StepTopic
  <2>2. Spoken(r) /\ Own(r) /\ Speech(r, t, topic[t][i])
    BY <1>1, <2>1 DEF SendersSpoke
  <2>3. \A e : e = topic[t][i] => Speech(r, t, e)'
    BY <2>2, SpeechStays
  <2>4. Spoken(r)' /\ Own(r)'
    BY <2>2, SpokenStays, OwnStays DEF Spoken
  <2> QED
    BY <2>1, <2>3, <2>4
<1>2. CASE i \notin 1..Len(topic[t])
  <2>1. PICK s \in Requests : \E type, about :
            Speaks(s, t, type, about) /\ topic'[t][i] = Message(type, s, about)
    BY <1>2, StepTopic
  <2>2. PICK type, about : Speaks(s, t, type, about) /\ topic'[t][i] = Message(type, s, about)
    BY <2>1
  <2>3. s = r
    BY <2>2 DEF Message
  <2>4. UNCHANGED <<request, local>>
    BY <1>2, StepTopic
  <2>5. Spoken(r)' /\ Own(r)' /\ \A e : e = topic'[t][i] => Speech(r, t, e)'
    BY <2>2, <2>3, <2>4, SpeaksItsMind
  <2> QED
    BY <2>5
<1> QED
  BY <1>1, <1>2

\* Who speaks has not ended: no request remembers it as answered.
LEMMA StepOrder ==
    ASSUME TypeInv, AfterIsDone, SendersSpoke, Ordered, [Next]_vars
    PROVE  Ordered'
<1> SUFFICES ASSUME NEW t \in Topics, NEW i \in 1..Len(topic'[t]), NEW j \in 1..Len(topic'[t]),
                    topic'[t][i].by \in request'[topic'[t][j].by].after
             PROVE  i < j
  BY DEF Ordered
<1>1. /\ Len(topic[t]) \in Nat
      /\ \A k \in 1..Len(topic[t]) : k \in 1..Len(topic'[t]) /\ topic'[t][k] = topic[t][k]
                                     /\ topic[t][k].by \in Requests
  <2>1. topic[t] \in Seq(Messages)
    BY DEF TypeInv, TopicOK
  <2>2. \A k \in 1..Len(topic[t]) : topic[t][k].by \in Requests
    BY <2>1 DEF Messages
  <2> QED
    BY <2>2, StepTopic
<1> DEFINE n == Len(topic[t])
<1>2. \A k \in 1..n : request'[topic[t][k].by] = request[topic[t][k].by]
  BY <1>1, StepGoesOn DEF SendersSpoke, Spoken, HandlersGoOn
<1>3. \A k \in 1..Len(topic'[t]) : k \notin 1..n =>
        /\ k = n + 1 /\ UNCHANGED request
        /\ topic'[t][k].by \in Requests /\ pc[topic'[t][k].by] \notin {"done", "crashed"}
  <2> SUFFICES ASSUME NEW k \in 1..Len(topic'[t]), k \notin 1..n
               PROVE  /\ k = n + 1 /\ UNCHANGED request
                      /\ topic'[t][k].by \in Requests
                      /\ pc[topic'[t][k].by] \notin {"done", "crashed"}
    OBVIOUS
  <2>1. k = n + 1 /\ UNCHANGED request
    BY StepTopic
  <2>2. PICK s \in Requests : \E type, about :
            Speaks(s, t, type, about) /\ topic'[t][k] = Message(type, s, about)
    BY StepTopic
  <2>3. topic'[t][k].by = s /\ pc[s] \notin {"done", "crashed"}
    BY <2>2 DEF Speaks, Occasion, Message
  <2> QED
    BY <2>1, <2>3
<1>4. CASE i \in 1..n /\ j \in 1..n
  BY <1>1, <1>2, <1>4 DEF Ordered
<1>5. CASE i \in 1..n /\ j \notin 1..n
  BY <1>1, <1>3, <1>5
<1>6. i \in 1..n
  <2> SUFFICES ASSUME i \notin 1..n
               PROVE  FALSE
    OBVIOUS
  <2>1. UNCHANGED request /\ pc[topic'[t][i].by] # "done"
    BY <1>3
  <2>2. topic'[t][j].by \in Requests
    BY <1>1, <1>3
  <2> QED
    BY <2>1, <2>2 DEF AfterIsDone
<1> QED
  BY <1>4, <1>5, <1>6

LEMMA StepSenderInv == TypeInv /\ SenderInv /\ [Next]_vars => SenderInv'
  BY StepAfter, StepEntitled, StepSenders, StepOrder DEF SenderInv

LEMMA Senders == Spec => []SenderInv
  BY Typed, InitSenders, StepSenderInv, PTL DEF Spec

\* Whatever is announced of an alarm or a definition was asked for by its tenant.
THEOREM OnlyOwnAlarms == Spec => []OwnAlarmsOnly
<1>1. TypeInv /\ SenderInv => OwnAlarmsOnly
  <2> SUFFICES ASSUME TypeInv, SenderInv, NEW t \in Topics, NEW i \in DOMAIN topic[t]
               PROVE  LET e == topic[t][i]
                          d == IF e.type = "alarm-definition-deleted"
                                 THEN e.about ELSE DefinitionOf[e.about]
                      IN  TenantOf[d] = request[e.by].tenant
    BY DEF OwnAlarmsOnly
  <2>1. topic[t] \in Seq(Messages)
    BY DEF TypeInv, TopicOK
  <2>2. i \in 1..Len(topic[t]) /\ topic[t][i].by \in Requests
    BY <2>1 DEF Messages
  <2> DEFINE e == topic[t][i]
  <2>3. Own(e.by) /\ Speech(e.by, t, e)
    BY <2>2 DEF SenderInv, SendersSpoke
  <2> QED
    BY <2>3 DEF Own, Speech
<1> QED
  BY <1>1, Typed, Senders, PTL

\* On every topic, what a request announces comes before anything announced by a
\* request that came in after its answer.
THEOREM AlarmsInRealTimeOrder == Spec => []InRealTimeOrder
<1>1. TypeInv /\ SenderInv => InRealTimeOrder
  <2>1. TypeInv => \A t \in Topics : DOMAIN topic[t] = 1..Len(topic[t])
    BY DEF TypeInv, TopicOK
  <2> QED
    BY <2>1 DEF SenderInv, Ordered, InRealTimeOrder
<1> QED
  BY <1>1, Typed, Senders, PTL


------------------------------------------------------------------------------
(* Success: what a handler has to have said at each place of an update, and *)
(* before it answers.                                                       *)

HasTold(t, type, r) ==
    \E i \in 1..Len(topic[t]) : topic[t][i].type = type /\ topic[t][i].by = r
ToldUpdate(r) == HasTold("events", "alarm-updated", r)
ToldTransition(r) == HasTold("alarm-state-transitions", "alarm-transitioned", r)
Changes(r) == local[r].old # request[r].state

Informed(r) ==
    /\ pc[r] \in {"readAgain", "tellTransition", "show"} => ToldUpdate(r)
    /\ pc[r] = "show" /\ Changes(r) => ToldTransition(r) \/ Gone(request[r].target)
    /\ answer[r] = 200 => ToldUpdate(r) /\ (Changes(r) => ToldTransition(r))
    /\ answer[r] = 204 /\ request[r].op = "delete" => HasTold("events", "alarm-deleted", r)
AllInformed == \A r \in Requests : Informed(r)

LEMMA ToldStays ==
    ASSUME TypeInv, [Next]_vars, NEW t \in Topics, NEW type, NEW r, HasTold(t, type, r)
    PROVE  HasTold(t, type, r)'
<1>1. PICK i \in 1..Len(topic[t]) : topic[t][i].type = type /\ topic[t][i].by = r
  BY DEF HasTold
<1>2. i \in 1..Len(topic'[t]) /\ topic'[t][i] = topic[t][i]
  BY StepTopic
<1> QED
  BY <1>1, <1>2 DEF HasTold

LEMMA ToldNow ==
    ASSUME TypeInv, NEW r \in Requests, NEW t \in Topics, NEW type, NEW about,
           Speaks(r, t, type, about)
    PROVE  HasTold(t, type, r)'
<1> DEFINE m == Message(type, r, about)
<1>1. m \in Messages /\ m.type = type /\ m.by = r
  BY SaysAMessage DEF Speaks, Message
<1>2. topic' = [topic EXCEPT ![t] = Append(topic[t], m)]
  BY DEF Speaks
<1>3. topic[t] \in Seq(Messages) /\ DOMAIN topic = Topics
  BY DEF TypeInv, TopicOK
<1> HIDE DEF m
<1>4. topic'[t] = Append(topic[t], m)
  BY <1>2, <1>3
<1>5. Len(topic'[t]) = Len(topic[t]) + 1 /\ topic'[t][Len(topic[t]) + 1] = m
      /\ Len(topic[t]) \in Nat
  BY <1>1, <1>3, <1>4
<1>6. Len(topic[t]) + 1 \in 1..Len(topic'[t])
  BY <1>5
<1> QED
  BY <1>1, <1>5, <1>6 DEF HasTold

\* A handler that stays where it is has been told of as before.
LEMMA InformedStays ==
    ASSUME TypeInv, [Next]_vars, NEW r \in Requests, Informed(r), pc[r] # "idle",
           pc'[r] = pc[r], answer'[r] = answer[r], local'[r] = local[r]
    PROVE  Informed(r)'
<1>1. request'[r] = request[r]
  BY StepGoesOn DEF HandlersGoOn
<1>2. Changes(r)' <=> Changes(r)
  BY <1>1 DEF Changes
<1>3. "events" \in Topics /\ "alarm-state-transitions" \in Topics
  BY DEF Topics
<1>4. /\ ToldUpdate(r) => ToldUpdate(r)'
      /\ ToldTransition(r) => ToldTransition(r)'
      /\ HasTold("events", "alarm-deleted", r) => HasTold("events", "alarm-deleted", r)'
  BY <1>3, ToldStays DEF ToldUpdate, ToldTransition
<1>5. pc[r] = "show" => request[r].target \in Alarms
  BY DEF TypeInv, WhereOK, Updating
<1>6. pc[r] = "show" /\ Gone(request[r].target) => Gone(request[r].target)'
  BY <1>1, <1>5, StepGoesOn DEF RowsGoOn, Gone
<1> QED
  BY <1>1, <1>2, <1>4, <1>6 DEF Informed

\* A handler of the kind that tells goes on informed.
LEMMA TellsInformed ==
    ASSUME TypeInv, [Next]_vars, NEW r \in Requests, Informed(r), Tells(r)
    PROVE  Informed(r)'
<1>1. UNCHANGED <<alarm, request, local>>
  BY TellsSpeaks
<1>2. Changes(r)' <=> Changes(r)
  BY <1>1 DEF Changes
<1>3. "events" \in Topics /\ "alarm-state-transitions" \in Topics
  BY DEF Topics
<1>4. /\ ToldUpdate(r) => ToldUpdate(r)'
      /\ ToldTransition(r) => ToldTransition(r)'
  BY <1>3, ToldStays DEF ToldUpdate, ToldTransition
<1>5. WhereOK(r) /\ ControlOK /\ ControlOK'
  BY StepTyped DEF TypeInv
<1>6. CASE Silent(r)
  <2>1. pc'[r] = "done" /\ answer'[r] \in {204, 500}
        /\ (answer'[r] = 204 => request[r].op = "deleteDefinition")
    BY <1>5, <1>6 DEF Silent, Reply, ControlOK, WhereOK
  <2> QED
    BY <1>1, <2>1 DEF Informed
<1>7. CASE \E t \in Topics : \E type, about : Speaks(r, t, type, about)
  <2>1. PICK t \in Topics : \E type, about : Speaks(r, t, type, about)
    BY <1>7
  <2>2. PICK type, about : Speaks(r, t, type, about)
    BY <2>1
  <2>3. Occasion(r, t, type, about) /\ HasTold(t, type, r)'
    BY <2>2, ToldNow DEF Speaks
  <2>4. CASE pc[r] = "tellUpdated"
    <3>1. ToldUpdate(r)' /\ \/ pc'[r] = "readAgain" /\ Changes(r)
                            \/ pc'[r] = "show" /\ ~Changes(r)
                            \/ pc'[r] = "done" /\ answer'[r] = 500
      BY <2>3, <2>4 DEF Occasion, ToldUpdate, Changes
    <3>2. pc'[r] # "done" => answer'[r] = None
      BY <1>5 DEF ControlOK
    <3> QED
      BY <1>2, <3>1, <3>2 DEF Informed, Statuses
  <2>5. CASE pc[r] = "tellTransition"
    <3>1. ToldUpdate(r)' /\ ToldTransition(r)'
          /\ (pc'[r] = "show" \/ (pc'[r] = "done" /\ answer'[r] = 500))
      BY <1>4, <2>3, <2>5 DEF Occasion, ToldTransition, Informed
    <3>2. pc'[r] # "done" => answer'[r] = None
      BY <1>5 DEF ControlOK
    <3> QED
      BY <3>1, <3>2 DEF Informed, Statuses
  <2>6. CASE pc[r] = "tellDeleted"
    <3>1. HasTold("events", "alarm-deleted", r)' /\ pc'[r] = "done" /\ answer'[r] \in {204, 500}
      BY <2>3, <2>6 DEF Occasion
    <3> QED
      BY <3>1 DEF Informed
  <2>7. CASE pc[r] \in {"tellDefinition", "tellAlarms"}
    <3>1. request[r].op = "deleteDefinition" /\ UNCHANGED request
      BY <1>1, <1>5, <2>7 DEF WhereOK
    <3>2. \/ pc'[r] = "tellAlarms"
          \/ pc'[r] = "done" /\ answer'[r] \in {204, 500}
      BY <2>3, <2>7 DEF Occasion
    <3>3. pc'[r] # "done" => answer'[r] = None
      BY <1>5 DEF ControlOK
    <3> QED
      BY <3>1, <3>2, <3>3 DEF Informed, Statuses
  <2> QED
    BY <2>3, <2>4, <2>5, <2>6, <2>7 DEF Occasion
<1> QED
  BY <1>6, <1>7, TellsSpeaks

LEMMA StepInformed == TypeInv /\ SenderInv /\ AllInformed /\ [Next]_vars => AllInformed'
<1> SUFFICES ASSUME TypeInv, SenderInv, AllInformed, [Next]_vars, NEW r \in Requests
             PROVE  Informed(r)'
  BY DEF AllInformed
<1>1. Informed(r)
  BY DEF AllInformed
<1>2. WhereOK(r) /\ ControlOK /\ ControlOK'
  BY StepTyped DEF TypeInv
<1>3. CASE ~ Acts(r)
  <2>1. pc'[r] = pc[r] /\ answer'[r] = answer[r] /\ local'[r] = local[r]
    BY <1>3, WhoActs, HandlerMoves DEF OnlyOne
  <2>2. CASE pc[r] = "idle"
    <3>1. pc'[r] = "idle" /\ answer'[r] = None
      BY <1>2, <2>1, <2>2 DEF ControlOK
    <3> QED
      BY <3>1 DEF Informed, Statuses
  <2>3. CASE pc[r] # "idle"
    BY <1>1, <2>1, <2>3, InformedStays
  <2> QED
    BY <2>2, <2>3
<1>4. CASE Acts(r) /\ ~Tells(r)
  <2>1. pc'[r] # "done" => answer'[r] = None
    BY <1>2 DEF ControlOK
  <2>2. CASE pc'[r] \notin {"readAgain", "tellTransition", "show"} /\ answer'[r] \notin {200, 204}
    BY <2>2 DEF Informed
  <2>3. CASE ReadDefinitionAgain(r)
    <3>1. pc[r] = "readAgain" /\ UNCHANGED <<alarm, topic, request, local>>
          /\ pc'[r] = (IF Mine(r) THEN "tellTransition" ELSE "show")
      BY <2>3, HandlerTypes DEF ReadDefinitionAgain, Go
    <3>2. ToldUpdate(r)' /\ answer'[r] = None
      BY <1>1, <2>1, <3>1 DEF Informed, ToldUpdate, HasTold
    <3>3. ~Mine(r) => Gone(request[r].target)'
      <4>1. Own(r) /\ request[r].op = "update" /\ request[r].target \in Alarms
        BY <1>2, <3>1 DEF SenderInv, Entitled, WhereOK, Updating
      <4>2. ~Mine(r) => alarm[request[r].target].stage # "stored"
        BY <4>1 DEF Own, Mine, IsStored
      <4> QED
        BY <3>1, <4>1, <4>2 DEF TypeInv, TablesOK, Gone
    <3> QED
      BY <3>1, <3>2, <3>3 DEF Informed, Statuses
  <2>4. CASE ShowAlarm(r)
    <3>1. pc[r] = "show" /\ UNCHANGED <<alarm, topic, request, local>>
          /\ pc'[r] = "done" /\ answer'[r] = IF Mine(r) THEN 200 ELSE 404
      BY <2>4, HandlerTypes DEF ShowAlarm, Reply
    <3>2. Mine(r) => ~Gone(request[r].target)
      BY DEF Mine, IsStored, Gone
    <3>3. /\ ToldUpdate(r)' <=> ToldUpdate(r)
          /\ ToldTransition(r)' <=> ToldTransition(r)
          /\ Changes(r)' <=> Changes(r)
      BY <3>1 DEF ToldUpdate, ToldTransition, HasTold, Changes
    <3> QED
      BY <1>1, <3>1, <3>2, <3>3 DEF Informed
  <2>5. \/ ReadDefinitionAgain(r) \/ ShowAlarm(r)
        \/ pc'[r] \notin {"readAgain", "tellTransition", "show"} /\ answer'[r] \notin {200, 204}
    <3>1. CASE Receive(r)
      <4>1. pc'[r] \in {"readMetrics", "readAlarms"} \/ answer'[r] = 400
        BY <3>1, HandlerTypes DEF Receive, ReceiveUpdate, ReceiveDelete,
           ReceiveDeleteDefinition, Go, Reply
      <4>2. pc'[r] \in {"readMetrics", "readAlarms", "done"}
        BY <3>1, <4>1, HandlerTypes DEF Receive, ReceiveUpdate, ReceiveDelete,
           ReceiveDeleteDefinition, Go, Reply
      <4> QED
        BY <2>1, <4>1, <4>2 DEF Statuses
    <3>2. CASE \/ ReadMetrics(r) \/ SelectState(r) \/ UpdateState(r) \/ DeleteAlarm(r)
               \/ ReadAlarms(r) \/ SoftDelete(r) \/ DatabaseFails(r) \/ Crash(r)
      <4>1. pc'[r] \notin {"readAgain", "tellTransition", "show"}
            /\ (pc'[r] = "done" => answer'[r] \in {404, 500})
        BY <3>2, HandlerTypes DEF ReadMetrics, SelectState, UpdateState, DeleteAlarm,
           ReadAlarms, SoftDelete, DatabaseFails, Crash, Go, Reply
      <4> QED
        BY <2>1, <4>1 DEF Statuses
    <3> QED
      BY <1>4, <3>1, <3>2 DEF Acts, Handle, Tells
  <2> QED
    BY <2>2, <2>3, <2>4, <2>5
<1>5. CASE Tells(r)
  BY <1>1, <1>5, TellsInformed
<1> QED
  BY <1>3, <1>4, <1>5

\* A PUT, PATCH or DELETE of an alarm that succeeds has put its message on the
\* topic, and a change of state the transition too, whatever failed on the way.
THEOREM SuccessTold == Spec => []SuccessIsAnnounced
<1>1. Init => AllInformed
  <2> SUFFICES ASSUME Init, NEW r \in Requests
               PROVE  Informed(r)
    BY DEF AllInformed
  <2>1. pc[r] = "idle" /\ answer[r] = None
    BY DEF Init
  <2> QED
    BY <2>1 DEF Informed, Statuses
<1>2. TypeInv /\ SenderInv /\ AllInformed => SuccessIsAnnounced
  <2> SUFFICES ASSUME TypeInv, SenderInv, AllInformed, NEW r \in Requests
               PROVE  /\ answer[r] = 200 => \E i \in DOMAIN Events :
                            /\ Events[i].type = "alarm-updated" /\ Events[i].by = r
                            /\ Events[i].old # Events[i].new =>
                                    \E j \in DOMAIN Transitions : Transitions[j].by = r
                      /\ answer[r] = 204 /\ request[r].op = "delete" =>
                            \E i \in DOMAIN Events :
                                Events[i].type = "alarm-deleted" /\ Events[i].by = r
    BY DEF SuccessIsAnnounced
  <2>1. "events" \in Topics /\ "alarm-state-transitions" \in Topics
    BY DEF Topics
  <2>2. DOMAIN Events = 1..Len(Events) /\ DOMAIN Transitions = 1..Len(Transitions)
    BY <2>1 DEF TypeInv, TopicOK, Events, Transitions
  <2>3. Informed(r)
    BY DEF AllInformed
  <2>4. CASE answer[r] = 200
    <3>1. ToldUpdate(r) /\ (Changes(r) => ToldTransition(r))
      BY <2>3, <2>4 DEF Informed
    <3>2. PICK i \in 1..Len(Events) : Events[i].type = "alarm-updated" /\ Events[i].by = r
      BY <3>1 DEF ToldUpdate, HasTold, Events
    <3>3. Events[i].old # Events[i].new => Changes(r)
      BY <2>1, <3>2 DEF SenderInv, SendersSpoke, Speech, Events, Changes
    <3>4. ToldTransition(r) => \E j \in 1..Len(Transitions) : Transitions[j].by = r
      BY DEF ToldTransition, HasTold, Transitions
    <3> QED
      BY <2>2, <2>4, <3>1, <3>2, <3>3, <3>4
  <2>5. CASE answer[r] # 200
    BY <2>2, <2>3, <2>5 DEF Informed, HasTold, Events
  <2> QED
    BY <2>4, <2>5
<1> QED
  BY <1>1, <1>2, Typed, Senders, StepInformed, PTL DEF Spec

------------------------------------------------------------------------------
(* Deletions. *)

\* A definition goes with its alarms.
DeletedWithAlarms == \A a \in Alarms : definition[DefinitionOf[a]] = "deleted" => Gone(a)

\* Handlers that are going to tell of a deletion have committed it.
AtDefinition(r) == pc[r] \in {"tellDefinition", "tellAlarms"}
TellersDeleted ==
    \A r \in Requests :
        /\ pc[r] = "tellDeleted" => Gone(request[r].target)
        /\ AtDefinition(r) => definition[request[r].target] = "deleted"

\* Request s has deleted the alarm, as its answer or its message says.
Said(i, s, a) == Events[i].type = "alarm-deleted" /\ Events[i].about = a /\ Events[i].by = s
Ended(s, a) ==
    \/ /\ answer[s] = 204
       /\ \/ request[s].op = "delete" /\ request[s].target = a
          \/ request[s].op = "deleteDefinition" /\ request[s].target = DefinitionOf[a]
    \/ \E i \in 1..Len(Events) : Said(i, s, a)
EndedIsGone == \A s \in Requests : \A a \in Alarms : Ended(s, a) => Gone(a)

\* Request r has nothing to say of the alarm, and has said nothing.
SpeaksOfTarget == {"update", "tellUpdated", "readAgain", "tellTransition", "show", "tellDeleted"}
Quiet(r, a) ==
    /\ a \notin local[r].alarms
    /\ ~ (request[r].target = a /\ pc[r] \in SpeaksOfTarget)
    /\ \A t \in Topics : \A i \in 1..Len(topic[t]) :
            topic[t][i].by = r /\ topic[t][i].about = a =>
                topic[t][i].type = "alarm-definition-deleted"
QuietAfter ==
    \A r \in Requests : \A s \in request[r].after : \A a \in Alarms :
        Ended(s, a) => Quiet(r, a)

EndInv == DeletedWithAlarms /\ TellersDeleted /\ EndedIsGone /\ QuietAfter

LEMMA InitEnd == Init => EndInv
<1> SUFFICES ASSUME Init PROVE EndInv
  OBVIOUS
<1>1. DeletedWithAlarms /\ TellersDeleted
  BY DEF Init, DeletedWithAlarms, TellersDeleted, AtDefinition
<1>2. QuietAfter
  BY DEF Init, QuietAfter, NoRequest
<1>3. EndedIsGone
  <2> SUFFICES ASSUME NEW s \in Requests, NEW a \in Alarms, Ended(s, a)
               PROVE  FALSE
    BY DEF EndedIsGone
  <2>1. answer[s] = None /\ Len(Events) = 0
    BY DEF Init, Events, Topics
  <2>2. None # 204
    BY DEF Statuses
  <2> QED
    BY <2>1, <2>2 DEF Ended
<1> QED
  BY <1>1, <1>2, <1>3 DEF EndInv

LEMMA StepDeleted ==
    ASSUME TypeInv, DeletedWithAlarms, [Next]_vars
    PROVE  DeletedWithAlarms'
<1> SUFFICES ASSUME NEW a \in Alarms, definition'[DefinitionOf[a]] = "deleted"
             PROVE  Gone(a)'
  BY DEF DeletedWithAlarms
<1>1. CASE definition[DefinitionOf[a]] = "deleted"
  BY <1>1, StepGoesOn DEF DeletedWithAlarms, RowsGoOn
<1>2. CASE definition[DefinitionOf[a]] # "deleted"
  <2>1. PICK r \in Requests : Acts(r)
    BY <1>2, WhoActs
  <2>2. SoftDelete(r)
    <3>1. Tells(r) => UNCHANGED definition
      BY TellsSpeaks
    <3> QED
      BY <1>2, <2>1, <3>1 DEF Acts, Handle, Tells, ReadMetrics, SelectState, UpdateState,
         DeleteAlarm, ReadDefinitionAgain, ShowAlarm, ReadAlarms, DatabaseFails, Crash,
         Receive, ReceiveUpdate, ReceiveDelete, ReceiveDeleteDefinition, Accept
  <2>3. DefinitionOf[a] = request[r].target
        /\ alarm' = [b \in Alarms |-> IF b \in AlarmsOf(request[r].target)
                        THEN [alarm[b] EXCEPT !.stage = "gone"] ELSE alarm[b]]
    BY <1>2, <2>2 DEF SoftDelete, TypeInv, TablesOK
  <2> QED
    BY <2>3 DEF Gone, AlarmsOf, IsStored, TypeInv, TablesOK
<1> QED
  BY <1>1, <1>2

\* How handlers come to a place where they tell of a deletion.
LEMMA ComesToDelete ==
    ASSUME TypeInv, NEW r \in Requests, Acts(r)
    PROVE  /\ pc'[r] = "tellDeleted" =>
                /\ DeleteAlarm(r) /\ Mine(r) /\ UNCHANGED <<request, topic, definition>>
                /\ request[r].op = "delete" /\ request[r].target \in Alarms
           /\ AtDefinition(r)' =>
                \/ /\ SoftDelete(r) /\ definition[request[r].target] = "live"
                   /\ UNCHANGED <<request, topic>> /\ request[r].op = "deleteDefinition"
                   /\ request[r].target \in Definitions
                \/ TellDefinitionDeleted(r) /\ AtDefinition(r)
<1> USE HandlerTypes
<1>1. WhereOK(r)
  BY DEF TypeInv
<1>2. CASE DeleteAlarm(r)
  BY <1>1, <1>2 DEF DeleteAlarm, WhereOK, Go, Reply, AtDefinition
<1>3. CASE SoftDelete(r)
  BY <1>1, <1>3 DEF SoftDelete, WhereOK, Go, Reply, AtDefinition
<1>4. CASE Tells(r)
  <2>1. pc'[r] # "tellDeleted" /\ (AtDefinition(r)' => pc[r] = "tellDefinition")
    BY <1>4, TellsSpeaks DEF Speaks, Silent, Occasion, Go, Reply, AtDefinition
  <2>2. pc[r] = "tellDefinition" => TellDefinitionDeleted(r)
    BY <1>4 DEF Tells, TellUpdated, TellTransition, TellDeleted, TellAlarmsDeleted
  <2> QED
    BY <2>1, <2>2 DEF AtDefinition
<1>5. CASE \/ ReadMetrics(r) \/ SelectState(r) \/ UpdateState(r) \/ ReadDefinitionAgain(r)
           \/ ShowAlarm(r) \/ ReadAlarms(r) \/ DatabaseFails(r) \/ Crash(r)
  BY <1>5 DEF ReadMetrics, SelectState, UpdateState, ReadDefinitionAgain, ShowAlarm, ReadAlarms,
     DatabaseFails, Crash, Go, Reply, AtDefinition
<1>6. CASE Receive(r)
  <2>1. pc[r] = "idle"
    BY <1>6 DEF Receive, ReceiveUpdate, ReceiveDelete, ReceiveDeleteDefinition, Accept
  <2> QED
    BY <2>1, HandlerMoves DEF AtDefinition
<1> QED
  BY <1>2, <1>3, <1>4, <1>5, <1>6 DEF Acts, Handle, Tells

LEMMA StepTellers ==
    ASSUME TypeInv, TellersDeleted, [Next]_vars
    PROVE  TellersDeleted'
<1> SUFFICES ASSUME NEW r \in Requests
             PROVE  /\ pc'[r] = "tellDeleted" => Gone(request[r].target)'
                    /\ AtDefinition(r)' => definition'[request'[r].target] = "deleted"
  BY DEF TellersDeleted
<1>1. WhereOK(r) /\ (pc[r] \in {"tellDeleted", "tellDefinition", "tellAlarms"} =>
        request'[r] = request[r])
  BY StepGoesOn DEF HandlersGoOn, TypeInv
<1>2. CASE pc'[r] = pc[r]
  <2>1. pc[r] = "tellDeleted" => Gone(request[r].target)'
    <3>1. pc[r] = "tellDeleted" => request[r].target \in Alarms /\ Gone(request[r].target)
      BY <1>1 DEF WhereOK, TellersDeleted
    <3> QED
      BY <1>1, <3>1, StepGoesOn DEF RowsGoOn, Gone
  <2>2. AtDefinition(r) => definition'[request'[r].target] = "deleted"
    <3>1. AtDefinition(r) => request[r].target \in Definitions
      BY <1>1 DEF WhereOK, AtDefinition
    <3> QED
      BY <1>1, <3>1, StepGoesOn DEF RowsGoOn, TellersDeleted, AtDefinition
  <2> QED
    BY <1>2, <2>1, <2>2 DEF AtDefinition
<1>3. CASE pc'[r] # pc[r]
  <2>1. Acts(r)
    BY <1>3, WhoActs, HandlerMoves DEF OnlyOne
  <2>2. pc'[r] = "tellDeleted" => Gone(request[r].target)'
    <3> SUFFICES ASSUME pc'[r] = "tellDeleted"
                 PROVE  Gone(request[r].target)'
      OBVIOUS
    <3>1. DeleteAlarm(r) /\ Mine(r) /\ UNCHANGED request /\ request[r].target \in Alarms
      BY <2>1, ComesToDelete
    <3> QED
      BY <3>1 DEF DeleteAlarm, Gone, TypeInv, TablesOK
  <2>3. AtDefinition(r)' => definition'[request'[r].target] = "deleted"
    <3> SUFFICES ASSUME AtDefinition(r)'
                 PROVE  definition'[request'[r].target] = "deleted"
      OBVIOUS
    <3>1. CASE SoftDelete(r) /\ definition[request[r].target] = "live"
               /\ UNCHANGED request /\ request[r].target \in Definitions
      <4>1. CASE TenantOf[request[r].target] = request[r].tenant
        BY <3>1, <4>1 DEF SoftDelete, TypeInv, TablesOK
      <4>2. CASE TenantOf[request[r].target] # request[r].tenant
        BY <3>1, <4>2, HandlerTypes DEF SoftDelete, Reply, AtDefinition
      <4> QED
        BY <4>1, <4>2
    <3>2. CASE TellDefinitionDeleted(r) /\ AtDefinition(r)
      BY <3>2 DEF TellersDeleted, TellDefinitionDeleted
    <3> QED
      BY <2>1, <3>1, <3>2, ComesToDelete
  <2> QED
    BY <2>2, <2>3
<1> QED
  BY <1>2, <1>3

\* A request comes to have deleted an alarm by telling so, and is not done before.
LEMMA NewlyEnded ==
    ASSUME TypeInv, SenderInv, EndInv, [Next]_vars, NEW s \in Requests, NEW a \in Alarms,
           Ended(s, a)', ~ Ended(s, a)
    PROVE  Gone(a) /\ pc[s] \in {"tellDeleted", "tellAlarms"}
<1>1. "events" \in Topics /\ Events = topic["events"] /\ Events' = topic'["events"]
  BY DEF Topics, Events
<1>2. WhereOK(s) /\ ControlOK
  BY DEF TypeInv
<1>3. pc[s] = "tellDeleted" /\ request[s].target = a => Gone(a)
  BY DEF EndInv, TellersDeleted
<1>4. pc[s] = "tellAlarms" /\ DefinitionOf[a] = request[s].target => Gone(a)
  BY DEF EndInv, TellersDeleted, AtDefinition, DeletedWithAlarms
<1>5. CASE /\ answer'[s] = 204
           /\ \/ request'[s].op = "delete" /\ request'[s].target = a
              \/ request'[s].op = "deleteDefinition" /\ request'[s].target = DefinitionOf[a]
  <2>1. pc[s] # "done"
    <3>1. pc[s] = "done" => answer'[s] = answer[s] /\ request'[s] = request[s]
      BY StepGoesOn DEF HandlersGoOn
    <3> QED
      BY <1>5, <3>1 DEF Ended
  <2>2. answer[s] # 204
    BY <1>2, <2>1 DEF ControlOK, Statuses
  <2>3. Acts(s)
    BY <1>5, <2>2, WhoActs, HandlerMoves DEF OnlyOne
  <2>4. Tells(s)
    BY <1>5, <2>2, <2>3, HandlerTypes DEF Acts, Handle, Tells, ReadMetrics, SelectState,
       UpdateState, DeleteAlarm, ReadDefinitionAgain, ShowAlarm, ReadAlarms, SoftDelete,
       DatabaseFails, Crash, Receive, ReceiveUpdate, ReceiveDelete, ReceiveDeleteDefinition,
       Accept, Go, Reply
  <2>5. UNCHANGED request
    BY <2>4, TellsSpeaks
  <2>6. pc[s] \in {"tellDeleted", "tellAlarms"}
    <3>1. CASE Silent(s)
      BY <1>5, <2>2, <3>1, HandlerTypes DEF Silent, Reply
    <3>2. CASE \E t \in Topics : \E type, about : Speaks(s, t, type, about)
      <4>1. PICK t \in Topics : \E type, about : Speaks(s, t, type, about)
        BY <3>2
      <4>2. PICK type, about : Speaks(s, t, type, about)
        BY <4>1
      <4>3. pc'[s] = "done"
        BY <1>5, StepTyped DEF TypeInv, ControlOK, Statuses
      <4> QED
        BY <1>5, <4>2, <4>3 DEF Speaks, Occasion
    <3> QED
      BY <2>4, <3>1, <3>2, TellsSpeaks
  <2> QED
    BY <1>2, <1>3, <1>4, <1>5, <2>5, <2>6 DEF WhereOK
<1>6. CASE \E i \in 1..Len(Events') : Said(i, s, a)'
  <2>1. PICK i \in 1..Len(Events') : Said(i, s, a)'
    BY <1>6
  <2>2. i \notin 1..Len(Events)
    <3> SUFFICES ASSUME i \in 1..Len(Events)
                 PROVE  FALSE
      OBVIOUS
    <3>1. Events'[i] = Events[i]
      BY <1>1, StepTopic
    <3> QED
      BY <2>1, <3>1 DEF Said, Ended
  <2>3. PICK r \in Requests : \E type, about :
            Speaks(r, "events", type, about) /\ Events'[i] = Message(type, r, about)
    BY <1>1, <2>1, <2>2, StepTopic
  <2>4. PICK type, about :
            Speaks(r, "events", type, about) /\ Events'[i] = Message(type, r, about)
    BY <2>3
  <2>5. r = s /\ type = "alarm-deleted" /\ about = a
    BY <2>1, <2>4 DEF Said, Message
  <2>6. \/ pc[s] = "tellDeleted" /\ a = request[s].target
        \/ pc[s] = "tellAlarms" /\ a \in local[s].alarms
    BY <2>4, <2>5 DEF Speaks, Occasion
  <2>7. pc[s] = "tellAlarms" /\ a \in local[s].alarms => DefinitionOf[a] = request[s].target
    BY DEF SenderInv, Entitled
  <2> QED
    BY <1>3, <1>4, <2>6, <2>7
<1> QED
  BY <1>5, <1>6 DEF Ended

LEMMA StepEnded ==
    ASSUME TypeInv, SenderInv, EndInv, [Next]_vars
    PROVE  EndedIsGone'
<1> SUFFICES ASSUME NEW s \in Requests, NEW a \in Alarms, Ended(s, a)'
             PROVE  Gone(a)'
  BY DEF EndedIsGone
<1>1. Gone(a)
  BY NewlyEnded DEF EndInv, EndedIsGone
<1> QED
  BY <1>1, StepGoesOn DEF RowsGoOn

\* Whoever comes to speak of an alarm has found it in the database.
LEMMA QuietStays ==
    ASSUME TypeInv, [Next]_vars, NEW r \in Requests, NEW a \in Alarms, pc[r] # "idle",
           Quiet(r, a), Gone(a)
    PROVE  Quiet(r, a)'
<1>1. request'[r] = request[r]
  BY StepGoesOn DEF HandlersGoOn
<1>2. a \notin local'[r].alarms
  <2>1. CASE local'[r] = local[r]
    BY <2>1 DEF Quiet
  <2>2. CASE local'[r] # local[r]
    <3>1. Acts(r)
      BY <2>2, WhoActs, HandlerMoves DEF OnlyOne
    <3>2. ReadMetrics(r) \/ SelectState(r) \/ ReadAlarms(r)
      <4>1. Tells(r) => UNCHANGED local
        BY TellsSpeaks
      <4> QED
        BY <2>2, <3>1, <4>1 DEF Acts, Handle, Tells, UpdateState, DeleteAlarm,
           ReadDefinitionAgain, ShowAlarm, SoftDelete, DatabaseFails, Crash, Receive,
           ReceiveUpdate, ReceiveDelete, ReceiveDeleteDefinition, Accept
    <3>3. ~ IsStored(a)
      BY DEF Gone, IsStored
    <3>4. local \in [Requests -> [alarms : SUBSET Alarms, old : States \cup {None}]]
      BY DEF TypeInv, LocalOK
    <3>5. CASE ReadMetrics(r)
      <4>1. local'[r].alarms = IF IsStored(request[r].target) THEN {request[r].target} ELSE {}
        BY <3>4, <3>5 DEF ReadMetrics
      <4> QED
        BY <3>3, <4>1
    <3>6. CASE SelectState(r)
      <4>1. local'[r].alarms = local[r].alarms
        BY <3>4, <3>6 DEF SelectState
      <4> QED
        BY <4>1 DEF Quiet
    <3>7. CASE ReadAlarms(r)
      <4>1. local'[r].alarms \subseteq AlarmsOf(request[r].target)
        BY <3>4, <3>7 DEF ReadAlarms
      <4> QED
        BY <3>3, <4>1 DEF AlarmsOf
    <3> QED
      BY <3>2, <3>5, <3>6, <3>7
  <2> QED
    BY <2>1, <2>2
<1>3. ASSUME request[r].target = a, pc'[r] \in SpeaksOfTarget
      PROVE  FALSE
  <2>1. pc[r] \notin SpeaksOfTarget /\ pc'[r] # pc[r]
    BY <1>3 DEF Quiet
  <2>2. Acts(r)
    BY <2>1, WhoActs, HandlerMoves DEF OnlyOne
  <2>3. ~ Mine(r)
    BY <1>3 DEF Mine, IsStored, Gone
  <2>4. CASE Tells(r)
    BY <1>3, <2>1, <2>4, TellsSpeaks, HandlerTypes DEF Speaks, Silent, Occasion, Reply, SpeaksOfTarget
  <2>5. CASE ~ Tells(r)
    BY <1>3, <2>1, <2>2, <2>3, <2>5, HandlerTypes DEF Acts, Handle, Tells, ReadMetrics,
       SelectState, UpdateState, DeleteAlarm, ReadDefinitionAgain, ShowAlarm, ReadAlarms,
       SoftDelete, DatabaseFails, Crash, Receive, ReceiveUpdate, ReceiveDelete,
       ReceiveDeleteDefinition, Accept, Go, Reply, SpeaksOfTarget
  <2> QED
    BY <2>4, <2>5
<1>4. ASSUME NEW t \in Topics, NEW i \in 1..Len(topic'[t]), topic'[t][i].by = r,
             topic'[t][i].about = a, topic'[t][i].type # "alarm-definition-deleted"
      PROVE  FALSE
  <2>1. i \notin 1..Len(topic[t])
    BY <1>4, StepTopic DEF Quiet
  <2>2. PICK s \in Requests : \E type, about :
            Speaks(s, t, type, about) /\ topic'[t][i] = Message(type, s, about)
    BY <2>1, StepTopic
  <2>3. PICK type, about : Speaks(s, t, type, about) /\ topic'[t][i] = Message(type, s, about)
    BY <2>2
  <2>4. s = r /\ about = a /\ type # "alarm-definition-deleted"
    BY <1>4, <2>3 DEF Message
  <2> QED
    BY <2>3, <2>4 DEF Speaks, Occasion, Quiet, SpeaksOfTarget
<1> QED
  BY <1>1, <1>2, <1>3, <1>4 DEF Quiet

LEMMA StepQuiet ==
    ASSUME TypeInv, SenderInv, EndInv, [Next]_vars
    PROVE  QuietAfter'
<1> SUFFICES ASSUME NEW r \in Requests, NEW s \in request'[r].after, NEW a \in Alarms,
                    Ended(s, a)'
             PROVE  Quiet(r, a)'
  BY DEF QuietAfter
<1>1. CASE pc[r] # "idle"
  <2>1. s \in request[r].after
    BY <1>1, StepGoesOn DEF HandlersGoOn
  <2>2. s \in Requests /\ pc[s] = "done"
    BY <2>1 DEF SenderInv, AfterIsDone, TypeInv, RequestOK
  <2>3. Ended(s, a)
    BY <2>2, NewlyEnded
  <2>4. Gone(a) /\ Quiet(r, a)
    BY <2>1, <2>2, <2>3 DEF EndInv, EndedIsGone, QuietAfter
  <2> QED
    BY <1>1, <2>4, QuietStays
<1>2. CASE pc[r] = "idle"
  <2>1. local[r].alarms = {}
    BY <1>2 DEF TypeInv, WhereOK, Nothing
  <2>2. \A t \in Topics : \A i \in 1..Len(topic[t]) : topic[t][i].by # r
    BY <1>2 DEF SenderInv, SendersSpoke, Spoken
  <2>3. CASE Acts(r)
    <3>1. UNCHANGED <<topic, local>> /\ pc'[r] \in {"readMetrics", "readAlarms", "done"}
      BY <1>2, <2>3, HandlerMoves
    <3> QED
      BY <2>1, <2>2, <3>1 DEF Quiet, SpeaksOfTarget
  <2>4. CASE ~ Acts(r)
    <3>1. pc'[r] = "idle" /\ local'[r] = local[r]
      BY <1>2, <2>4, WhoActs, HandlerMoves DEF OnlyOne
    <3>2. \A t \in Topics : \A i \in 1..Len(topic'[t]) : topic'[t][i].by # r
      <4>1. SendersSpoke'
        BY StepSenders DEF SenderInv
      <4> QED
        BY <3>1, <4>1 DEF SendersSpoke, Spoken
    <3> QED
      BY <2>1, <3>1, <3>2 DEF Quiet, SpeaksOfTarget
  <2> QED
    BY <2>3, <2>4
<1> QED
  BY <1>1, <1>2

LEMMA StepEndInv == TypeInv /\ SenderInv /\ EndInv /\ [Next]_vars => EndInv'
  BY StepDeleted, StepTellers, StepEnded, StepQuiet DEF EndInv

LEMMA Ends == Spec => []EndInv
  BY Typed, Senders, InitEnd, StepEndInv, PTL DEF Spec

\* Once a request to delete an alarm, or its definition, was answered, no request
\* that comes in later announces anything of the alarm.
THEOREM GoneForGood == Spec => []GoneIsQuiet
<1>1. TypeInv /\ SenderInv /\ EndInv => GoneIsQuiet
  <2> SUFFICES ASSUME TypeInv, SenderInv, EndInv, NEW t \in Topics, NEW i \in DOMAIN topic[t],
                      NEW s \in request[topic[t][i].by].after,
                      answer[s] = 204, topic[t][i].type # "alarm-definition-deleted",
                      \/ /\ request[s].op = "delete"
                         /\ request[s].target = topic[t][i].about
                      \/ /\ request[s].op = "deleteDefinition"
                         /\ request[s].target = DefinitionOf[topic[t][i].about]
               PROVE  FALSE
    BY DEF GoneIsQuiet
  <2> DEFINE e == topic[t][i]
  <2>1. i \in 1..Len(topic[t]) /\ e \in Messages
    BY DEF TypeInv, TopicOK
  <2>2. e.by \in Requests /\ e.about \in Alarms
    BY <2>1 DEF Messages
  <2>3. Ended(s, e.about)
    BY DEF Ended
  <2>4. Quiet(e.by, e.about)
    BY <2>2, <2>3 DEF EndInv, QuietAfter
  <2> QED
    BY <2>1, <2>4 DEF Quiet
<1> QED
  BY <1>1, Typed, Senders, Ends, PTL


------------------------------------------------------------------------------
(* One announcer: of the requests of one kind that delete an alarm, the one *)
(* whose statement found the row.                                           *)

ToldBy(op, a) ==
    \E i \in 1..Len(Events) : /\ Events[i].type = "alarm-deleted" /\ Events[i].about = a
                              /\ request[Events[i].by].op = op

AlarmAnnouncer(r) ==
    pc[r] = "tellDeleted" =>
        /\ ~ ToldBy("delete", request[r].target)
        /\ \A s \in Requests :
                pc[s] = "tellDeleted" /\ request[s].target = request[r].target => s = r
DefinitionAnnouncer(r) ==
    AtDefinition(r) =>
        /\ \A a \in Alarms : DefinitionOf[a] = request[r].target => ~ ToldBy("deleteDefinition", a)
        /\ \A s \in Requests :
                AtDefinition(s) /\ request[s].target = request[r].target => s = r
OneAnnouncer == \A r \in Requests : AlarmAnnouncer(r) /\ DefinitionAnnouncer(r)
ToldWithDefinition ==
    \A a \in Alarms : ToldBy("deleteDefinition", a) => definition[DefinitionOf[a]] = "deleted"
ToldOnce ==
    \A i, j \in 1..Len(Events) :
        /\ Events[i].type = "alarm-deleted" /\ Events[j].type = "alarm-deleted"
        /\ Events[i].about = Events[j].about
        /\ request[Events[i].by].op = request[Events[j].by].op
        => i = j

OnceInv == OneAnnouncer /\ ToldWithDefinition /\ ToldOnce

LEMMA EventFacts ==
    ASSUME TypeInv, SenderInv, [Next]_vars
    PROVE  /\ "events" \in Topics /\ Events = topic["events"] /\ Events' = topic'["events"]
           /\ \A i \in 1..Len(Events) :
                /\ Events[i] \in Messages /\ Events[i].by \in Requests
                /\ i \in 1..Len(Events') /\ Events'[i] = Events[i]
                /\ request'[Events[i].by] = request[Events[i].by]
                /\ Events[i].type = "alarm-deleted" => Events[i].about \in Alarms
<1>1. "events" \in Topics /\ Events = topic["events"] /\ Events' = topic'["events"]
  BY DEF Topics, Events
<1>2. Events \in Seq(Messages)
  BY <1>1 DEF TypeInv, TopicOK
<1>3. ASSUME NEW i \in 1..Len(Events)
      PROVE  /\ Events[i] \in Messages /\ Events[i].by \in Requests
             /\ i \in 1..Len(Events') /\ Events'[i] = Events[i]
             /\ request'[Events[i].by] = request[Events[i].by]
             /\ Events[i].type = "alarm-deleted" => Events[i].about \in Alarms
  <2>1. Events[i] \in Messages
    BY <1>2
  <2>2. Events[i].by \in Requests /\ (Events[i].type = "alarm-deleted" => Events[i].about \in Alarms)
    BY <2>1 DEF Messages
  <2>3. pc[Events[i].by] # "idle"
    BY <1>1, <2>2 DEF SenderInv, SendersSpoke, Spoken
  <2> QED
    BY <1>1, <2>1, <2>2, <2>3, StepTopic, StepGoesOn DEF HandlersGoOn
<1> QED
  BY <1>1, <1>3

\* A new announcement of a deletion, and by whom it is made.
LEMMA NewlyTold ==
    ASSUME TypeInv, SenderInv, [Next]_vars, NEW i \in 1..Len(Events'), i \notin 1..Len(Events),
           Events'[i].type = "alarm-deleted"
    PROVE  \E r \in Requests : LET a == Events'[i].about IN
             /\ i = Len(Events) + 1 /\ Events'[i].by = r /\ UNCHANGED <<request, definition>>
             /\ a \in Alarms /\ pc'[r] = "done"
             /\ \/ pc[r] = "tellDeleted" /\ request[r].op = "delete" /\ a = request[r].target
                \/ /\ pc[r] = "tellAlarms" /\ request[r].op = "deleteDefinition"
                   /\ DefinitionOf[a] = request[r].target
<1>1. PICK r \in Requests : \E type, about :
          Speaks(r, "events", type, about) /\ Events'[i] = Message(type, r, about)
  BY EventFacts, StepTopic
<1>2. PICK type, about :
          Speaks(r, "events", type, about) /\ Events'[i] = Message(type, r, about)
  BY <1>1
<1>3. Events'[i].by = r /\ type = "alarm-deleted" /\ about = Events'[i].about
  BY <1>2 DEF Message
<1>4. i = Len(Events) + 1 /\ UNCHANGED <<request, definition>>
  BY EventFacts, StepTopic
<1>5. WhereOK(r) /\ local[r].alarms \subseteq Alarms
  BY HandlerTypes DEF TypeInv
<1>6. \/ pc[r] = "tellDeleted" /\ about = request[r].target /\ pc'[r] = "done"
      \/ pc[r] = "tellAlarms" /\ about \in local[r].alarms /\ pc'[r] = "done"
  BY <1>2, <1>3 DEF Speaks, Occasion
<1>7. pc[r] = "tellAlarms" => \A a \in local[r].alarms : DefinitionOf[a] = request[r].target
  BY DEF SenderInv, Entitled
<1> QED
  BY <1>3, <1>4, <1>5, <1>6, <1>7 DEF WhereOK

LEMMA ToldByMoves ==
    ASSUME TypeInv, SenderInv, [Next]_vars, NEW op, NEW a \in Alarms, ToldBy(op, a)', ~ ToldBy(op, a)
    PROVE  \E r \in Requests :
             /\ UNCHANGED <<request, definition>> /\ request[r].op = op /\ pc'[r] = "done"
             /\ \/ pc[r] = "tellDeleted" /\ op = "delete" /\ a = request[r].target
                \/ /\ pc[r] = "tellAlarms" /\ op = "deleteDefinition"
                   /\ DefinitionOf[a] = request[r].target
<1>1. PICK i \in 1..Len(Events') : /\ Events'[i].type = "alarm-deleted" /\ Events'[i].about = a
                                   /\ request'[Events'[i].by].op = op
  BY DEF ToldBy
<1>2. i \notin 1..Len(Events)
  BY <1>1, EventFacts DEF ToldBy
<1> QED
  BY <1>1, <1>2, NewlyTold

LEMMA ToldIsGone ==
    ASSUME TypeInv, SenderInv, EndInv, [Next]_vars, NEW op, NEW a \in Alarms, ToldBy(op, a)
    PROVE  Gone(a)
<1>1. PICK i \in 1..Len(Events) : Events[i].type = "alarm-deleted" /\ Events[i].about = a
  BY DEF ToldBy
<1>2. Events[i].by \in Requests
  BY <1>1, EventFacts
<1>3. Ended(Events[i].by, a)
  BY <1>1, <1>2 DEF Ended, Said
<1> QED
  BY <1>2, <1>3 DEF EndInv, EndedIsGone

\* With nothing new on the topic, nothing new has been told.
LEMMA NothingTold ==
    ASSUME UNCHANGED <<topic, request>>, NEW op, NEW a
    PROVE  ToldBy(op, a)' <=> ToldBy(op, a)
  BY DEF ToldBy, Events

LEMMA StepAlarmAnnouncer ==
    ASSUME TypeInv, SenderInv, EndInv, OneAnnouncer, [Next]_vars, NEW r \in Requests
    PROVE  AlarmAnnouncer(r)'
<1> SUFFICES ASSUME pc'[r] = "tellDeleted"
             PROVE  /\ \A a : a = request'[r].target => ~ ToldBy("delete", a)'
                    /\ \A s \in Requests :
                        pc'[s] = "tellDeleted" /\ request'[s].target = request'[r].target => s = r
  BY DEF AlarmAnnouncer, ToldBy
<1>1. CASE pc[r] = "tellDeleted"
  <2>1. request'[r] = request[r] /\ request[r].target \in Alarms
    BY <1>1, StepGoesOn DEF HandlersGoOn, TypeInv, WhereOK
  <2>2. ~ ToldBy("delete", request[r].target) /\ Gone(request[r].target)
        /\ \A s \in Requests :
                pc[s] = "tellDeleted" /\ request[s].target = request[r].target => s = r
    BY <1>1 DEF OneAnnouncer, AlarmAnnouncer, EndInv, TellersDeleted
  <2>3. ASSUME NEW a, a = request[r].target, ToldBy("delete", a)'
        PROVE  FALSE
    <3>1. PICK s \in Requests : pc'[s] = "done" /\ pc[s] = "tellDeleted" /\ a = request[s].target
      BY <2>1, <2>2, <2>3, ToldByMoves
    <3> QED
      BY <2>2, <2>3, <3>1
  <2>4. ASSUME NEW s \in Requests, pc'[s] = "tellDeleted", request'[s].target = request[r].target,
               s # r
        PROVE  FALSE
    <3>1. CASE pc[s] = "tellDeleted"
      <4>1. request'[s] = request[s]
        BY <3>1, StepGoesOn DEF HandlersGoOn
      <4> QED
        BY <2>2, <2>4, <3>1, <4>1
    <3>2. CASE pc[s] # "tellDeleted"
      <4>1. Acts(s)
        BY <2>4, <3>2, WhoActs, HandlerMoves DEF OnlyOne
      <4>2. Mine(s) /\ UNCHANGED request
        BY <2>4, <4>1, ComesToDelete
      <4> QED
        BY <2>2, <2>4, <4>2 DEF Mine, IsStored, Gone
    <3> QED
      BY <3>1, <3>2
  <2> QED
    BY <2>1, <2>3, <2>4
<1>2. CASE pc[r] # "tellDeleted"
  <2>1. Acts(r)
    BY <1>2, WhoActs, HandlerMoves DEF OnlyOne
  <2>2. Mine(r) /\ UNCHANGED <<request, topic>> /\ request[r].target \in Alarms
    BY <2>1, ComesToDelete
  <2>3. ~ Gone(request[r].target)
    BY <2>2 DEF Mine, IsStored, Gone
  <2>4. ~ ToldBy("delete", request[r].target)
    BY <2>2, <2>3, ToldIsGone
  <2>5. \A a : a = request[r].target => ~ ToldBy("delete", a)'
    BY <2>2, <2>4, NothingTold
  <2>6. ASSUME NEW s \in Requests, pc'[s] = "tellDeleted", request[s].target = request[r].target,
               s # r
        PROVE  FALSE
    <3>1. pc[s] = "tellDeleted"
      BY <2>1, <2>6, HandlerMoves DEF OnlyOne
    <3> QED
      BY <2>3, <2>6, <3>1 DEF EndInv, TellersDeleted
  <2> QED
    BY <2>2, <2>5, <2>6
<1> QED
  BY <1>1, <1>2

LEMMA StepDefinitionAnnouncer ==
    ASSUME TypeInv, SenderInv, EndInv, OneAnnouncer, ToldWithDefinition, [Next]_vars,
           NEW r \in Requests
    PROVE  DefinitionAnnouncer(r)'
<1> SUFFICES ASSUME AtDefinition(r)'
             PROVE  /\ \A a \in Alarms : DefinitionOf[a] = request'[r].target =>
                            ~ ToldBy("deleteDefinition", a)'
                    /\ \A s \in Requests :
                        AtDefinition(s)' /\ request'[s].target = request'[r].target => s = r
  BY DEF DefinitionAnnouncer
<1>1. CASE AtDefinition(r)
  <2>1. request'[r] = request[r]
    BY <1>1, StepGoesOn DEF HandlersGoOn, AtDefinition
  <2>2. /\ \A a \in Alarms : DefinitionOf[a] = request[r].target => ~ ToldBy("deleteDefinition", a)
        /\ definition[request[r].target] = "deleted"
        /\ \A s \in Requests : AtDefinition(s) /\ request[s].target = request[r].target => s = r
    BY <1>1 DEF OneAnnouncer, DefinitionAnnouncer, EndInv, TellersDeleted
  <2>3. ASSUME NEW a \in Alarms, DefinitionOf[a] = request[r].target,
               ToldBy("deleteDefinition", a)'
        PROVE  FALSE
    <3>1. ~ ToldBy("deleteDefinition", a)
      BY <2>2, <2>3
    <3>2. PICK s \in Requests : /\ pc'[s] = "done" /\ pc[s] = "tellAlarms"
                                /\ DefinitionOf[a] = request[s].target
      BY <2>3, <3>1, ToldByMoves
    <3>3. s = r
      BY <2>2, <2>3, <3>2 DEF AtDefinition
    <3> QED
      BY <3>2, <3>3 DEF AtDefinition
  <2>4. ASSUME NEW s \in Requests, AtDefinition(s)', request'[s].target = request[r].target, s # r
        PROVE  FALSE
    <3>1. CASE AtDefinition(s)
      <4>1. request'[s] = request[s]
        BY <3>1, StepGoesOn DEF HandlersGoOn, AtDefinition
      <4> QED
        BY <2>2, <2>4, <3>1, <4>1
    <3>2. CASE ~ AtDefinition(s)
      <4>1. Acts(s)
        BY <2>4, <3>2, WhoActs, HandlerMoves DEF OnlyOne, AtDefinition
      <4>2. definition[request[s].target] = "live" /\ UNCHANGED request
        BY <2>4, <3>2, <4>1, ComesToDelete
      <4> QED
        BY <2>2, <2>4, <4>2
    <3> QED
      BY <3>1, <3>2
  <2> QED
    BY <2>1, <2>3, <2>4
<1>2. CASE ~ AtDefinition(r)
  <2>1. Acts(r)
    BY <1>2, WhoActs, HandlerMoves DEF OnlyOne, AtDefinition
  <2>2. definition[request[r].target] = "live" /\ UNCHANGED <<request, topic>>
    BY <1>2, <2>1, ComesToDelete
  <2>3. \A a \in Alarms : DefinitionOf[a] = request[r].target => ~ ToldBy("deleteDefinition", a)'
    BY <2>2, NothingTold DEF ToldWithDefinition
  <2>4. ASSUME NEW s \in Requests, AtDefinition(s)', request[s].target = request[r].target, s # r
        PROVE  FALSE
    <3>1. AtDefinition(s)
      BY <2>1, <2>4, HandlerMoves DEF OnlyOne, AtDefinition
    <3> QED
      BY <2>2, <2>4, <3>1 DEF EndInv, TellersDeleted
  <2> QED
    BY <2>2, <2>3, <2>4
<1> QED
  BY <1>1, <1>2

LEMMA StepWithDefinition ==
    ASSUME TypeInv, SenderInv, EndInv, ToldWithDefinition, [Next]_vars
    PROVE  ToldWithDefinition'
<1> SUFFICES ASSUME NEW a \in Alarms, ToldBy("deleteDefinition", a)'
             PROVE  definition'[DefinitionOf[a]] = "deleted"
  BY DEF ToldWithDefinition
<1>1. CASE ToldBy("deleteDefinition", a)
  BY <1>1, StepGoesOn DEF ToldWithDefinition, RowsGoOn
<1>2. CASE ~ ToldBy("deleteDefinition", a)
  <2>1. PICK r \in Requests : /\ UNCHANGED definition /\ pc[r] = "tellAlarms"
                              /\ DefinitionOf[a] = request[r].target
    BY <1>2, ToldByMoves
  <2> QED
    BY <2>1 DEF EndInv, TellersDeleted, AtDefinition
<1> QED
  BY <1>1, <1>2

LEMMA StepToldOnce ==
    ASSUME TypeInv, SenderInv, OnceInv, [Next]_vars
    PROVE  ToldOnce'
<1> DEFINE Old(i) == i \in 1..Len(Events)
           Same(i, j) == /\ Events'[i].type = "alarm-deleted" /\ Events'[j].type = "alarm-deleted"
                         /\ Events'[i].about = Events'[j].about
                         /\ request'[Events'[i].by].op = request'[Events'[j].by].op
<1> SUFFICES ASSUME NEW i \in 1..Len(Events'), NEW j \in 1..Len(Events'), Same(i, j)
             PROVE  i = j
  BY DEF ToldOnce
<1>1. CASE Old(i) /\ Old(j)
  BY <1>1, EventFacts DEF OnceInv, ToldOnce
<1>2. ASSUME NEW k \in 1..Len(Events'), NEW l \in 1..Len(Events'), Same(k, l), Old(k), ~ Old(l)
      PROVE  FALSE
  <2> DEFINE a == Events'[l].about
  <2>1. PICK r \in Requests :
             /\ Events'[l].by = r /\ UNCHANGED request /\ a \in Alarms
             /\ \/ pc[r] = "tellDeleted" /\ request[r].op = "delete" /\ a = request[r].target
                \/ /\ pc[r] = "tellAlarms" /\ request[r].op = "deleteDefinition"
                   /\ DefinitionOf[a] = request[r].target
    BY <1>2, NewlyTold
  <2>2. ToldBy(request[r].op, a)
    BY <1>2, <2>1, EventFacts DEF ToldBy
  <2> QED
    BY <2>1, <2>2 DEF OnceInv, OneAnnouncer, AlarmAnnouncer, DefinitionAnnouncer, AtDefinition
<1>3. CASE ~ Old(i) /\ ~ Old(j)
  BY <1>3, NewlyTold
<1> QED
  BY <1>1, <1>2, <1>3

LEMMA StepOnce == TypeInv /\ SenderInv /\ EndInv /\ OnceInv /\ [Next]_vars => OnceInv'
  BY StepAlarmAnnouncer, StepDefinitionAnnouncer, StepWithDefinition, StepToldOnce
     DEF OnceInv, OneAnnouncer

\* Of the requests that delete an alarm one announces it; a deletion of its
\* definition may do so again, if it was under way at the same time.
THEOREM AlarmAnnouncedOnce == Spec => []AlarmDeletionAnnouncedOnce
<1>1. Init => OnceInv
  <2> SUFFICES ASSUME Init PROVE OnceInv
    OBVIOUS
  <2>1. Len(Events) = 0
    BY DEF Init, Events, Topics
  <2>2. \A op, a : ~ ToldBy(op, a)
    BY <2>1 DEF ToldBy
  <2>3. \A r \in Requests : pc[r] = "idle"
    BY DEF Init
  <2> QED
    BY <2>1, <2>2, <2>3 DEF OnceInv, OneAnnouncer, AlarmAnnouncer, DefinitionAnnouncer,
       AtDefinition, ToldWithDefinition, ToldOnce
<1>2. TypeInv /\ EndInv /\ OnceInv => AlarmDeletionAnnouncedOnce
  <2> SUFFICES ASSUME TypeInv, EndInv, OnceInv,
                      NEW i \in DOMAIN Events, NEW j \in DOMAIN Events, i # j,
                      Events[i].type = "alarm-deleted", Events[j].type = "alarm-deleted",
                      Events[i].about = Events[j].about
               PROVE  /\ request[Events[i].by].op # request[Events[j].by].op
                      /\ ~ Apart(Events[i].by, Events[j].by)
    BY DEF AlarmDeletionAnnouncedOnce
  <2>1. "events" \in Topics /\ Events \in Seq(Messages)
    BY DEF TypeInv, TopicOK, Events, Topics
  <2>2. /\ i \in 1..Len(Events) /\ j \in 1..Len(Events)
        /\ Events[i] \in Messages /\ Events[j] \in Messages
    BY <2>1
  <2>3. /\ Events[i].by \in Requests /\ Events[j].by \in Requests
        /\ Events[i].about \in Alarms
    BY <2>2 DEF Messages
  <2>4. /\ Ended(Events[i].by, Events[i].about) /\ Ended(Events[j].by, Events[i].about)
        /\ ~ Quiet(Events[i].by, Events[i].about) /\ ~ Quiet(Events[j].by, Events[i].about)
    BY <2>1, <2>2 DEF Ended, Said, Quiet, Events
  <2>5. ~ Apart(Events[i].by, Events[j].by)
    BY <2>3, <2>4 DEF EndInv, QuietAfter, Apart
  <2> QED
    BY <2>2, <2>5 DEF OnceInv, ToldOnce
<1> QED
  BY <1>1, <1>2, Typed, Senders, Ends, StepOnce, PTL DEF Spec


------------------------------------------------------------------------------
(* The transitions of an alarm that no two requests update at a time, and   *)
(* the engine not at all.                                                   *)

\* The last transition that was announced of an alarm.
Last(i, a) ==
    /\ i \in 1..Len(Transitions) /\ Transitions[i].about = a
    /\ \A k \in 1..Len(Transitions) : i < k => Transitions[k].about # a

\* Request r has set the state of the alarm, or may have, and it does not say so
\* in a transition yet, or never will.
Pending(r, a) ==
    /\ Updates(r, a)
    /\ \/ pc[r] = "tellUpdated" /\ Changes(r)
       \/ pc[r] \in {"readAgain", "tellTransition"}
       \/ pc[r] = "show" /\ Gone(a)
       \/ pc[r] = "done" /\ answer[r] # 200
       \/ pc[r] = "crashed"

\* Request r has set the state, and goes on to say so.
Telling(r, a) ==
    /\ Updates(r, a)
    /\ \/ pc[r] = "tellUpdated" /\ Changes(r) /\ ~ Gone(a)
       \/ pc[r] = "readAgain" /\ ~ Gone(a)
       \/ pc[r] = "tellTransition"

LastIsState(a) ==
    \A i \in 1..Len(Transitions) : Last(i, a) =>
        Transitions[i].new = alarm[a].state \/ \E r \in Requests : Pending(r, a)
ReadsState(a) ==
    \A r \in Requests : Updates(r, a) /\ pc[r] = "update" => local[r].old = alarm[a].state
TellsState(a) ==
    \A r \in Requests : Telling(r, a) =>
        /\ alarm[a].state = request[r].state
        /\ \A i \in 1..Len(Transitions) : Last(i, a) => Transitions[i].new = local[r].old
Linked(a) ==
    \A i, j \in 1..Len(Transitions) :
        /\ i < j /\ Transitions[i].about = a /\ Transitions[j].about = a
        /\ \A k \in (i + 1)..(j - 1) : Transitions[k].about # a
        => Transitions[j].old = Transitions[i].new

Chained(a) == LastIsState(a) /\ ReadsState(a) /\ TellsState(a) /\ Linked(a)
ChainInv == \A a \in Alarms \ engineSet : OneAfterTheOther(a) => Chained(a)

LEMMA InitChain == Init => ChainInv
<1> SUFFICES ASSUME Init, NEW a \in Alarms PROVE Chained(a)
  BY DEF ChainInv
<1>1. Len(Transitions) = 0
  BY DEF Init, Transitions, Topics
<1>2. \A r \in Requests : pc[r] = "idle"
  BY DEF Init
<1> QED
  BY <1>1, <1>2 DEF Chained, LastIsState, ReadsState, TellsState, Linked, Telling

\* Requests that come one after the other have always done so.
LEMMA WereOneAfterTheOther ==
    ASSUME TypeInv, SenderInv, [Next]_vars, NEW a \in Alarms, OneAfterTheOther(a)'
    PROVE  OneAfterTheOther(a)
<1> SUFFICES ASSUME NEW r \in Requests, NEW s \in Requests, Updates(r, a), Updates(s, a), r # s
             PROVE  Apart(r, s) /\ (r \in request[s].after => answer[r] = 200)
  BY DEF OneAfterTheOther
<1>1. pc[r] # "idle" /\ pc[s] # "idle"
  BY DEF TypeInv, WhereOK, NoRequest, Updates
<1>2. request'[r] = request[r] /\ request'[s] = request[s]
  BY <1>1, StepGoesOn DEF HandlersGoOn
<1>3. Apart(r, s) /\ (r \in request[s].after => answer'[r] = 200)
  BY <1>2 DEF OneAfterTheOther, Updates, Apart
<1>4. r \in request[s].after => answer'[r] = answer[r]
  BY StepGoesOn DEF HandlersGoOn, SenderInv, AfterIsDone
<1> QED
  BY <1>3, <1>4

\* While one of them is under way, the others have succeeded.
LEMMA OnlyUpdate ==
    ASSUME TypeInv, SenderInv, NEW a \in Alarms, OneAfterTheOther(a), NEW r \in Requests,
           Updates(r, a), pc[r] # "done", NEW s \in Requests, Updates(s, a), s # r
    PROVE  pc[s] = "done" /\ answer[s] = 200
<1>1. Apart(r, s) /\ (s \in request[r].after => answer[s] = 200)
  BY DEF OneAfterTheOther
<1>2. r \notin request[s].after
  BY DEF SenderInv, AfterIsDone
<1> QED
  BY <1>1, <1>2 DEF Apart, SenderInv, AfterIsDone

LEMMA TransitionFacts ==
    ASSUME TypeInv, [Next]_vars
    PROVE  /\ "alarm-state-transitions" \in Topics
           /\ Transitions = topic["alarm-state-transitions"]
           /\ Transitions' = topic'["alarm-state-transitions"]
           /\ Len(Transitions) \in Nat /\ Len(Transitions') \in Nat
           /\ \A i \in 1..Len(Transitions) :
                i \in 1..Len(Transitions') /\ Transitions'[i] = Transitions[i]
  BY StepTopic DEF Topics, Transitions

\* A new transition, and by whom it is announced.
LEMMA NewTransition ==
    ASSUME TypeInv, [Next]_vars, NEW i \in 1..Len(Transitions'), i \notin 1..Len(Transitions)
    PROVE  \E r \in Requests :
             /\ i = Len(Transitions) + 1 /\ UNCHANGED <<alarm, request, local>>
             /\ Acts(r) /\ pc[r] = "tellTransition" /\ pc'[r] \in {"show", "done"}
             /\ request[r].op = "update" /\ request[r].target = Transitions'[i].about
             /\ Transitions'[i].old = local[r].old /\ Transitions'[i].new = request[r].state
<1> DEFINE t == "alarm-state-transitions"
<1>1. PICK r \in Requests : \E type, about :
          Speaks(r, t, type, about) /\ Transitions'[i] = Message(type, r, about)
  BY TransitionFacts, StepTopic
<1>2. PICK type, about : Speaks(r, t, type, about) /\ Transitions'[i] = Message(type, r, about)
  BY <1>1
<1>3. i = Len(Transitions) + 1 /\ UNCHANGED <<alarm, request, local>>
  BY TransitionFacts, StepTopic
<1>4. /\ pc[r] = "tellTransition" /\ pc'[r] \in {"show", "done"}
      /\ about = request[r].target
  BY <1>2 DEF Speaks, Occasion
<1>5. /\ about = Transitions'[i].about
      /\ Transitions'[i].old = local[r].old /\ Transitions'[i].new = request[r].state
  BY <1>2 DEF Message
<1>6. Acts(r)
  BY <1>4, WhoActs, HandlerMoves DEF OnlyOne
<1>7. request[r].op = "update"
  BY <1>4 DEF TypeInv, WhereOK, Updating
<1> QED
  BY <1>3, <1>4, <1>5, <1>6, <1>7


\* A request updates an alarm before and after a step, or comes in with it.
LEMMA UpdatesMove ==
    ASSUME TypeInv, [Next]_vars, NEW a \in Alarms, NEW s \in Requests
    PROVE  /\ Updates(s, a) => pc[s] # "idle" /\ Updates(s, a)' /\ request'[s] = request[s]
           /\ Updates(s, a)' /\ ~ Updates(s, a) =>
                pc[s] = "idle" /\ pc'[s] \in {"readMetrics", "readAlarms", "done"}
<1>1. Updates(s, a) => pc[s] # "idle"
  BY DEF TypeInv, WhereOK, NoRequest, Updates
<1>2. pc[s] # "idle" => request'[s] = request[s]
  BY StepGoesOn DEF HandlersGoOn
<1>3. ASSUME Updates(s, a)', ~ Updates(s, a)
      PROVE  pc[s] = "idle" /\ pc'[s] \in {"readMetrics", "readAlarms", "done"}
  <2>1. request'[s] # request[s]
    BY <1>3 DEF Updates
  <2>2. Acts(s)
    BY <2>1, WhoActs, HandlerMoves DEF OnlyOne
  <2> QED
    BY <1>2, <2>1, <2>2, HandlerMoves
<1> QED
  BY <1>1, <1>2, <1>3 DEF Updates

\* Where a handler that updates an alarm goes from each place: the tables of
\* update_alarm decide.
LEMMA UpdateMoves ==
    ASSUME TypeInv, SenderInv, [Next]_vars, NEW r \in Requests, Acts(r),
           request[r].op = "update", pc[r] # "idle"
    PROVE  LET a == request[r].target IN
           /\ a \in Alarms
           /\ pc'[r] = "update" =>
                local'[r].old = alarm[a].state /\ UNCHANGED alarm
           /\ pc'[r] = "tellUpdated" => UpdateState(r)
           /\ pc'[r] = "readAgain" => pc[r] = "tellUpdated" /\ Changes(r) /\ Changes(r)'
           /\ pc'[r] = "tellTransition" => pc[r] = "readAgain" /\ ~ Gone(a)
           /\ pc[r] = "tellUpdated" /\ Changes(r) =>
                pc'[r] \in {"readAgain", "crashed"} \/ (pc'[r] = "done" /\ answer'[r] # 200)
           /\ pc[r] = "readAgain" =>
                \/ pc'[r] \in {"tellTransition", "crashed"}
                \/ pc'[r] = "show" /\ Gone(a)
                \/ pc'[r] = "done" /\ answer'[r] # 200
           /\ pc[r] = "tellTransition" =>
                \/ pc'[r] = "crashed" \/ (pc'[r] = "done" /\ answer'[r] # 200)
                \/ pc'[r] = "show" /\ Len(Transitions') = Len(Transitions) + 1
           /\ pc[r] = "show" /\ Gone(a) =>
                pc'[r] = "crashed" \/ (pc'[r] = "done" /\ answer'[r] # 200)
<1> DEFINE a == request[r].target
<1> USE HandlerTypes
<1>1. WhereOK(r) /\ a \in Alarms
  BY DEF TypeInv, WhereOK
<1>2. alarm[a].stage \in {"stored", "gone"}
  BY <1>1 DEF TypeInv, TablesOK
<1>3. pc[r] \in SpeaksOfTarget /\ pc[r] # "tellDeleted" => (Mine(r) <=> ~ Gone(a))
  BY <1>1, <1>2 DEF SpeaksOfTarget, SenderInv, Entitled, Own, Mine, IsStored, Gone
<1>4. local \in [Requests -> [alarms : SUBSET Alarms, old : States \cup {None}]]
  BY DEF TypeInv, LocalOK
<1>5. CASE ReadMetrics(r)
  BY <1>1, <1>5 DEF ReadMetrics, Go
<1>6. CASE SelectState(r)
  <2>1. pc[r] = "select" /\ UNCHANGED alarm /\ pc'[r] \in {"update", "done"}
    BY <1>6 DEF SelectState, Go, Reply
  <2>2. pc'[r] = "update" => local'[r].old = alarm[a].state
    <3>1. CASE Mine(r)
      BY <1>4, <1>6, <3>1 DEF SelectState
    <3>2. CASE ~ Mine(r)
      BY <1>6, <3>2 DEF SelectState, Reply
    <3> QED
      BY <3>1, <3>2
  <2> QED
    BY <1>1, <2>1, <2>2
<1>7. CASE UpdateState(r)
  BY <1>1, <1>7 DEF UpdateState, Go
<1>8. CASE ReadDefinitionAgain(r)
  BY <1>1, <1>3, <1>8 DEF ReadDefinitionAgain, Go, SpeaksOfTarget
<1>9. CASE ShowAlarm(r)
  BY <1>1, <1>3, <1>9 DEF ShowAlarm, Reply, SpeaksOfTarget
<1>10. CASE Tells(r)
  <2>1. pc[r] \in {"tellUpdated", "tellTransition"} /\ UNCHANGED <<request, local>>
    BY <1>1, <1>10, TellsSpeaks DEF Tells, TellUpdated, TellTransition, TellDeleted,
       TellDefinitionDeleted, TellAlarmsDeleted, WhereOK
  <2>2. CASE Silent(r)
    BY <1>1, <2>1, <2>2 DEF Silent, Reply
  <2>3. CASE \E t \in Topics : \E type, about : Speaks(r, t, type, about)
    <3>1. PICK t \in Topics : \E type, about : Speaks(r, t, type, about)
      BY <2>3
    <3>2. PICK type, about : Speaks(r, t, type, about)
      BY <3>1
    <3>3. pc[r] = "tellTransition" => Len(Transitions') = Len(Transitions) + 1
      <4> SUFFICES ASSUME pc[r] = "tellTransition"
                   PROVE  Len(Transitions') = Len(Transitions) + 1
        OBVIOUS
      <4>1. t = "alarm-state-transitions" /\ Message(type, r, about) \in Messages
        BY SMTT(20), <3>2, SaysAMessage DEF Speaks, Occasion
      <4>2. topic[t] \in Seq(Messages) /\ DOMAIN topic = Topics
        BY DEF TypeInv, TopicOK
      <4>3. Transitions' = Append(Transitions, Message(type, r, about))
        BY <3>2, <4>1, <4>2 DEF Speaks, Transitions
      <4> QED
        BY <4>1, <4>2, <4>3 DEF Transitions
    <3> QED
      BY <1>1, <2>1, <3>2, <3>3 DEF Speaks, Occasion, Changes
  <2> QED
    BY <1>10, <2>2, <2>3, TellsSpeaks
<1>11. CASE DatabaseFails(r) \/ Crash(r)
  BY <1>1, <1>11 DEF DatabaseFails, Crash, Go, Reply, InDatabase
<1>12. ~ (DeleteAlarm(r) \/ ReadAlarms(r) \/ SoftDelete(r) \/ Receive(r))
  BY <1>1 DEF DeleteAlarm, ReadAlarms, SoftDelete, Receive, ReceiveUpdate, ReceiveDelete,
     ReceiveDeleteDefinition, Accept, WhereOK
<1> QED
  BY <1>5, <1>6, <1>7, <1>8, <1>9, <1>10, <1>11, <1>12 DEF Acts, Handle, Tells


\* A step that neither sets the state of the alarm nor announces a transition.
LEMMA QuietChain ==
    ASSUME TypeInv, SenderInv, [Next]_vars, NEW a \in Alarms, Chained(a),
           alarm'[a].state = alarm[a].state,
           \A i \in 1..Len(Transitions') : i \notin 1..Len(Transitions) =>
                Transitions'[i].about # a,
           \A r \in Requests : UpdateState(r) => ~ Updates(r, a)
    PROVE  Chained(a)'
<1>1. \A i : /\ Last(i, a)' <=> Last(i, a)
             /\ Last(i, a) => Transitions'[i] = Transitions[i]
  BY TransitionFacts DEF Last
<1>2. Gone(a) => Gone(a)'
  BY StepGoesOn DEF RowsGoOn
<1>3. \A s \in Requests : ~ Acts(s) => pc'[s] = pc[s] /\ answer'[s] = answer[s] /\ local'[s] = local[s]
  BY WhoActs, HandlerMoves DEF OnlyOne
<1>4. ASSUME NEW s \in Requests, Pending(s, a)
      PROVE  Pending(s, a)'
  <2>1. Updates(s, a)' /\ pc[s] # "idle" /\ request'[s] = request[s]
    BY <1>4, UpdatesMove DEF Pending
  <2>2. CASE ~ Acts(s)
    BY <1>2, <1>3, <1>4, <2>1, <2>2 DEF Pending, Changes
  <2>3. CASE Acts(s)
    <3>1. request[s].op = "update" /\ request[s].target = a
      BY <1>4 DEF Pending, Updates
    <3>2. pc[s] \notin {"done", "crashed"}
      BY <2>3, HandlerMoves
    <3>3. pc[s] = "tellTransition" => Len(Transitions') # Len(Transitions) + 1
      <4> SUFFICES ASSUME pc[s] = "tellTransition", Len(Transitions') = Len(Transitions) + 1
                   PROVE  FALSE
        OBVIOUS
      <4> DEFINE i == Len(Transitions) + 1
      <4>1. i \in 1..Len(Transitions') /\ i \notin 1..Len(Transitions)
        BY TransitionFacts
      <4>2. PICK r \in Requests : /\ Acts(r) /\ pc[r] = "tellTransition"
                                  /\ pc'[r] \in {"show", "done"}
                                  /\ request[r].target = Transitions'[i].about
        BY <4>1, NewTransition
      <4>3. r = s
        BY <2>3, <4>2, HandlerMoves DEF OnlyOne
      <4> QED
        BY <3>1, <4>1, <4>2, <4>3
    <3> QED
      BY <1>2, <1>4, <2>1, <2>3, <3>1, <3>2, <3>3, UpdateMoves DEF Pending
  <2> QED
    BY <2>2, <2>3
<1>5. ASSUME NEW s \in Requests, Telling(s, a)'
      PROVE  Telling(s, a) /\ request'[s] = request[s] /\ local'[s] = local[s]
  <2>1. Updates(s, a) /\ pc[s] # "idle" /\ request'[s] = request[s]
    BY <1>5, UpdatesMove DEF Telling
  <2>2. CASE ~ Acts(s)
    BY <1>2, <1>3, <1>5, <2>1, <2>2 DEF Telling, Changes
  <2>3. CASE Acts(s)
    <3>1. request[s].op = "update" /\ request[s].target = a
      BY <2>1 DEF Updates
    <3>2. pc'[s] # "tellUpdated"
      BY <2>1, <2>3, <3>1, UpdateMoves
    <3>3. Telling(s, a) /\ pc[s] \in {"tellUpdated", "readAgain"}
      BY <1>2, <1>5, <2>1, <2>3, <3>1, <3>2, UpdateMoves DEF Telling
    <3> QED
      BY <2>1, <3>3, StepGoesOn DEF HandlersGoOn
  <2> QED
    BY <2>2, <2>3
<1>6. LastIsState(a)'
  <2> SUFFICES ASSUME NEW i \in 1..Len(Transitions'), Last(i, a)'
               PROVE  Transitions'[i].new = alarm'[a].state
                      \/ \E r \in Requests : Pending(r, a)'
    BY DEF LastIsState
  <2>1. Last(i, a) /\ Transitions'[i] = Transitions[i] /\ i \in 1..Len(Transitions)
    BY <1>1 DEF Last
  <2> QED
    BY <1>4, <2>1 DEF Chained, LastIsState
<1>7. ReadsState(a)'
  <2> SUFFICES ASSUME NEW s \in Requests, Updates(s, a)', pc'[s] = "update"
               PROVE  local'[s].old = alarm'[a].state
    BY DEF ReadsState
  <2>1. Updates(s, a) /\ pc[s] # "idle"
    BY UpdatesMove
  <2>2. CASE ~ Acts(s)
    BY <1>3, <2>1, <2>2 DEF Chained, ReadsState
  <2>3. CASE Acts(s)
    BY <2>1, <2>3, UpdateMoves DEF Updates
  <2> QED
    BY <2>2, <2>3
<1>8. TellsState(a)'
  <2> SUFFICES ASSUME NEW s \in Requests, Telling(s, a)'
               PROVE  /\ alarm'[a].state = request'[s].state
                      /\ \A i \in 1..Len(Transitions') :
                            Last(i, a)' => Transitions'[i].new = local'[s].old
    BY DEF TellsState
  <2>1. Telling(s, a) /\ request'[s] = request[s] /\ local'[s] = local[s]
    BY <1>5
  <2>2. alarm[a].state = request[s].state
        /\ \A i : Last(i, a) => Transitions[i].new = local[s].old
    BY <2>1 DEF Chained, TellsState, Last
  <2> QED
    BY <1>1, <2>1, <2>2
<1>9. Linked(a)'
  <2> SUFFICES ASSUME NEW i \in 1..Len(Transitions'), NEW j \in 1..Len(Transitions'), i < j,
                      Transitions'[i].about = a, Transitions'[j].about = a,
                      \A k \in (i + 1)..(j - 1) : Transitions'[k].about # a
               PROVE  Transitions'[j].old = Transitions'[i].new
    BY DEF Linked
  <2>1. i \in 1..Len(Transitions) /\ j \in 1..Len(Transitions)
    OBVIOUS
  <2>2. \A k \in (i + 1)..(j - 1) : k \in 1..Len(Transitions)
    BY <2>1, TransitionFacts
  <2>3. Transitions'[i] = Transitions[i] /\ Transitions'[j] = Transitions[j]
        /\ \A k \in (i + 1)..(j - 1) : Transitions'[k] = Transitions[k]
    BY <2>1, <2>2, TransitionFacts
  <2> QED
    BY <2>1, <2>3 DEF Chained, Linked
<1> QED
  BY <1>6, <1>7, <1>8, <1>9 DEF Chained


\* The step of update_alarm that sets the state.
LEMMA UpdateChain ==
    ASSUME TypeInv, SenderInv, [Next]_vars, NEW a \in Alarms, OneAfterTheOther(a), Chained(a),
           NEW r \in Requests, UpdateState(r), Updates(r, a)
    PROVE  Chained(a)'
<1>1. /\ pc[r] = "update" /\ pc'[r] = "tellUpdated"
      /\ UNCHANGED <<topic, request, local>>
  BY HandlerTypes DEF UpdateState, Go
<1>2. Acts(r) /\ OnlyOne(r)
  BY HandlerMoves DEF Acts, Handle
<1>3. \A s \in Requests : s # r /\ Updates(s, a) => pc[s] = "done" /\ answer[s] = 200
  BY <1>1, OnlyUpdate
<1>4. /\ Transitions' = Transitions
      /\ \A s \in Requests : Updates(s, a)' <=> Updates(s, a)
      /\ \A i : Last(i, a)' <=> Last(i, a)
      /\ Changes(r)' <=> Changes(r)
  BY <1>1 DEF Transitions, Updates, Last, Changes
<1>5. \A s \in Requests : s # r /\ Updates(s, a)' => pc'[s] = "done"
  BY <1>2, <1>3, <1>4 DEF OnlyOne
<1>6. \A s \in Requests : ~ Pending(s, a)
  BY <1>1, <1>3 DEF Pending
<1>7. local[r].old = alarm[a].state
      /\ \A i \in 1..Len(Transitions) : Last(i, a) => Transitions[i].new = local[r].old
  BY <1>1, <1>6 DEF Chained, LastIsState, ReadsState
<1>8. /\ ~ (Mine(r) /\ Changes(r)) => alarm' = alarm
      /\ Mine(r) /\ Changes(r) => alarm'[a].state = request[r].state
  BY DEF UpdateState, Changes, NewState, Updates, TypeInv, TablesOK
<1>9. ~ Mine(r) => Gone(a)
  <2>1. Own(r) /\ request[r].op = "update" /\ request[r].target = a
    BY <1>1 DEF SenderInv, Entitled, Updates
  <2>2. ~ Mine(r) => alarm[a].stage # "stored"
    BY <2>1 DEF Own, Mine, IsStored
  <2> QED
    BY <2>2 DEF TypeInv, TablesOK, Gone
<1>10. LastIsState(a)'
  <2>1. CASE Mine(r) /\ Changes(r)
    <3>1. Pending(r, a)'
      BY <1>1, <1>4, <2>1 DEF Pending
    <3> QED
      BY <3>1 DEF LastIsState
  <2>2. CASE ~ (Mine(r) /\ Changes(r))
    BY <1>4, <1>7, <1>8, <2>2 DEF LastIsState
  <2> QED
    BY <2>1, <2>2
<1>11. ReadsState(a)'
  BY <1>1, <1>5 DEF ReadsState
<1>12. TellsState(a)'
  <2> SUFFICES ASSUME NEW s \in Requests, Telling(s, a)'
               PROVE  /\ alarm'[a].state = request'[s].state
                      /\ \A i \in 1..Len(Transitions') :
                            Last(i, a)' => Transitions'[i].new = local'[s].old
    BY DEF TellsState
  <2>1. s = r
    BY <1>5 DEF Telling
  <2>2. Changes(r) /\ ~ Gone(a)'
    BY <1>1, <1>4, <2>1 DEF Telling
  <2>3. Mine(r)
    BY <1>9, <2>2, StepGoesOn DEF RowsGoOn
  <2> QED
    BY <1>1, <1>4, <1>7, <1>8, <2>1, <2>2, <2>3
<1>13. Linked(a)'
  BY <1>4 DEF Chained, Linked
<1> QED
  BY <1>10, <1>11, <1>12, <1>13 DEF Chained

\* The step that announces a transition of the alarm.
LEMMA TransitionChain ==
    ASSUME TypeInv, SenderInv, [Next]_vars, NEW a \in Alarms, OneAfterTheOther(a), Chained(a),
           NEW n \in 1..Len(Transitions'), n \notin 1..Len(Transitions),
           Transitions'[n].about = a
    PROVE  Chained(a)'
<1>1. PICK r \in Requests :
             /\ n = Len(Transitions) + 1 /\ UNCHANGED <<alarm, request, local>>
             /\ Acts(r) /\ pc[r] = "tellTransition" /\ pc'[r] \in {"show", "done"}
             /\ request[r].op = "update" /\ request[r].target = a
             /\ Transitions'[n].old = local[r].old /\ Transitions'[n].new = request[r].state
  BY NewTransition
<1>2. Updates(r, a) /\ OnlyOne(r)
  BY <1>1, HandlerMoves DEF Updates
<1>3. \A s \in Requests : s # r /\ Updates(s, a)' => pc'[s] = "done"
  <2>1. \A s \in Requests : Updates(s, a)' <=> Updates(s, a)
    BY <1>1 DEF Updates
  <2> QED
    BY <1>1, <1>2, <2>1, OnlyUpdate DEF OnlyOne
<1>4. /\ alarm[a].state = request[r].state
      /\ \A i \in 1..Len(Transitions) : Last(i, a) => Transitions[i].new = local[r].old
  BY <1>1, <1>2 DEF Chained, TellsState, Telling
<1>5. \A i : Last(i, a)' => i = n
  <2> SUFFICES ASSUME NEW i, Last(i, a)' PROVE i = n
    OBVIOUS
  <2>1. i \in 1..Len(Transitions') /\ ~ (i < n)
    BY DEF Last
  <2>2. i \in 1..Len(Transitions) => i < n
    BY <1>1, TransitionFacts
  <2>3. i \in 1..Len(Transitions) \/ i = n
    BY <1>1, <2>1, NewTransition
  <2> QED
    BY <2>1, <2>2, <2>3
<1>6. LastIsState(a)'
  BY <1>1, <1>4, <1>5 DEF LastIsState
<1>7. ReadsState(a)'
  BY <1>1, <1>3 DEF ReadsState
<1>8. TellsState(a)'
  BY <1>1, <1>3 DEF TellsState, Telling
<1>9. Linked(a)'
  <2> SUFFICES ASSUME NEW i \in 1..Len(Transitions'), NEW j \in 1..Len(Transitions'), i < j,
                      Transitions'[i].about = a, Transitions'[j].about = a,
                      \A k \in (i + 1)..(j - 1) : Transitions'[k].about # a
               PROVE  Transitions'[j].old = Transitions'[i].new
    BY DEF Linked
  <2>1. \A k \in 1..Len(Transitions') : k \in 1..Len(Transitions) \/ k = n
    BY <1>1, NewTransition
  <2>2. i \in 1..Len(Transitions) /\ Transitions'[i] = Transitions[i]
    BY <1>1, <2>1, TransitionFacts
  <2>3. \A k \in (i + 1)..(j - 1) :
            k \in 1..Len(Transitions) /\ Transitions'[k] = Transitions[k]
    BY <1>1, <2>1, TransitionFacts
  <2>4. CASE j = n
    <3>1. Last(i, a)
      <4>1. \A k \in 1..Len(Transitions) : i < k => k \in (i + 1)..(j - 1)
        BY <1>1, <2>4, TransitionFacts
      <4> QED
        BY <2>2, <2>3, <4>1 DEF Last
    <3> QED
      BY <1>1, <1>4, <2>2, <2>4, <3>1
  <2>5. CASE j # n
    <3>1. j \in 1..Len(Transitions) /\ Transitions'[j] = Transitions[j]
      BY <2>1, <2>5, TransitionFacts
    <3> QED
      BY SMTT(20), <2>2, <2>3, <3>1 DEF Chained, Linked
  <2> QED
    BY <2>4, <2>5
<1> QED
  BY <1>6, <1>7, <1>8, <1>9 DEF Chained

\* Only the engine and the updates of an alarm set its state.
LEMMA WhoSetsState ==
    ASSUME TypeInv, [Next]_vars, NEW a \in Alarms, alarm'[a].state # alarm[a].state
    PROVE  a \in engineSet' \/ \E r \in Requests : UpdateState(r) /\ Updates(r, a)
<1>1. CASE \E b \in Alarms, state \in States : EngineSetsState(b, state)
  <2>1. PICK b \in Alarms, state \in States : EngineSetsState(b, state)
    BY <1>1
  <2>2. a = b
    BY <2>1 DEF EngineSetsState, TypeInv, TablesOK
  <2> QED
    BY <2>1, <2>2 DEF EngineSetsState
<1>2. CASE \E r \in Requests : Acts(r)
  <2>1. PICK r \in Requests : Acts(r)
    BY <1>2
  <2>2. ~ Receive(r) /\ ~ Tells(r)
    <3>1. Tells(r) => UNCHANGED alarm
      BY TellsSpeaks
    <3> QED
      BY <3>1 DEF Receive, ReceiveUpdate, ReceiveDelete, ReceiveDeleteDefinition, Accept
  <2>3. UpdateState(r) \/ DeleteAlarm(r) \/ SoftDelete(r)
    BY <2>1, <2>2 DEF Acts, Handle, Tells, ReadMetrics, SelectState, ReadDefinitionAgain,
       ShowAlarm, ReadAlarms, DatabaseFails, Crash
  <2>4. ~ DeleteAlarm(r)
    BY DEF DeleteAlarm, TypeInv, TablesOK
  <2>5. ~ SoftDelete(r)
    BY DEF SoftDelete, TypeInv, TablesOK
  <2>6. UpdateState(r) => Updates(r, a)
    <3> SUFFICES ASSUME UpdateState(r) PROVE Updates(r, a)
      OBVIOUS
    <3>1. request[r].target = a
      BY DEF UpdateState, TypeInv, TablesOK
    <3>2. request[r].op = "update"
      BY DEF UpdateState, TypeInv, WhereOK, Updating
    <3> QED
      BY <3>1, <3>2 DEF Updates
  <2> QED
    BY <2>3, <2>4, <2>5, <2>6
<1> QED
  BY <1>1, <1>2, WhoActs

LEMMA StepChain == TypeInv /\ SenderInv /\ ChainInv /\ [Next]_vars => ChainInv'
<1> SUFFICES ASSUME TypeInv, SenderInv, ChainInv, [Next]_vars,
                    NEW a \in Alarms, a \notin engineSet', OneAfterTheOther(a)'
             PROVE  Chained(a)'
  BY DEF ChainInv
<1>1. a \notin engineSet
  <2>1. engineSet \subseteq engineSet'
    BY WhoActs DEF EngineSetsState
  <2> QED
    BY <2>1
<1>2. OneAfterTheOther(a) /\ Chained(a)
  BY <1>1, WereOneAfterTheOther DEF ChainInv
<1>3. CASE \E r \in Requests : UpdateState(r) /\ Updates(r, a)
  BY <1>2, <1>3, UpdateChain
<1>4. CASE \E n \in 1..Len(Transitions') :
                n \notin 1..Len(Transitions) /\ Transitions'[n].about = a
  BY <1>2, <1>4, TransitionChain
<1>5. CASE /\ ~ \E r \in Requests : UpdateState(r) /\ Updates(r, a)
           /\ ~ \E n \in 1..Len(Transitions') :
                n \notin 1..Len(Transitions) /\ Transitions'[n].about = a
  <2>1. alarm'[a].state = alarm[a].state
    BY <1>5, WhoSetsState
  <2> QED
    BY <1>2, <1>5, <2>1, QuietChain
<1> QED
  BY <1>3, <1>4, <1>5

\* Where the engine has not set the state of an alarm, and the requests that
\* update it come one after the other and succeed, each transition starts in the
\* state where the one before has ended.
THEOREM TransitionsFollow == Spec => []TransitionsChain
<1>1. TypeInv /\ ChainInv => TransitionsChain
  <2>1. TypeInv => DOMAIN Transitions = 1..Len(Transitions)
    BY DEF TypeInv, TopicOK, Transitions, Topics
  <2> QED
    BY <2>1 DEF ChainInv, Chained, Linked, TransitionsChain
<1> QED
  BY <1>1, Typed, Senders, InitChain, StepChain, PTL DEF Spec

==============================================================================
