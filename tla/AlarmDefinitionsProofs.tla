------------------------ MODULE AlarmDefinitionsProofs ------------------------
(***************************************************************************)
(* Theorems about module AlarmDefinitions, for every number of requests,   *)
(* definitions, alarms and bodies, with any faults: first the types and    *)
(* who may announce a deletion, then what the topic and the rows have come *)
(* to hold (every invariant of the runs, that deleted definitions are      *)
(* final and that what is stored is stored whole), at last that the        *)
(* handlers implement DefinitionContract, and what this contract is worth. *)
(***************************************************************************)
EXTENDS AlarmDefinitions, SequenceTheorems, TLAPS

------------------------------------------------------------------------------
(* What the tables, requests and handlers look like: TypeOK made inductive. *)

RowSet == [stage : {"absent", "live", "deleted"}, tenant : Tenants \cup {None},
           name : Names \cup {None}, expr : Expressions \cup {<<>>},
           details : Details \cup {None}, enabled : {"true", "false"}]

ControlOK ==
    /\ pc \in [Requests -> Places]
    /\ answer \in [Requests -> Statuses \cup {None}]
    /\ \A r \in Requests : pc[r] = "done" <=> answer[r] # None

RequestOK ==
    request \in [Requests -> [op : {"none", "create", "put", "patch", "delete"},
                              tenant : Tenants \cup {None},
                              target : Defs \cup {None},
                              body   : Bodies \cup {None},
                              after  : SUBSET Requests]]

\* A handler stands only at places of its operation, and carries a body that
\* has passed the checks its operation makes.
WhereOK(r) ==
    LET q == request[r]
    IN  /\ pc[r] # "idle" => q.target \in Defs /\ q.tenant \in Tenants /\ q.op # "none"
        /\ pc[r] = "insert" => /\ q.op = "create" /\ q.target = r
                               /\ q.body \in Bodies /\ q.body.name \in Names
                               /\ q.body.expr \in Expressions
        /\ pc[r] \in {"read", "write"} => /\ q.op \in {"put", "patch"}
                                          /\ q.body \in Bodies
                                          /\ q.body.expr \in Expressions
        /\ pc[r] \in {"readSubDefs", "readAlarms", "softDelete", "tellAlarms"} => q.op = "delete"

\* What a handler has read: its fields, whatever rows and diffs they hold.
LocalOK ==
    \E S, D : local \in [Requests -> [row : RowSet, subDefs : S, methods : SUBSET Methods,
                                      alarms : SUBSET Alarms, diff : D]]

SubDefShape(row) == SubDefRow(row.id, row.definition, row.key, row.test)
TablesOK ==
    /\ definition \in [Defs -> RowSet]
    /\ \A row \in subDef : row.definition \in Defs /\ row = SubDefShape(row)
    /\ alarmAction \subseteq [definition : Defs, state : AlarmStates, method : Methods]
    /\ method \subseteq Methods
    /\ alarm \in [Alarms -> [stage : {"unborn", "stored", "gone"},
                             definition : Defs \cup {None}]]

TopicOK ==
    /\ \E S : events \in Seq(S)
    /\ \A i \in 1..Len(events) :
            events[i].by \in Requests /\ events[i].definition \in Defs
    /\ heard \in 0..Len(events)

TypeInv == TablesOK /\ TopicOK /\ ControlOK /\ RequestOK /\ LocalOK
               /\ \A r \in Requests : WhereOK(r)

USE DefsAssumption, NoneAssumption, BodiesAssumption, DetailsAssumption

\* What a message adds to the topic.
LEMMA AppendFacts ==
    ASSUME NEW S, NEW s \in Seq(S), NEW e
    PROVE  /\ Append(s, e) \in Seq(S \cup {e})
           /\ Len(Append(s, e)) = Len(s) + 1
           /\ Len(s) \in Nat
           /\ \A i \in 1..Len(s) : Append(s, e)[i] = s[i]
           /\ Append(s, e)[Len(s) + 1] = e
<1>1. s \in Seq(S \cup {e})
  OBVIOUS
<1>2. Append(s, e) \in Seq(S \cup {e})
  BY <1>1
<1> QED
  BY <1>1, <1>2

LEMMA InitTyped == Init => TypeInv
<1> SUFFICES ASSUME Init PROVE TypeInv
  OBVIOUS
<1>1. TablesOK
  BY DEF Init, TablesOK, RowSet, AbsentRow, Defs, RowsOfNew, SubDefRow, SubDefShape
<1>2. TopicOK
  BY DEF Init, TopicOK
<1>3. ControlOK
  BY DEF Init, ControlOK, Places, InDatabase, Statuses
<1>4. RequestOK
  BY DEF Init, RequestOK, NoRequest
<1>5. LocalOK
  <2>1. Nothing.row \in RowSet
    BY DEF Nothing, AbsentRow, RowSet
  <2>2. local \in [Requests -> [row : RowSet, subDefs : {{}}, methods : SUBSET Methods,
                                alarms : SUBSET Alarms, diff : {NoDiff}]]
    BY <2>1 DEF Init, Nothing
  <2> QED
    BY <2>2 DEF LocalOK
<1>6. \A r \in Requests : WhereOK(r)
  BY DEF Init, WhereOK
<1> QED
  BY <1>1, <1>2, <1>3, <1>4, <1>5, <1>6 DEF TypeInv
\* A handler that moves on or answers leaves a proper pc and answer behind.
LEMMA GoControl ==
    ASSUME ControlOK, NEW r \in Requests, pc[r] # "done",
           NEW place \in Places, place # "done", Go(r, place)
    PROVE  ControlOK'
BY DEF ControlOK, Go

LEMMA ReplyControl ==
    ASSUME ControlOK, NEW r \in Requests, NEW status \in Statuses, Reply(r, status)
    PROVE  ControlOK'
BY DEF ControlOK, Reply, Places

\* One more event of a request that is there keeps the topic typed.
LEMMA TopicGrows ==
    ASSUME TopicOK, RequestOK, UNCHANGED heard, NEW r \in Requests, NEW type, NEW content,
           request[r].target \in Defs,
           events' \in {events, Append(events, Event(type, r, content))}
    PROVE  TopicOK'
<1>1. CASE events' = events
  BY <1>1 DEF TopicOK
<1>2. CASE events' = Append(events, Event(type, r, content))
  <2> DEFINE e == Event(type, r, content)
  <2>1. PICK S : events \in Seq(S)
    BY DEF TopicOK
  <2>2. /\ events' \in Seq(S \cup {e})
        /\ Len(events') = Len(events) + 1 /\ Len(events) \in Nat
        /\ \A i \in 1..Len(events) : events'[i] = events[i]
        /\ events'[Len(events) + 1] = e
    BY <1>2, <2>1, AppendFacts
  <2>3. e.by \in Requests /\ e.definition \in Defs
    BY DEF Event
  <2>4. \A i \in 1..Len(events') : events'[i].by \in Requests /\ events'[i].definition \in Defs
    BY <2>2, <2>3 DEF TopicOK
  <2>5. heard' \in 0..Len(events')
    BY <2>2 DEF TopicOK
  <2>6. \E T : events' \in Seq(T)
    BY <2>2
  <2> QED
    BY <2>4, <2>5, <2>6 DEF TopicOK
<1> QED
  BY <1>1, <1>2

\* Publishing leaves the topic and the handler's place and answer typed, when
\* what follows on success does.
LEMMA PublishTyped ==
    ASSUME TopicOK, RequestOK, ControlOK, UNCHANGED heard, NEW r \in Requests,
           NEW type, NEW content, request[r].target \in Defs,
           NEW status \in Statuses,
           \/ Publish(r, Event(type, r, content), Reply(r, status))
           \/ pc[r] # "done" /\ Publish(r, Event(type, r, content), Go(r, "tellAlarms"))
    PROVE  /\ TopicOK' /\ ControlOK'
           /\ \E place \in {"done", "tellAlarms"} : pc' = [pc EXCEPT ![r] = place]
<1>1. events' \in {events, Append(events, Event(type, r, content))}
  BY DEF Publish
<1>2. TopicOK'
  BY <1>1, TopicGrows
<1>3. \/ \E t \in Statuses : Reply(r, t)
      \/ pc[r] # "done" /\ Go(r, "tellAlarms")
  BY DEF Publish, Statuses
<1>4. CASE \E t \in Statuses : Reply(r, t)
  BY <1>2, <1>4, ReplyControl DEF Reply, ControlOK
<1>5. CASE pc[r] # "done" /\ Go(r, "tellAlarms")
  BY <1>2, <1>5, GoControl DEF Go, Places
<1> QED
  BY <1>3, <1>4, <1>5

\* A request comes in: the checks made before the first query are what WhereOK
\* says of the handler's first place.
LEMMA ReceiveTyped ==
    ASSUME TypeInv, NEW r \in Requests, Receive(r)
    PROVE  TypeInv'
<1> USE DEF TypeInv
<1>1. ASSUME NEW op \in {"create", "put", "patch", "delete"}, NEW t \in Tenants,
             NEW d \in Defs, NEW b \in Bodies \cup {None}, Accept(r, op, t, d, b),
             \/ \E status \in Statuses : Reply(r, status)
             \/ \E place \in Places \ {"done"} : Go(r, place),
             WhereOK(r)'
      PROVE  TypeInv'
  <2>1. TablesOK' /\ TopicOK' /\ LocalOK'
    BY <1>1 DEF Accept, tables, TablesOK, TopicOK, LocalOK, SubDefShape, SubDefRow
  <2>2. RequestOK'
    BY <1>1 DEF Accept, RequestOK, Answered
  <2>3. ControlOK'
    BY <1>1, GoControl, ReplyControl DEF Accept
  <2>4. \A s \in Requests \ {r} : WhereOK(s)'
    BY <1>1 DEF Accept, WhereOK, Go, Reply, ControlOK, RequestOK
  <2> QED
    BY <2>1, <2>2, <2>3, <2>4, <1>1
<1>3. ASSUME NEW t \in Tenants, NEW b \in Bodies, ReceivePost(r, t, b)
      PROVE  TypeInv'
  <2>1. Accept(r, "create", t, r, b) /\ r \in Defs
    BY <1>3 DEF ReceivePost, Defs
  <2>2. CASE BadRequest("create", b)
    <3>1. Reply(r, 400)
      BY <1>3, <2>2 DEF ReceivePost
    <3>2. WhereOK(r)'
      BY <2>1, <3>1 DEF Accept, RequestOK, WhereOK, Reply, ControlOK
    <3> QED
      BY <1>1, <2>1, <3>1, <3>2 DEF Statuses
  <2>3. CASE ~BadRequest("create", b)
    <3>1. Go(r, "insert")
      BY <1>3, <2>3 DEF ReceivePost
    <3>2. b.name \in Names /\ b.expr \in Expressions
      BY <2>3 DEF BadRequest
    <3>3. WhereOK(r)'
      BY <2>1, <3>1, <3>2 DEF Accept, RequestOK, WhereOK, Go, ControlOK
    <3> QED
      BY <1>1, <2>1, <3>1, <3>3 DEF Places, InDatabase
  <2> QED
    BY <2>2, <2>3
<1>4. ASSUME NEW t \in Tenants, NEW b \in Bodies, NEW d \in Defs, NEW op \in {"put", "patch"},
             ReceiveUpdate(r, op, t, d, b)
      PROVE  TypeInv'
  <2>1. Accept(r, op, t, d, b)
    BY <1>4 DEF ReceiveUpdate
  <2>2. CASE Reply(r, 400) \/ Reply(r, 500)
    <3>1. WhereOK(r)'
      BY <2>1, <2>2 DEF Accept, RequestOK, WhereOK, Reply, ControlOK
    <3> QED
      BY <1>1, <2>1, <2>2, <3>1 DEF Statuses
  <2>3. CASE Go(r, "read") /\ ~BadRequest(op, b) /\ ~ParserRaises(op, b)
    <3>1. b.expr \in Expressions
      BY <2>3 DEF BadRequest, ParserRaises
    <3>2. WhereOK(r)'
      BY <2>1, <2>3, <3>1 DEF Accept, RequestOK, WhereOK, Go, ControlOK
    <3> QED
      BY <1>1, <2>1, <2>3, <3>2 DEF Places, InDatabase
  <2> QED
    BY <1>4, <2>2, <2>3 DEF ReceiveUpdate
<1>5. ASSUME NEW t \in Tenants, NEW d \in Defs, ReceiveDelete(r, t, d)
      PROVE  TypeInv'
  <2>1. Accept(r, "delete", t, d, None) /\ Go(r, "readSubDefs")
    BY <1>5 DEF ReceiveDelete
  <2>2. WhereOK(r)'
    BY <2>1 DEF Accept, RequestOK, WhereOK, Go, ControlOK
  <2> QED
    BY <1>1, <2>1, <2>2 DEF Places, InDatabase
<1> QED
  BY <1>3, <1>4, <1>5 DEF Receive

\* Reading: only the handler's own place and what it has read change.
LEMMA ReadTyped ==
    ASSUME TypeInv, NEW r \in Requests,
           ReadDefinition(r) \/ ReadSubDefs(r) \/ ReadAlarms(r)
    PROVE  TypeInv'
<1> USE DEF TypeInv
<1>1. /\ TablesOK' /\ TopicOK' /\ RequestOK'
      /\ UNCHANGED request /\ pc[r] \in InDatabase
  BY DEF ReadDefinition, ReadSubDefs, ReadAlarms, tables, TablesOK, TopicOK, RequestOK,
         SubDefShape, SubDefRow, InDatabase
<1>2. \/ Reply(r, 404)
      \/ pc[r] = "read" /\ Go(r, "write")
      \/ pc[r] = "readSubDefs" /\ Go(r, "readAlarms")
      \/ pc[r] = "readAlarms" /\ Go(r, "softDelete")
  BY DEF ReadDefinition, ReadSubDefs, ReadAlarms
<1>3. ControlOK'
  BY <1>1, <1>2, GoControl, ReplyControl DEF Places, InDatabase, Statuses
<1>4. \A s \in Requests : WhereOK(s)'
  BY <1>1, <1>2 DEF WhereOK, ControlOK, Go, Reply, InDatabase
<1>5. LocalOK'
  <2>1. PICK S, D : local \in [Requests -> [row : RowSet, subDefs : S, methods : SUBSET Methods,
                                            alarms : SUBSET Alarms, diff : D]]
    BY DEF LocalOK
  <2> DEFINE subs == SubDefsOf(request[r].target)
             T == S \cup {subs}
             L == [row : RowSet, subDefs : T, methods : SUBSET Methods,
                   alarms : SUBSET Alarms, diff : D]
  <2>2. local \in [Requests -> L]
    BY <2>1
  <2>3. local' = local \/ \E x \in L : local' = [local EXCEPT ![r] = x]
    <3>1. CASE ReadDefinition(r)
      <4>1. CASE Found(request[r].tenant, request[r].target)
        <5>1. definition[request[r].target] \in RowSet
          BY <4>1 DEF Found, TablesOK
        <5>2. local' = [local EXCEPT ![r].row = definition[request[r].target],
                                     ![r].subDefs = subs, ![r].methods = method]
          BY <3>1, <4>1 DEF ReadDefinition
        <5>3. [local[r] EXCEPT !.row = definition[request[r].target],
                               !.subDefs = subs, !.methods = method] \in L
          <6>1. \A row \in RowSet, m \in SUBSET Methods, u \in T :
                   [local[r] EXCEPT !.row = row, !.subDefs = u, !.methods = m] \in L
            BY <2>2
          <6> QED
            BY <5>1, <6>1 DEF TablesOK
        <5> QED
          BY <5>2, <5>3, <2>2
      <4> QED
        BY <3>1, <4>1 DEF ReadDefinition
    <3>2. CASE ReadSubDefs(r)
      <4>1. [local[r] EXCEPT !.subDefs = subs] \in L
        BY <2>2
      <4> QED
        BY <3>2, <4>1, <2>2 DEF ReadSubDefs
    <3>3. CASE ReadAlarms(r)
      <4>1. \A mine \in SUBSET Alarms : [local[r] EXCEPT !.alarms = mine] \in L
        BY <2>2
      <4>2. PICK mine \in SUBSET Alarms : local' = [local EXCEPT ![r].alarms = mine]
        BY <3>3 DEF ReadAlarms
      <4> QED
        BY <4>1, <4>2, <2>2
    <3> QED
      BY <3>1, <3>2, <3>3
  <2> HIDE DEF L
  <2>4. local' \in [Requests -> L]
    BY <2>2, <2>3
  <2> QED
    BY <2>4 DEF L, LocalOK
<1> QED
  BY <1>1, <1>3, <1>4, <1>5

\* The action rows a body asks for are rows of the table.
LEMMA ActionRowsTyped ==
    ASSUME NEW d \in Defs, NEW body \in Bodies
    PROVE  ActionRows(d, body.actions)
                \subseteq [definition : Defs, state : AlarmStates, method : Methods]
BY DEF ActionRows

\* create_alarm_definition keeps the tables typed.
LEMMA InsertTyped ==
    ASSUME TypeInv, NEW r \in Requests, InsertDefinition(r)
    PROVE  TypeInv'
<1> USE DEF TypeInv
<1> DEFINE q == request[r]
           rows == RowsOfNew(r, q.body.expr)
<1>1. /\ TopicOK' /\ RequestOK' /\ UNCHANGED request
      /\ pc[r] = "insert" /\ r \in Defs /\ q.tenant \in Tenants
      /\ q.body \in Bodies /\ q.body.name \in Names /\ q.body.expr \in Expressions
  BY DEF InsertDefinition, InsertRows, TopicOK, RequestOK, WhereOK, Defs
<1>2. ControlOK' /\ \A s \in Requests : WhereOK(s)'
  <2>1. Reply(r, 500) \/ Go(r, "tell")
    BY DEF InsertDefinition, InsertRows
  <2>2. ControlOK'
    BY <1>1, <2>1, GoControl, ReplyControl DEF Places, Statuses
  <2>3. \A s \in Requests : WhereOK(s)'
    BY <1>1, <2>1 DEF WhereOK, ControlOK, Go, Reply
  <2> QED
    BY <2>2, <2>3
<1>3. CASE ~ActionsExist(q.body.actions, method)
  <2>1. UNCHANGED <<definition, subDef, alarmAction, local, method, alarm>>
    BY <1>3 DEF InsertDefinition, InsertRows, RolledBack
  <2> QED
    BY <1>1, <1>2, <2>1 DEF TablesOK, LocalOK, SubDefShape, SubDefRow
<1>4. CASE ActionsExist(q.body.actions, method)
  <2> DEFINE new == NewRow(q)
  <2>1. /\ definition' = [definition EXCEPT ![r] = new]
        /\ subDef' = subDef \cup rows
        /\ alarmAction' = alarmAction \cup ActionRows(r, q.body.actions)
        /\ local' = [local EXCEPT ![r].subDefs = rows]
        /\ UNCHANGED <<method, alarm>>
    BY <1>4 DEF InsertDefinition, InsertRows
  <2>2. new \in RowSet
    BY <1>1 DEF RowSet, NewRow
  <2>3. definition' \in [Defs -> RowSet]
    BY <1>1, <2>1, <2>2 DEF TablesOK
  <2>4. \A row \in rows : row.definition \in Defs /\ row = SubDefShape(row)
    BY <1>1 DEF RowsOfNew, SubDefRow, SubDefShape
  <2>5. TablesOK'
    BY <1>1, <2>1, <2>3, <2>4, ActionRowsTyped DEF TablesOK, SubDefShape, SubDefRow
  <2>6. LocalOK'
    <3>1. PICK S, D : local \in [Requests -> [row : RowSet, subDefs : S, methods : SUBSET Methods,
                                              alarms : SUBSET Alarms, diff : D]]
      BY DEF LocalOK
    <3>2. local' \in [Requests -> [row : RowSet, subDefs : S \cup {rows}, methods : SUBSET Methods,
                                   alarms : SUBSET Alarms, diff : D]]
      BY <2>1, <3>1
    <3> QED
      BY <3>2 DEF LocalOK
  <2> QED
    BY <1>1, <1>2, <2>5, <2>6
<1> QED
  BY <1>3, <1>4

\* What an update makes of the rows of sub_alarm_definition are rows again, of
\* the same definitions or, the added ones, of the one that is updated.
LEMMA UpdatedRowsTyped ==
    ASSUME TablesOK, NEW r, NEW d \in Defs, NEW expr, NEW diff, NEW added
    PROVE  \A row \in UpdateChanged(DeleteRemoved(subDef, diff), diff)
                        \cup RowsAdded(r, d, expr, added) :
                row.definition \in Defs /\ row = SubDefShape(row)
<1>1. \A row \in RowsAdded(r, d, expr, added) : row.definition \in Defs /\ row = SubDefShape(row)
  BY DEF RowsAdded, SubDefRow, SubDefShape
<1>2. ASSUME NEW row \in subDef, NEW test
      PROVE  /\ [row EXCEPT !.test = test].definition \in Defs
             /\ [row EXCEPT !.test = test] = SubDefShape([row EXCEPT !.test = test])
  <2>1. row = [id |-> row.id, definition |-> row.definition, key |-> row.key, test |-> row.test]
    BY DEF TablesOK, SubDefShape, SubDefRow
  <2>2. [row EXCEPT !.test = test] =
            [id |-> row.id, definition |-> row.definition, key |-> row.key, test |-> test]
    BY <2>1
  <2> QED
    BY <2>2 DEF TablesOK, SubDefShape, SubDefRow
<1>3. \A row \in UpdateChanged(subDef, diff) :
          row \in subDef \/ \E old \in subDef : \E test : row = [old EXCEPT !.test = test]
  BY DEF UpdateChanged
<1>4. ASSUME NEW row \in UpdateChanged(subDef, diff)
      PROVE  row.definition \in Defs /\ row = SubDefShape(row)
  <2>1. CASE row \in subDef
    BY <2>1 DEF TablesOK
  <2>2. CASE row \notin subDef
    <3>1. PICK old \in subDef : \E test : row = [old EXCEPT !.test = test]
      BY <1>3, <2>2
    <3>2. PICK test : row = [old EXCEPT !.test = test]
      BY <3>1
    <3> QED
      BY <3>2, <1>2
  <2> QED
    BY <2>1, <2>2
<1> QED
  BY <1>1, <1>4 DEF DeleteRemoved

\* update_or_patch_alarm_definition keeps the tables typed, whatever diff the
\* loops arrive at.
LEMMA WriteTyped ==
    ASSUME TypeInv, NEW r \in Requests, WriteDefinition(r)
    PROVE  TypeInv'
<1> USE DEF TypeInv
<1> DEFINE q == request[r]
           d == q.target
           ok == /\ q.body.name # None
                 /\ ActionsExist(q.body.actions, local[r].methods)
                 /\ StillThere(d, q.tenant)
<1>1. /\ TopicOK' /\ RequestOK' /\ UNCHANGED request
      /\ pc[r] = "write" /\ d \in Defs /\ q.op \in {"put", "patch"}
      /\ q.body \in Bodies /\ q.body.expr \in Expressions
  BY DEF WriteDefinition, UpdateRows, TopicOK, RequestOK, WhereOK
<1>2. ControlOK' /\ \A s \in Requests : WhereOK(s)'
  <2>1. Reply(r, 500) \/ Go(r, "tell")
    BY DEF WriteDefinition, UpdateRows
  <2>2. ControlOK'
    BY <1>1, <2>1, GoControl, ReplyControl DEF Places, Statuses
  <2>3. \A s \in Requests : WhereOK(s)'
    BY <1>1, <2>1 DEF WhereOK, ControlOK, Go, Reply
  <2> QED
    BY <2>2, <2>3
<1>3. CASE ~ok
  <2>1. UNCHANGED <<definition, subDef, alarmAction, local, method, alarm>>
    BY <1>3 DEF WriteDefinition, UpdateRows, RolledBack
  <2> QED
    BY <1>1, <1>2, <2>1 DEF TablesOK, LocalOK, SubDefShape, SubDefRow
<1>4. CASE ok
  <2>1. PICK diff :
            LET added == RowsAdded(r, d, q.body.expr, diff.added)
            IN  /\ subDef' = UpdateChanged(DeleteRemoved(subDef, diff), diff) \cup added
                /\ local' = [local EXCEPT ![r].diff = diff, ![r].subDefs = added]
    BY <1>4 DEF WriteDefinition, UpdateRows
  <2> DEFINE added == RowsAdded(r, d, q.body.expr, diff.added)
             new == UpdatedRow(definition[d], local[r].row, q.body)
  <2>2. /\ definition' = [definition EXCEPT ![d] = new]
        /\ alarmAction' = (alarmAction \ ClearedActions(d, q.op, q.body.actions))
                                \cup ActionRows(d, q.body.actions)
        /\ UNCHANGED <<method, alarm>>
    BY <1>4 DEF WriteDefinition, UpdateRows
  <2>3. new \in RowSet
    <3>1. definition[d] \in RowSet /\ local[r].row \in RowSet
      BY <1>1 DEF TablesOK, LocalOK
    <3>2. q.body.name \in Names
      BY <1>1, <1>4
    <3>3. \A row \in RowSet, n \in Names, e \in Expressions, t \in Details \cup {None},
             b \in {"true", "false"} :
                [row EXCEPT !.name = n, !.expr = e, !.details = t, !.enabled = b] \in RowSet
      BY DEF RowSet
    <3>4. /\ local[r].row.details \in Details \cup {None}
          /\ q.body.details \in Details \cup {None}
      BY <1>1, <3>1 DEF RowSet
    <3> DEFINE t == IF q.body.details = None THEN local[r].row.details ELSE q.body.details
               b == IF q.body.enabled = "true" THEN "true" ELSE "false"
    <3>5. t \in Details \cup {None} /\ b \in {"true", "false"}
      BY <3>4
    <3>6. new = [definition[d] EXCEPT !.name = q.body.name, !.expr = q.body.expr,
                                      !.details = t, !.enabled = b]
      BY DEF UpdatedRow
    <3> HIDE DEF t, b, new
    <3> QED
      BY ZenonT(60), <1>1, <3>1, <3>2, <3>3, <3>5, <3>6
  <2>4. definition' \in [Defs -> RowSet]
    BY <1>1, <2>2, <2>3 DEF TablesOK
  <2>5. \A row \in subDef' : row.definition \in Defs /\ row = SubDefShape(row)
    BY <1>1, <2>1, UpdatedRowsTyped
  <2>6. alarmAction' \subseteq [definition : Defs, state : AlarmStates, method : Methods]
    BY <1>1, <2>2, ActionRowsTyped DEF TablesOK
  <2>7. TablesOK'
    BY <2>2, <2>4, <2>5, <2>6 DEF TablesOK, SubDefShape, SubDefRow
  <2>8. LocalOK'
    <3>1. PICK S, D : local \in [Requests -> [row : RowSet, subDefs : S, methods : SUBSET Methods,
                                              alarms : SUBSET Alarms, diff : D]]
      BY DEF LocalOK
    <3>2. local' = [local EXCEPT ![r].diff = diff, ![r].subDefs = added]
      BY <2>1
    <3>3. local' \in [Requests -> [row : RowSet, subDefs : S \cup {added}, methods : SUBSET Methods,
                                   alarms : SUBSET Alarms, diff : D \cup {diff}]]
      BY ZenonT(60), <3>1, <3>2
    <3> QED
      BY <3>3 DEF LocalOK
  <2> QED
    BY <1>1, <1>2, <2>7, <2>8
<1> QED
  BY <1>3, <1>4

\* delete_alarm_definition changes the stage of one definition and of alarms.
LEMMA DeleteTyped ==
    ASSUME TypeInv, NEW r \in Requests, SoftDelete(r)
    PROVE  TypeInv'
<1> USE DEF TypeInv
<1> DEFINE d == request[r].target
<1>1. /\ TopicOK' /\ RequestOK' /\ LocalOK' /\ UNCHANGED request
      /\ pc[r] = "softDelete" /\ d \in Defs
  BY DEF SoftDelete, TopicOK, RequestOK, LocalOK, WhereOK
<1>2. ControlOK' /\ \A s \in Requests : WhereOK(s)'
  <2>1. Reply(r, 404) \/ Go(r, "tell")
    BY DEF SoftDelete
  <2>2. ControlOK'
    BY <1>1, <2>1, GoControl, ReplyControl DEF Places, Statuses
  <2>3. \A s \in Requests : WhereOK(s)'
    BY <1>1, <2>1 DEF WhereOK, ControlOK, Go, Reply
  <2> QED
    BY <2>2, <2>3
<1>3. /\ definition' \in {definition, [definition EXCEPT ![d].stage = "deleted"]}
      /\ alarm' \in {alarm, AlarmsWithout(d)}
      /\ UNCHANGED <<subDef, alarmAction, method>>
  BY DEF SoftDelete
<1>4. definition' \in [Defs -> RowSet]
  BY SMTT(20), <1>1, <1>3 DEF TablesOK, RowSet
<1>5. AlarmsWithout(d) \in [Alarms -> [stage : {"unborn", "stored", "gone"},
                                       definition : Defs \cup {None}]]
  BY DEF AlarmsWithout, TablesOK
<1>6. TablesOK'
  BY <1>3, <1>4, <1>5 DEF TablesOK, SubDefShape, SubDefRow
<1> QED
  BY <1>1, <1>2, <1>6

\* Publishing touches the topic and the handler's place.
LEMMA TellTyped ==
    ASSUME TypeInv, NEW r \in Requests,
           TellCreated(r) \/ TellUpdated(r) \/ TellDeleted(r) \/ TellAlarmsDeleted(r)
    PROVE  TypeInv'
<1> USE DEF TypeInv
<1>1. /\ TablesOK' /\ RequestOK' /\ LocalOK'
      /\ UNCHANGED <<request, heard>> /\ pc[r] \in {"tell", "tellAlarms"}
      /\ request[r].target \in Defs
  <2>1. UNCHANGED <<definition, subDef, alarmAction, method, alarm, heard, request, local>>
    BY DEF TellCreated, TellUpdated, TellDeleted, TellAlarmsDeleted, tables
  <2>2. pc[r] \in {"tell", "tellAlarms"}
    BY DEF TellCreated, TellUpdated, TellDeleted, TellAlarmsDeleted
  <2>3. TablesOK' /\ RequestOK' /\ LocalOK'
    BY <2>1 DEF TablesOK, RequestOK, LocalOK, SubDefShape, SubDefRow
  <2> QED
    BY <2>1, <2>2, <2>3 DEF WhereOK
<1>2. \/ \E status \in Statuses : \E type, content :
            Publish(r, Event(type, r, content), Reply(r, status))
      \/ /\ request[r].op = "delete"
         /\ \E content : Publish(r, Event("deleted", r, content), Go(r, "tellAlarms"))
      \/ \E status \in Statuses : Reply(r, status) /\ UNCHANGED events
  <2>1. CASE TellCreated(r)
    BY <2>1 DEF TellCreated, Statuses
  <2>2. CASE TellUpdated(r)
    BY <2>2 DEF TellUpdated, Statuses
  <2>3. CASE TellDeleted(r)
    BY <2>3 DEF TellDeleted
  <2>4. CASE TellAlarmsDeleted(r)
    BY <2>4 DEF TellAlarmsDeleted, Statuses
  <2> QED
    BY <2>1, <2>2, <2>3, <2>4
<1>3. /\ TopicOK' /\ ControlOK'
      /\ \/ pc' = [pc EXCEPT ![r] = "done"]
         \/ pc' = [pc EXCEPT ![r] = "tellAlarms"] /\ request[r].op = "delete"
  <2>1. CASE \E status \in Statuses : \E type, content :
                Publish(r, Event(type, r, content), Reply(r, status))
    <3>0. PICK status \in Statuses :
                \E type, content : Publish(r, Event(type, r, content), Reply(r, status))
      BY <2>1
    <3>1. PICK type, content : Publish(r, Event(type, r, content), Reply(r, status))
      BY <3>0
    <3>2. TopicOK' /\ ControlOK'
      BY <1>1, <3>1, PublishTyped
    <3>3. pc' = [pc EXCEPT ![r] = "done"]
      BY <3>1 DEF Publish, Reply
    <3> QED
      BY <3>2, <3>3
  <2>2. CASE /\ request[r].op = "delete"
             /\ \E content : Publish(r, Event("deleted", r, content), Go(r, "tellAlarms"))
    <3>1. PICK content : Publish(r, Event("deleted", r, content), Go(r, "tellAlarms"))
      BY <2>2
    <3>2. TopicOK' /\ ControlOK'
      BY <1>1, <3>1, PublishTyped DEF Statuses
    <3>3. pc' = [pc EXCEPT ![r] = "done"] \/ pc' = [pc EXCEPT ![r] = "tellAlarms"]
      BY <3>1 DEF Publish, Reply, Go
    <3> QED
      BY <2>2, <3>2, <3>3
  <2>3. CASE \E status \in Statuses : Reply(r, status) /\ UNCHANGED events
    <3>1. TopicOK'
      BY <1>1, <2>3 DEF TopicOK
    <3>2. ControlOK' /\ pc' = [pc EXCEPT ![r] = "done"]
      BY <2>3, ReplyControl DEF Reply
    <3> QED
      BY <3>1, <3>2
  <2> QED
    BY <1>2, <2>1, <2>2, <2>3
<1>4. \A s \in Requests : WhereOK(s)'
  BY <1>1, <1>3 DEF WhereOK, ControlOK
<1> QED
  BY <1>1, <1>3, <1>4

\* A database that fails answers, a server that goes down does not.
LEMMA FailureTyped ==
    ASSUME TypeInv, NEW r \in Requests, DatabaseFails(r) \/ Crash(r)
    PROVE  TypeInv'
<1> USE DEF TypeInv
<1>1. UNCHANGED <<definition, subDef, alarmAction, method, alarm, events, heard, request, local>>
  BY DEF DatabaseFails, RolledBack, Crash, tables
<1>2. Reply(r, 500) \/ (Go(r, "crashed") /\ pc[r] # "idle" /\ pc[r] # "done")
  BY DEF DatabaseFails, RolledBack, Crash
<1>3. pc[r] # "idle"
  BY DEF DatabaseFails, RolledBack, Crash, InDatabase
<1>4. ControlOK'
  BY <1>2, GoControl, ReplyControl DEF Places, Statuses
<1>5. \A s \in Requests : WhereOK(s)'
  BY <1>1, <1>2, <1>3 DEF WhereOK, ControlOK, Go, Reply
<1>6. TablesOK' /\ TopicOK' /\ RequestOK' /\ LocalOK'
  BY <1>1 DEF TablesOK, TopicOK, RequestOK, LocalOK, SubDefShape, SubDefRow
<1> QED
  BY <1>4, <1>5, <1>6

\* The notification service and the engine leave the handlers alone.
LEMMA OthersTyped ==
    ASSUME TypeInv, (\E m \in Methods : DeleteMethod(m)) \/ Engine
    PROVE  TypeInv'
<1> USE DEF TypeInv
<1>1. UNCHANGED <<definition, subDef, alarmAction, events, pc, request, local, answer>>
  BY DEF DeleteMethod, Engine, EngineHears, EngineCreatesAlarm, tables
<1>2. ControlOK' /\ RequestOK' /\ LocalOK' /\ \A r \in Requests : WhereOK(r)'
  BY <1>1 DEF ControlOK, RequestOK, LocalOK, WhereOK
<1>3. heard' \in 0..Len(events)
  BY DEF DeleteMethod, Engine, EngineHears, EngineCreatesAlarm, TopicOK
<1>4. method' \subseteq Methods
  BY DEF DeleteMethod, Engine, EngineHears, EngineCreatesAlarm, tables, TablesOK
<1>5. alarm' \in [Alarms -> [stage : {"unborn", "stored", "gone"}, definition : Defs \cup {None}]]
  BY DEF DeleteMethod, Engine, EngineHears, EngineCreatesAlarm, tables, TablesOK
<1> QED
  BY <1>1, <1>2, <1>3, <1>4, <1>5 DEF TablesOK, TopicOK, SubDefShape, SubDefRow

LEMMA StepTyped == TypeInv /\ [Next]_vars => TypeInv'
<1> SUFFICES ASSUME TypeInv, [Next]_vars PROVE TypeInv'
  OBVIOUS
<1>1. CASE UNCHANGED vars
  BY <1>1 DEF vars, tables, TypeInv, TablesOK, TopicOK, ControlOK, RequestOK, LocalOK,
              WhereOK, SubDefShape, SubDefRow
<1>2. ASSUME NEW r \in Requests, Handle(r)
      PROVE  TypeInv'
  BY <1>2, ReadTyped, InsertTyped, WriteTyped, DeleteTyped, TellTyped, FailureTyped DEF Handle
<1>3. ASSUME NEW r \in Requests, Receive(r) \/ Crash(r)
      PROVE  TypeInv'
  BY <1>3, ReceiveTyped, FailureTyped
<1>4. CASE (\E m \in Methods : DeleteMethod(m)) \/ Engine
  BY <1>4, OthersTyped
<1> QED
  BY <1>1, <1>2, <1>3, <1>4 DEF Next

LEMMA Typed == Spec => []TypeInv
<1> QED
  BY InitTyped, StepTyped, PTL DEF Spec

\* Every table, handler and answer stays within its type, and exactly the
\* requests that are done have an answer.
THEOREM TypeCorrect == Spec => []TypeOK
<1>1. TypeInv => TypeOK
  <2> SUFFICES ASSUME TypeInv PROVE TypeOK
    OBVIOUS
  <2>1. DOMAIN events = 1..Len(events)
    BY DEF TypeInv, TopicOK
  <2> QED
    BY <2>1 DEF TypeInv, TablesOK, TopicOK, ControlOK, RowSet, TypeOK
<1> QED
  BY <1>1, Typed, PTL
------------------------------------------------------------------------------
(* Deletions: who has deleted what, and who has told of it. *)

\* The handlers that have deleted a definition and not announced it yet.
Announcing(r) == pc[r] = "tell" /\ request[r].op = "delete"
Told(i) == events[i].type = "deleted"

\* The id of a POST is not in use before its insert.
FreshIds == \A r \in Requests : pc[r] \in {"idle", "insert"} => definition[r].stage = "absent"

\* What a handler is about to announce has happened and has not been announced,
\* and no other handler is about to announce it.
OneAnnouncer ==
    \A r \in Requests : Announcing(r) =>
        /\ definition[request[r].target].stage = "deleted"
        /\ \A i \in 1..Len(events) : Told(i) => events[i].definition # request[r].target
        /\ \A s \in Requests : Announcing(s) /\ request[s].target = request[r].target => s = r

ToldIsDeleted ==
    \A i \in 1..Len(events) : Told(i) => definition[events[i].definition].stage = "deleted"
ToldOnce ==
    \A i, j \in 1..Len(events) :
        Told(i) /\ Told(j) /\ events[i].definition = events[j].definition => i = j

DeletionInv == FreshIds /\ OneAnnouncer /\ ToldIsDeleted /\ ToldOnce

LEMMA InitDeletions == Init => DeletionInv
<1> SUFFICES ASSUME Init PROVE DeletionInv
  OBVIOUS
<1>1. \A r \in Requests : pc[r] = "idle" /\ r \in Defs /\ definition[r].stage = "absent"
  BY DEF Init, Defs
<1>2. Len(events) = 0
  BY DEF Init
<1>3. FreshIds /\ OneAnnouncer
  BY <1>1 DEF FreshIds, OneAnnouncer, Announcing
<1>4. ToldIsDeleted /\ ToldOnce
  BY <1>2 DEF ToldIsDeleted, ToldOnce
<1> QED
  BY <1>3, <1>4 DEF DeletionInv

\* A step keeps the invariant when it brings nothing of a deletion back, makes
\* no handler an announcer, tells of no deletion and uses no fresh id.
LEMMA QuietStep ==
    ASSUME TypeInv, DeletionInv,
           \A d \in Defs : definition[d].stage = "deleted" => definition'[d].stage = "deleted",
           \A r \in Requests : Announcing(r)' =>
                Announcing(r) /\ request'[r].target = request[r].target,
           \A r \in Requests : pc'[r] \in {"idle", "insert"} =>
                pc[r] \in {"idle", "insert"} /\ definition'[r].stage = definition[r].stage,
           \A i \in 1..Len(events') : Told(i)' =>
                i \in 1..Len(events) /\ Told(i) /\ events'[i].definition = events[i].definition
    PROVE  DeletionInv'
<1> USE DEF DeletionInv
<1>1. FreshIds'
  BY DEF FreshIds
<1>2. \A r \in Requests : Announcing(r) => request[r].target \in Defs
  BY DEF Announcing, TypeInv, WhereOK
<1>3. OneAnnouncer'
  BY <1>2 DEF OneAnnouncer
<1>4. ToldIsDeleted'
  BY DEF ToldIsDeleted, TypeInv, TopicOK
<1>5. ToldOnce'
  BY DEF ToldOnce
<1> QED
  BY <1>1, <1>3, <1>4, <1>5

\* The one step that makes an announcer: the UPDATE guarded by "deleted_at is
\* NULL" lets one request through, and nobody has announced the deletion yet.
LEMMA SoftDeleteOnce ==
    ASSUME TypeInv, DeletionInv, NEW r \in Requests, SoftDelete(r)
    PROVE  DeletionInv'
<1> DEFINE d == request[r].target
<1>1. /\ d \in Defs /\ request[r].op = "delete" /\ pc[r] = "softDelete"
      /\ definition \in [Defs -> RowSet] /\ pc \in [Requests -> Places]
      /\ UNCHANGED <<events, request>>
  BY DEF SoftDelete, TypeInv, TablesOK, ControlOK, WhereOK
<1>2. CASE Reply(r, 404) /\ UNCHANGED definition
  <2>1. \A s \in Requests : Announcing(s)' => Announcing(s)
    BY <1>1, <1>2 DEF Announcing, Reply
  <2>2. \A s \in Requests : pc'[s] \in {"idle", "insert"} => pc[s] \in {"idle", "insert"}
    BY <1>1, <1>2 DEF Reply
  <2> QED
    BY <1>1, <1>2, <2>1, <2>2, QuietStep DEF Told
<1>3. CASE /\ definition[d].stage = "live" /\ Go(r, "tell")
           /\ definition' = [definition EXCEPT ![d].stage = "deleted"]
  <2> USE DEF DeletionInv
  <2>1. /\ definition'[d].stage = "deleted"
        /\ \A c \in Defs \ {d} : definition'[c] = definition[c]
    BY <1>1, <1>3 DEF RowSet
  <2>2. /\ pc'[r] = "tell"
        /\ \A s \in Requests \ {r} : pc'[s] = pc[s]
    BY <1>1, <1>3 DEF Go
  <2>3. \A r1 \in Requests : r1 \in Defs
    BY DEF Defs
  <2>4. FreshIds'
    BY <1>3, <2>1, <2>2, <2>3 DEF FreshIds
  <2>5. \A s \in Requests : Announcing(s) => request[s].target # d /\ request[s].target \in Defs
    BY <1>3 DEF OneAnnouncer, Announcing, TypeInv, WhereOK
  <2>6. \A i \in 1..Len(events) : Told(i) => events[i].definition # d
    BY <1>3 DEF ToldIsDeleted
  <2>7. \A s \in Requests : Announcing(s)' <=> Announcing(s) \/ s = r
    BY <1>1, <2>2 DEF Announcing
  <2>8. OneAnnouncer'
    BY <1>1, <2>1, <2>5, <2>6, <2>7 DEF OneAnnouncer, Told
  <2>9. ToldIsDeleted'
    BY <1>1, <2>1, <2>6 DEF ToldIsDeleted, Told, TypeInv, TopicOK
  <2>10. ToldOnce'
    BY <1>1 DEF ToldOnce, Told
  <2> QED
    BY <2>4, <2>8, <2>9, <2>10
<1>4. Found(request[r].tenant, d) => definition[d].stage = "live"
  BY DEF Found
<1> QED
  BY <1>2, <1>3, <1>4 DEF SoftDelete, Deletable

\* The one step that tells of a deletion: it stops being an announcer with it,
\* whether the message arrives or not.
LEMMA TellDeletedOnce ==
    ASSUME TypeInv, DeletionInv, NEW r \in Requests, TellDeleted(r)
    PROVE  DeletionInv'
<1> DEFINE d == request[r].target
           e == Event("deleted", r, local[r].subDefs)
<1>1. /\ Announcing(r) /\ d \in Defs /\ UNCHANGED <<definition, request>>
      /\ pc \in [Requests -> Places] /\ e.type = "deleted" /\ e.definition = d
  BY DEF TellDeleted, Announcing, TypeInv, WhereOK, ControlOK, tables, Event
<1>2. /\ events' \in {events, Append(events, e)}
      /\ \E place \in {"done", "tellAlarms"} : pc' = [pc EXCEPT ![r] = place]
  BY DEF TellDeleted, Publish, Go, Reply
<1>3. /\ ~ Announcing(r)'
      /\ \A s \in Requests \ {r} : Announcing(s)' <=> Announcing(s)
      /\ \A s \in Requests : pc'[s] \in {"idle", "insert"} => pc[s] \in {"idle", "insert"}
  BY <1>1, <1>2 DEF Announcing
<1>4. CASE events' = events
  BY <1>1, <1>3, <1>4, QuietStep DEF Told
<1>5. CASE events' = Append(events, e)
  <2> USE DEF DeletionInv
  <2>1. PICK S : events \in Seq(S)
    BY DEF TypeInv, TopicOK
  <2>2. /\ Len(events') = Len(events) + 1 /\ Len(events) \in Nat
        /\ \A i \in 1..Len(events) : events'[i] = events[i]
        /\ events'[Len(events) + 1] = e
    BY <1>5, <2>1, AppendFacts
  <2> HIDE DEF e
  <2>3. \A i \in 1..Len(events') : i \in 1..Len(events) \/ i = Len(events) + 1
    BY <2>2
  <2>4. \A i \in 1..Len(events) : Told(i) => events[i].definition # d
    BY <1>1 DEF OneAnnouncer
  <2>5. FreshIds'
    BY <1>1, <1>3 DEF FreshIds
  <2>6. OneAnnouncer'
    BY <1>1, <1>3, <2>2, <2>3 DEF OneAnnouncer, Told
  <2>7. definition[d].stage = "deleted"
    BY <1>1 DEF OneAnnouncer
  <2>8. ToldIsDeleted'
    BY <1>1, <2>2, <2>3, <2>7 DEF ToldIsDeleted, Told
  <2>9. ToldOnce'
    BY <1>1, <2>2, <2>3, <2>4 DEF ToldOnce, Told
  <2> QED
    BY <2>5, <2>6, <2>8, <2>9
<1> QED
  BY <1>2, <1>4, <1>5

\* A new request is no announcer, and its id, if it is a POST, is still fresh.
LEMMA ReceiveQuiet ==
    ASSUME TypeInv, DeletionInv, NEW r \in Requests, Receive(r)
    PROVE  DeletionInv'
<1>1. /\ pc[r] = "idle" /\ UNCHANGED <<definition, events>>
      /\ \A s \in Requests \ {r} : request'[s] = request[s]
  BY DEF Receive, ReceivePost, ReceiveUpdate, ReceiveDelete, Accept, tables, TypeInv, RequestOK
<1>2. \E place \in Places \ {"idle", "tell"} : pc' = [pc EXCEPT ![r] = place]
  BY DEF Receive, ReceivePost, ReceiveUpdate, ReceiveDelete, Go, Reply, Places, InDatabase
<1>3. \A s \in Requests : Announcing(s)' => Announcing(s) /\ request'[s].target = request[s].target
  BY <1>1, <1>2 DEF Announcing, TypeInv, ControlOK
<1>4. \A s \in Requests : pc'[s] \in {"idle", "insert"} => pc[s] \in {"idle", "insert"}
  BY <1>1, <1>2 DEF TypeInv, ControlOK
<1> QED
  BY <1>1, <1>3, <1>4, QuietStep DEF Told

\* A step of a handler that publishes nothing and does not start an
\* announcement of a deletion: reads, writes of rows that stay live, failures.
LEMMA HandlerQuiet ==
    ASSUME TypeInv, DeletionInv, NEW r \in Requests,
           UNCHANGED <<request, events>>,
           NEW place \in Places \ {"idle", "insert"}, pc' = [pc EXCEPT ![r] = place],
           place = "tell" => request[r].op # "delete",
           \A d \in Defs : definition[d].stage = "deleted" => definition'[d].stage = "deleted",
           \A s \in Requests : pc'[s] \in {"idle", "insert"} =>
                definition'[s].stage = definition[s].stage
    PROVE  DeletionInv'
<1>1. \A s \in Requests : Announcing(s)' => Announcing(s)
  BY DEF Announcing, TypeInv, ControlOK
<1>2. \A s \in Requests : pc'[s] \in {"idle", "insert"} => pc[s] \in {"idle", "insert"}
  BY DEF TypeInv, ControlOK
<1> QED
  BY <1>1, <1>2, QuietStep DEF Told

LEMMA DatabaseQuiet ==
    ASSUME TypeInv, DeletionInv, NEW r \in Requests,
           \/ InsertDefinition(r) \/ ReadDefinition(r) \/ WriteDefinition(r)
           \/ ReadSubDefs(r) \/ ReadAlarms(r) \/ DatabaseFails(r) \/ Crash(r)
    PROVE  DeletionInv'
<1> DEFINE q == request[r]
<1>1. /\ r \in Defs /\ definition \in [Defs -> RowSet] /\ pc \in [Requests -> Places]
      /\ (pc[r] = "insert" => q.op = "create" /\ q.target = r)
      /\ (pc[r] \in {"read", "write"} => q.op \in {"put", "patch"} /\ q.target \in Defs)
  BY DEF Defs, TypeInv, TablesOK, ControlOK, WhereOK
<1>2. CASE InsertDefinition(r)
  <2>1. /\ UNCHANGED <<request, events>> /\ pc[r] = "insert"
        /\ \E place \in {"done", "tell"} : pc' = [pc EXCEPT ![r] = place]
    BY <1>2 DEF InsertDefinition, InsertRows, Go, Reply
  <2>2. definition[r].stage = "absent"
    BY <2>1 DEF DeletionInv, FreshIds
  <2>3. \A d \in Defs : d # r => definition'[d] = definition[d]
    BY <1>1, <1>2 DEF InsertDefinition, InsertRows, RolledBack
  <2>4. \A s \in Requests : pc'[s] \in {"idle", "insert"} =>
                definition'[s].stage = definition[s].stage
    BY <1>1, <2>1, <2>3 DEF Defs
  <2>5. \A d \in Defs : definition[d].stage = "deleted" => definition'[d].stage = "deleted"
    BY <2>2, <2>3
  <2> QED
    BY <1>1, <2>1, <2>4, <2>5, HandlerQuiet DEF Places
<1>3. CASE ReadDefinition(r) \/ ReadSubDefs(r) \/ ReadAlarms(r) \/ DatabaseFails(r) \/ Crash(r)
  <2>1. /\ UNCHANGED <<request, events, definition>>
        /\ \E place \in {"write", "readAlarms", "softDelete", "done", "crashed"} :
                pc' = [pc EXCEPT ![r] = place]
    BY <1>3 DEF ReadDefinition, ReadSubDefs, ReadAlarms, DatabaseFails, RolledBack, Crash, tables, Go, Reply
  <2> QED
    BY <2>1, HandlerQuiet DEF Places, InDatabase
<1>4. CASE WriteDefinition(r)
  <2>1. /\ UNCHANGED <<request, events>> /\ pc[r] = "write"
        /\ \E place \in {"done", "tell"} : pc' = [pc EXCEPT ![r] = place]
    BY <1>4 DEF WriteDefinition, UpdateRows, Go, Reply
  <2>2. \/ UNCHANGED definition
        \/ definition' = [definition EXCEPT ![q.target] =
                              UpdatedRow(definition[q.target], local[r].row, q.body)]
    BY <1>4 DEF WriteDefinition, UpdateRows, RolledBack
  <2>3. \A row \in RowSet : \A read, body : UpdatedRow(row, read, body).stage = row.stage
    BY DEF UpdatedRow, RowSet
  <2>4. \A d \in Defs : definition'[d].stage = definition[d].stage
    <3>1. UpdatedRow(definition[q.target], local[r].row, q.body).stage
              = definition[q.target].stage
      BY <1>1, <2>1, <2>3
    <3> QED
      BY <1>1, <2>1, <2>2, <3>1
  <2> QED
    BY <1>1, <2>1, <2>4, HandlerQuiet DEF Places, Defs
<1> QED
  BY <1>2, <1>3, <1>4

\* Events of other types leave what was told of deletions as it is.
LEMMA OtherEventsQuiet ==
    ASSUME TypeInv, DeletionInv, NEW r \in Requests,
           TellCreated(r) \/ TellUpdated(r) \/ TellAlarmsDeleted(r)
    PROVE  DeletionInv'
<1>1. /\ UNCHANGED <<definition, request>>
      /\ pc' = [pc EXCEPT ![r] = "done"] /\ pc \in [Requests -> Places]
      /\ \/ events' = events
         \/ \E type \in {"created", "updated", "alarm-deleted"} : \E content :
                events' = Append(events, Event(type, r, content))
  BY DEF TellCreated, TellUpdated, TellAlarmsDeleted, Publish, Reply, tables, TypeInv, ControlOK
<1>2. /\ \A s \in Requests : Announcing(s)' => Announcing(s)
      /\ \A s \in Requests : pc'[s] \in {"idle", "insert"} => pc[s] \in {"idle", "insert"}
  BY <1>1 DEF Announcing
<1>3. CASE events' = events
  BY <1>1, <1>2, <1>3, QuietStep DEF Told
<1>4. ASSUME NEW type \in {"created", "updated", "alarm-deleted"}, NEW content,
             events' = Append(events, Event(type, r, content))
      PROVE  DeletionInv'
  <2> DEFINE e == Event(type, r, content)
  <2>1. e.type # "deleted"
    BY DEF Event
  <2>2. PICK S : events \in Seq(S)
    BY DEF TypeInv, TopicOK
  <2>3. /\ Len(events') = Len(events) + 1 /\ Len(events) \in Nat
        /\ \A i \in 1..Len(events) : events'[i] = events[i]
        /\ events'[Len(events) + 1] = e
    BY <1>4, <2>2, AppendFacts
  <2> HIDE DEF e
  <2>4. \A i \in 1..Len(events') : i \in 1..Len(events) \/ i = Len(events) + 1
    BY <2>3
  <2>5. \A i \in 1..Len(events') : Told(i)' =>
            i \in 1..Len(events) /\ Told(i) /\ events'[i].definition = events[i].definition
    BY <2>1, <2>3, <2>4 DEF Told
  <2> QED
    BY <1>1, <1>2, <2>5, QuietStep
<1> QED
  BY <1>1, <1>3, <1>4

LEMMA StepDeletions == TypeInv /\ DeletionInv /\ [Next]_vars => DeletionInv'
<1> SUFFICES ASSUME TypeInv, DeletionInv, [Next]_vars PROVE DeletionInv'
  OBVIOUS
<1>1. CASE (\E m \in Methods : DeleteMethod(m)) \/ Engine \/ UNCHANGED vars
  <2>1. UNCHANGED <<definition, events, pc, request>>
    BY <1>1 DEF DeleteMethod, Engine, EngineHears, EngineCreatesAlarm, tables, vars
  <2>2. \A r \in Requests : Announcing(r)' => Announcing(r)
    BY <2>1 DEF Announcing
  <2> QED
    BY <2>1, <2>2, QuietStep DEF Told
<1>2. ASSUME NEW r \in Requests, Handle(r)
      PROVE  DeletionInv'
  BY <1>2, DatabaseQuiet, SoftDeleteOnce, TellDeletedOnce, OtherEventsQuiet DEF Handle
<1>3. ASSUME NEW r \in Requests, Receive(r) \/ Crash(r)
      PROVE  DeletionInv'
  BY <1>3, ReceiveQuiet, DatabaseQuiet
<1> QED
  BY <1>1, <1>2, <1>3 DEF Next

LEMMA Deletions == Spec => []DeletionInv
<1> QED
  BY InitDeletions, StepDeletions, Typed, PTL DEF Spec

\* However many requests delete a definition at the same time, whatever fails,
\* the topic holds at most one alarm-definition-deleted event of it.
THEOREM AnnouncedOnce == Spec => []DeletionAnnouncedOnce
<1>1. TypeInv /\ DeletionInv => DeletionAnnouncedOnce
  <2> SUFFICES ASSUME TypeInv, DeletionInv PROVE DeletionAnnouncedOnce
    OBVIOUS
  <2>1. DOMAIN events = 1..Len(events)
    BY DEF TypeInv, TopicOK
  <2> QED
    BY <2>1 DEF DeletionInv, ToldOnce, Told, Says, DeletionAnnouncedOnce
<1> QED
  BY <1>1, Typed, Deletions, PTL

------------------------------------------------------------------------------
(* What no step takes back. *)

\* A step of the handler of r leaves the other requests alone.
OnlyOne(r) ==
    \A s \in Requests \ {r} : /\ pc'[s] = pc[s] /\ answer'[s] = answer[s]
                              /\ local'[s] = local[s] /\ request'[s] = request[s]

\* What a step may do to the handlers: a request that has come in is not changed,
\* one that has ended stays as it is.
HandlersGoOn ==
    \A r \in Requests :
        /\ pc[r] # "idle" => pc'[r] # "idle" /\ request'[r] = request[r]
        /\ pc[r] \in {"done", "crashed"} => pc'[r] = pc[r] /\ answer'[r] = answer[r]

\* Definitions are not forgotten, keep their tenant, and stay deleted; alarms
\* stay with their definition and stay gone.
RowsGoOn ==
    /\ \A d \in Defs :
        /\ definition[d].stage # "absent" =>
                definition'[d].stage # "absent" /\ definition'[d].tenant = definition[d].tenant
        /\ definition[d].stage = "deleted" => definition'[d] = definition[d]
    /\ \A a \in Alarms :
        /\ alarm[a].stage = "gone" => alarm'[a].stage = "gone"
        /\ alarm[a].stage = "stored" =>
                alarm'[a].stage # "unborn" /\ alarm'[a].definition = alarm[a].definition

\* An event of the handler of r is published: which, from where, and what it says.
Announces(r, type, content) ==
    /\ events' = Append(events, Event(type, r, content))
    /\ UNCHANGED <<definition, alarm, request>>
    /\ \/ /\ pc[r] = "tell" /\ type = TypeOf(request[r].op)
       \/ /\ pc[r] = "tellAlarms" /\ type = "alarm-deleted"
          /\ content \in Alarms /\ content \in local[r].alarms
    /\ \/ pc' = [pc EXCEPT ![r] = "done"]
       \/ pc' = [pc EXCEPT ![r] = "tellAlarms"] /\ type = "deleted"

LEMMA HandlerTypes ==
    ASSUME TypeInv
    PROVE  /\ DOMAIN pc = Requests /\ DOMAIN answer = Requests
           /\ DOMAIN local = Requests /\ DOMAIN request = Requests
           /\ pc = [r \in Requests |-> pc[r]] /\ answer = [r \in Requests |-> answer[r]]
           /\ local = [r \in Requests |-> local[r]] /\ request = [r \in Requests |-> request[r]]
           /\ \A r \in Requests : local[r].alarms \subseteq Alarms
BY DEF TypeInv, LocalOK, ControlOK, RequestOK

LEMMA HandlerMoves ==
    ASSUME TypeInv, NEW r \in Requests, Receive(r) \/ Handle(r) \/ Crash(r)
    PROVE  /\ OnlyOne(r)
           /\ pc[r] \notin {"done", "crashed"} /\ pc'[r] # "idle"
           /\ pc[r] # "idle" => UNCHANGED request
<1> USE HandlerTypes DEF OnlyOne, Go, Reply
<1>1. CASE Receive(r)
  BY <1>1 DEF Receive, ReceivePost, ReceiveUpdate, ReceiveDelete, Accept
<1>2. CASE InsertDefinition(r)
  BY <1>2 DEF InsertDefinition, InsertRows, RolledBack
<1>3. CASE ReadDefinition(r)
  BY <1>3 DEF ReadDefinition
<1>4. CASE WriteDefinition(r)
  BY ZenonT(60), <1>4 DEF WriteDefinition, UpdateRows, RolledBack
<1>5. CASE ReadSubDefs(r) \/ ReadAlarms(r)
  BY <1>5 DEF ReadSubDefs, ReadAlarms
<1>6. CASE SoftDelete(r) \/ DatabaseFails(r) \/ Crash(r)
  BY <1>6 DEF SoftDelete, DatabaseFails, RolledBack, Crash, InDatabase
<1>7. CASE TellCreated(r) \/ TellUpdated(r)
  BY ZenonT(60), <1>7 DEF TellCreated, TellUpdated, Publish
<1>8. CASE TellDeleted(r) \/ TellAlarmsDeleted(r)
  BY <1>8 DEF TellDeleted, TellAlarmsDeleted, Publish
<1> QED
  BY <1>1, <1>2, <1>3, <1>4, <1>5, <1>6, <1>7, <1>8 DEF Handle

LEMMA UpdatedRowKeeps ==
    ASSUME NEW row \in RowSet, NEW read, NEW body
    PROVE  UpdatedRow(row, read, body).stage = row.stage
           /\ UpdatedRow(row, read, body).tenant = row.tenant
BY DEF UpdatedRow, RowSet

LEMMA RowsOfHandler ==
    ASSUME TypeInv, DeletionInv, NEW r \in Requests, Receive(r) \/ Handle(r) \/ Crash(r)
    PROVE  RowsGoOn
<1>1. /\ definition \in [Defs -> RowSet] /\ r \in Defs
      /\ pc[r] = "insert" => definition[r].stage = "absent"
      /\ alarm = [a \in Alarms |-> alarm[a]]
  BY DEF TypeInv, TablesOK, Defs, DeletionInv, FreshIds
<1>2. CASE UNCHANGED <<definition, alarm>>
  BY <1>2 DEF RowsGoOn
<1>3. CASE InsertDefinition(r)
  BY <1>1, <1>3 DEF InsertDefinition, InsertRows, RolledBack, RowsGoOn
<1>4. CASE WriteDefinition(r)
  <2> DEFINE d == request[r].target
  <2>1. UNCHANGED alarm
    BY <1>4 DEF WriteDefinition, UpdateRows
  <2>2. CASE UNCHANGED definition
    BY <1>2, <2>1, <2>2
  <2>3. CASE /\ Found(request[r].tenant, d)
             /\ definition' = [definition EXCEPT ![d] =
                                  UpdatedRow(definition[d], local[r].row, request[r].body)]
    <3>1. d \in Defs /\ definition[d].stage = "live"
      BY <2>3 DEF Found
    <3> QED
      BY <1>1, <2>1, <2>3, <3>1, UpdatedRowKeeps DEF RowsGoOn
  <2> QED
    BY <1>4, <2>2, <2>3 DEF WriteDefinition, UpdateRows, RolledBack, StillThere
<1>5. CASE SoftDelete(r)
  <2> DEFINE d == request[r].target
  <2>1. CASE Found(request[r].tenant, d)
    <3>1. d \in Defs /\ definition[d].stage = "live"
      BY <2>1 DEF Found
    <3>2. definition' = [definition EXCEPT ![d].stage = "deleted"] /\ alarm' = AlarmsWithout(d)
      BY <1>5, <2>1 DEF SoftDelete, Deletable
    <3>3. \A a \in Alarms : /\ alarm[a].stage = "gone" => alarm'[a] = alarm[a]
                            /\ alarm[a].stage = "stored" => alarm'[a].stage # "unborn"
                                    /\ alarm'[a].definition = alarm[a].definition
      <4>1. alarm \in [Alarms -> [stage : {"unborn", "stored", "gone"}, definition : Defs \cup {None}]]
        BY DEF TypeInv, TablesOK
      <4> QED
        BY <3>2, <4>1 DEF AlarmsWithout
    <3>4. definition'[d].tenant = definition[d].tenant /\ definition'[d].stage = "deleted"
      BY <1>1, <3>1, <3>2 DEF RowSet
    <3>5. \A c \in Defs \ {d} : definition'[c] = definition[c]
      BY <1>1, <3>2
    <3> QED
      BY <3>1, <3>3, <3>4, <3>5 DEF RowsGoOn
  <2>2. CASE ~ Found(request[r].tenant, d)
    BY <1>2, <1>5, <2>2 DEF SoftDelete, Deletable
  <2> QED
    BY <2>1, <2>2
<1>6. CASE Receive(r) \/ ReadDefinition(r) \/ ReadSubDefs(r) \/ ReadAlarms(r)
           \/ DatabaseFails(r) \/ Crash(r)
  BY <1>2, <1>6 DEF Receive, ReceivePost, ReceiveUpdate, ReceiveDelete, Accept, tables,
                    ReadDefinition, ReadSubDefs, ReadAlarms, DatabaseFails, RolledBack, Crash
<1>7. CASE TellCreated(r) \/ TellUpdated(r) \/ TellDeleted(r) \/ TellAlarmsDeleted(r)
  BY <1>2, <1>7 DEF TellCreated, TellUpdated, TellDeleted, TellAlarmsDeleted, tables
<1> QED
  BY <1>3, <1>4, <1>5, <1>6, <1>7 DEF Handle

LEMMA StepGoesOn ==
    ASSUME TypeInv, DeletionInv, [Next]_vars
    PROVE  HandlersGoOn /\ RowsGoOn
<1>1. CASE UNCHANGED vars
  BY <1>1 DEF vars, tables, HandlersGoOn, RowsGoOn
<1>2. CASE (\E m \in Methods : DeleteMethod(m)) \/ Engine
  <2>1. UNCHANGED <<definition, pc, request, answer>>
    BY <1>2 DEF DeleteMethod, Engine, EngineHears, EngineCreatesAlarm, tables
  <2>2. UNCHANGED alarm
        \/ \E a \in Alarms : \E d \in Defs :
                /\ alarm[a].stage = "unborn"
                /\ alarm' = [alarm EXCEPT ![a] = [stage |-> "stored", definition |-> d]]
    BY <1>2 DEF DeleteMethod, Engine, EngineHears, EngineCreatesAlarm, tables
  <2>3. alarm = [a \in Alarms |-> alarm[a]]
    BY DEF TypeInv, TablesOK
  <2> QED
    BY <2>1, <2>2, <2>3 DEF HandlersGoOn, RowsGoOn
<1>3. ASSUME NEW r \in Requests, Receive(r) \/ Handle(r) \/ Crash(r)
      PROVE  HandlersGoOn /\ RowsGoOn
  BY <1>3, HandlerMoves, RowsOfHandler DEF HandlersGoOn, OnlyOne
<1> QED
  BY <1>1, <1>2, <1>3 DEF Next

\* The topic only grows, by an event of a handler that stands where it tells.
LEMMA StepAnnounces ==
    ASSUME TypeInv, [Next]_vars
    PROVE  UNCHANGED events
           \/ \E r \in Requests : \E type, content : Announces(r, type, content)
<1>1. CASE UNCHANGED vars \/ (\E m \in Methods : DeleteMethod(m)) \/ Engine
  BY <1>1 DEF vars, DeleteMethod, Engine, EngineHears, EngineCreatesAlarm
<1>2. ASSUME NEW r \in Requests,
             \/ Receive(r) \/ InsertDefinition(r) \/ ReadDefinition(r) \/ WriteDefinition(r)
             \/ ReadSubDefs(r) \/ ReadAlarms(r) \/ SoftDelete(r) \/ DatabaseFails(r) \/ Crash(r)
      PROVE  UNCHANGED events
  BY <1>2 DEF Receive, ReceivePost, ReceiveUpdate, ReceiveDelete, Accept, InsertDefinition, InsertRows,
              ReadDefinition, WriteDefinition, ReadSubDefs, ReadAlarms, SoftDelete,
              DatabaseFails, Crash
<1>3. ASSUME NEW r \in Requests, TellCreated(r)
      PROVE  UNCHANGED events \/ \E type, content : Announces(r, type, content)
  BY <1>3 DEF TellCreated, Announces, TypeOf, Publish, Reply, tables
<1>4. ASSUME NEW r \in Requests, TellUpdated(r)
      PROVE  UNCHANGED events \/ \E type, content : Announces(r, type, content)
  <2>1. PICK content : Publish(r, Event("updated", r, content), Reply(r, 200))
    BY <1>4 DEF TellUpdated
  <2>2. UNCHANGED events \/ Announces(r, "updated", content)
    BY <1>4, <2>1 DEF TellUpdated, Announces, TypeOf, Publish, Reply, tables
  <2> QED
    BY <2>2
<1>5. ASSUME NEW r \in Requests, TellDeleted(r)
      PROVE  UNCHANGED events \/ \E type, content : Announces(r, type, content)
  BY <1>5 DEF TellDeleted, Announces, TypeOf, Publish, Reply, Go, tables
<1>6. ASSUME NEW r \in Requests, TellAlarmsDeleted(r)
      PROVE  UNCHANGED events \/ \E type, content : Announces(r, type, content)
  <2>1. UNCHANGED events
        \/ \E a \in Alarms : a \in local[r].alarms
                /\ Publish(r, Event("alarm-deleted", r, a), Reply(r, 204))
    BY <1>6 DEF TellAlarmsDeleted
  <2>2. ASSUME NEW a \in Alarms, a \in local[r].alarms,
               Publish(r, Event("alarm-deleted", r, a), Reply(r, 204))
        PROVE  UNCHANGED events \/ Announces(r, "alarm-deleted", a)
    BY <1>6, <2>2 DEF TellAlarmsDeleted, Announces, Publish, Reply, tables
  <2> QED
    BY <2>1, <2>2
<1> QED
  BY <1>1, <1>2, <1>3, <1>4, <1>5, <1>6 DEF Next, Handle


\* The events a step finds on the topic stay; one more is the one it announces.
LEMMA StepTopic ==
    ASSUME TypeInv, [Next]_vars
    PROVE  /\ Len(events) \in Nat /\ DOMAIN events = 1..Len(events)
           /\ DOMAIN events' = 1..Len(events')
           /\ \A i \in 1..Len(events) : i \in 1..Len(events') /\ events'[i] = events[i]
           /\ \A i \in 1..Len(events') : i \notin 1..Len(events) =>
                /\ i = Len(events) + 1
                /\ \E r \in Requests : \E type, content :
                        Announces(r, type, content) /\ events'[i] = Event(type, r, content)
<1>1. PICK S : events \in Seq(S)
  BY DEF TypeInv, TopicOK
<1>2. CASE UNCHANGED events
  BY <1>1, <1>2
<1>3. ASSUME NEW r \in Requests, NEW type, NEW content, Announces(r, type, content)
      PROVE  /\ Len(events) \in Nat /\ DOMAIN events = 1..Len(events)
             /\ DOMAIN events' = 1..Len(events')
             /\ \A i \in 1..Len(events) : i \in 1..Len(events') /\ events'[i] = events[i]
             /\ \A i \in 1..Len(events') : i \notin 1..Len(events) =>
                  i = Len(events) + 1 /\ events'[i] = Event(type, r, content)
  <2> DEFINE e == Event(type, r, content)
  <2>1. events' = Append(events, e)
    BY <1>3 DEF Announces
  <2> HIDE DEF e
  <2>2. /\ events' \in Seq(S \cup {e})
        /\ Len(events') = Len(events) + 1 /\ Len(events) \in Nat
        /\ \A i \in 1..Len(events) : events'[i] = events[i]
        /\ events'[Len(events) + 1] = e
    BY <1>1, <2>1, AppendFacts
  <2>3. DOMAIN events = 1..Len(events) /\ DOMAIN events' = 1..Len(events')
    BY <1>1, <2>2
  <2>4. \A i \in 1..Len(events') : i \notin 1..Len(events) => i = Len(events) + 1
    BY <2>2
  <2> QED
    BY <2>2, <2>3, <2>4 DEF e
<1> QED
  BY <1>2, <1>3, StepAnnounces
------------------------------------------------------------------------------
(* Who has announced what, and who may: the rows and the topic agree. *)

\* A request that came in after others were answered.
AfterIsDone == \A r \in Requests : \A s \in request[r].after : pc[s] = "done"

\* What an event about the request's definition, by its handler, takes for granted.
Committed(r) ==
    LET d == request[r].target
    IN  /\ definition[d].stage # "absent" /\ definition[d].tenant = request[r].tenant
        /\ request[r].op = "delete" => definition[d].stage = "deleted"
TellersCommitted == \A r \in Requests : pc[r] \in {"tell", "tellAlarms"} => Committed(r)

\* The alarms a deletion is going to announce are gone, or go with it.
AlarmsGoOrGone ==
    \A r \in Requests : \A a \in local[r].alarms :
        /\ pc[r] \in {"tell", "tellAlarms"} /\ request[r].op = "delete" => alarm[a].stage = "gone"
        /\ pc[r] = "softDelete" => \/ alarm[a].stage = "gone"
                                   \/ /\ alarm[a].stage = "stored"
                                      /\ alarm[a].definition = request[r].target

\* A handler speaks for its request once it has committed, and is not refused.
Past(r) ==
    /\ pc[r] \in {"tell", "tellAlarms", "done", "crashed"}
    /\ answer[r] \notin {400, 404}
Sends(i, r) ==
    /\ Past(r) /\ pc[r] # "tell" /\ Committed(r)
    /\ events[i].definition = request[r].target
    /\ \/ events[i].type = TypeOf(request[r].op)
       \/ /\ events[i].type = "alarm-deleted" /\ request[r].op = "delete"
          /\ events[i].content \in Alarms /\ alarm[events[i].content].stage = "gone"
SendersCommitted ==
    \A i \in 1..Len(events) : \A r \in Requests : events[i].by = r => Sends(i, r)
Ordered ==
    \A i, j \in 1..Len(events) : events[i].by \in request[events[j].by].after => i < j

\* Who is about to tell of the alarms has told of the definition.
HasTold(type, r) == \E i \in 1..Len(events) : events[i].type = type /\ events[i].by = r
DefinitionFirst ==
    /\ \A r \in Requests : pc[r] = "tellAlarms" => HasTold("deleted", r)
    /\ \A j \in 1..Len(events) : events[j].type = "alarm-deleted" =>
            \E i \in 1..Len(events) : i < j /\ events[i].type = "deleted"
                                      /\ events[i].by = events[j].by
Successes ==
    \A r \in Requests :
        /\ answer[r] = 201 => HasTold("created", r)
        /\ answer[r] = 200 => HasTold("updated", r)
        /\ answer[r] = 204 => HasTold("deleted", r)

TopicInv == /\ AfterIsDone /\ TellersCommitted /\ AlarmsGoOrGone /\ SendersCommitted
            /\ Ordered /\ DefinitionFirst /\ Successes

LEMMA InitTopic == Init => TopicInv
<1> SUFFICES ASSUME Init PROVE TopicInv
  OBVIOUS
<1>1. Len(events) = 0 /\ \A r \in Requests : /\ pc[r] = "idle" /\ answer[r] = None
                                             /\ request[r].after = {}
  BY DEF Init, NoRequest
<1>2. 200 # None /\ 201 # None /\ 204 # None
  BY DEF Statuses
<1> QED
  BY <1>1, <1>2 DEF TopicInv, AfterIsDone, TellersCommitted, AlarmsGoOrGone, SendersCommitted,
                    Ordered, DefinitionFirst, Successes

LEMMA StepAfter ==
    ASSUME TypeInv, DeletionInv, AfterIsDone, [Next]_vars
    PROVE  AfterIsDone'
<1>1. /\ HandlersGoOn
      /\ \A r \in Requests : request[r].after \subseteq Requests
  BY StepGoesOn DEF TypeInv, RequestOK
<1>2. ASSUME NEW r \in Requests, request'[r] # request[r]
      PROVE  request'[r].after = {s \in Requests : pc[s] = "done"}
  <2>1. CASE (\E m \in Methods : DeleteMethod(m)) \/ Engine \/ UNCHANGED vars
    BY <1>2, <2>1 DEF DeleteMethod, Engine, EngineHears, EngineCreatesAlarm, vars, tables
  <2>2. ASSUME NEW s \in Requests, Receive(s) \/ Handle(s) \/ Crash(s)
        PROVE  request'[r].after = {x \in Requests : pc[x] = "done"}
    <3>1. s = r /\ pc[r] = "idle"
      BY <1>2, <2>2, HandlerMoves DEF OnlyOne
    <3>2. ~ (Handle(r) \/ Crash(r))
      BY <1>2, <3>1 DEF Handle, Crash, InsertDefinition, InsertRows, ReadDefinition, WriteDefinition, UpdateRows,
            ReadSubDefs, ReadAlarms, SoftDelete, DatabaseFails, InDatabase, TellCreated,
            TellUpdated, TellDeleted, TellAlarmsDeleted
    <3>3. PICK op, t, d, b : Accept(r, op, t, d, b)
      BY <2>2, <3>1, <3>2 DEF Receive, ReceivePost, ReceiveUpdate, ReceiveDelete
    <3> QED
      BY <3>3, HandlerTypes DEF Accept, Answered
  <2> QED
    BY <2>1, <2>2 DEF Next
<1>3. ASSUME NEW r \in Requests, NEW s \in request'[r].after
      PROVE  pc'[s] = "done"
  BY <1>1, <1>2, <1>3 DEF HandlersGoOn, AfterIsDone
<1> QED
  BY <1>3 DEF AfterIsDone


\* A handler at "tell" or "tellAlarms" publishes or stops, and is not refused.
LEMMA TellersMove ==
    ASSUME TypeInv, NEW r \in Requests, Handle(r) \/ Crash(r), pc[r] \in {"tell", "tellAlarms"}
    PROVE  /\ \/ TellCreated(r) \/ TellUpdated(r) \/ TellDeleted(r) \/ TellAlarmsDeleted(r)
              \/ Crash(r)
           /\ Past(r)'
           /\ UNCHANGED <<definition, subDef, alarmAction, alarm, request, local>>
<1>1. \/ TellCreated(r) \/ TellUpdated(r) \/ TellDeleted(r) \/ TellAlarmsDeleted(r) \/ Crash(r)
  BY DEF Handle, InsertDefinition, InsertRows, ReadDefinition, WriteDefinition, UpdateRows, ReadSubDefs, ReadAlarms,
         SoftDelete, DatabaseFails, InDatabase
<1>2. UNCHANGED <<definition, subDef, alarmAction, alarm, request, local>>
  BY <1>1 DEF TellCreated, TellUpdated, TellDeleted, TellAlarmsDeleted, Crash, tables
<1>3. (\E status \in {200, 201, 204, 500} : Reply(r, status))
      \/ \E place \in {"tellAlarms", "crashed"} : Go(r, place)
  <2>1. CASE TellCreated(r)
    BY <2>1 DEF TellCreated, Publish
  <2>2. CASE TellUpdated(r)
    BY <2>2 DEF TellUpdated, Publish
  <2>3. CASE TellDeleted(r)
    BY <2>3 DEF TellDeleted, Publish
  <2>4. CASE TellAlarmsDeleted(r)
    BY <2>4 DEF TellAlarmsDeleted, Publish
  <2>5. CASE Crash(r)
    BY <2>5 DEF Crash
  <2> QED
    BY <1>1, <2>1, <2>2, <2>3, <2>4, <2>5
<1>4. answer[r] = None /\ None \notin {400, 404}
  BY DEF TypeInv, ControlOK, Statuses
<1>5. DOMAIN pc = Requests /\ DOMAIN answer = Requests
  BY HandlerTypes
<1>6. ASSUME NEW status \in {200, 201, 204, 500}, Reply(r, status)
      PROVE  Past(r)'
  BY <1>5, <1>6 DEF Past, Reply
<1>7. ASSUME NEW place \in {"tellAlarms", "crashed"}, Go(r, place)
      PROVE  Past(r)'
  BY <1>4, <1>5, <1>7 DEF Past, Go
<1> QED
  BY <1>1, <1>2, <1>3, <1>6, <1>7

\* Who acts: one request's handler, or nobody that a handler would notice.
LEMMA WhoActs ==
    ASSUME [Next]_vars
    PROVE  \/ UNCHANGED <<definition, subDef, alarmAction, events, pc, request, local, answer>>
           \/ \E r \in Requests : Receive(r) \/ Handle(r) \/ Crash(r)
BY DEF Next, vars, tables, Engine, EngineHears, EngineCreatesAlarm, DeleteMethod

LEMMA PastStays ==
    ASSUME TypeInv, [Next]_vars, NEW r \in Requests, Past(r)
    PROVE  Past(r)'
<1>1. CASE UNCHANGED <<pc, answer>>
  BY <1>1 DEF Past
<1>2. ASSUME NEW s \in Requests, Receive(s) \/ Handle(s) \/ Crash(s)
      PROVE  Past(r)'
  <2>1. CASE s # r
    BY <1>2, <2>1, HandlerMoves DEF OnlyOne, Past
  <2>2. CASE s = r
    <3>1. pc[r] \in {"tell", "tellAlarms"}
      BY <1>2, <2>2, HandlerMoves DEF Past
    <3>2. ~ Receive(r)
      BY <3>1 DEF Receive, ReceivePost, ReceiveUpdate, ReceiveDelete, Accept
    <3> QED
      BY <1>2, <2>2, <3>1, <3>2, TellersMove
  <2> QED
    BY <2>1, <2>2
<1> QED
  BY <1>1, <1>2, WhoActs

LEMMA CommittedStays ==
    ASSUME TypeInv, HandlersGoOn, RowsGoOn, NEW r \in Requests, pc[r] # "idle", Committed(r)
    PROVE  Committed(r)'
BY DEF TypeInv, WhereOK, HandlersGoOn, RowsGoOn, Committed

\* How a handler comes to a place where it tells: by its own commit.
LEMMA ComesToTell ==
    ASSUME TypeInv, DeletionInv, NEW r \in Requests, Receive(r) \/ Handle(r) \/ Crash(r),
           pc'[r] \in {"tell", "tellAlarms"}
    PROVE  \/ InsertDefinition(r) /\ pc[r] = "insert" /\ Committed(r)'
           \/ WriteDefinition(r) /\ pc[r] = "write" /\ Committed(r)'
           \/ SoftDelete(r) /\ pc[r] = "softDelete" /\ Committed(r)'
           \/ /\ TellDeleted(r) /\ pc[r] = "tell" /\ pc'[r] = "tellAlarms"
              /\ request[r].op = "delete"
<1> USE HandlerTypes DEF Go, Reply
<1>1. InsertDefinition(r) \/ WriteDefinition(r) \/ SoftDelete(r) \/ TellDeleted(r)
  <2>1. ~ Receive(r)
    BY DEF Receive, ReceivePost, ReceiveUpdate, ReceiveDelete, Accept
  <2>2. ~ (ReadDefinition(r) \/ ReadSubDefs(r) \/ ReadAlarms(r) \/ DatabaseFails(r) \/ Crash(r))
    BY DEF ReadDefinition, ReadSubDefs, ReadAlarms, DatabaseFails, RolledBack, Crash
  <2>3. ~ (TellCreated(r) \/ TellUpdated(r) \/ TellAlarmsDeleted(r))
    BY ZenonT(60) DEF TellCreated, TellUpdated, TellAlarmsDeleted, Publish
  <2> QED
    BY <2>1, <2>2, <2>3 DEF Handle
<1>2. /\ definition \in [Defs -> RowSet] /\ r \in Defs
      /\ pc[r] = "insert" => request[r].target = r /\ request[r].op = "create"
      /\ pc[r] = "write" => request[r].op # "delete" /\ request[r].target \in Defs
      /\ pc[r] = "softDelete" => request[r].target \in Defs
  BY DEF TypeInv, TablesOK, Defs, WhereOK
<1>3. CASE InsertDefinition(r)
  BY <1>2, <1>3 DEF InsertDefinition, InsertRows, NewRow, Committed
<1>4. CASE WriteDefinition(r)
  <2> DEFINE d == request[r].target
  <2>1. /\ Found(request[r].tenant, d)
        /\ definition' = [definition EXCEPT ![d] =
                              UpdatedRow(definition[d], local[r].row, request[r].body)]
        /\ UNCHANGED request /\ pc[r] = "write"
    <3>1. ~ Reply(r, 500)
      BY DEF Reply
    <3> QED
      BY <1>4, <3>1 DEF WriteDefinition, UpdateRows, StillThere
  <2>2. definition'[d].stage = "live" /\ definition'[d].tenant = request[r].tenant
    BY <1>2, <2>1, UpdatedRowKeeps DEF Found
  <2> QED
    BY <1>2, <1>4, <2>1, <2>2 DEF Committed
<1>5. CASE SoftDelete(r)
  <2> DEFINE d == request[r].target
  <2>1. /\ Found(request[r].tenant, d) /\ pc[r] = "softDelete"
        /\ definition' = [definition EXCEPT ![d].stage = "deleted"] /\ UNCHANGED request
    BY <1>5 DEF SoftDelete, Deletable
  <2>2. definition'[d].stage = "deleted" /\ definition'[d].tenant = request[r].tenant
    BY <1>2, <2>1 DEF Found, RowSet
  <2> QED
    BY <1>5, <2>1, <2>2 DEF Committed
<1>6. CASE TellDeleted(r)
  BY <1>6 DEF TellDeleted, Publish
<1> QED
  BY <1>1, <1>3, <1>4, <1>5, <1>6

LEMMA StepTellers ==
    ASSUME TypeInv, DeletionInv, TellersCommitted, [Next]_vars
    PROVE  TellersCommitted'
<1>1. HandlersGoOn /\ RowsGoOn
  BY StepGoesOn
<1>2. ASSUME NEW r \in Requests, pc'[r] \in {"tell", "tellAlarms"}
      PROVE  Committed(r)'
  <2>1. CASE pc[r] \in {"tell", "tellAlarms"}
    BY <1>1, <2>1, CommittedStays DEF TellersCommitted
  <2>2. CASE pc[r] \notin {"tell", "tellAlarms"}
    <3>1. PICK s \in Requests : Receive(s) \/ Handle(s) \/ Crash(s)
      BY <1>2, <2>2, WhoActs
    <3>2. s = r
      BY <1>2, <2>2, <3>1, HandlerMoves DEF OnlyOne
    <3> QED
      BY <1>2, <2>2, <3>1, <3>2, ComesToTell
  <2> QED
    BY <2>1, <2>2
<1> QED
  BY <1>2 DEF TellersCommitted

\* The alarms a deletion announces were read with the definition, or of it, and
\* go with it; what was gone stays gone.
LEMMA StepAlarms ==
    ASSUME TypeInv, DeletionInv, AlarmsGoOrGone, [Next]_vars
    PROVE  AlarmsGoOrGone'
<1>1. HandlersGoOn /\ RowsGoOn /\ TypeInv'
  BY StepGoesOn, StepTyped
<1>2. /\ alarm \in [Alarms -> [stage : {"unborn", "stored", "gone"}, definition : Defs \cup {None}]]
      /\ \A a \in Alarms : alarm'[a].stage \in {"unborn", "stored", "gone"}
  BY <1>1 DEF TypeInv, TablesOK
<1>3. ASSUME NEW r \in Requests, NEW a \in local'[r].alarms,
             pc'[r] \in {"tell", "tellAlarms"}, request'[r].op = "delete"
      PROVE  alarm'[a].stage = "gone"
  <2>1. CASE pc[r] \in {"tell", "tellAlarms"}
    <3>1. local'[r] = local[r]
      <4>1. CASE UNCHANGED local
        BY <4>1
      <4>2. ASSUME NEW s \in Requests, Receive(s) \/ Handle(s) \/ Crash(s)
            PROVE  local'[r] = local[r]
        <5>1. CASE s # r
          BY <4>2, <5>1, HandlerMoves DEF OnlyOne
        <5>2. CASE s = r
          <6>1. ~ Receive(r)
            BY <2>1 DEF Receive, ReceivePost, ReceiveUpdate, ReceiveDelete, Accept
          <6> QED
            BY <2>1, <4>2, <5>2, <6>1, TellersMove
        <5> QED
          BY <5>1, <5>2
      <4> QED
        BY <4>1, <4>2, WhoActs
    <3>2. request'[r] = request[r]
      BY <1>1, <2>1 DEF HandlersGoOn
    <3>3. a \in Alarms
      BY <3>1, <1>3, HandlerTypes
    <3> QED
      BY <1>1, <1>3, <2>1, <3>1, <3>2, <3>3 DEF AlarmsGoOrGone, RowsGoOn
  <2>2. CASE pc[r] \notin {"tell", "tellAlarms"}
    <3>1. PICK s \in Requests : Receive(s) \/ Handle(s) \/ Crash(s)
      BY <1>3, <2>2, WhoActs
    <3>2. s = r
      BY <1>3, <2>2, <3>1, HandlerMoves DEF OnlyOne
    <3>3. SoftDelete(r) /\ pc[r] = "softDelete"
      <4>1. /\ pc[r] = "insert" => request[r].op = "create"
            /\ pc[r] = "write" => request[r].op \in {"put", "patch"}
        BY DEF TypeInv, WhereOK
      <4>2. pc[r] # "idle" => request'[r] = request[r]
        BY <1>1 DEF HandlersGoOn
      <4> QED
        BY <1>3, <2>2, <3>1, <3>2, <4>1, <4>2, ComesToTell
    <3>4. alarm' = AlarmsWithout(request[r].target) /\ UNCHANGED local
      BY <1>3, <3>3, HandlerTypes DEF SoftDelete, Reply
    <3>5. a \in Alarms
      BY <1>3, <3>4, HandlerTypes
    <3> QED
      BY <1>2, <1>3, <3>3, <3>4, <3>5 DEF AlarmsGoOrGone, AlarmsWithout
  <2> QED
    BY <2>1, <2>2
<1>4. ASSUME NEW r \in Requests, NEW a \in local'[r].alarms, pc'[r] = "softDelete"
      PROVE  \/ alarm'[a].stage = "gone"
             \/ alarm'[a].stage = "stored" /\ alarm'[a].definition = request'[r].target
  <2>1. CASE UNCHANGED <<pc, request, local>> \/ \E s \in Requests \ {r} : OnlyOne(s)
    <3>1. pc[r] = "softDelete" /\ local'[r] = local[r] /\ request'[r] = request[r]
      BY <1>4, <2>1 DEF OnlyOne
    <3>2. a \in Alarms
      BY <3>1, <1>4, HandlerTypes
    <3> QED
      BY <1>1, <1>2, <1>4, <3>1, <3>2 DEF AlarmsGoOrGone, RowsGoOn
  <2>2. CASE Receive(r) \/ Handle(r) \/ Crash(r)
    <3>1. ReadAlarms(r)
      <4> USE HandlerTypes, <1>4 DEF Go, Reply
      <4>1. ~ (Receive(r) \/ DatabaseFails(r) \/ Crash(r))
        BY DEF Receive, ReceivePost, ReceiveUpdate, ReceiveDelete, Accept, DatabaseFails, RolledBack, Crash
      <4>2. ~ (InsertDefinition(r) \/ ReadDefinition(r) \/ WriteDefinition(r) \/ ReadSubDefs(r)
               \/ SoftDelete(r))
        BY DEF InsertDefinition, InsertRows, ReadDefinition, WriteDefinition, UpdateRows, ReadSubDefs, SoftDelete
      <4>3. ~ (TellCreated(r) \/ TellUpdated(r) \/ TellDeleted(r) \/ TellAlarmsDeleted(r))
        BY ZenonT(60) DEF TellCreated, TellUpdated, TellDeleted, TellAlarmsDeleted, Publish
      <4> QED
        BY <2>2, <4>1, <4>2, <4>3 DEF Handle
    <3>2. /\ \A x \in local'[r].alarms : /\ alarm[x].stage = "stored"
                                         /\ alarm[x].definition = request[r].target
          /\ UNCHANGED <<alarm, request>>
      BY <3>1, HandlerTypes DEF ReadAlarms, tables
    <3> QED
      BY <1>4, <3>2
  <2> QED
    BY <2>1, <2>2, WhoActs, HandlerMoves
<1> QED
  BY <1>3, <1>4 DEF AlarmsGoOrGone

LEMMA StepSenders ==
    ASSUME TypeInv, DeletionInv, TellersCommitted, AlarmsGoOrGone, SendersCommitted, [Next]_vars
    PROVE  SendersCommitted'
<1>1. HandlersGoOn /\ RowsGoOn
  BY StepGoesOn
<1>2. \A r \in Requests : pc[r] = "tell" => Past(r)
  BY DEF TypeInv, ControlOK, Past, Statuses
<1>3. \A r \in Requests : Past(r) /\ pc[r] # "tell" => pc'[r] # "tell"
  <2> SUFFICES ASSUME NEW r \in Requests, Past(r), pc[r] # "tell", pc'[r] = "tell"
               PROVE  FALSE
    OBVIOUS
  <2>1. PICK s \in Requests : Receive(s) \/ Handle(s) \/ Crash(s)
    BY WhoActs
  <2>2. s = r
    BY <2>1, HandlerMoves DEF OnlyOne
  <2> QED
    BY <2>1, <2>2, ComesToTell DEF Past
<1>4. ASSUME NEW i \in 1..Len(events), NEW r \in Requests, events[i].by = r, events'[i] = events[i]
      PROVE  Sends(i, r)'
  <2>1. Sends(i, r)
    BY <1>4 DEF SendersCommitted
  <2>2. Past(r)' /\ pc'[r] # "tell"
    BY <2>1, <1>3, PastStays DEF Sends
  <2>3. Committed(r)' /\ request'[r] = request[r]
    BY <1>1, <2>1, CommittedStays DEF Sends, Past, HandlersGoOn
  <2> QED
    BY <1>1, <1>4, <2>1, <2>2, <2>3 DEF Sends, RowsGoOn
<1>5. ASSUME NEW r \in Requests, NEW type, NEW content, Announces(r, type, content)
      PROVE  /\ Past(r)' /\ pc'[r] # "tell" /\ Committed(r)'
             /\ request'[r] = request[r]
             /\ \/ type = TypeOf(request'[r].op)
                \/ /\ type = "alarm-deleted" /\ request'[r].op = "delete"
                   /\ content \in Alarms /\ alarm'[content].stage = "gone"
  <2>1. /\ pc[r] \in {"tell", "tellAlarms"} /\ UNCHANGED <<request, alarm>>
        /\ pc'[r] \in {"done", "tellAlarms"}
    BY <1>5, HandlerTypes DEF Announces
  <2>2. Past(r)'
    <3>1. Past(r)
      BY <2>1 DEF TypeInv, ControlOK, Past, Statuses
    <3> QED
      BY <3>1, PastStays
  <2>3. Committed(r)'
    BY <1>1, <2>1, CommittedStays DEF TellersCommitted
  <2>4. pc[r] = "tellAlarms" => request[r].op = "delete"
    BY DEF TypeInv, WhereOK
  <2> QED
    BY <1>5, <2>1, <2>2, <2>3, <2>4 DEF Announces, AlarmsGoOrGone
<1>6. ASSUME NEW i \in 1..Len(events'), NEW r \in Requests, events'[i].by = r
      PROVE  Sends(i, r)'
  <2>1. CASE i \in 1..Len(events)
    BY <1>4, <1>6, <2>1, StepTopic
  <2>2. CASE i \notin 1..Len(events)
    <3>1. PICK s \in Requests : \E type, content :
                Announces(s, type, content) /\ events'[i] = Event(type, s, content)
      BY <2>2, StepTopic
    <3>2. PICK type, content : Announces(s, type, content) /\ events'[i] = Event(type, s, content)
      BY <3>1
    <3>3. /\ s = r /\ events'[i].type = type /\ events'[i].content = content
          /\ events'[i].definition = request[r].target
      BY <1>6, <3>2 DEF Event
    <3> QED
      BY <3>2, <3>3, <1>5 DEF Sends
  <2> QED
    BY <2>1, <2>2
<1> QED
  BY <1>6 DEF SendersCommitted

\* Nobody who is still to be answered comes before a sender.
LEMMA StepOrder ==
    ASSUME TypeInv, DeletionInv, AfterIsDone, SendersCommitted, Ordered, [Next]_vars
    PROVE  Ordered'
<1>1. ASSUME NEW i \in 1..Len(events), NEW r \in Requests, events[i].by = r
      PROVE  request'[r] = request[r]
  BY <1>1, StepGoesOn DEF SendersCommitted, Sends, Past, HandlersGoOn
<1>2. ASSUME NEW r \in Requests, NEW type, NEW content, Announces(r, type, content)
      PROVE  UNCHANGED request /\ \A s \in Requests : r \notin request[s].after
  <2>1. pc[r] # "done" /\ UNCHANGED request
    BY <1>2 DEF Announces
  <2> QED
    BY <2>1 DEF AfterIsDone
<1>3. ASSUME NEW i \in 1..Len(events'), NEW j \in 1..Len(events'),
             events'[i].by \in request'[events'[j].by].after
      PROVE  i < j
  <2>1. CASE i \in 1..Len(events) /\ j \in 1..Len(events)
    <3>1. /\ events'[i] = events[i] /\ events'[j] = events[j]
          /\ events[i].by \in Requests /\ events[j].by \in Requests
      BY <2>1, StepTopic DEF TypeInv, TopicOK
    <3> QED
      BY <1>1, <1>3, <2>1, <3>1 DEF Ordered
  <2>2. CASE i \in 1..Len(events) /\ j \notin 1..Len(events)
    BY <2>2, StepTopic
  <2>3. CASE i \notin 1..Len(events)
    <3>1. PICK r \in Requests : \E type, content :
                Announces(r, type, content) /\ events'[i] = Event(type, r, content)
      BY <2>3, StepTopic
    <3>2. events'[i].by = r /\ UNCHANGED request /\ \A s \in Requests : r \notin request[s].after
      BY <3>1, <1>2 DEF Event
    <3>3. events'[j].by \in Requests
      BY StepTyped DEF TypeInv, TopicOK
    <3> QED
      BY <1>3, <3>2, <3>3
  <2> QED
    BY <2>1, <2>2, <2>3
<1> QED
  BY <1>3 DEF Ordered

LEMMA ToldStays ==
    ASSUME TypeInv, [Next]_vars, NEW r, NEW type, HasTold(type, r)
    PROVE  HasTold(type, r)'
BY StepTopic DEF HasTold

\* What a handler has published when its message was taken.
LEMMA ToldNow ==
    ASSUME TypeInv, NEW r, NEW type, NEW content,
           events' = Append(events, Event(type, r, content))
    PROVE  HasTold(type, r)'
<1> DEFINE e == Event(type, r, content)
<1>1. e.type = type /\ e.by = r
  BY DEF Event
<1>2. PICK S : events \in Seq(S)
  BY DEF TypeInv, TopicOK
<1> HIDE DEF e
<1>3. /\ Len(events') = Len(events) + 1 /\ Len(events) \in Nat
      /\ events'[Len(events) + 1] = e
  BY <1>2, AppendFacts DEF e
<1> QED
  BY <1>1, <1>3 DEF HasTold

LEMMA StepFirst ==
    ASSUME TypeInv, DeletionInv, DefinitionFirst, [Next]_vars
    PROVE  DefinitionFirst'
<1>1. ASSUME NEW r \in Requests, pc'[r] = "tellAlarms"
      PROVE  HasTold("deleted", r)'
  <2>1. CASE pc[r] = "tellAlarms"
    BY <2>1, ToldStays DEF DefinitionFirst
  <2>2. CASE pc[r] # "tellAlarms"
    <3>1. PICK s \in Requests : Receive(s) \/ Handle(s) \/ Crash(s)
      BY <1>1, <2>2, WhoActs
    <3>2. s = r
      BY <1>1, <2>2, <3>1, HandlerMoves DEF OnlyOne
    <3>3. TellDeleted(r)
      <4>1. ~ (InsertDefinition(r) \/ WriteDefinition(r) \/ SoftDelete(r))
        BY <1>1, HandlerTypes DEF InsertDefinition, InsertRows, WriteDefinition, UpdateRows, SoftDelete, Go, Reply
      <4> QED
        BY <1>1, <3>1, <3>2, <4>1, ComesToTell
    <3>4. events' = Append(events, Event("deleted", r, local[r].subDefs))
      BY <1>1, <3>3, HandlerTypes DEF TellDeleted, Publish, Reply
    <3> QED
      BY <3>4, ToldNow
  <2> QED
    BY <2>1, <2>2
<1>2. ASSUME NEW j \in 1..Len(events'), events'[j].type = "alarm-deleted"
      PROVE  \E i \in 1..Len(events') :
                i < j /\ events'[i].type = "deleted" /\ events'[i].by = events'[j].by
  <2>1. CASE j \in 1..Len(events)
    <3>1. events'[j] = events[j]
      BY <2>1, StepTopic
    <3>2. PICK i \in 1..Len(events) :
                i < j /\ events[i].type = "deleted" /\ events[i].by = events[j].by
      BY <1>2, <2>1, <3>1 DEF DefinitionFirst
    <3> QED
      BY <3>1, <3>2, StepTopic
  <2>2. CASE j \notin 1..Len(events)
    <3>1. PICK r \in Requests : \E type, content :
                Announces(r, type, content) /\ events'[j] = Event(type, r, content)
      BY <2>2, StepTopic
    <3>2. pc[r] = "tellAlarms" /\ events'[j].by = r
      BY <1>2, <3>1 DEF Announces, TypeOf, Event
    <3>3. PICK i \in 1..Len(events) : events[i].type = "deleted" /\ events[i].by = r
      BY <3>2 DEF DefinitionFirst, HasTold
    <3>4. j = Len(events) + 1 /\ Len(events) \in Nat
      BY <2>2, StepTopic
    <3>5. i \in 1..Len(events') /\ events'[i] = events[i] /\ i < j
      BY <3>4, StepTopic
    <3> QED
      BY <3>2, <3>3, <3>5
  <2> QED
    BY <2>1, <2>2
<1> QED
  BY <1>1, <1>2 DEF DefinitionFirst

\* The answer of a success comes with the event.
LEMMA StepSuccesses ==
    ASSUME TypeInv, DeletionInv, DefinitionFirst, Successes, [Next]_vars
    PROVE  Successes'
<1>1. ASSUME NEW r \in Requests, Handle(r), answer'[r] \in {200, 201, 204}, answer'[r] # answer[r]
      PROVE  \/ answer'[r] = 201 /\ HasTold("created", r)'
             \/ answer'[r] = 200 /\ HasTold("updated", r)'
             \/ answer'[r] = 204 /\ HasTold("deleted", r)'
  <2> USE <1>1, HandlerTypes DEF Go, Reply
  <2>1. ~ (InsertDefinition(r) \/ ReadDefinition(r) \/ WriteDefinition(r) \/ ReadSubDefs(r))
    BY DEF InsertDefinition, InsertRows, ReadDefinition, WriteDefinition, UpdateRows, ReadSubDefs
  <2>2. ~ (ReadAlarms(r) \/ SoftDelete(r) \/ DatabaseFails(r) \/ TellDeleted(r))
    BY DEF ReadAlarms, SoftDelete, DatabaseFails, RolledBack, TellDeleted, Publish
  <2>3. CASE TellCreated(r)
    BY <2>3, ToldNow DEF TellCreated, Publish
  <2>4. CASE TellUpdated(r)
    <3>1. PICK content : Publish(r, Event("updated", r, content), Reply(r, 200))
      BY <2>4 DEF TellUpdated
    <3>2. events' = Append(events, Event("updated", r, content)) /\ Reply(r, 200)
      BY <3>1 DEF Publish
    <3> QED
      BY <3>2, ToldNow
  <2>5. CASE TellAlarmsDeleted(r)
    <3>1. answer'[r] \in {204, 500} /\ pc[r] = "tellAlarms"
      BY <2>5 DEF TellAlarmsDeleted, Publish
    <3>2. HasTold("deleted", r)
      BY <3>1 DEF DefinitionFirst
    <3> QED
      BY <3>1, <3>2, ToldStays
  <2> QED
    BY <2>1, <2>2, <2>3, <2>4, <2>5 DEF Handle
<1>2. ASSUME NEW r \in Requests, answer'[r] \in {200, 201, 204}, answer'[r] # answer[r]
      PROVE  Handle(r)
  <2>1. PICK s \in Requests : Receive(s) \/ Handle(s) \/ Crash(s)
    BY <1>2, WhoActs
  <2>2. s = r
    BY <1>2, <2>1, HandlerMoves DEF OnlyOne
  <2>3. ~ (Receive(r) \/ Crash(r))
    BY <1>2, HandlerTypes DEF Receive, ReceivePost, ReceiveUpdate, ReceiveDelete, Crash, Go, Reply
  <2> QED
    BY <2>1, <2>2, <2>3
<1>3. ASSUME NEW r \in Requests
      PROVE  /\ answer'[r] = 201 => HasTold("created", r)'
             /\ answer'[r] = 200 => HasTold("updated", r)'
             /\ answer'[r] = 204 => HasTold("deleted", r)'
  <2>1. CASE answer'[r] = answer[r]
    BY <2>1, ToldStays DEF Successes
  <2>2. CASE answer'[r] # answer[r]
    BY <2>2, <1>1, <1>2
  <2> QED
    BY <2>1, <2>2
<1> QED
  BY <1>3 DEF Successes

LEMMA StepTopicInv == TypeInv /\ DeletionInv /\ TopicInv /\ [Next]_vars => TopicInv'
BY StepAfter, StepTellers, StepAlarms, StepSenders, StepOrder, StepFirst, StepSuccesses
   DEF TopicInv

LEMMA TopicHistory == Spec => []TopicInv
BY InitTopic, StepTopicInv, Typed, Deletions, PTL DEF Spec

\* What an event says is true: the definition it is about was stored by or for
\* the sender's tenant, and definitions and alarms announced as deleted are gone.
THEOREM EventsAreTrue == Spec => []AnnouncementsAreTrue
<1>1. TypeInv /\ DeletionInv /\ TopicInv => AnnouncementsAreTrue
  <2> SUFFICES ASSUME TypeInv, DeletionInv, TopicInv, NEW i \in 1..Len(events)
               PROVE  /\ definition[events[i].definition].stage # "absent"
                      /\ definition[events[i].definition].tenant = request[events[i].by].tenant
                      /\ events[i].type \in {"deleted", "alarm-deleted"} =>
                              definition[events[i].definition].stage = "deleted"
                      /\ events[i].type = "alarm-deleted" => alarm[events[i].content].stage = "gone"
    BY DEF TypeInv, TopicOK, AnnouncementsAreTrue
  <2>1. PICK r \in Requests : events[i].by = r
    BY DEF TypeInv, TopicOK
  <2>2. Sends(i, r)
    BY <2>1 DEF TopicInv, SendersCommitted
  <2> QED
    BY <2>1, <2>2 DEF Sends, Committed, TypeOf
<1> QED
  BY <1>1, Typed, Deletions, TopicHistory, PTL

\* Events of requests that did not overlap are on the topic in the order of the
\* requests.
THEOREM RealTimeOrder == Spec => []AnnouncedInRealTimeOrder
<1>1. TypeInv /\ TopicInv => AnnouncedInRealTimeOrder
  BY DEF TypeInv, TopicOK, TopicInv, Ordered, AnnouncedInRealTimeOrder
<1> QED
  BY <1>1, Typed, TopicHistory, PTL

\* The engine hears of a definition's deletion before it hears of its alarms'.
THEOREM DefinitionBeforeAlarms == Spec => []DefinitionDeletedBeforeItsAlarms
<1>1. TypeInv /\ TopicInv => DefinitionDeletedBeforeItsAlarms
  <2> SUFFICES ASSUME TypeInv, TopicInv, NEW j \in 1..Len(events),
                      events[j].type = "alarm-deleted"
               PROVE  \E i \in 1..(j - 1) : /\ Says(i, "deleted", events[j].definition)
                                            /\ events[i].by = events[j].by
    BY DEF TypeInv, TopicOK, DefinitionDeletedBeforeItsAlarms
  <2>1. PICK r \in Requests : events[j].by = r
    BY DEF TypeInv, TopicOK
  <2>2. PICK i \in 1..Len(events) : i < j /\ events[i].type = "deleted" /\ events[i].by = r
    BY <2>1 DEF TopicInv, DefinitionFirst
  <2>3. events[i].definition = events[j].definition
    BY <2>1, <2>2 DEF TopicInv, SendersCommitted, Sends
  <2>4. i \in 1..(j - 1)
    BY <2>2 DEF TypeInv, TopicOK
  <2> QED
    BY <2>1, <2>2, <2>3, <2>4 DEF Says
<1> QED
  BY <1>1, Typed, TopicHistory, PTL

\* A client who is told of a success finds its event on the topic.
THEOREM SuccessTold == Spec => []SuccessIsAnnounced
<1>1. TypeInv /\ TopicInv => SuccessIsAnnounced
  <2> SUFFICES ASSUME TypeInv, TopicInv PROVE SuccessIsAnnounced
    OBVIOUS
  <2>1. DOMAIN events = 1..Len(events)
    BY DEF TypeInv, TopicOK
  <2>2. ASSUME NEW r, NEW type, HasTold(type, r)
        PROVE  Position(type, r) # {}
    BY <2>1, <2>2 DEF Position, HasTold
  <2> QED
    BY <2>2 DEF TopicInv, Successes, SuccessIsAnnounced
<1> QED
  BY <1>1, Typed, TopicHistory, PTL
------------------------------------------------------------------------------
(* Which request has made which row. *)

\* The id of a row names who made it, and so whose definition it belongs to: the
\* definition itself at the start, or what the request that inserted it is about.
Owned(row) ==
    LET x == row.id[1]
    IN  \/ x \in Stored /\ row.definition = x
        \/ x \in Requests /\ Past(x) /\ row.definition = request[x].target

RowsOwned ==
    \A row \in subDef : Owned(row) /\ definition[row.definition].stage # "absent"
ActionsOwned ==
    \A row \in alarmAction : definition[row.definition].stage # "absent"

\* What an update has read of the rows is about its own definition.
ReadOwned ==
    \A r \in Requests : pc[r] = "write" =>
        \A row \in local[r].subDefs : Owned(row) /\ row.definition = request[r].target

RowsInv == RowsOwned /\ ActionsOwned /\ ReadOwned


LEMMA InitRows == Init => RowsInv
<1> SUFFICES ASSUME Init PROVE RowsInv
  OBVIOUS
<1>1. /\ subDef = UNION {RowsOfNew(d, definition[d].expr) : d \in Stored}
      /\ alarmAction = {} /\ \A r \in Requests : pc[r] # "write"
      /\ \A d \in Stored : definition[d].stage # "absent"
  BY DEF Init, Defs
<1>2. ASSUME NEW row \in subDef
      PROVE  Owned(row) /\ definition[row.definition].stage # "absent"
  <2>1. PICK d \in Stored : row \in RowsOfNew(d, definition[d].expr)
    BY <1>1
  <2>2. row.id[1] = d /\ row.definition = d
    BY <2>1 DEF RowsOfNew, SubDefRow
  <2> QED
    BY <1>1, <2>2 DEF Owned
<1> QED
  BY <1>1, <1>2 DEF RowsInv, RowsOwned, ActionsOwned, ReadOwned

LEMMA OwnedStays ==
    ASSUME TypeInv, DeletionInv, [Next]_vars, NEW row, Owned(row)
    PROVE  Owned(row)'
<1>1. HandlersGoOn
  BY StepGoesOn
<1>2. ASSUME NEW x \in Requests, Past(x), row.definition = request[x].target
      PROVE  Past(x)' /\ row.definition = request'[x].target
  BY <1>1, <1>2, PastStays DEF HandlersGoOn, Past
<1> QED
  BY <1>2 DEF Owned

\* One id, one definition.
LEMMA OwnersAgree ==
    ASSUME NEW row, NEW other, Owned(row), Owned(other), row.id = other.id
    PROVE  row.definition = other.definition
BY DEF Owned

\* The rows a diff changes are some of those that were read.
LEMMA ChangedWereRead ==
    ASSUME NEW rows, NEW wanted, NEW diff \in Diffs(rows, wanted), NEW c \in diff.changed
    PROVE  \E s \in rows : s.id = c.id
<1> DEFINE missing == Missing(rows, wanted)
           outcomes(o) == {DiffOf(rows, o, wanted, missing, pairing) :
                              pairing \in Pairings({s \in o : Value(s) \notin wanted}, missing)}
<1>0. diff \in UNION {outcomes(o) : o \in OldSets(rows)}
  BY DEF Diffs
<1>1. PICK old \in OldSets(rows) : diff \in outcomes(old)
  <2> HIDE DEF outcomes
  <2> QED
    BY <1>0
<1> DEFINE outdated == {s \in old : Value(s) \notin wanted}
<1>2. PICK pairing \in Pairings(outdated, missing) :
            diff = DiffOf(rows, old, wanted, missing, pairing)
  BY <1>1
<1>3. DOMAIN pairing \subseteq outdated
  BY <1>2 DEF Pairings
<1>4. outdated \subseteq rows
  BY DEF OldSets
<1>5. PICK s \in DOMAIN pairing :
            c = [id |-> s.id, key |-> pairing[s].key, test |-> pairing[s].test]
  BY <1>2 DEF DiffOf
<1> QED
  BY <1>3, <1>4, <1>5

\* What an update does to a row of sub_alarm_definition: nothing, or another test
\* where its id is one that was read.
LEMMA UpdatedRows ==
    ASSUME TypeInv, NEW diff, NEW row \in UpdateChanged(DeleteRemoved(subDef, diff), diff)
    PROVE  \/ row \in subDef /\ \A c \in diff.changed : c.id # row.id
           \/ \E old \in subDef : /\ row.id = old.id /\ row.definition = old.definition
                                  /\ \E c \in diff.changed : c.id = old.id
<1>1. PICK old \in subDef :
        row = IF \E c \in diff.changed : c.id = old.id
                THEN [old EXCEPT !.test = (CHOOSE c \in diff.changed : c.id = old.id).test]
                ELSE old
  BY DEF UpdateChanged, DeleteRemoved
<1>2. CASE \E c \in diff.changed : c.id = old.id
  <2>1. old = [id |-> old.id, definition |-> old.definition, key |-> old.key, test |-> old.test]
    BY DEF TypeInv, TablesOK, SubDefShape, SubDefRow
  <2>2. \A test : /\ [old EXCEPT !.test = test].id = old.id
                  /\ [old EXCEPT !.test = test].definition = old.definition
    BY <2>1
  <2> QED
    BY <1>1, <1>2, <2>2
<1>3. CASE ~ \E c \in diff.changed : c.id = old.id
  BY <1>1, <1>3
<1> QED
  BY <1>2, <1>3

\* What an update that goes through writes.
LEMMA WriteFacts ==
    ASSUME TypeInv, NEW r \in Requests, WriteDefinition(r), subDef' # subDef \/ alarmAction' # alarmAction
    PROVE  /\ pc[r] = "write" /\ request[r].target \in Defs /\ UNCHANGED request
           /\ definition[request[r].target].stage = "live"
           /\ Past(r)' /\ definition'[request[r].target].stage = "live"
           /\ \E diff \in Diffs(local[r].subDefs, Elems(request[r].body.expr)) :
                subDef' = UpdateChanged(DeleteRemoved(subDef, diff), diff)
                            \cup RowsAdded(r, request[r].target, request[r].body.expr, diff.added)
           /\ alarmAction' = (alarmAction \ ClearedActions(request[r].target, request[r].op,
                                                           request[r].body.actions))
                                \cup ActionRows(request[r].target, request[r].body.actions)
<1> DEFINE d == request[r].target
<1>1. /\ Found(request[r].tenant, d) /\ pc[r] = "write" /\ UNCHANGED request /\ Go(r, "tell")
      /\ definition' = [definition EXCEPT ![d] =
                            UpdatedRow(definition[d], local[r].row, request[r].body)]
      /\ \E diff \in Diffs(local[r].subDefs, Elems(request[r].body.expr)) :
                subDef' = UpdateChanged(DeleteRemoved(subDef, diff), diff)
                            \cup RowsAdded(r, d, request[r].body.expr, diff.added)
      /\ alarmAction' = (alarmAction \ ClearedActions(d, request[r].op, request[r].body.actions))
                                \cup ActionRows(d, request[r].body.actions)
  BY DEF WriteDefinition, UpdateRows, RolledBack, StillThere
<1>2. d \in Defs /\ definition[d] \in RowSet /\ definition[d].stage = "live"
  BY <1>1 DEF Found, TypeInv, TablesOK
<1>3. definition'[d].stage = "live"
  BY <1>1, <1>2, UpdatedRowKeeps DEF TypeInv, TablesOK
<1>4. Past(r)'
  <2>1. answer[r] = None /\ None \notin {400, 404}
    BY <1>1 DEF TypeInv, ControlOK, Statuses
  <2> QED
    BY <1>1, <2>1, HandlerTypes DEF Past, Go
<1> QED
  BY <1>1, <1>2, <1>3, <1>4

LEMMA InsertFacts ==
    ASSUME TypeInv, DeletionInv, NEW r \in Requests, InsertDefinition(r),
           subDef' # subDef \/ alarmAction' # alarmAction
    PROVE  /\ definition[r].stage = "absent" /\ request[r].target = r /\ UNCHANGED request
           /\ Past(r)' /\ definition'[r].stage = "live"
           /\ subDef' = subDef \cup RowsOfNew(r, request[r].body.expr)
           /\ alarmAction' = alarmAction \cup ActionRows(r, request[r].body.actions)
<1>1. /\ pc[r] = "insert" /\ UNCHANGED request /\ Go(r, "tell")
      /\ definition'[r].stage = "live"
      /\ subDef' = subDef \cup RowsOfNew(r, request[r].body.expr)
      /\ alarmAction' = alarmAction \cup ActionRows(r, request[r].body.actions)
  BY DEF InsertDefinition, InsertRows, NewRow, RolledBack, TypeInv, TablesOK, Defs
<1>2. definition[r].stage = "absent" /\ request[r].target = r
  BY <1>1 DEF TypeInv, WhereOK, DeletionInv, FreshIds
<1>3. Past(r)'
  <2>1. answer[r] = None /\ None \notin {400, 404}
    BY <1>1 DEF TypeInv, ControlOK, Statuses
  <2> QED
    BY <1>1, <2>1, HandlerTypes DEF Past, Go
<1> QED
  BY <1>1, <1>2, <1>3

\* Rows and actions are written by nobody else.
LEMMA RowWriters ==
    ASSUME [Next]_vars
    PROVE  \/ UNCHANGED <<subDef, alarmAction>>
           \/ \E r \in Requests : InsertDefinition(r) \/ WriteDefinition(r)
<1>1. ASSUME NEW r \in Requests, Receive(r) \/ Handle(r) \/ Crash(r),
             ~ InsertDefinition(r), ~ WriteDefinition(r)
      PROVE  UNCHANGED <<subDef, alarmAction>>
  BY <1>1 DEF Receive, ReceivePost, ReceiveUpdate, ReceiveDelete, Accept, Handle, Crash, tables,
       ReadDefinition, ReadSubDefs, ReadAlarms, SoftDelete, DatabaseFails, RolledBack,
       TellCreated, TellUpdated, TellDeleted, TellAlarmsDeleted
<1> QED
  BY <1>1, WhoActs


LEMMA StepRowsOwned ==
    ASSUME TypeInv, DeletionInv, RowsOwned, [Next]_vars
    PROVE  RowsOwned'
<1>1. \A d \in Defs : definition[d].stage # "absent" => definition'[d].stage # "absent"
  BY StepGoesOn DEF RowsGoOn
<1>2. ASSUME NEW row, NEW old \in subDef, row.id = old.id, row.definition = old.definition
      PROVE  Owned(row)' /\ definition'[row.definition].stage # "absent"
  <2>1. Owned(row) /\ row.definition \in Defs /\ definition[row.definition].stage # "absent"
    BY <1>2 DEF RowsOwned, Owned, TypeInv, TablesOK
  <2> QED
    BY <1>1, <2>1, OwnedStays
<1>3. CASE UNCHANGED subDef
  BY <1>2, <1>3 DEF RowsOwned
<1>4. ASSUME NEW r \in Requests, InsertDefinition(r), subDef' # subDef
      PROVE  RowsOwned'
  <2>1. /\ subDef' = subDef \cup RowsOfNew(r, request[r].body.expr)
        /\ Past(r)' /\ request'[r].target = r /\ definition'[r].stage = "live"
    BY <1>4, InsertFacts
  <2>2. \A row \in RowsOfNew(r, request[r].body.expr) : row.id[1] = r /\ row.definition = r
    BY DEF RowsOfNew, SubDefRow
  <2>3. ASSUME NEW row \in subDef'
        PROVE  Owned(row)' /\ definition'[row.definition].stage # "absent"
    <3>1. CASE row \in subDef
      BY <1>2, <3>1
    <3>2. CASE row \notin subDef
      <4>1. row.id[1] = r /\ row.definition = r
        BY <2>1, <2>2, <2>3, <3>2
      <4> QED
        BY <2>1, <4>1 DEF Owned
    <3> QED
      BY <3>1, <3>2
  <2> QED
    BY <2>3 DEF RowsOwned
<1>5. ASSUME NEW r \in Requests, WriteDefinition(r), subDef' # subDef
      PROVE  RowsOwned'
  <2> DEFINE d == request[r].target
  <2>1. PICK diff :
            subDef' = UpdateChanged(DeleteRemoved(subDef, diff), diff)
                            \cup RowsAdded(r, d, request[r].body.expr, diff.added)
    BY <1>5, WriteFacts
  <2>2. Past(r)' /\ request'[r].target = d /\ definition'[d].stage = "live"
    BY <1>5, WriteFacts
  <2>3. \A row \in RowsAdded(r, d, request[r].body.expr, diff.added) :
            row.id[1] = r /\ row.definition = d
    BY DEF RowsAdded, SubDefRow
  <2> HIDE DEF d
  <2>4. ASSUME NEW row \in subDef'
        PROVE  Owned(row)' /\ definition'[row.definition].stage # "absent"
    <3>1. CASE row \in UpdateChanged(DeleteRemoved(subDef, diff), diff)
      BY <1>2, <3>1, UpdatedRows
    <3>2. CASE row \in RowsAdded(r, d, request[r].body.expr, diff.added)
      BY <2>2, <2>3, <3>2 DEF Owned
    <3> QED
      BY <2>1, <3>1, <3>2
  <2> QED
    BY <2>4 DEF RowsOwned
<1> QED
  BY <1>3, <1>4, <1>5, RowWriters

LEMMA StepActionsOwned ==
    ASSUME TypeInv, DeletionInv, ActionsOwned, [Next]_vars
    PROVE  ActionsOwned'
<1>1. \A row \in alarmAction : definition'[row.definition].stage # "absent"
  BY StepGoesOn DEF RowsGoOn, ActionsOwned, TypeInv, TablesOK
<1>2. \A d, actions : \A row \in ActionRows(d, actions) : row.definition = d
  BY DEF ActionRows
<1>3. ASSUME NEW r \in Requests, InsertDefinition(r) \/ WriteDefinition(r),
             alarmAction' # alarmAction
      PROVE  ActionsOwned'
  <2>1. \E d, actions : /\ alarmAction' \subseteq alarmAction \cup ActionRows(d, actions)
                        /\ definition'[d].stage = "live"
    BY <1>3, InsertFacts, WriteFacts
  <2> QED
    BY <1>1, <1>2, <2>1 DEF ActionsOwned
<1> QED
  BY <1>1, <1>3, RowWriters DEF ActionsOwned

LEMMA StepReadOwned ==
    ASSUME TypeInv, DeletionInv, RowsOwned, ReadOwned, [Next]_vars
    PROVE  ReadOwned'
<1> SUFFICES ASSUME NEW r \in Requests, pc'[r] = "write", NEW row \in local'[r].subDefs
             PROVE  Owned(row)' /\ row.definition = request'[r].target
  BY DEF ReadOwned
<1>1. CASE UNCHANGED <<pc, request, local>> \/ \E s \in Requests \ {r} : OnlyOne(s)
  BY <1>1, OwnedStays DEF OnlyOne, ReadOwned
<1>2. CASE Receive(r) \/ Handle(r) \/ Crash(r)
  <2>1. ReadDefinition(r)
    <3> USE HandlerTypes DEF Go, Reply
    <3>1. ~ (Receive(r) \/ DatabaseFails(r) \/ Crash(r))
      BY DEF Receive, ReceivePost, ReceiveUpdate, ReceiveDelete, Accept, DatabaseFails, RolledBack, Crash
    <3>2. ~ (InsertDefinition(r) \/ ReadSubDefs(r) \/ WriteDefinition(r) \/ ReadAlarms(r)
             \/ SoftDelete(r))
      BY DEF InsertDefinition, InsertRows, ReadSubDefs, WriteDefinition, UpdateRows, ReadAlarms, SoftDelete
    <3>3. ~ (TellCreated(r) \/ TellUpdated(r) \/ TellDeleted(r) \/ TellAlarmsDeleted(r))
      BY ZenonT(60) DEF TellCreated, TellUpdated, TellDeleted, TellAlarmsDeleted, Publish
    <3> QED
      BY <1>2, <3>1, <3>2, <3>3 DEF Handle
  <2>2. Found(request[r].tenant, request[r].target)
    BY <2>1, HandlerTypes DEF ReadDefinition, Reply
  <2>3. /\ local'[r].subDefs = SubDefsOf(request[r].target) /\ UNCHANGED request
    <3>1. PICK S, D : local \in [Requests -> [row : RowSet, subDefs : S, methods : SUBSET Methods,
                                              alarms : SUBSET Alarms, diff : D]]
      BY DEF TypeInv, LocalOK
    <3> QED
      BY <2>1, <2>2, <3>1 DEF ReadDefinition
  <2>4. row \in subDef /\ row.definition = request[r].target
    BY <2>3 DEF SubDefsOf
  <2> QED
    BY <2>3, <2>4, OwnedStays DEF RowsOwned
<1> QED
  BY <1>1, <1>2, WhoActs, HandlerMoves

LEMMA StepRows == TypeInv /\ DeletionInv /\ RowsInv /\ [Next]_vars => RowsInv'
BY StepRowsOwned, StepActionsOwned, StepReadOwned DEF RowsInv

LEMMA RowsHistory == Spec => []RowsInv
BY InitRows, StepRows, Typed, Deletions, PTL DEF Spec

\* A statement of one request never reaches the rows of another definition: every
\* id it is given was read from rows of its own.
LEMMA OthersUntouched ==
    ASSUME TypeInv, DeletionInv, RowsInv, NEW r \in Requests,
           InsertDefinition(r) \/ WriteDefinition(r),
           NEW d \in Defs, d # request[r].target
    PROVE  SubDefsOf(d)' = SubDefsOf(d) /\ ActionsOf(d)' = ActionsOf(d)
<1>1. CASE UNCHANGED <<subDef, alarmAction>>
  BY <1>1 DEF SubDefsOf, ActionsOf
<1>2. CASE InsertDefinition(r) /\ (subDef' # subDef \/ alarmAction' # alarmAction)
  <2>1. r # d
    BY <1>2, InsertFacts
  <2>2. \A row \in RowsOfNew(r, request[r].body.expr) : row.definition = r
    BY DEF RowsOfNew, SubDefRow
  <2>3. \A row \in ActionRows(r, request[r].body.actions) : row.definition = r
    BY DEF ActionRows
  <2> QED
    BY <1>2, <2>1, <2>2, <2>3, InsertFacts DEF SubDefsOf, ActionsOf
<1>3. CASE WriteDefinition(r) /\ (subDef' # subDef \/ alarmAction' # alarmAction)
  <2> DEFINE t == request[r].target
             body == request[r].body
  <2>1. t # d /\ pc[r] = "write"
    BY <1>3, WriteFacts
  <2>2. ActionsOf(d)' = ActionsOf(d)
    <3>1. \A row \in ActionRows(t, body.actions) : row.definition = t
      BY DEF ActionRows
    <3>2. \A row \in ClearedActions(t, request[r].op, body.actions) : row.definition = t
      BY DEF ClearedActions
    <3>3. alarmAction' = (alarmAction \ ClearedActions(t, request[r].op, body.actions))
                              \cup ActionRows(t, body.actions)
      BY <1>3, WriteFacts
    <3> QED
      BY <2>1, <3>1, <3>2, <3>3 DEF ActionsOf
  <2>3. PICK diff \in Diffs(local[r].subDefs, Elems(body.expr)) :
          subDef' = UpdateChanged(DeleteRemoved(subDef, diff), diff)
                          \cup RowsAdded(r, t, body.expr, diff.added)
    BY <1>3, WriteFacts
  <2>4. \A row \in RowsAdded(r, t, body.expr, diff.added) : row.definition = t
    BY DEF RowsAdded, SubDefRow
  <2>5. ASSUME NEW c \in diff.changed, NEW row \in subDef, row.definition = d
        PROVE  c.id # row.id
    <3>1. PICK s \in local[r].subDefs : s.id = c.id
      BY <2>5, ChangedWereRead
    <3>2. Owned(s) /\ s.definition = t
      BY <2>1 DEF RowsInv, ReadOwned
    <3>3. Owned(row)
      BY DEF RowsInv, RowsOwned
    <3> QED
      BY <2>1, <2>5, <3>1, <3>2, <3>3, OwnersAgree
  <2>6. ASSUME NEW row \in UpdateChanged(DeleteRemoved(subDef, diff), diff), row.definition = d
        PROVE  row \in subDef
    BY <2>5, <2>6, UpdatedRows
  <2>7. ASSUME NEW row \in subDef, row.definition = d
        PROVE  row \in UpdateChanged(DeleteRemoved(subDef, diff), diff)
    <3>1. ~ \E c \in diff.changed : c.id = row.id
      BY <2>5, <2>7
    <3> QED
      BY <3>1 DEF UpdateChanged, DeleteRemoved
  <2> HIDE DEF t, body
  <2>8. SubDefsOf(d)' = SubDefsOf(d)
    BY <2>1, <2>3, <2>4, <2>6, <2>7 DEF SubDefsOf
  <2> QED
    BY <2>2, <2>8
<1> QED
  BY <1>1, <1>2, <1>3

\* The rows of a deleted definition, its sub alarm definitions and actions are
\* final: an update that was under way finds the definition gone, and the ids it
\* has read are of its own definition.
THEOREM DeletionIsFinal == Spec => DeletedStaysDeleted
<1>1. ASSUME TypeInv, DeletionInv, RowsInv, [Next]_vars, NEW d \in Defs,
             definition[d].stage = "deleted"
      PROVE  SubDefsOf(d)' = SubDefsOf(d) /\ ActionsOf(d)' = ActionsOf(d)
  <2>1. CASE UNCHANGED <<subDef, alarmAction>>
    BY <2>1 DEF SubDefsOf, ActionsOf
  <2>2. ASSUME NEW r \in Requests, InsertDefinition(r) \/ WriteDefinition(r),
               subDef' # subDef \/ alarmAction' # alarmAction
        PROVE  d # request[r].target
    BY <1>1, <2>2, InsertFacts, WriteFacts
  <2> QED
    BY <1>1, <2>1, <2>2, OthersUntouched, RowWriters
<1>2. TypeInv /\ DeletionInv /\ RowsInv /\ [Next]_vars =>
        [\A d \in Defs : definition[d].stage = "deleted" =>
            /\ definition'[d] = definition[d]
            /\ SubDefsOf(d)' = SubDefsOf(d)
            /\ {row \in alarmAction' : row.definition = d}
                    = {row \in alarmAction : row.definition = d}]_vars
  BY <1>1, StepGoesOn DEF RowsGoOn, ActionsOf
<1> QED
  BY <1>2, Typed, Deletions, RowsHistory, PTL DEF Spec, DeletedStaysDeleted

------------------------------------------------------------------------------
(* A transaction stores all of its rows or none, and no others. *)

\* Definitions, rows and actions are written by three transactions, and only by
\* those that go on to tell of it.
LEMMA StoreWriters ==
    ASSUME [Next]_vars,
           <<definition, subDef, alarmAction>>' # <<definition, subDef, alarmAction>>
    PROVE  \E r \in Requests : InsertDefinition(r) \/ WriteDefinition(r) \/ SoftDelete(r)
<1>1. ASSUME NEW r \in Requests, Receive(r) \/ Handle(r) \/ Crash(r),
             ~ InsertDefinition(r), ~ WriteDefinition(r), ~ SoftDelete(r)
      PROVE  UNCHANGED <<definition, subDef, alarmAction>>
  BY <1>1 DEF Receive, ReceivePost, ReceiveUpdate, ReceiveDelete, Accept, Handle, Crash, tables,
       ReadDefinition, ReadSubDefs, ReadAlarms, DatabaseFails, RolledBack, TellCreated,
       TellUpdated, TellDeleted, TellAlarmsDeleted
<1> QED
  BY <1>1, WhoActs

\* A creation stores the row its body asks for, with all its sub-expressions and
\* all its actions; nothing of the definition was there before.
LEMMA InsertStores ==
    ASSUME TypeInv, DeletionInv, RowsInv, NEW r \in Requests, InsertDefinition(r),
           <<definition, subDef, alarmAction>>' # <<definition, subDef, alarmAction>>
    PROVE  /\ pc[r] = "insert" /\ pc'[r] = "tell" /\ UNCHANGED request
           /\ request[r].target = r /\ request[r].op = "create"
           /\ definition[r].stage = "absent" /\ Past(r)'
           /\ definition' = [definition EXCEPT ![r] = NewRow(request[r])]
           /\ subDef' = subDef \cup RowsOfNew(r, request[r].body.expr)
           /\ SubDefsOf(r)' = RowsOfNew(r, request[r].body.expr)
           /\ ActionsOf(r)' = ActionRows(r, request[r].body.actions)
<1>1. /\ pc[r] = "insert" /\ Go(r, "tell") /\ UNCHANGED request
      /\ definition' = [definition EXCEPT ![r] = NewRow(request[r])]
      /\ subDef' = subDef \cup RowsOfNew(r, request[r].body.expr)
      /\ alarmAction' = alarmAction \cup ActionRows(r, request[r].body.actions)
  BY DEF InsertDefinition, InsertRows, RolledBack
<1>2. /\ request[r].target = r /\ request[r].op = "create" /\ r \in Defs
      /\ definition[r].stage = "absent"
  BY <1>1 DEF TypeInv, WhereOK, DeletionInv, FreshIds, Defs
<1>3. Past(r)' /\ pc'[r] = "tell"
  <2>1. answer[r] = None /\ None \notin {400, 404}
    BY <1>1 DEF TypeInv, ControlOK, Statuses
  <2> QED
    BY <1>1, <2>1, HandlerTypes DEF Past, Go
<1>4. SubDefsOf(r)' = RowsOfNew(r, request[r].body.expr)
  <2>1. \A row \in RowsOfNew(r, request[r].body.expr) : row.definition = r
    BY DEF RowsOfNew, SubDefRow
  <2>2. \A row \in subDef : row.definition # r
    BY <1>2 DEF RowsInv, RowsOwned
  <2> QED
    BY <1>1, <2>1, <2>2 DEF SubDefsOf
<1>5. ActionsOf(r)' = ActionRows(r, request[r].body.actions)
  <2>1. \A row \in ActionRows(r, request[r].body.actions) : row.definition = r
    BY DEF ActionRows
  <2>2. \A row \in alarmAction : row.definition # r
    BY <1>2 DEF RowsInv, ActionsOwned
  <2> QED
    BY <1>1, <2>1, <2>2 DEF ActionsOf
<1> QED
  BY <1>1, <1>2, <1>3, <1>4, <1>5

\* The actions an update leaves in the state s: those its body names; or else none
\* after a PUT, and those that were there after a PATCH.
LeavesActions(d, op, actions) ==
    alarmAction' = (alarmAction \ ClearedActions(d, op, actions)) \cup ActionRows(d, actions)

LEMMA ActionRowsOf ==
    ASSUME NEW d, NEW actions
    PROVE  \A x : x \in ActionRows(d, actions) <=>
                \E t \in AlarmStates : \E m \in actions[t] :
                    actions[t] # None /\ x = [definition |-> d, state |-> t, method |-> m]
BY DEF ActionRows

LEMMA NamedActions ==
    ASSUME NEW d, NEW op, NEW actions, NEW s \in AlarmStates, LeavesActions(d, op, actions)
    PROVE  actions[s] # None => MethodsIn(ActionsOf(d)', s) = actions[s]
<1> SUFFICES ASSUME actions[s] # None
             PROVE  MethodsIn(ActionsOf(d)', s) = actions[s]
  OBVIOUS
<1> DEFINE new  == {x \in ActionsOf(d)' : x.state = s}
           mine == {x \in ActionRows(d, actions) : x.state = s}
<1>1. \A x \in ActionRows(d, actions) : x.definition = d
  BY ActionRowsOf
<1>2. \A x \in ActionsOf(d) : x.state = s => x \in ClearedActions(d, op, actions)
  BY DEF ClearedActions, ActionsOf
<1>3. new = mine
  BY <1>1, <1>2 DEF ActionsOf, LeavesActions
<1>4. ASSUME NEW m \in actions[s]
      PROVE  \E x \in mine : x.method = m
  <2>1. PICK x : x = [definition |-> d, state |-> s, method |-> m]
    OBVIOUS
  <2>2. x \in ActionRows(d, actions) /\ x.state = s /\ x.method = m
    BY <1>4, <2>1, ActionRowsOf
  <2> QED
    BY <2>2
<1>5. ASSUME NEW x \in mine
      PROVE  x.method \in actions[s]
  <2>1. PICK t \in AlarmStates : \E m \in actions[t] :
            x = [definition |-> d, state |-> t, method |-> m]
    BY <1>5, ActionRowsOf
  <2> QED
    BY <1>5, <2>1
<1> HIDE DEF new, mine
<1>6. {row.method : row \in new} = actions[s]
  BY <1>3, <1>4, <1>5
<1> QED
  BY <1>6 DEF new, MethodsIn

LEMMA OtherActions ==
    ASSUME NEW d, NEW op, NEW actions, NEW s \in AlarmStates, LeavesActions(d, op, actions),
           actions[s] = None
    PROVE  /\ op # "patch" => MethodsIn(ActionsOf(d)', s) = {}
           /\ op = "patch" => MethodsIn(ActionsOf(d)', s) = MethodsIn(ActionsOf(d), s)
<1> DEFINE new == {x \in ActionsOf(d)' : x.state = s}
           old == {x \in ActionsOf(d) : x.state = s}
<1>1. \A x \in ActionRows(d, actions) : x.state # s
  BY ActionRowsOf
<1>2. CASE op # "patch"
  <2>1. \A x \in old : x \in ClearedActions(d, op, actions)
    BY <1>2 DEF ClearedActions, ActionsOf
  <2>2. new = {}
    BY <1>1, <2>1 DEF ActionsOf, LeavesActions
  <2> QED
    BY <1>2, <2>2 DEF MethodsIn
<1>3. CASE op = "patch"
  <2>1. \A x \in old : x \notin ClearedActions(d, op, actions)
    BY <1>3 DEF ClearedActions
  <2>2. new = old
    BY <1>1, <2>1 DEF ActionsOf, LeavesActions
  <2> QED
    BY <1>3, <2>2 DEF MethodsIn
<1> QED
  BY <1>2, <1>3

\* An update stores the expression and the actions its body asks for.
LEMMA WriteStores ==
    ASSUME TypeInv, NEW r \in Requests, WriteDefinition(r),
           <<definition, subDef, alarmAction>>' # <<definition, subDef, alarmAction>>
    PROVE  /\ pc[r] = "write" /\ pc'[r] = "tell" /\ UNCHANGED request
           /\ StoredWhole(r)
           /\ \A d \in Defs \ {request[r].target} : definition'[d] = definition[d]
<1> DEFINE q == request[r]
           d == request[r].target
<1>1. /\ Found(q.tenant, d) /\ pc[r] = "write" /\ UNCHANGED request /\ Go(r, "tell")
      /\ definition' = [definition EXCEPT ![d] = UpdatedRow(definition[d], local[r].row, q.body)]
      /\ alarmAction' = (alarmAction \ ClearedActions(d, q.op, q.body.actions))
                                \cup ActionRows(d, q.body.actions)
  BY DEF WriteDefinition, UpdateRows, RolledBack, StillThere
<1>2. /\ d \in Defs /\ definition \in [Defs -> RowSet] /\ q.op \in {"put", "patch"}
      /\ alarmAction \subseteq [definition : Defs, state : AlarmStates, method : Methods]
  BY <1>1 DEF Found, TypeInv, TablesOK, WhereOK
<1>3. definition'[d].expr = q.body.expr
  <2>1. \A row \in RowSet : \A read, body : UpdatedRow(row, read, body).expr = body.expr
    BY DEF UpdatedRow, RowSet
  <2> QED
    BY <1>1, <1>2, <2>1
<1>4. pc'[r] = "tell"
  BY <1>1, HandlerTypes DEF Go
<1>5. ASSUME NEW s \in AlarmStates
      PROVE  MethodsIn(ActionsOf(d)', s) =
                    IF q.body.actions[s] # None THEN q.body.actions[s]
                    ELSE IF q.op = "put" THEN {}
                    ELSE MethodsIn(ActionsOf(d), s)
  <2>1. PICK c, op, actions : c = d /\ op = q.op /\ actions = q.body.actions
    OBVIOUS
  <2>2. LeavesActions(c, op, actions)
    BY <1>1, <2>1 DEF LeavesActions
  <2>3. op # "patch" <=> q.op = "put"
    BY <1>2, <2>1
  <2>4. ActionsOf(d)' = ActionsOf(c)'
    BY <1>1, <2>1 DEF ActionsOf
  <2>5. actions[s] # None => MethodsIn(ActionsOf(c)', s) = actions[s]
    BY <1>5, <2>2, NamedActions
  <2>6. actions[s] = None =>
            /\ op # "patch" => MethodsIn(ActionsOf(c)', s) = {}
            /\ op = "patch" => MethodsIn(ActionsOf(c)', s) = MethodsIn(ActionsOf(c), s)
    BY <1>5, <2>2, OtherActions
  <2>7. MethodsIn(ActionsOf(d)', s) = MethodsIn(ActionsOf(c)', s)
    BY <2>4
  <2>8. MethodsIn(ActionsOf(d), s) = MethodsIn(ActionsOf(c), s)
    BY <2>1
  <2> QED
    BY <2>1, <2>3, <2>5, <2>6, <2>7, <2>8
<1>6. \A c \in Defs \ {d} : definition'[c] = definition[c]
  BY <1>1, <1>2
<1> QED
  BY <1>1, <1>3, <1>4, <1>5, <1>6 DEF StoredWhole

\* A definition, its rows and its actions change by one transaction that stores all
\* it was asked to store, and changes nothing of the other definitions.
THEOREM StoredAsAWhole == Spec => CommittedAsAWhole
<1> DEFINE changes == <<definition, subDef, alarmAction>>' # <<definition, subDef, alarmAction>>
           whole   == \E r \in Requests :
                        /\ pc'[r] = "tell" /\ StoredWhole(r)
                        /\ \A d \in Defs \ {request[r].target} : Untouched(d)
<1>1. ASSUME TypeInv, DeletionInv, RowsInv, NEW r \in Requests, InsertDefinition(r), changes
      PROVE  whole
  <2>1. /\ pc[r] = "insert" /\ pc'[r] = "tell" /\ UNCHANGED request /\ request[r].target = r
        /\ definition' = [definition EXCEPT ![r] = NewRow(request[r])]
        /\ SubDefsOf(r)' = RowsOfNew(r, request[r].body.expr)
        /\ ActionsOf(r)' = ActionRows(r, request[r].body.actions)
    BY <1>1, InsertStores
  <2>2. DOMAIN definition = Defs /\ r \in Defs
    BY <1>1 DEF TypeInv, TablesOK, Defs
  <2>3. definition'[r] = NewRow(request[r])
    BY <2>1, <2>2
  <2>4. SubDefsOf(request[r].target)' = SubDefsOf(r)'
    BY <2>1 DEF SubDefsOf
  <2>5. ActionsOf(request[r].target)' = ActionsOf(r)'
    BY <2>1 DEF ActionsOf
  <2>6. StoredWhole(r)
    BY <2>1, <2>3, <2>4, <2>5 DEF StoredWhole
  <2>7. \A d \in Defs \ {request[r].target} : Untouched(d)
    BY <1>1, <2>1, <2>2, OthersUntouched DEF Untouched
  <2> QED
    BY <2>1, <2>6, <2>7
<1>2. ASSUME TypeInv, DeletionInv, RowsInv, NEW r \in Requests, WriteDefinition(r), changes
      PROVE  whole
  <2>1. \A d \in Defs \ {request[r].target} : Untouched(d)
    BY <1>2, WriteStores, OthersUntouched DEF Untouched
  <2> QED
    BY <1>2, <2>1, WriteStores
<1>3. ASSUME TypeInv, NEW r \in Requests, SoftDelete(r), changes
      PROVE  whole
  <2>1. /\ pc[r] = "softDelete" /\ Found(request[r].tenant, request[r].target) /\ Go(r, "tell")
        /\ definition' = [definition EXCEPT ![request[r].target].stage = "deleted"]
        /\ UNCHANGED <<request, subDef, alarmAction>>
    BY <1>3 DEF SoftDelete, Deletable
  <2>2. definition \in [Defs -> RowSet] /\ request[r].target \in Defs
    BY <1>3, <2>1 DEF TypeInv, TablesOK, Found
  <2>3. definition'[request[r].target].stage = "deleted"
    BY <2>1, <2>2 DEF RowSet
  <2>4. \A d \in Defs \ {request[r].target} : Untouched(d)
    BY <2>1, <2>2 DEF Untouched, SubDefsOf, ActionsOf
  <2>5. pc'[r] = "tell" /\ StoredWhole(r)
    BY <2>1, <2>3, HandlerTypes, <1>3 DEF Go, StoredWhole
  <2> QED
    BY <2>4, <2>5
<1>4. TypeInv /\ DeletionInv /\ RowsInv /\ [Next]_vars => [changes => whole]_vars
  BY <1>1, <1>2, <1>3, StoreWriters
<1> QED
  BY <1>4, Typed, Deletions, RowsHistory, PTL DEF Spec, CommittedAsAWhole

------------------------------------------------------------------------------
(* Of a creation there is all or nothing. *)

\* A request that has not come in asks for nothing; a definition that is there was
\* posted by the request of its name, and is whole.
CreatedWhole ==
    \A r \in Requests :
        /\ pc[r] = "idle" => request[r].op = "none"
        /\ definition[r].stage # "absent" => Past(r) /\ Created(r)

LEMMA InitCreated == Init => CreatedWhole
BY DEF Init, NoRequest, CreatedWhole, Defs

\* The rows a creation made keep their ids, whatever updates come after it: no
\* update deletes a row or adds one in another's name.
LEMMA MadeByStays ==
    ASSUME TypeInv, DeletionInv, [Next]_vars, NEW r \in Requests,
           definition[r].stage # "absent", request[r].op = "create"
    PROVE  {row.id : row \in MadeBy(r)'} = {row.id : row \in MadeBy(r)}
<1>1. CASE UNCHANGED subDef
  BY <1>1 DEF MadeBy
<1>2. ASSUME NEW s \in Requests, InsertDefinition(s), subDef' # subDef
      PROVE  MadeBy(r)' = MadeBy(r)
  <2>1. s # r /\ subDef' = subDef \cup RowsOfNew(s, request[s].body.expr)
    BY <1>2, InsertFacts
  <2>2. \A row \in RowsOfNew(s, request[s].body.expr) : row.id[1] = s
    BY DEF RowsOfNew, SubDefRow
  <2> QED
    BY <2>1, <2>2 DEF MadeBy
<1>3. ASSUME NEW s \in Requests, WriteDefinition(s), subDef' # subDef
      PROVE  {row.id : row \in MadeBy(r)'} = {row.id : row \in MadeBy(r)}
  <2> DEFINE expr == request[s].body.expr
             t == request[s].target
  <2>1. s # r
    BY <1>3 DEF TypeInv, WhereOK, WriteDefinition
  <2>2. PICK diff : subDef' = UpdateChanged(DeleteRemoved(subDef, diff), diff)
                                \cup RowsAdded(s, t, expr, diff.added)
    BY <1>3, WriteFacts
  <2>3. \A row \in RowsAdded(s, t, expr, diff.added) : row.id[1] = s
    BY DEF RowsAdded, SubDefRow
  <2> HIDE DEF expr, t
  <2>4. ASSUME NEW row \in MadeBy(r)'
        PROVE  \E old \in MadeBy(r) : old.id = row.id
    <3>1. row \in UpdateChanged(DeleteRemoved(subDef, diff), diff) /\ row.id[1] = r
      BY <2>1, <2>2, <2>3, <2>4 DEF MadeBy
    <3>2. \E old \in subDef : old.id = row.id
      BY <3>1, UpdatedRows
    <3> QED
      BY <3>1, <3>2 DEF MadeBy
  <2>5. ASSUME NEW old \in MadeBy(r)
        PROVE  \E row \in MadeBy(r)' : row.id = old.id
    <3>1. PICK row \in UpdateChanged(DeleteRemoved(subDef, diff), diff) : row.id = old.id
      <4>1. old \in subDef
        BY <2>5 DEF MadeBy
      <4>2. PICK row :
              row = IF \E c \in diff.changed : c.id = old.id
                      THEN [old EXCEPT !.test = (CHOOSE c \in diff.changed : c.id = old.id).test]
                      ELSE old
        OBVIOUS
      <4>3. row.id = old.id
        <5>1. old = [id |-> old.id, definition |-> old.definition,
                     key |-> old.key, test |-> old.test]
          BY <4>1 DEF TypeInv, TablesOK, SubDefShape, SubDefRow
        <5>2. \A test : [old EXCEPT !.test = test].id = old.id
          BY <5>1
        <5> QED
          BY <4>2, <5>2
      <4>4. row \in UpdateChanged(DeleteRemoved(subDef, diff), diff)
        BY <4>1, <4>2 DEF UpdateChanged, DeleteRemoved
      <4> QED
        BY <4>3, <4>4
    <3>2. row \in subDef' /\ row.id[1] = r
      BY <2>2, <2>5, <3>1 DEF MadeBy
    <3> QED
      BY <3>1, <3>2 DEF MadeBy
  <2> QED
    BY <2>4, <2>5
<1> QED
  BY <1>1, <1>2, <1>3, RowWriters

\* A creation makes one row for each place of the expression.
LEMMA RowsOfNewIds ==
    ASSUME NEW d, NEW expr
    PROVE  {row.id : row \in RowsOfNew(d, expr)} = {<<d, i>> : i \in DOMAIN expr}
<1>1. ASSUME NEW row \in RowsOfNew(d, expr)
      PROVE  \E i \in DOMAIN expr : row.id = <<d, i>>
  BY <1>1 DEF RowsOfNew, SubDefRow
<1>2. ASSUME NEW i \in DOMAIN expr
      PROVE  \E row \in RowsOfNew(d, expr) : row.id = <<d, i>>
  <2>1. PICK row : row = SubDefRow(<<d, i>>, d, Lower[expr[i].key], expr[i].test)
    OBVIOUS
  <2>2. row \in RowsOfNew(d, expr)
    BY <1>2, <2>1 DEF RowsOfNew
  <2>3. row.id = <<d, i>>
    BY <2>1 DEF SubDefRow
  <2> QED
    BY <2>2, <2>3
<1> QED
  BY <1>1, <1>2

\* A step of a definition's own creation stores it whole; any other step leaves the
\* rows it made, and its row and actions too unless it deletes or updates it.
LEMMA StepCreated ==
    ASSUME TypeInv, DeletionInv, RowsInv, CreatedWhole, [Next]_vars
    PROVE  CreatedWhole'
<1>0. HandlersGoOn /\ RowsGoOn
  BY StepGoesOn
<1>1. ASSUME NEW r \in Requests, pc'[r] = "idle"
      PROVE  request'[r].op = "none"
  <2>1. pc[r] = "idle"
    BY <1>0, <1>1 DEF HandlersGoOn
  <2>2. request'[r] = request[r]
    <3>1. ASSUME NEW s \in Requests, Receive(s) \/ Handle(s) \/ Crash(s)
          PROVE  request'[r] = request[r]
      BY <1>1, <3>1, HandlerMoves DEF OnlyOne
    <3> QED
      BY <3>1, WhoActs
  <2> QED
    BY <2>1, <2>2 DEF CreatedWhole
<1>2. ASSUME NEW r \in Requests, definition[r].stage = "absent", definition'[r].stage # "absent"
      PROVE  Past(r)' /\ Created(r)'
  <2>1. InsertDefinition(r) /\ definition' # definition
    <3>1. ASSUME NEW s \in Requests, InsertDefinition(s), definition' # definition
          PROVE  s = r
      <4>1. definition' = [definition EXCEPT ![s] = NewRow(request[s])]
        BY <3>1, InsertStores
      <4> QED
        BY <1>2, <4>1
    <3>2. ASSUME NEW s \in Requests, WriteDefinition(s), definition' # definition
          PROVE  FALSE
      <4>1. /\ definition' = [definition EXCEPT ![request[s].target] =
                    UpdatedRow(definition[request[s].target], local[s].row, request[s].body)]
            /\ Found(request[s].tenant, request[s].target)
        BY <3>2 DEF WriteDefinition, UpdateRows, RolledBack, StillThere
      <4> QED
        BY <1>2, <4>1 DEF Found
    <3>3. ASSUME NEW s \in Requests, SoftDelete(s), definition' # definition
          PROVE  FALSE
      <4>1. /\ definition' = [definition EXCEPT ![request[s].target].stage = "deleted"]
            /\ Found(request[s].tenant, request[s].target)
        BY <3>3 DEF SoftDelete, Deletable
      <4> QED
        BY <1>2, <4>1 DEF Found
    <3>4. definition' # definition
      BY <1>2
    <3> QED
      BY <3>1, <3>2, <3>3, <3>4, StoreWriters
  <2> DEFINE q == request[r]
  <2>2. /\ UNCHANGED request /\ q.target = r /\ q.op = "create" /\ Past(r)'
        /\ pc[r] = "insert"
        /\ definition' = [definition EXCEPT ![r] = NewRow(q)]
        /\ subDef' = subDef \cup RowsOfNew(r, q.body.expr)
        /\ ActionsOf(r)' = ActionRows(r, q.body.actions)
    BY <2>1, InsertStores
  <2>3. {row.id : row \in MadeBy(r)'} = {<<r, i>> : i \in DOMAIN q.body.expr}
    <3>1. \A row \in subDef : row.id[1] # r
      BY <2>2 DEF RowsInv, RowsOwned, Owned, Past
    <3>2. \A row \in RowsOfNew(r, q.body.expr) : row.id[1] = r
      BY DEF RowsOfNew, SubDefRow
    <3>3. MadeBy(r)' = RowsOfNew(r, q.body.expr)
      BY <2>2, <3>1, <3>2 DEF MadeBy
    <3> QED
      BY Zenon, <3>3, RowsOfNewIds
  <2>4. definition'[r] = NewRow(q)
    BY <2>2 DEF TypeInv, TablesOK, Defs
  <2>5. [NewRow(q) EXCEPT !.stage = NewRow(q).stage] = NewRow(q)
    BY DEF NewRow
  <2> QED
    BY <2>2, <2>3, <2>4, <2>5 DEF Created
<1>3. ASSUME NEW r \in Requests, definition[r].stage # "absent"
      PROVE  Past(r)' /\ Created(r)'
  <2> DEFINE q == request[r]
             NoUpdate == \A s \in Requests : request[s].op \in {"put", "patch"} =>
                                                request[s].target # r
  <2>1. Past(r)' /\ Past(r) /\ Created(r)
    BY <1>3, PastStays DEF CreatedWhole
  <2>2. request'[r] = q /\ q.op = "create"
    BY <1>0, <2>1 DEF HandlersGoOn, Past, Created
  <2>3. {row.id : row \in MadeBy(r)'} = {<<r, i>> : i \in DOMAIN q.body.expr}
    BY <1>3, <2>1, <2>2, MadeByStays DEF Created
  <2>4. ASSUME NoUpdate'
        PROVE  /\ definition'[r] = [NewRow(q) EXCEPT !.stage = definition'[r].stage]
               /\ ActionsOf(r)' = ActionRows(r, q.body.actions)
    <3>1. ASSUME NEW s \in Requests, request[s].op \in {"put", "patch"}
          PROVE  pc[s] # "idle" /\ request'[s] = request[s] /\ request[s].target # r
      <4>1. pc[s] # "idle" /\ request'[s] = request[s]
        BY <1>0, <3>1 DEF CreatedWhole, HandlersGoOn
      <4> QED
        BY <2>4, <3>1, <4>1
    <3>2. /\ definition[r] = [NewRow(q) EXCEPT !.stage = definition[r].stage]
          /\ ActionsOf(r) = ActionRows(r, q.body.actions)
      BY <2>1, <3>1 DEF Created
    <3>3. CASE UNCHANGED <<definition, subDef, alarmAction>>
      BY <3>2, <3>3 DEF ActionsOf
    <3>4. ASSUME NEW s \in Requests, InsertDefinition(s) \/ WriteDefinition(s),
                 <<definition, subDef, alarmAction>>' # <<definition, subDef, alarmAction>>
          PROVE  definition'[r] = definition[r] /\ ActionsOf(r)' = ActionsOf(r)
      <4>1. r \in Defs /\ DOMAIN definition = Defs
        BY DEF Defs, TypeInv, TablesOK
      <4>2. CASE InsertDefinition(s)
        <5>1. /\ request[s].target = s /\ s # r
              /\ definition' = [definition EXCEPT ![s] = NewRow(request[s])]
          BY <1>3, <3>4, <4>2, InsertStores
        <5> QED
          BY <4>1, <4>2, <5>1, OthersUntouched
      <4>3. CASE WriteDefinition(s)
        <5>1. request[s].target # r
          BY <3>1, <3>4, <4>3, WriteStores DEF TypeInv, WhereOK
        <5> QED
          BY <3>4, <4>1, <4>3, <5>1, WriteStores, OthersUntouched
      <4> QED
        BY <3>4, <4>2, <4>3
    <3>5. ASSUME NEW s \in Requests, SoftDelete(s), definition'[r] # definition[r]
          PROVE  /\ definition'[r] = [definition[r] EXCEPT !.stage = definition'[r].stage]
                 /\ definition'[r].stage = "deleted"
      <4>1. definition' = [definition EXCEPT ![request[s].target].stage = "deleted"]
        BY <3>5 DEF SoftDelete
      <4>2. definition \in [Defs -> RowSet] /\ r \in Defs
        BY DEF TypeInv, TablesOK, Defs
      <4>3. definition'[r] = [definition[r] EXCEPT !.stage = "deleted"]
        BY <3>5, <4>1, <4>2
      <4> QED
        BY <4>2, <4>3 DEF RowSet
    <3>6. ASSUME NEW s \in Requests, SoftDelete(s)
          PROVE  /\ definition'[r] = [NewRow(q) EXCEPT !.stage = definition'[r].stage]
                 /\ ActionsOf(r)' = ActionsOf(r)
      <4>1. ActionsOf(r)' = ActionsOf(r)
        BY <3>6 DEF SoftDelete, ActionsOf
      <4>2. CASE definition'[r] = definition[r]
        BY <3>2, <4>1, <4>2
      <4>3. CASE definition'[r] # definition[r]
        <5>1. PICK new : new = NewRow(q)
          OBVIOUS
        <5>2. new = [stage |-> "live", tenant |-> new.tenant, name |-> new.name,
                     expr |-> new.expr, details |-> new.details, enabled |-> "true"]
          BY <5>1 DEF NewRow
        <5>3. PICK old : old = definition[r] /\ old = [new EXCEPT !.stage = old.stage]
          BY <3>2, <5>1
        <5>4. PICK now : now = definition'[r] /\ now = [old EXCEPT !.stage = now.stage]
          BY <3>5, <3>6, <4>3, <5>3
        <5>5. now = [new EXCEPT !.stage = now.stage]
          BY <5>2, <5>3, <5>4
        <5> QED
          BY <4>1, <5>1, <5>4, <5>5
      <4> QED
        BY <4>2, <4>3
    <3> QED
      BY <3>2, <3>3, <3>4, <3>6, StoreWriters
  <2> QED
    BY <2>1, <2>2, <2>3, <2>4 DEF Created
<1> QED
  BY <1>1, <1>2, <1>3 DEF CreatedWhole

LEMMA CreatedHistory == Spec => []CreatedWhole
BY InitCreated, StepCreated, Typed, Deletions, RowsHistory, PTL DEF Spec

\* A refused request has left no definition, no row and no event.  A definition that
\* was posted is there with every row its creation had to insert, or there is not one
\* row or action of it.
THEOREM RefusedWithoutTrace == Spec => []RefusedLeavesNoTrace
<1>1. TypeInv /\ TopicInv /\ RowsInv /\ CreatedWhole => RefusedLeavesNoTrace
  <2> SUFFICES ASSUME TypeInv, TopicInv, RowsInv, CreatedWhole PROVE RefusedLeavesNoTrace
    OBVIOUS
  <2>1. ASSUME NEW r \in Requests, answer[r] \in {400, 404}, NEW i \in DOMAIN events
        PROVE  events[i].by # r
    <3>1. i \in 1..Len(events)
      BY DEF TypeInv, TopicOK
    <3> QED
      BY <2>1, <3>1 DEF TopicInv, SendersCommitted, Sends, Past
  <2>2. ASSUME NEW r \in Requests, answer[r] \in {400, 404}
        PROVE  MadeBy(r) = {} /\ definition[r].stage = "absent"
    <3>1. ~ Past(r)
      BY <2>2 DEF Past
    <3>2. \A row \in subDef : row.id[1] # r
      BY <3>1 DEF RowsInv, RowsOwned, Owned
    <3> QED
      BY <3>1, <3>2 DEF MadeBy, CreatedWhole
  <2>3. ASSUME NEW r \in Requests, definition[r].stage = "absent"
        PROVE  SubDefsOf(r) = {} /\ ActionsOf(r) = {}
    BY <2>3 DEF RowsInv, RowsOwned, ActionsOwned, SubDefsOf, ActionsOf
  <2> QED
    BY <2>1, <2>2, <2>3 DEF CreatedWhole, RefusedLeavesNoTrace
<1> QED
  BY <1>1, Typed, TopicHistory, RowsHistory, CreatedHistory, PTL

------------------------------------------------------------------------------
(* The handlers, tables and topic implement DefinitionContract: a commit   *)
(* that changes a definition is a Create, an Update or a Delete of the     *)
(* contract, a message that reaches the topic is an Announce, a handler    *)
(* that gives up or goes down is a Lose, and every other step is none of   *)
(* the contract's business.                                                *)

(* The three variables of the contract, under the refinement mapping. *)

Stages == [d \in Defs |-> definition[d].stage]

\* What one request owes, and an event without its content.
Due(r) == {[type |-> t, definition |-> request[r].target, by |-> r] : t \in OwedTypes(r)}
Outline(e) == [type |-> e.type, definition |-> e.definition, by |-> e.by]

LEMMA DueFacts ==
    /\ \A x : x \in OwedEvents <=> \E r \in Requests : x \in Due(r)
    /\ \A r : \A x \in Due(r) : x.by = r
    /\ \A r \in Requests : Contract!OwedBy(r) = Due(r)
<1>1. \A x : x \in OwedEvents <=> \E r \in Requests : x \in Due(r)
  BY DEF OwedEvents, Due
<1>2. \A r : \A x \in Due(r) : x.by = r
  BY DEF Due
<1> QED
  BY <1>1, <1>2 DEF Contract!OwedBy

\* A handler at a place where it tells owes what its operation announces.
LEMMA DueAt ==
    ASSUME TypeInv, NEW r \in Requests
    PROVE  /\ pc[r] \notin {"tell", "tellAlarms"} => Due(r) = {}
           /\ pc[r] = "tell" /\ request[r].op = "create" =>
                Due(r) = {[type |-> "created", definition |-> request[r].target, by |-> r]}
           /\ pc[r] = "tell" /\ request[r].op \in {"put", "patch"} =>
                Due(r) = {[type |-> "updated", definition |-> request[r].target, by |-> r]}
           /\ pc[r] = "tell" /\ request[r].op = "delete" =>
                Due(r) = {[type |-> t, definition |-> request[r].target, by |-> r] :
                             t \in {"deleted", "alarm-deleted"}}
           /\ pc[r] = "tellAlarms" =>
                Due(r) = {[type |-> "alarm-deleted", definition |-> request[r].target, by |-> r]}
<1>1. pc[r] = "tellAlarms" => request[r].op = "delete"
  BY DEF TypeInv, WhereOK
<1>2. pc[r] \notin {"tell", "tellAlarms"} => OwedTypes(r) = {}
  BY DEF OwedTypes
<1>3. pc[r] = "tell" /\ request[r].op = "create" => OwedTypes(r) = {"created"}
  BY DEF OwedTypes, EventTypes, TypeOf
<1>4. pc[r] = "tell" /\ request[r].op \in {"put", "patch"} => OwedTypes(r) = {"updated"}
  BY DEF OwedTypes, EventTypes, TypeOf
<1>5. pc[r] = "tell" /\ request[r].op = "delete" => OwedTypes(r) = {"deleted", "alarm-deleted"}
  BY DEF OwedTypes, EventTypes, TypeOf
<1>6. pc[r] = "tellAlarms" => OwedTypes(r) = {"alarm-deleted"}
  BY <1>1 DEF OwedTypes, EventTypes, TypeOf
<1> QED
  BY <1>2, <1>3, <1>4, <1>5, <1>6 DEF Due

\* A handler's step changes what it owes and nothing else of `owed`.
LEMMA OwedMoves ==
    ASSUME TypeInv, NEW r \in Requests, OnlyOne(r)
    PROVE  OwedEvents' = (OwedEvents \ Due(r)) \cup Due(r)'
<1>1. \A s \in Requests \ {r} : OwedTypes(s)' = OwedTypes(s)
  BY DEF OnlyOne, OwedTypes
<1>2. \A s \in Requests \ {r} : Due(s)' = Due(s)
  BY <1>1 DEF Due, OnlyOne
<1>3. \A x : x \in OwedEvents' <=> \E s \in Requests : x \in Due(s)'
  BY DEF OwedEvents, Due
<1> QED
  BY <1>2, <1>3, DueFacts

\* The topic of the contract: the outlines of the events, one by one.
LEMMA OutlinesInOrder ==
    ASSUME NEW S, NEW s \in Seq(S), NEW t, t = [i \in 1..Len(s) |-> Outline(s[i])]
    PROVE  t \in Seq({Outline(x) : x \in S}) /\ Len(t) = Len(s)
<1> DEFINE T == {Outline(x) : x \in S}
<1>1. Len(s) \in Nat /\ \A i \in 1..Len(s) : s[i] \in S
  BY ElementOfSeq, LenProperties
<1>2. t \in [1..Len(s) -> T]
  BY <1>1
<1>3. t \in Seq(T)
  BY <1>1, <1>2, SeqDef
<1>4. Len(t) = Len(s)
  BY <1>1, <1>2, <1>3, LenProperties
<1> QED
  BY <1>3, <1>4

LEMMA ToldGrows ==
    ASSUME TypeInv, NEW e, events' = Append(events, e)
    PROVE  ToldEvents' = Append(ToldEvents, Outline(e))
<1>1. PICK S : events \in Seq(S)
  BY DEF TypeInv, TopicOK
<1> DEFINE S2 == S \cup {e}
           o == Outline(e)
           t == ToldEvents
           u == ToldEvents'
<1>2. events \in Seq(S2) /\ events' \in Seq(S2) /\ Len(events') = Len(events) + 1
      /\ Len(events) \in Nat /\ \A i \in 1..Len(events) : events'[i] = events[i]
  BY <1>1, AppendFacts
<1>3. events'[Len(events) + 1] = e
  BY <1>1, AppendFacts
<1>4. t = [i \in 1..Len(events) |-> Outline(events[i])]
  BY <1>2 DEF ToldEvents, Outline
<1>5. u = [i \in 1..Len(events') |-> Outline(events'[i])]
  BY <1>2 DEF ToldEvents, Outline
<1> DEFINE T == {Outline(x) : x \in S2}
<1>6. t \in Seq(T) /\ Len(t) = Len(events)
  BY <1>2, <1>4, OutlinesInOrder
<1>7. u \in Seq(T) /\ Len(u) = Len(events')
  BY <1>2, <1>5, OutlinesInOrder
<1>8. o \in T
  OBVIOUS
<1> HIDE DEF T, o, t, u, S2
<1>9. /\ Append(t, o) \in Seq(T \cup {o}) /\ Len(Append(t, o)) = Len(t) + 1
      /\ \A i \in 1..Len(t) : Append(t, o)[i] = t[i]
      /\ Append(t, o)[Len(t) + 1] = o
  BY <1>6, AppendFacts
<1>10. T \cup {o} = T
  BY <1>8
<1>11. \A i \in 1..Len(u) : u[i] = Append(t, o)[i]
  <2> SUFFICES ASSUME NEW i \in 1..Len(u)
               PROVE  u[i] = Append(t, o)[i]
    OBVIOUS
  <2>1. i \in 1..Len(events') /\ u[i] = Outline(events'[i])
    BY <1>5, <1>7
  <2>2. CASE i = Len(events) + 1
    BY <2>1, <2>2, <1>3, <1>6, <1>9 DEF o
  <2>3. CASE i # Len(events) + 1
    <3>1. i \in 1..Len(events)
      BY <2>1, <2>3, <1>2
    <3> QED
      BY <2>1, <3>1, <1>2, <1>4, <1>6, <1>9
  <2> QED
    BY <2>2, <2>3
<1>12. u = Append(t, o)
  BY <1>2, <1>6, <1>7, <1>9, <1>10, <1>11, SeqEqual
<1> QED
  BY <1>12 DEF t, u, o

------------------------------------------------------------------------------
(* Every step is one of the contract's, or none of its business. *)

\* The contract begins as the tables do.
LEMMA InitContract == Init => Contract!ContractInit
<1> SUFFICES ASSUME Init
             PROVE  Contract!ContractInit
  OBVIOUS
<1>1. Stages = [d \in Defs |-> IF d \in Stored THEN "live" ELSE "absent"]
  <2>1. \A d \in Stored : definition[d].stage = "live"
    BY DEF Init, Defs, AbsentRow
  <2>2. \A d \in Defs \ Stored : definition[d].stage = "absent"
    BY DEF Init, Defs
  <2> QED
    BY <2>1, <2>2 DEF Stages, Defs
<1>2. OwedEvents = {}
  BY DEF Init, OwedEvents, OwedTypes
<1>3. ToldEvents = << >>
  <2>1. DOMAIN events = {} /\ events = << >>
    BY DEF Init
  <2>2. ToldEvents = [i \in {} |-> Outline(events[i])]
    BY <2>1 DEF ToldEvents, Outline
  <2>3. << >> = [i \in {} |-> Outline(events[i])]
    BY <2>1
  <2> QED
    BY <2>2, <2>3
<1> QED
  BY <1>1, <1>2, <1>3 DEF Contract!ContractInit, Stages

\* A handler that has not committed yet owes nothing and has told nothing.
LEMMA SilentSoFar ==
    ASSUME TypeInv, TopicInv, NEW r \in Requests, pc[r] \in {"insert", "write", "softDelete"}
    PROVE  Due(r) = {} /\ Contract!Unused(r)
<1>1. Due(r) = {}
  BY DueAt
<1>2. \A x \in OwedEvents : x.by # r
  BY <1>1, DueFacts
<1>3. \A i \in 1..Len(events) : events[i].by # r
  BY DEF TopicInv, SendersCommitted, Sends, Past
<1>4. \A i \in DOMAIN ToldEvents : i \in 1..Len(events) /\ ToldEvents[i].by = events[i].by
  <2>1. DOMAIN events = 1..Len(events)
    BY DEF TypeInv, TopicOK
  <2> QED
    BY <2>1 DEF ToldEvents
<1> QED
  BY <1>1, <1>2, <1>3, <1>4 DEF Contract!Unused

\* The commit of a handler is the change of the contract's that its kind of
\* request makes.
LEMMA CommitIsChange ==
    ASSUME TypeInv, DeletionInv, TopicInv, NEW r \in Requests, NEW d \in Defs,
           NEW from, NEW to, NEW types,
           OnlyOne(r), UNCHANGED <<events, request>>,
           pc[r] \in {"insert", "write", "softDelete"}, pc'[r] = "tell",
           request[r].target = d, definition[d].stage = from,
           Stages' = [Stages EXCEPT ![d] = to],
           OwedTypes(r)' = types
    PROVE  Contract!Change(types, d, r, from, to)
<1>1. Contract!Unused(r) /\ Due(r) = {}
  BY SilentSoFar
<1>2. ToldEvents' = ToldEvents
  BY DEF ToldEvents
<1>3. Stages[d] = from
  BY DEF Stages
<1>4. OwedEvents' = OwedEvents \cup Due(r)'
  BY <1>1, OwedMoves
<1>5. Due(r)' = {[type |-> t, definition |-> d, by |-> r] : t \in types}
  BY DEF Due
<1>6. Due(r)' = {Contract!Announcement(t, d, r) : t \in types}
  BY <1>5 DEF Contract!Announcement
<1> QED
  BY <1>1, <1>2, <1>3, <1>4, <1>6 DEF Contract!Change, Stages


LEMMA InsertIsCreate ==
    ASSUME TypeInv, DeletionInv, TopicInv, NEW r \in Requests, InsertDefinition(r),
           pc'[r] = "tell"
    PROVE  Contract!Create(r, r)
<1>1. OnlyOne(r)
  BY HandlerMoves DEF Handle
<1>2. pc[r] = "insert" /\ UNCHANGED <<events, request>> /\ ActionsExist(request[r].body.actions, method)
  BY HandlerTypes, "done" # "tell" DEF InsertDefinition, InsertRows, Reply
<1>3. r \in Defs /\ request[r].target = r /\ request[r].op = "create"
  BY <1>2 DEF TypeInv, WhereOK, Defs
<1>4. definition[r].stage = "absent"
  BY <1>2 DEF DeletionInv, FreshIds
<1>5. Stages' = [Stages EXCEPT ![r] = "live"]
  <2>1. \A d \in Defs : definition'[d].stage = IF d = r THEN "live" ELSE definition[d].stage
    BY <1>2, <1>3 DEF InsertDefinition, InsertRows, NewRow, TypeInv, TablesOK
  <2> QED
    BY <2>1, <1>3 DEF Stages
<1>6. OwedTypes(r)' = {"created"}
  BY <1>2, <1>3 DEF OwedTypes, EventTypes, TypeOf
<1> QED
  BY <1>1, <1>2, <1>3, <1>4, <1>5, <1>6, CommitIsChange DEF Contract!Create

LEMMA WriteIsUpdate ==
    ASSUME TypeInv, DeletionInv, TopicInv, NEW r \in Requests, WriteDefinition(r),
           pc'[r] = "tell"
    PROVE  Contract!Update(request[r].target, r)
<1> DEFINE d == request[r].target
<1>1. OnlyOne(r)
  BY HandlerMoves DEF Handle
<1>2. pc[r] = "write" /\ UNCHANGED <<events, request>> /\ StillThere(d, request[r].tenant)
      /\ definition' = [definition EXCEPT ![d] =
                            UpdatedRow(definition[d], local[r].row, request[r].body)]
  BY ZenonT(60), HandlerTypes, "done" # "tell" DEF WriteDefinition, UpdateRows, Reply
<1>3. d \in Defs /\ request[r].op \in {"put", "patch"} /\ definition[d].stage = "live"
  BY <1>2 DEF TypeInv, WhereOK, StillThere, Found
<1>4. Stages' = [Stages EXCEPT ![d] = "live"]
  <2>1. UpdatedRow(definition[d], local[r].row, request[r].body).stage = definition[d].stage
    BY <1>3, UpdatedRowKeeps DEF TypeInv, TablesOK
  <2>2. \A x \in Defs : definition'[x].stage = IF x = d THEN "live" ELSE definition[x].stage
    BY <1>2, <1>3, <2>1 DEF TypeInv, TablesOK
  <2> QED
    BY <2>2, <1>3 DEF Stages
<1>5. OwedTypes(r)' = {"updated"}
  BY <1>2, <1>3 DEF OwedTypes, EventTypes, TypeOf
<1> QED
  BY <1>1, <1>2, <1>3, <1>4, <1>5, CommitIsChange DEF Contract!Update

LEMMA SoftDeleteIsDelete ==
    ASSUME TypeInv, DeletionInv, TopicInv, NEW r \in Requests, SoftDelete(r),
           pc'[r] = "tell"
    PROVE  Contract!Delete(request[r].target, r)
<1> DEFINE d == request[r].target
<1>1. OnlyOne(r)
  BY HandlerMoves DEF Handle
<1>2. pc[r] = "softDelete" /\ UNCHANGED <<events, request>> /\ Deletable(d, request[r].tenant)
      /\ definition' = [definition EXCEPT ![d].stage = "deleted"]
  BY HandlerTypes, "done" # "tell" DEF SoftDelete, Reply
<1>3. d \in Defs /\ request[r].op = "delete" /\ definition[d].stage = "live"
  BY <1>2 DEF TypeInv, WhereOK, Deletable, Found
<1>4. Stages' = [Stages EXCEPT ![d] = "deleted"]
  <2>1. \A x \in Defs : definition'[x].stage = IF x = d THEN "deleted" ELSE definition[x].stage
    BY <1>2, <1>3 DEF TypeInv, TablesOK, RowSet
  <2> QED
    BY <2>1, <1>3 DEF Stages
<1>5. OwedTypes(r)' = {"deleted", "alarm-deleted"}
  BY <1>2, <1>3 DEF OwedTypes, EventTypes, TypeOf
<1> QED
  BY <1>1, <1>2, <1>3, <1>4, <1>5, CommitIsChange DEF Contract!Delete

\* A step of a handler that tells nothing and does not commit changes no stage,
\* and the handler owes no more than before: it may have given up.
LEMMA SilenceIsLoss ==
    ASSUME TypeInv, DeletionInv, NEW r \in Requests, Receive(r) \/ Handle(r) \/ Crash(r),
           UNCHANGED events, pc'[r] # "tell"
    PROVE  Contract!Lose(r)
<1>1. OnlyOne(r) /\ (pc[r] # "idle" => UNCHANGED request)
  BY HandlerMoves
<1>2. Stages' = Stages
  <2>1. CASE InsertDefinition(r)
    BY <2>1, HandlerTypes DEF InsertDefinition, InsertRows, Go, Stages, RolledBack
  <2>2. CASE WriteDefinition(r)
    BY <2>2, HandlerTypes DEF WriteDefinition, UpdateRows, Go, Stages, RolledBack
  <2>3. CASE SoftDelete(r)
    BY <2>3, HandlerTypes DEF SoftDelete, Go, Stages
  <2>4. CASE Receive(r) \/ Crash(r) \/ (Handle(r) /\ ~InsertDefinition(r)
                                        /\ ~WriteDefinition(r) /\ ~SoftDelete(r))
    <3>1. UNCHANGED definition
      BY <2>4 DEF Receive, ReceivePost, ReceiveUpdate, ReceiveDelete, Accept, Crash, Handle,
                  ReadDefinition, ReadSubDefs, ReadAlarms, DatabaseFails, RolledBack, TellCreated,
                  TellUpdated, TellDeleted, TellAlarmsDeleted, tables
    <3> QED
      BY <3>1 DEF Stages
  <2> QED
    BY <2>1, <2>2, <2>3, <2>4
<1>3. Due(r)' \subseteq Due(r)
  <2>1. CASE pc'[r] # "tellAlarms"
    <3>1. OwedTypes(r)' = {}
      BY <2>1 DEF OwedTypes
    <3> QED
      BY <3>1 DEF Due
  <2>2. CASE pc'[r] = "tellAlarms"
    <3>1. pc[r] = "tell" /\ request[r].op = "delete"
      <4>1. ~InsertDefinition(r) /\ ~WriteDefinition(r) /\ ~SoftDelete(r)
        <5>1. pc'[r] \in {"tell", "done"} \/ ~(InsertDefinition(r) \/ WriteDefinition(r) \/ SoftDelete(r))
          BY HandlerTypes DEF InsertDefinition, InsertRows, WriteDefinition, UpdateRows, SoftDelete, Go, Reply
        <5> QED
          BY <2>2, <5>1
      <4> QED
        BY <2>2, <4>1, ComesToTell
    <3>2. UNCHANGED request
      BY <3>1, <1>1
    <3>3. OwedTypes(r)' \subseteq OwedTypes(r)
      BY <2>2, <3>1, <3>2 DEF OwedTypes
    <3> QED
      BY <3>2, <3>3 DEF Due
  <2> QED
    BY <2>1, <2>2
<1>4. OwedEvents' = OwedEvents \ (Due(r) \ Due(r)')
  <2>1. Due(r) \subseteq OwedEvents
    BY DueFacts
  <2> QED
    BY <2>1, <1>1, <1>3, OwedMoves
<1>5. ToldEvents' = ToldEvents
  BY DEF ToldEvents
<1>6. (Due(r) \ Due(r)') \in SUBSET Contract!OwedBy(r)
  BY DueFacts
<1> QED
  BY <1>2, <1>4, <1>5, <1>6 DEF Contract!Lose, Stages


\* A message that reaches the topic is an announcement that was owed; the handler
\* may give up the other one it owes.
LEMMA MessageIsAnnouncement ==
    ASSUME TypeInv, DeletionInv, NEW r \in Requests, OnlyOne(r), NEW type, NEW content,
           Announces(r, type, content)
    PROVE  \E x \in OwedEvents : Contract!Announce(x)
<1> DEFINE d == request[r].target
           x == [type |-> type, definition |-> d, by |-> r]
           lost == Due(r) \ (Due(r)' \cup {x})
<1>1. UNCHANGED <<definition, request>> /\ pc[r] \in {"tell", "tellAlarms"}
  BY DEF Announces
<1>2. type \in OwedTypes(r) /\ (type = "alarm-deleted" => pc[r] = "tellAlarms")
  <2>1. CASE pc[r] = "tell"
    <3>1. type = TypeOf(request[r].op)
      BY <2>1 DEF Announces
    <3> QED
      BY <2>1, <3>1 DEF OwedTypes, EventTypes, TypeOf
  <2>2. CASE pc[r] = "tellAlarms"
    <3>1. type = "alarm-deleted"
      BY <2>2 DEF Announces
    <3>2. request[r].op = "delete"
      BY <2>2 DEF TypeInv, WhereOK
    <3> QED
      BY <2>2, <3>1, <3>2 DEF OwedTypes, EventTypes
  <2> QED
    BY <1>1, <2>1, <2>2
<1>3. x \in Due(r) /\ x \in OwedEvents
  BY <1>2, DueFacts DEF Due
<1>4. type = "alarm-deleted" => Due(r) = {x}
  BY <1>2, DueAt
<1>5. Due(r)' \subseteq Due(r) \ {x}
  <2>1. CASE pc' = [pc EXCEPT ![r] = "done"]
    <3>1. Due(r)' = {}
      BY <2>1, HandlerTypes DEF Due, OwedTypes
    <3> QED
      BY <3>1
  <2>2. CASE pc' = [pc EXCEPT ![r] = "tellAlarms"] /\ type = "deleted"
    <3>1. OwedTypes(r)' \subseteq OwedTypes(r) \ {"deleted"}
      BY <2>2, <1>1, <1>2, HandlerTypes DEF OwedTypes, TypeOf, Announces
    <3> QED
      BY <2>2, <1>1, <3>1 DEF Due
  <2> QED
    BY <2>1, <2>2 DEF Announces
<1>6. OwedEvents' = OwedEvents \ ({x} \cup lost)
  <2>1. Due(r) \subseteq OwedEvents
    BY DueFacts
  <2> QED
    BY <2>1, <1>3, <1>5, OwedMoves
<1>7. lost \in SUBSET Contract!OwedBy(x.by) /\ Contract!OwedBy(x.by) = Due(r)
  BY DueFacts
<1>8. ToldEvents' = Append(ToldEvents, x)
  <2>1. Outline(Event(type, r, content)) = x
    BY DEF Outline, Event
  <2> QED
    BY <2>1, ToldGrows DEF Announces
<1>9. Stages' = Stages
  BY <1>1 DEF Stages
<1>10. Contract!Announce(x)
  <2>1. x.type = "alarm-deleted" => Contract!OwedBy(x.by) = {x}
    BY <1>4, <1>7
  <2> HIDE DEF x, lost
  <2> QED
    BY <1>3, <2>1, <1>6, <1>7, <1>8, <1>9 DEF Contract!Announce, Stages
<1> QED
  BY <1>3, <1>10

\* A step that is no handler's is none of the contract's business.
LEMMA OthersStutter ==
    UNCHANGED <<definition, events, pc, request>> => UNCHANGED Contract!contractVars
  BY DEF Contract!contractVars, OwedEvents, OwedTypes, ToldEvents

LEMMA StepContract ==
    TypeInv /\ DeletionInv /\ TopicInv /\ [Next]_vars =>
        [Contract!ContractNext]_Contract!contractVars
<1> SUFFICES ASSUME TypeInv, DeletionInv, TopicInv, [Next]_vars,
                    ~ UNCHANGED <<definition, events, pc, request>>
             PROVE  Contract!ContractNext
  BY OthersStutter
<1>1. PICK r \in Requests : Receive(r) \/ Handle(r) \/ Crash(r)
  BY WhoActs
<1>2. OnlyOne(r)
  BY <1>1, HandlerMoves
<1>3. CASE UNCHANGED events /\ pc'[r] # "tell"
  <2>1. Contract!Lose(r)
    BY <1>1, <1>3, SilenceIsLoss
  <2> QED
    BY <2>1 DEF Contract!ContractNext
<1>4. CASE UNCHANGED events /\ pc'[r] = "tell"
  <2>1. r \in Defs /\ (pc[r] # "idle" => request[r].target \in Defs)
    BY DEF TypeInv, WhereOK, Defs
  <2>2. CASE InsertDefinition(r)
    BY <1>4, <2>1, <2>2, InsertIsCreate DEF Contract!ContractNext
  <2>3. CASE WriteDefinition(r) /\ pc[r] = "write"
    BY <1>4, <2>1, <2>3, WriteIsUpdate DEF Contract!ContractNext
  <2>4. CASE SoftDelete(r) /\ pc[r] = "softDelete"
    BY <1>4, <2>1, <2>4, SoftDeleteIsDelete DEF Contract!ContractNext
  <2> QED
    BY <1>1, <1>4, <2>2, <2>3, <2>4, ComesToTell
<1>5. CASE ~ UNCHANGED events
  <2>1. PICK s \in Requests : \E type, content : Announces(s, type, content)
    BY <1>5, StepAnnounces
  <2>2. s = r
    <3>1. pc'[s] # pc[s]
      BY <2>1, HandlerTypes DEF Announces
    <3> QED
      BY <1>2, <3>1 DEF OnlyOne
  <2>3. \E x \in OwedEvents : Contract!Announce(x)
    BY <1>2, <2>1, <2>2, MessageIsAnnouncement
  <2> QED
    BY <2>3 DEF Contract!ContractNext
<1> QED
  BY <1>3, <1>4, <1>5

\* The handlers, with the tables and the topic, keep the contract with the engine:
\* every change of a definition is announced by the request that made it, once,
\* in its order, or is lost with its handler or its message; nothing else is
\* announced, and a definition is created once and deleted at most once.
THEOREM ContractKept == Spec => ImplementsContract
<1>1. TypeInv /\ DeletionInv /\ TopicInv /\ [Next]_vars =>
        [Contract!ContractNext]_Contract!contractVars
  BY StepContract
<1> QED
  BY <1>1, Typed, Deletions, TopicHistory, InitContract, PTL
     DEF Spec, ImplementsContract, Contract!ContractSpec

------------------------------------------------------------------------------
(* What the contract is worth to the engine.                               *)

\* With the definitions at stages s, the announcements o owed and t told.
Ending == {"deleted", "alarm-deleted"}
Happened(s, x) == /\ x.definition \in Defs /\ s[x.definition] # "absent"
                  /\ x.type \in Ending => s[x.definition] = "deleted"
Twice(x, y) == x.type = "deleted" /\ y.type = "deleted" /\ x.definition = y.definition
Sound(s, o, t) ==
    /\ \A x \in o : Happened(s, x)
    /\ \A i \in DOMAIN t : Happened(s, t[i])
    /\ \A x, y \in o : Twice(x, y) => x = y
    /\ \A x \in o : \A i \in DOMAIN t : ~ Twice(x, t[i])
    /\ \A i, j \in DOMAIN t : Twice(t[i], t[j]) => i = j
ContractInv == (\E S : ToldEvents \in Seq(S)) /\ Sound(Stages, OwedEvents, ToldEvents)

\* What a change of d by one sender owes, and from and to what it may be.
Owes(types, d, by) == {[type |-> ty, definition |-> d, by |-> by] : ty \in types}
Moves(types, from, to) ==
    \/ types = {"created"} /\ from = "absent" /\ to = "live"
    \/ types = {"updated"} /\ from = "live" /\ to = "live"
    \/ types = Ending /\ from = "live" /\ to = "deleted"

LEMMA ChangeIsSound ==
    ASSUME NEW s, NEW o, NEW t, Sound(s, o, t), DOMAIN s = Defs,
           NEW d \in Defs, NEW by, NEW types, NEW to, Moves(types, s[d], to)
    PROVE  Sound([s EXCEPT ![d] = to], o \cup Owes(types, d, by), t)
<1> DEFINE s2 == [s EXCEPT ![d] = to]
           N == Owes(types, d, by)
<1>1. s2[d] = to /\ \A e \in Defs \ {d} : s2[e] = s[e]
  OBVIOUS
<1>2. \A x \in N : x.type \in types /\ x.definition = d /\ x.by = by
                   /\ x = [type |-> x.type, definition |-> d, by |-> by]
  BY DEF Owes
<1> USE DEF Moves
<1> HIDE DEF s2, N
<1>3. ASSUME NEW x, Happened(s, x)
      PROVE  Happened(s2, x) /\ (x.type = "deleted" => x.definition # d)
  BY <1>1, <1>3 DEF Happened, Ending
<1>4. ASSUME NEW x \in N PROVE Happened(s2, x)
  BY <1>1, <1>2 DEF Happened, Ending
<1>5. ASSUME NEW x \in N, NEW y \in N, Twice(x, y) PROVE x = y
  <2>1. x = [type |-> "deleted", definition |-> d, by |-> by]
    BY <1>2, <1>5 DEF Twice
  <2>2. y = [type |-> "deleted", definition |-> d, by |-> by]
    BY <1>2, <1>5 DEF Twice
  <2> QED
    BY <2>1, <2>2
<1>6. ASSUME NEW x \in N, NEW y, Happened(s, y) PROVE ~ Twice(x, y) /\ ~ Twice(y, x)
  BY <1>2, <1>3, <1>6 DEF Twice
<1>7. /\ \A x \in o : Happened(s, x)
      /\ \A i \in DOMAIN t : Happened(s, t[i])
      /\ \A x, y \in o : Twice(x, y) => x = y
      /\ \A x \in o : \A i \in DOMAIN t : ~ Twice(x, t[i])
      /\ \A i, j \in DOMAIN t : Twice(t[i], t[j]) => i = j
  BY DEF Sound
<1>8. /\ \A x \in o \cup N : Happened(s2, x)
      /\ \A i \in DOMAIN t : Happened(s2, t[i])
  BY <1>3, <1>4, <1>7
<1>9. \A x, y \in o \cup N : Twice(x, y) => x = y
  BY <1>5, <1>6, <1>7
<1>10. \A x \in o \cup N : \A i \in DOMAIN t : ~ Twice(x, t[i])
  BY <1>6, <1>7
<1>11. Sound(s2, o \cup N, t)
  BY <1>7, <1>8, <1>9, <1>10 DEF Sound
<1> QED
  BY <1>11 DEF s2, N

LEMMA AnnounceIsSound ==
    ASSUME NEW s, NEW o, NEW S, NEW t \in Seq(S), Sound(s, o, t), NEW x \in o, NEW lost
    PROVE  Sound(s, o \ ({x} \cup lost), Append(t, x))
<1> DEFINE t2 == Append(t, x)
           o2 == o \ ({x} \cup lost)
<1>1. /\ DOMAIN t = 1..Len(t) /\ Len(t) \in Nat /\ DOMAIN t2 = 1..(Len(t) + 1)
      /\ t2[Len(t) + 1] = x /\ \A i \in 1..Len(t) : t2[i] = t[i]
  <2>1. t \in Seq(S \cup {x}) /\ x \in S \cup {x}
    OBVIOUS
  <2> QED
    BY <2>1, AppendProperties
<1> HIDE DEF t2
<1>2. \A i \in DOMAIN t2 : i = Len(t) + 1 \/ i \in DOMAIN t
  BY <1>1
<1>3. /\ \A y \in o : Happened(s, y)
      /\ \A i \in DOMAIN t : Happened(s, t[i])
      /\ \A y, z \in o : Twice(y, z) => y = z
      /\ \A y \in o : \A i \in DOMAIN t : ~ Twice(y, t[i])
      /\ \A i, j \in DOMAIN t : Twice(t[i], t[j]) => i = j
  BY DEF Sound
<1>4. \A i \in DOMAIN t2 : Happened(s, t2[i])
  BY <1>1, <1>2, <1>3
<1>5. \A y \in o2 : \A i \in DOMAIN t2 : ~ Twice(y, t2[i])
  BY <1>1, <1>2, <1>3
<1>6. \A i \in DOMAIN t : ~ Twice(x, t[i]) /\ ~ Twice(t[i], x)
  BY <1>3 DEF Twice
<1>7. \A i, j \in DOMAIN t2 : Twice(t2[i], t2[j]) => i = j
  BY <1>1, <1>2, <1>3, <1>6
<1> HIDE DEF o2
<1>8. \A y \in o2 : y \in o
  BY DEF o2
<1>9. Sound(s, o2, t2)
  BY <1>3, <1>4, <1>5, <1>7, <1>8 DEF Sound
<1> QED
  BY <1>9 DEF o2, t2


LEMMA ContractInitSound == Contract!ContractInit => ContractInv
<1> SUFFICES ASSUME Contract!ContractInit PROVE ContractInv
  OBVIOUS
<1>1. OwedEvents = {} /\ ToldEvents = <<>>
  BY DEF Contract!ContractInit
<1>2. ToldEvents \in Seq({}) /\ DOMAIN ToldEvents = {}
  BY <1>1
<1> QED
  BY <1>1, <1>2 DEF ContractInv, Sound

LEMMA ContractStepSound ==
    ContractInv /\ [Contract!ContractNext]_Contract!contractVars => ContractInv'
<1> SUFFICES ASSUME ContractInv, [Contract!ContractNext]_Contract!contractVars
             PROVE  ContractInv'
  OBVIOUS
<1>1. DOMAIN Stages = Defs
  BY DEF Stages
<1>2. PICK S : ToldEvents \in Seq(S)
  BY DEF ContractInv
<1>3. Sound(Stages, OwedEvents, ToldEvents)
  BY DEF ContractInv
<1>4. ASSUME NEW d \in Defs, NEW by, NEW types, NEW from, NEW to,
             Contract!Change(types, d, by, from, to), Moves(types, from, to)
      PROVE  ContractInv'
  <2>1. /\ Stages[d] = from /\ Stages' = [Stages EXCEPT ![d] = to]
        /\ OwedEvents' = OwedEvents \cup Owes(types, d, by)
        /\ ToldEvents' = ToldEvents
    BY <1>4 DEF Contract!Change, Contract!Announcement, Stages, Owes
  <2>2. Sound(Stages', OwedEvents', ToldEvents')
    BY <1>1, <1>3, <1>4, <2>1, ChangeIsSound
  <2> QED
    BY <1>2, <2>1, <2>2 DEF ContractInv, Sound, Happened, Twice
<1>5. ASSUME NEW d \in Defs, NEW by \in Requests,
             Contract!Create(d, by) \/ Contract!Update(d, by) \/ Contract!Delete(d, by)
      PROVE  ContractInv'
  <2>1. CASE Contract!Create(d, by)
    BY <1>4, <2>1 DEF Contract!Create, Moves
  <2>2. CASE Contract!Update(d, by)
    BY <1>4, <2>2 DEF Contract!Update, Moves
  <2>3. CASE Contract!Delete(d, by)
    BY <1>4, <2>3 DEF Contract!Delete, Moves, Ending
  <2> QED
    BY <1>5, <2>1, <2>2, <2>3
<1>6. ASSUME NEW x \in OwedEvents, Contract!Announce(x) PROVE ContractInv'
  <2>1. PICK lost : OwedEvents' = OwedEvents \ ({x} \cup lost)
    BY <1>6 DEF Contract!Announce
  <2>2. ToldEvents' = Append(ToldEvents, x) /\ Stages' = Stages
    BY <1>6 DEF Contract!Announce, Stages
  <2>3. Sound(Stages', OwedEvents', ToldEvents')
    BY <1>2, <1>3, <2>1, <2>2, AnnounceIsSound
  <2>4. ToldEvents' \in Seq(S \cup {x})
    <3>1. ToldEvents \in Seq(S \cup {x})
      BY <1>2
    <3> QED
      BY <2>2, <3>1, AppendProperties
  <2> QED
    BY <2>3, <2>4 DEF ContractInv, Sound, Happened, Twice
<1>7. ASSUME NEW by \in Requests, Contract!Lose(by) PROVE ContractInv'
  <2>1. PICK lost : OwedEvents' = OwedEvents \ lost
    BY <1>7 DEF Contract!Lose
  <2>2. ToldEvents' = ToldEvents /\ Stages' = Stages
    BY <1>7 DEF Contract!Lose, Stages
  <2> QED
    BY <1>2, <1>3, <2>1, <2>2 DEF ContractInv, Sound, Happened, Twice
<1>8. CASE UNCHANGED Contract!contractVars
  <2>1. ToldEvents' = ToldEvents /\ Stages' = Stages /\ OwedEvents' = OwedEvents
    BY <1>8 DEF Contract!contractVars, Stages
  <2> QED
    BY <1>2, <1>3, <2>1 DEF ContractInv, Sound, Happened, Twice
<1> QED
  BY <1>5, <1>6, <1>7, <1>8 DEF Contract!ContractNext

\* What the contract promises is enough for the engine, and so the handlers give it: no
\* definition is announced deleted twice, and what is announced of one has happened to it.
THEOREM ContractDelivers == Spec => [](Contract!OneDeletion /\ Contract!ToldIsTrue)
<1>1. ContractInv => Contract!OneDeletion /\ Contract!ToldIsTrue
  <2> SUFFICES ASSUME ContractInv PROVE Contract!OneDeletion /\ Contract!ToldIsTrue
    OBVIOUS
  <2>1. /\ \A i \in DOMAIN ToldEvents : Happened(Stages, ToldEvents[i])
        /\ \A i, j \in DOMAIN ToldEvents : Twice(ToldEvents[i], ToldEvents[j]) => i = j
    BY DEF ContractInv, Sound
  <2>2. Contract!OneDeletion
    BY <2>1 DEF Contract!OneDeletion, Twice
  <2>3. Contract!ToldIsTrue
    BY <2>1 DEF Contract!ToldIsTrue, Happened, Ending, Stages
  <2> QED
    BY <2>2, <2>3
<1>2. ImplementsContract => []ContractInv
  BY ContractInitSound, ContractStepSound, PTL DEF ImplementsContract, Contract!ContractSpec
<1> QED
  BY <1>1, <1>2, ContractKept, PTL

==============================================================================
