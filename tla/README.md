# A TLA+ model of the Monasca API

This directory holds TLA+ specifications of the Monasca API, TLC
configurations that check them on small instances, and proofs that TLAPS checks.

## 1. The system

The Monasca API stores alarm definitions, alarms and notification methods in
MySQL, tells the *threshold engine* of every change through the Kafka topic
`events`, passes metrics on to Kafka and answers queries from InfluxDB.
There are two implementations: Python (`src/monasca`) and Java
(`src/src/main/java/monasca/api`). Several servers share database and topics.
The Python server runs in gunicorn eventlet workers: a greenlet for each
request, which gives way at every call of the database and of the queue. No
lock and no state is shared between requests but the database, the topics and
the publisher object of the process.

| Component | State | Operations | Talks to |
|---|---|---|---|
| Alarm definitions (`v2/reference/alarm_definitions.py`, `mysql/alarm_definitions_repository.py`, `model/sub_alarm_definition.py`) | tables `alarm_definition`, `sub_alarm_definition`, `alarm_action` | POST, PUT, PATCH, DELETE, GET | repository calls, one transaction each; `events` |
| Alarming mixin (`v2/reference/alarming.py`) | none | builds and sends the events of alarms | Kafka publisher |
| Alarms (`v2/reference/alarms.py`, `mysql/alarms_repository.py`) | tables `alarm`, `alarm_metric`, `sub_alarm` | PUT, PATCH, DELETE, GET, history | `events`; the engine writes the same rows |
| Notification methods (`notifications.py`, `notifications_repository.py`) | table `notification_method` | POST, PUT, DELETE, GET | named by `alarm_action` |
| Kafka publisher (`common/messaging/kafka_publisher.py`) | client and producer of the process | `send_message` | Kafka |
| Metrics and events ingestion (`metrics.py`, `events.py`, `message_formats`, `kafka_dispatcher.py`, `metric_validator.py`) | none | POST: one message for each metric | Kafka publisher |
| Transforms (`transforms.py`, `transforms_repository.py`) | table of transforms | POST, DELETE, GET | - |
| Metrics repository (`influxdb/metrics_repository.py`) | InfluxDB, which others write | queries of metrics, measurements, alarm history | InfluxDB |
| Pagination (`helpers.py`, the repositories' offsets) | none: the client carries the offset | pages with a `next` link | all lists |
| Expression parser, schemas | none | accept or refuse a body; take an expression apart | alarm definitions |
| Server, middleware | drivers, made once | routing, roles | Keystone |
| Java API | as above | as above, over JDBI | MySQL, Kafka, InfluxDB, Vertica |
| Threshold engine (another program) | what it has heard | creates alarms, sets their states | same database, reads `events` |

`PROJECT.json` lists the components, with what is modelled of each, and the
hazards of the code, each at its line.

### What is hard, and what makes each component correct

* **Alarm definitions.** An update is a read, a diff and a dozen writes that
  depend on it; a deletion is two reads, a transaction and several messages.
  Commits and messages are not atomic with each other. Correct means: a
  definition is deleted once, and the engine is told once; what is deleted does
  not change any more; an event says what was committed; the engine hears of a
  definition before it hears of its alarms; refused requests leave nothing;
  after an update the stored sub-expressions are those of the new expression.
* **Alarms.** State changes of API and engine race, and with the deletion of the
  definition. Correct means: a new state that was confirmed was announced; where
  updates do not overlap, each transition starts where the one before ended; a
  deletion is announced once, and nothing of the alarm after it.
* **Notification methods and transforms.** Every check is a statement of its own,
  without a lock. Correct means: a name is used once for a tenant where creations
  do not overlap; 404 is said of what is not there; refused requests leave nothing;
  requests touch their own tenant's rows.
* **Publisher and ingestion.** One client and one producer for all the greenlets of
  a process, made when first needed and again after failures. Correct means: what
  was accepted is published, whole and in order; a failure leaves a prefix; nobody
  is refused while Kafka is up but for a reason that can be named; everybody is
  answered.
* **Lists.** The offset is compared with a column and taken from an id, and rows
  come and go between two pages. Correct means: who follows the links sees every row that
  stays, once, and comes to an end. Where the code falls short of that, the
  property says when.
* **Expressions.** One text is read by the parser, stored as rows, compared with
  other texts and told to the engine as text again. Correct means: the parser
  finds every sub-expression in its place; the event says what the rows say; an
  update that changes no meaning changes no row.

Some behaviours met while reading, for the reader of the models:

* A POST whose event cannot be published answers 500 and leaves the definition
  (Java deletes it again). A DELETE whose event cannot be published answers 500;
  repeating it gives 404, and the event is never sent.
* PATCH needs `name` and `expression`: without an expression the parser raises,
  without a name `name.encode` raises before the first write; both answer 500. PATCH
  without `actions_enabled` switches actions off; PUT cannot switch them off.
* PUT keeps the values of fields the body leaves out.
* Creation stores metric names in lower case; an update stores and compares
  them as written.
* An update may change what `docs/monasca-api-spec.md:555` says cannot change: the
  metrics of the expression, the number of its sub-expressions and `match_by`. The
  handler goes from the parser to the repository and compares nothing with what is
  stored; Java answers 422 (`validateChangesAllowed`). The alarms made of the
  old metrics stay. The properties about updates cover such updates as well, because the
  code accepts them; the run `update_changes_metrics` shows one.
* Two updates that overlap make their diffs against the same rows: what is left is not
  what the expression written last needs.
* The updated event keys changed sub-expressions by an id they do not have yet:
  it carries at most one of them.
* A PUT of an alarm answers 404 when the alarm goes between the update, which was
  made and announced, and the query for the answer.
* A message about an alarm one of whose metrics has no dimensions cannot be built
  (`alarming.py:82`): updates and deletions of such an alarm are committed,
  answer 500 and are not announced.
* `message_formats/reference` calls `datetime.now()` on the module and the CADF
  format raises what is no exception: a process with either answers 500 to every
  POST of metrics or events. The metric validator wraps bodies in a form that the schema of
  the reference dispatcher refuses: with both, every POST of metrics answers 400.
* The dispatcher with `KafkaConnection` sends a compact body as it is, JSON or not, and
  answers 204 to an empty one. Its constructor reads an option `topic` of the group
  `kafka` (`kafka_conn.py:42`), which `kafka_opts` does not register and
  `etc/monasca.conf` does not set: with these options it cannot start. The model is
  of the process in which the option is there.
* `_alarm_history_list` (`alarms.py:198`) calls `get_alarms` without an argument it
  needs: the list of all state histories always answers 500.
* A process whose first attempts to connect to Kafka all fail makes a producer
  without a client (`kafka_publisher.py:87`) and refuses every message until it is
  restarted. A request that gives up after an outage can put such a producer in the place
  of one that works. Two requests that come first together may make two producers; with
  `async` there are then two queues, and no order between them.
* `KafkaPublisher` reads the option `drop_data` and does not use it; `KafkaConnection`
  drops.
* A PUT of a notification method that repeats within a second what its row says
  answers 404: MySQL counts changed rows.
* The offset of the list of alarms is the id of an alarm and is compared with the id of
  the definition. With a filter and a limit, the limit is put before the values of the filter
  among the parameters, and the query fails.
* The offset of the list of metrics is unquoted twice (`influxdb/metrics_repository.py:188`):
  a name with `%25` or `%3D` is compared as a later one, and the names in between are
  lost; one with a character from a blank to `$` (`%20` to `%24`, all before `%`) is compared
  as an earlier one, and names come again. If a page of such series lies between, the
  same page comes for ever.
* The `next` link of measurements loses the `=` between names and values of its
  dimensions: the next page is that of all series of the name, and 503 if one of them fills a
  page.
* Dimensions in an updated event are all named `uname` (`alarm_definitions.py:426`):
  one of them is left.
* Of two new sub-expressions that have the key of one stored row, one gets no row
  and no event. The comment at `alarm_definitions_repository.py:367` says the
  algorithm "may not work if sub expressions are duplicated"; here they differ in their threshold.
* A metric in capitals, a number with leading zeros or a threshold of more digits
  than `str` of a float has is changed on its way through the rows: an update
  with the same text reports the sub-expression as new.

## 2. The modules

| Module | What it is |
|---|---|
| `SubExpressions` | The diff `update_or_patch_alarm_definition` makes between stored rows and a new expression, as operators |
| `SubExpressionUpdates` | A definition, its creation and a sequence of updates that use the diff; the reference definition of the diff |
| `AlarmDefinitions` | The alarm definition resource: requests, transactions, messages, failures, with the engine beside it |
| `DefinitionContract` | What the resource promises the engine, without requests and rows |
| `Alarms` | The alarm resource, with the deletion of definitions and the engine's changes of state beside it |
| `MethodsAndTransforms` | Notification methods and transforms: requests of several servers, statement by statement |
| `KafkaPublisher` | Client, producer and calls of the publishers of one process, and Kafka |
| `Ingestion` | The handlers that post metrics and events, over `KafkaPublisher` |
| `Listing` | A client that follows the links of a list, with the queries behind each of the six kinds |
| `Expressions` | Texts of expressions through parser, rows, diff (`SubExpressions`) and events |
| `SubExpressionUpdatesProofs`, `AlarmDefinitionsProofs`, `AlarmsProofs`, `IngestionProofs`, `MethodsAndTransformsProofs`, `ListingProofs`, `ExpressionsProofs` | Theorems about the module of the name |
| `IngestionHistory` | Theorems about what topics and queues have come to hold; it extends `IngestionProofs` |
| `MC...` | The finite instances TLC checks |

### SubExpressions, SubExpressionUpdates

A sub-expression is a *key* (function, metric with its dimensions, period and
periods: what `same_key_fields` compares) and a *test* (operator and threshold).
A row of the table adds an id. An update computes three sets: `missing` (new,
not stored), `removed` and `changed`. It pairs a missing sub-expression with a
row that has the same key and another test; the loops run over Python
dicts and sets, so where there are several pairs any may come first:
`Pairings` and `Diffs` are sets of the possible results, and each update picks
one. `DeleteRemoved` is the loop that
binds an object where an id belongs and so deletes nothing.

Updates are those the code accepts, with the same metrics or others.
`Lower` gives the key with its metric name in lower case, the conversion
creation applies.

### AlarmDefinitions

State: the tables (`definition`, `subDef`, `alarmAction`, `method`, `alarm`), the
topic `events` with the number of events the engine has `heard`, and
for each request where its handler stands (`pc`), what it asks for (`request`),
what it has read (`local`) and its `answer`.

A handler is cut at its calls of the database and the queue:

| Request | Steps (`pc`) |
|---|---|
| POST | `insert` (create_alarm_definition), `tell` (created event) |
| PUT, PATCH | `read` (row and sub-expressions), `write` (diff, writes, re-read, commit), `tell` (updated event) |
| DELETE | `readSubDefs`, `readAlarms`, `softDelete`, `tell` (deleted event), `tellAlarms` (alarm-deleted event) |

What is checked before the first query (`Receive...`) belongs to the arrival of
the request. `DatabaseFails` is an exception of a statement at any of the
database steps, `Publish` has every outcome of `send_event` with a synchronous
producer (`async = False` in `etc/monasca.conf`; the option's default is True, which
`KafkaPublisher` has), `Crash` stops
a handler for good. `DeleteMethod` is the deletion of a notification method by
another request; `EngineHears` and `EngineCreatesAlarm` are the engine, which is
external and assumed to read in order and to create alarms only of definitions
that it knows and has not heard are deleted.

What is abstracted:

* `details` stands for description, severity and match_by, which the code
  treats alike. Text, links, timestamps and the content the engine uses
  of an event beyond ids and sub-expressions are left out. Lists of actions are
  sets.
* The transaction of an update is two steps. MySQL's default isolation gives its
  reads a snapshot from its first query, its writes see the newest rows, and
  the first of them, the UPDATE of the definition, takes the lock every
  other update and deletion of that definition needs. What happens between is
  therefore invisible to others. `local.methods` is the snapshot in which the
  actions are looked up. The re-read at the end finds the row it has just
  changed, unless it was deleted: the model does not follow the resolution of
  `updated_at`.
* A commit that fails has not happened: the case in which the database
  commits and the answer is lost is not modelled. For the queue the
  corresponding case is (`Publish`, second disjunct).
* The topic `events` is read as one sequence. `get_sub_alarms` only adds to the
  text of events and has no step.
* A new definition gets its request's own name as id: uuids do not collide.

### Alarms

State: the stage of each definition and alarm, the state of each alarm, the two
topics, and `pc`, `request`, `local`, `answer` as above. `engineSet` is a history
variable: the alarms whose state the engine has set.

| Request | Steps (`pc`) |
|---|---|
| PUT, PATCH | `readMetrics`, `select` and `update` (update_alarm), `tellUpdated`, `readAgain` and `tellTransition` if the state changed, `show` |
| DELETE | `readMetrics`, `delete`, `tellDeleted` |
| DELETE of the definition | `readAlarms`, `softDelete`, `tellDefinition`, `tellAlarms` |

`get_sub_alarms`, the second query of PUT and DELETE, has no step: it adds text to
the events, and whatever it misses the next statement misses too.
`Mine` stands for the joins every statement but the first uses; `Bare` alarms have
a metric without dimensions. The deletion of a definition is that of
`AlarmDefinitions` without its sub-expressions: what it shares with the alarms are
the rows it reads and deletes and the events it sends.

### MethodsAndTransforms

State: the two tables by id (a new row has the id of its request), a clock that
counts seconds, because `updated_at` has no finer resolution, and `pc`, `request`,
`answer` as above; `shown` is what a GET answered. Cuts: POST is `select`, `insert`;
PUT one statement; DELETE `select`, `delete`; a transform's POST `insert`, `save`. Type
and address of a method are one `address`. `StatementFails` is an exception of any
statement. `delete` does not look at its count, `update` does.

### KafkaPublisher, Ingestion

`KafkaPublisher` has the state a process shares: `client`, `producer` (with the
producers made, each with the client it holds and, if asynchronous, its queue), and
for each greenlet the place of its call: `connect`, `wait` (asleep before the next
attempt), `send`, `ack`, `returned`. These are the points where eventlet switches.
`Cut` marks the calls in flight over a client that is closed or whose broker went
down. The library is external: a client reconnects by itself, a producer keeps its
client, one without a client fails at once. `KafkaPublisher` and `KafkaConnection`
repeat the same code; one module has both.

`Ingestion` adds the handlers: what is refused before the first message, then one
message after the other, and the status each outcome is given. A process has a
fixed set of options; the run starts from eight of them. `calm` is a history
variable: the requests since whose arrival Kafka was up and the process lived.

### Listing

State: what the list has (`present`, and the `data` of its kind), and the client:
the next `offset`, what it has `seen`, seen `again`, or in `part`. Items stand for
ids in order. A row is an item and the number of the row among those of the item; a query
is the set of its rows with `Precedes`, its order, so that `Take`, the limit, leaves the rows
that have fewer than `Limit` before them. `PageRows` is the query, `Elements` what the handler
makes of the rows, `HasNext` and `LastId` are `paginate`. A measurement page that came by
a link asks for all series (`SeriesAsked`). `stayed` and `cuts` are history: the items in
the list all the while, and the offsets used. `data.decoded` says among which names an
offset stands that was unquoted a second time: at any of them, before itself or
behind, or after all.

### Expressions

A text is a sequence of tokens; a sub-expression is one token that keeps numbers as
they are written, because spelling is what the properties are about. `Base`, `Level` and
`Levels` are the grammar's precedence: what can be read from a place on, given what can be
read from the places behind it, which makes `Readings` a recursive function of the
places. `Definition`, `Row`, `Read`, `Formatted` are the conversions between text, row
and event. The diff is that of `SubExpressions`. A float is a number, `Rounded` to the digits `str` keeps.

### DefinitionContract

A definition is created once, changes while it is live, is deleted at most once;
each change owes the engine its announcement, a deletion also that of the alarms;
an announcement is made once or lost; whoever deletes says so before it says
that alarms are gone. `AlarmDefinitions!ImplementsContract` is the refinement:
`stage` is that of the rows, a handler that stands at `tell` or `tellAlarms`
owes what it still has to send, `told` is the topic without the content.

## 3. What the runs check

| Run | Instance | Shows |
|---|---|---|
| `sub_expression_updates` | 2 metrics, one also in capitals, 3 updates | Where every key occurs once in an expression, rows and report agree with the reference; repeating an update adds nothing |
| `concurrent_requests` | 3 requests, 1 stored definition, 1 alarm, no faults | Every interleaving: one announcement of a deletion, true announcements, in the order of answered requests; deleted definitions do not change |
| `faults` | 2 requests, 2 alarms, one of them with a metric without dimensions (`Bare`), refused bodies, failing database, queue, servers; fair | Types; a refused request leaves nothing; a definition, its rows and its actions are stored together or not at all; what a client was told to have succeeded is on the topic; the definition goes before its alarms; the engine hears of every committed deletion unless the server went down or the client got a 500; the contract is implemented |
| `alarm_requests` | 2 requests, 2 alarms of 1 definition, one of them `Bare`, 2 tenants, every fault | Types; announcements only about the tenant's own alarms; success is announced in full, with the transition; one announcement of a deletion by DELETE requests, a second only by a deletion of the definition that overlaps it; nothing is announced after an answered deletion; messages in the order of answered requests; transitions chain where updates do not overlap |
| `ingestion` | 2 requests of no or 2 metrics, 8 sets of options, 2 attempts to connect, 1 outage, restarts; fair | What was accepted is on the topic (or, asynchronous, in a queue or lost in an outage); a failure leaves a prefix; order of answered requests; who is refused while Kafka is up; a working producer is kept; everybody is answered |
| `methods_and_transforms` | 3 requests, 1 stored method, 2 tenants, 2 names, 2 seconds | Conflicts are seen by creations that do not overlap; what a 404 means; refused requests store nothing; own rows only |
| `listing` | 4 items, pages of 2, every kind, 1 row added or deleted; names decoded to any other | Lists by id are complete and without repetition; what exactly metrics, points and alarms lose or show again; a walk ends, but for alarms and for metrics whose offset goes back by a page |
| `expressions` | All texts of up to 7 tokens, single sub-expressions in 51 spellings, 2 updates | The parser accepts the language and finds every sub-expression; the event tells the rows; an update of the same meaning changes nothing, but for the spellings that do not survive a row |

Four runs show where the code does not do what the repository says (the
findings of `PROJECT.json`): `removed_rows`, `patch_loses_update`,
`delete_two_alarms` and `update_changes_metrics`.

**Bounds.** `Requests` bounds a behaviour: two requests are enough for every race
of two handlers, three for a race after a creation (POST, then two others on the
new definition) and for two racing with a third. The properties of the alarm resource
compare two requests, messages or a request and a row; that no third request comes
in between them is what the theorems of `AlarmsProofs` add, which are about all of the
run's properties and any number of requests. `Alarms` bounds the alarms the
engine creates or has created: two is the first number at which `_send_alarm_event` goes
round. Three updates in a row let a row that should have been deleted take part
in two further diffs. In `concurrent_requests` one well-formed body is enough
because the properties do not look at the values a body carries; the faults run
has the bodies that are refused or trip a handler. `Requests` are
interchangeable, so that run and those about alarms and methods use them as a symmetry
set; the runs with a liveness property or a refinement do not. The runs about alarm definitions have one
tenant; two tenants are in those about alarms and methods.

For the publisher two requests of two metrics are enough: one that retries, gives up
or is cut while the other sends or makes a producer; one outage separates before,
during and after; two attempts are the first number with a retry. For the lists
four items make two full pages and a third request, whose page is empty; one change
can come between any two pages. Two seconds let an update fall in the second of
the row it changes, or not. Seven tokens hold a parenthesised pair with an
operator outside and every pair of precedences.

`CHECK_DEADLOCK FALSE` is in every configuration: once all requests are
answered nothing has to happen.

**Fairness** (`FairSpec`): weak fairness of each request's handler, because
eventlet runs every greenlet that is ready and each call of the
database and the queue returns or raises, and of the engine's reading of the
topic. `Ingestion` has it of each greenlet (a connection attempt and a send come
back, with an answer or an exception; the sleep between attempts ends) and of the
thread that drains an asynchronous queue; `Listing` of the client that
follows its links, without which there is no walk. No fairness for requests to come,
for faults, for outages to end or for crashes.

## 4. What is proved

All invariants and action properties of the runs about sub-expressions, alarm
definitions, alarms, methods, ingestion, lists and expressions are theorems, and so is the refinement of
`DefinitionContract`: for every number of requests, definitions, alarms, tenants,
methods, metrics, updates, rows and page sizes, texts of every length and every set of
faults, from the assumptions that the modules make of their constants. Liveness is left to the
runs (see the end of this section). Each inductive invariant was checked by TLC on
the instance of its component's run before it was proved.

| Module | Assumptions | Inductive invariants |
|---|---|---|
| `SubExpressionUpdatesProofs` | expressions are non-empty sets of sub-expressions; `Lower` maps keys to keys | `RowsInv`, `RepeatInv` |
| `AlarmDefinitionsProofs` | new ids are not those of stored definitions; `None` and `Unparsable` are no values; bodies are records of the fields' values | `TypeInv`, `DeletionInv`, `TopicInv`, `RowsInv`, `CreatedWhole` |
| `AlarmsProofs` | each alarm has a definition, each definition a tenant; `None` is nothing else | `TypeInv`, `SenderInv`, `AllInformed`, `EndInv`, `OnceInv`, `ChainInv` |
| `MethodsAndTransformsProofs` | new ids are not those of stored methods; `None` is no row | `TypeInv`, `StoredInv`, `NamesInv` |
| `IngestionProofs` | the three publishers; sizes and `MaxRetry` are numbers; `Malformed` and `NoMessage` are no metrics and not the same; `None` is no status | `TypeInv`, `CalmInv` |
| `IngestionHistory` | the same | `FiledInv`, `OrderInv`, `DeliveryInv`, `OnceInv`, `RefusedInv`, `PrefixInv` |
| `ListingProofs` | items are numbered from 1; a page has at least one row | `Inv` |
| `ExpressionsProofs` | what is posted are sequences of tokens; thresholds are numbers and `Digits` is positive | `Stored` |

### The diff (`SubExpressionUpdatesProofs`)

An update is first reduced to what it does to single rows: `Outcome(old, f, W)` says,
given the rows `old` that Python's set has kept and the pairing `f` the loops have
arrived at, what the diff reports and which rows there are afterwards (`UpdateIs`,
`RowsAfter`). That the `UPDATE ... where id` meets the row it is for needs that no two
rows have one id, which is `RowsInv`.

* `ExpressionStored`: a wanted value is in a row that no one pairs, or is what a paired row
  becomes, or is inserted. Two values of one key could displace each other, hence
  the hypothesis about keys.
* `StaleReported`, `DiffIsTheDifference`: where values are unique nothing is missing from `old`
  (`StaleRows`); where keys are, a row has at most one partner (`PairsAre`).
* `RepeatIsHarmless`: by `ExpressionStored` the second update misses nothing, so nothing is
  paired. That it reports what the first has reported needs `RepeatInv`: the rows that
  are in the way are those the first reported, and no two of them say the same, so that
  the second meets each of them again.

### Alarm definitions (`AlarmDefinitionsProofs`)

* `TypeCorrect`: `Spec => []TypeOK`. `TypeOK` alone is not inductive: a handler
  writes back what it has read and what its request asks for, so the invariant
  also types `request` and `local` by the place a handler stands at.
* `AnnouncedOnce`: `Spec => []DeletionAnnouncedOnce`. Two requests can both come
  to the guarded UPDATE; the argument is that only one gets past it. The
  invariant `DeletionInv` says: a definition for which a request stands at
  `tell` to announce its deletion, or of which the topic has a deleted event, is
  deleted; at most one request stands there; and if the topic has the
  event, none does. The soft delete is the only step that makes
  a request stand there, and its guard needs a live row
  (`SoftDeleteOnce`); a create cannot bring a deleted row back, because the id of a
  POST is absent until its insert (`FreshIds`); telling is the only step that adds the
  event, and it leaves the place (`TellDeletedOnce`); all other steps leave both alone
  (`QuietStep` and the lemmas that use it).
* `EventsAreTrue`, `RealTimeOrder`, `DefinitionBeforeAlarms`, `SuccessTold`, from `TopicInv`.
  The properties speak of events that are on the topic; to see that the next one keeps
  them the invariant has to say what a handler at `tell` is entitled to
  (`TellersCommitted`), that alarms it has read are gone by then or will go with its
  deletion (`AlarmsGoOrGone`), that who is on the topic has passed `tell`
  (`SendersCommitted`), and that who stands at `tellAlarms` has told of the definition
  (`DefinitionFirst`). An event of a request that came later is behind the others
  because those others are done and append no more (`AfterIsDone`, `Ordered`).
* `DeletionIsFinal`, `StoredAsAWhole`, from `RowsInv`. The rows of an update
  are changed by ids that were read before: an update that has read
  them may write after the definition was deleted. `RowsInv` says that a row's id
  names the request that made it and with it the definition it belongs to, for
  the rows that are stored and for those a handler has read; so the
  writes of one update never meet a row of another definition, and its own
  definition's row stops it when it is deleted. Which transaction stores what is said
  once for each (`InsertStores`, `WriteStores`): no other step writes these tables
  (`StoreWriters`), and a step that fails writes nothing.
* `RefusedWithoutTrace`, from `CreatedWhole`: a definition that is there was posted by the
  request of its name, which is past its insert, and is whole. The insert establishes
  it (`StepCreated`); later only updates and deletions of that definition write what it
  speaks of, and no update takes away a row the creation made (`MadeByStays`).
* `ContractKept`: `Spec => ImplementsContract`. Each action maps to a step of the contract or
  to a stutter: the inserts, the write and the soft delete to the change of a
  definition, `Publish` to an announcement, a failed publish and a crash at `tell` or
  `tellAlarms` to a loss, everything else to nothing. That a contract's creation finds
  its definition absent and its deletion finds it live is what `TypeInv`, `DeletionInv` and
  `TopicInv` are cited for.
* `ContractDelivers`: what the contract promises is what the engine needs, and through
  `ContractKept` the handlers give it: nothing is announced that has not happened, and no
  definition is announced deleted twice. The invariant `Sound` is one of the contract
  alone: it speaks of stages, of what is owed and of what was told.

### Alarms (`AlarmsProofs`)

* `AlarmTypes`: the types of tables, topics, requests and readings, by the place of a handler.
* `OnlyOwnAlarms`, `AlarmsInRealTimeOrder`, from `SenderInv`: the query that lets a handler go
  on has compared the tenant (`Entitled`), a message is by a request that had
  got so far, and says what that request asks or has read (`SendersSpoke`).
* `SuccessTold`, from `AllInformed`: what must have been said at each place of an update. A
  handler comes to `show` without a transition only if the state did not change or
  the alarm was gone, and then it answers 404.
* `GoneForGood`, from `EndInv`: an ended alarm is gone, with its definition too
  (`DeletedWithAlarms`), and a request that came in after the answer has not read it,
  stands at no place that speaks of it and has said nothing (`QuietAfter`).
* `AlarmAnnouncedOnce`, from `OnceInv`: of the requests of one kind only the one whose
  DELETE found the row comes to the place where it tells. That the second
  announcement, of the other kind, is by a request that overlapped follows from `EndInv`.
* `TransitionsFollow`, from `ChainInv`, which is about one alarm that the engine leaves alone
  and no two requests update at a time: a handler at `update` has read the state the row has
  (`ReadsState`); while it has set the state and not told of it, the last transition
  ends in what it had read (`TellsState`); otherwise the last transition ends in the state
  of the row, or a request has failed on its way (`LastIsState`).

### Ingestion (`IngestionProofs`, `IngestionHistory`)

* `StayConnected`: a producer takes the place of another only in a call that has connected,
  and then holds the new client, or has given up, and then holds the one the publisher has.
  `TypeInv` says what clients, producers and calls there can be, so that these numbers are
  those of clients and producers that were made.
* `RefusedWithReason`, from `CalmInv`: while a request is calm the broker is up, and the call of
  such a request never waits between two attempts, so it cannot give up.
* `MessagesInRealTimeOrder`, from `OrderInv` and `FiledInv` (a message on a topic or in a queue
  has been given out by a request of that publisher, up to the one it stands at).
* `AcceptedArePublished`, from `DeliveryInv`: where the messages before the one being sent have
  come to, that of a call that has returned included; a message that leaves a queue goes to
  the topic or is dropped.
* `PublishedInOrder`: no message is in two places (`OnceInv`), since a request goes on with the
  next number only when the call for the one before has returned; a refused request has not
  begun (`RefusedInv`); with synchronous producers each message has its predecessors before it
  (`PrefixInv`), because the next one is sent only after the one before was acknowledged.

### Notification methods (`MethodsAndTransformsProofs`)

* `TypeCorrect`: the types of this module are proved and in no run. The invariant
  `TypeInv` adds to `TypeOK` what a request asks for by its operation, that it waits at
  places of that operation, and that what it names is a stored method or that of a request that is done.
* `RefusedLeaveNothing` and `TenantsApart`, from `StoredInv`: a row with the id of a
  request is there only after that request was answered 201. So the INSERT finds its
  id free, and only a statement with the tenant in its `where` changes a row
  that is there.
* `NotFoundTold`: `NotFoundIsTrue` is inductive together with `TypeInv`. A row that is
  gone does not come back, because its creator is done; a row of another tenant stays with
  that tenant; a row that an update found unchanged changes only by another update.
* `NamesConflict`: `ConflictIsReported` is not inductive, because it says nothing of
  a POST that has looked for its name and not inserted yet. `Checked` extends it to
  that place; `Kept` says that a created method has its name or was touched. When
  the SELECT of the second POST finds no method of the name, the first was touched,
  by a request that came before the second was done.

`HandleChanges`, `ReceiveQuiet` and `HandleHandles` say once what steps do to the
methods and to the requests; the other proofs cite them and not the actions.

### Lists (`ListingProofs`)

* Pages first. `Precedes` is a strict total order of rows (`Ordering`); so a page is a beginning of
  its rows, and all of them unless it is full (`PageBegins`): the row left out that has the
  fewest others before it has only rows of the page before it. That there is such a row is
  the least-number principle (`Least`), which the library's `WFMin` gives for sets of numbers
  without an operator for a parameter. `PageIs` says the same of items, `LastIdIs` that the next
  offset is the last of the page.
* A request that is answered shows a set of items and either is the last or leaves an offset
  (`Served`, `Last`, `Linked`), whichever kind the list is (`AnswerIs`, `AllIs`).
* `NothingMissedById`, `NamesSkippedAreBetween`, `PointsLostShareASecond`: what stayed is seen or
  ahead of the offset, or it is what the kind of list loses: between an offset and what it is
  decoded to (`Skipped`), or in a second a page ended in. What was seen is behind the
  offset, so it does not come again, but for metrics when the offset goes back (`Repeated`).
* `AlarmsOfAPage` does not follow the offset, which is compared with another table's ids:
  unless as many rows were shown as a page has, all alarms were (`AlarmInv`).

### Expressions (`ExpressionsProofs`)

* `ParserIsTheGrammar`: the parser takes the well-formed texts and no others, whatever their
  length. TLA+ gives no value to a recursive function until it is shown to exist. `LevelsAgree`:
  what is read at a place depends only on what is read at later ones. So a function that is right
  from a place on has a neighbour that is right one place further (`RightFurther`), and
  the least place from which some function is right is the first (`ReadingsAre`, with the
  library's `WFMin` in the place of an induction).
  * Sound: what is read is a `Phrase`, a stretch whose tokens alternate and whose
    parentheses are balanced, and its sub-expressions are those of the stretch (`Found`). Two phrases
    with an `and` or `or` between them are one (`PhraseJoin`, `FoundJoin`), and so is a phrase in
    parentheses (`PhraseNest`, `FoundNest`). A last place where something wrong is read
    would follow from none behind it (`LevelsSound`).
  * Complete: at every place where something may begin something is read; what
    is read as operands of `and` is not followed by `and`, and what is read as operands of `or`
    ends at a closing parenthesis or at the end of the text (`LevelsComplete`). Read from the
    first place, a parenthesis that closes there would be one too many, so it is the end.
* `EventsTellTheRows`, from `RowsInv`: rows have ids of their own, and hold
  what columns keep (`InColumns`). An update by id so changes the row it is for
  (`UpdateChangedIs`), a row the update leaves alone is told from the row, and another
  from the text (`UpdateTells`). That a text built from a definition is read as that definition
  (`FormattedIs`) needs that a dictionary has one value for each name, so that the order it is
  written in does not matter (`DictionaryOfAll`).
* `SpellingIsNoChange`, from `MeantIsHeld`: an expression without capitals, zeros and long
  thresholds in which no two tests have one key has a row for each of its
  sub-expressions that is read as the sub-expression. Creation and update establish this in
  different ways (`CreateHolds`, `UpdateHolds`); the next update then misses nothing
  (`NothingNew`). Without the hypothesis about keys one of two new tests of a stored key gets no
  row, so the invariant would be false.

### Model-checked only

* Liveness: `DeletionIsHeard`, `AllAnswered`, `WalkEnds`. Fairness speaks of `ENABLED`,
  which the prover does not reach.

## 5. Not modelled

* The Java implementation (`src/src/main/java`): the modules follow the Python one.
  Its hazards are listed, without a property.
* The statistics query of the metrics repository, and the text of InfluxDB
  queries: no state, no pages.
* The schemas' tests of single values (lengths, patterns, ranges) and the parsers of query
  parameters in `helpers.py`: one value at a time, accepted or refused.
* Routing, loading of drivers, the inspector and the Keystone filters.
* The code copied from OpenStack (`openstack/common`): launcher, logging, locks and texts
  that this program does not use beyond its start.
* Below the level of the models: the resolution of `updated_at` in
  alarm definitions, a commit whose answer is lost, the partitions of a topic.

## 6. What could come next

Modules for the Java services, with the creation that is taken back and the diff over
a `BiMap`, and theorems about them.
