------------------------------- MODULE Ingestion -------------------------------
(***************************************************************************)
(* What posts metrics and events to Kafka in the Python API: POST of       *)
(* /v2.0/metrics and /v2.0/events with the reference dispatcher, POST of   *)
(* /v2.0/metrics with the Kafka dispatcher, which forwards bodies as they  *)
(* are.  A request becomes a number of messages, sent one after the other  *)
(* through the publishers of module KafkaPublisher.                        *)
(*                                                                         *)
(* The process is given by its options: async, compact and dropData of the *)
(* section kafka, the message format, the dispatcher, and whether the      *)
(* metric validator is in the pipeline.                                    *)
(***************************************************************************)
EXTENDS KafkaPublisher, FiniteSets

CONSTANTS Sizes,          \* bound: how many metrics a request may post
          Configurations, \* the options a process may have
          None            \* no answer

Statuses == {204, 400, 401, 406, 500, 503}
Requests == Callers
ASSUME SizesAssumption == Sizes \subseteq Nat
ASSUME MessagesAssumption ==
    /\ NoMessage # Malformed
    /\ \A r \in Requests, n \in Sizes \cup {1} : \A i \in 1..n : <<r, i>> \notin {NoMessage, Malformed}
ASSUME NoneAssumption == None \notin Statuses
ASSUME PublishersAssumption == Publishers = {"metrics", "raw-events", "raw"}
ASSUME ConfigurationsAssumption ==
    Configurations \subseteq [async : BOOLEAN, compact : BOOLEAN, dropData : BOOLEAN,
        format : {"reference", "cadf", "identity"}, dispatcher : {"reference", "kafka"},
        validator : BOOLEAN]

VARIABLES pc,       \* idle, sending, done, gone
          request,  \* what each request posts
          next,     \* the message of each request that is being sent
          answer,   \* HTTP status each request was answered with
          calm      \* history: requests with the broker up and the process alive since they came
vars == <<publisherVars, pc, request, next, answer, calm>>
handlerVars == <<pc, request, next, answer, calm>>
------------------------------------------------------------------------------
NoRequest == [publisher |-> "none", size |-> 0, after |-> {}]

Init ==
    /\ InitPublisher(Configurations)
    /\ pc = [r \in Requests |-> "idle"]
    /\ request = [r \in Requests |-> NoRequest]
    /\ next = [r \in Requests |-> 0]
    /\ answer = [r \in Requests |-> None]
    /\ calm = {}

Reply(r, status) ==
    /\ pc' = [pc EXCEPT ![r] = "done"]
    /\ answer' = [answer EXCEPT ![r] = status]

Accept(r, p, n) ==
    /\ pc[r] = "idle"
    /\ request' = [request EXCEPT ![r] = [publisher |-> p, size |-> n,
            after |-> {x \in Requests : pc[x] = "done"}]]
    /\ calm' = IF broker = "up" THEN calm \cup {r} ELSE calm

\* The messages of a request go one by one.
Send(r, i) ==
    /\ pc' = [pc EXCEPT ![r] = "sending"]
    /\ next' = [next EXCEPT ![r] = i]
    /\ SendMessage(r, request'[r].publisher, IF i = 0 THEN NoMessage ELSE <<r, i>>)
    /\ UNCHANGED answer
Refuse(r, status) == Reply(r, status) /\ UNCHANGED <<publisherVars, next>>

\* validate_json_content_type, validate_authorization, read_http_resource and the
\* schema: what is wrong with the headers or the body of a request.
Refusal == [type |-> 400, role |-> 401, json |-> 400, empty |-> 400, schema |-> 400]
SizeOf(body, n) == IF body = "valid" THEN n ELSE 0

\* transform: `datetime.now()` of the module fails in the reference format, the CADF
\* format raises what is no exception.
CanTransform == config.format = "identity"
------------------------------------------------------------------------------
\* do_post_metrics.  An empty list is valid, and nothing is sent.
ReceiveMetrics(r, body, n) ==
    /\ config.dispatcher = "reference" /\ ~config.validator
    /\ Accept(r, "metrics", SizeOf(body, n))
    /\ IF body # "valid" THEN Refuse(r, Refusal[body])
       ELSE IF ~CanTransform THEN Refuse(r, 500)
       ELSE IF n = 0 THEN Refuse(r, 204)
       ELSE Send(r, 1)

\* do_post_events
ReceiveEvent(r, body) ==
    /\ config.dispatcher = "reference"
    /\ Accept(r, "raw-events", SizeOf(body, 1))
    /\ IF body # "valid" THEN Refuse(r, Refusal[body])
       ELSE IF ~CanTransform THEN Refuse(r, 500)
       ELSE Send(r, 1)

\* The metric validator refuses what it cannot read, before do_post_metrics looks at
\* the headers, and wraps a body that passes it: the schema of the reference
\* dispatcher does not know what comes out.
ReceiveValidatedMetrics(r, body, n) ==
    /\ config.dispatcher = "reference" /\ config.validator
    /\ Accept(r, "metrics", SizeOf(body, n))
    /\ Refuse(r, IF body = "valid" THEN 400 ELSE Refusal[body])

\* do_post_metrics of the Kafka dispatcher, up to the first message.  A compact body
\* is one message, JSON or not; else one that is not JSON is refused, once there is
\* a producer.  Nothing is sent of an empty body, nor of a list without a metric.
RawSize(body, n) ==
    IF config.compact \/ config.validator THEN 1 ELSE SizeOf(body, n)
ReceiveRaw(r, body, n) ==
    /\ config.dispatcher = "kafka"
    /\ body \in {"valid", "json", "empty"}
    /\ IF config.validator /\ body # "valid" THEN Accept(r, "raw", 0) /\ Refuse(r, 400)
       ELSE IF body = "empty" THEN Accept(r, "raw", 0) /\ Refuse(r, 204)
       ELSE /\ Accept(r, "raw", RawSize(body, n))
            /\ IF config.dropData THEN Refuse(r, 204)
               ELSE IF body = "json" /\ ~config.compact
                 THEN /\ pc' = [pc EXCEPT ![r] = "sending"]
                      /\ SendMessage(r, "raw", Malformed)
                      /\ UNCHANGED <<next, answer>>
               ELSE Send(r, IF request'[r].size = 0 THEN 0 ELSE 1)
------------------------------------------------------------------------------
Returned(r, outcomes) ==
    /\ pc[r] = "sending" /\ At(r, "returned") /\ call[r].outcome \in outcomes
    /\ UNCHANGED <<request, calm>>
Finish(r, status) == Reply(r, status) /\ EndCall(r) /\ UNCHANGED next

\* One metric after the other, ...
SendAnyway(r) ==   \* mutant: a metric that failed is passed over
    /\ Returned(r, {"sent", "unavailable", "unknown"}) /\ next[r] < request[r].size
    /\ Send(r, next[r] + 1)
SendNext(r) ==
    /\ Returned(r, {"sent"}) /\ next[r] < request[r].size
    /\ Send(r, next[r] + 1)

\* ... till they are all sent, ...
AnswerFirst(r) ==   \* mutant: answers before the call returns
    /\ pc[r] = "sending" /\ next[r] >= request[r].size
    /\ Reply(r, 204) /\ UNCHANGED <<publisherVars, request, next, calm>>
AnswerSent(r) ==
    /\ Returned(r, {"sent"}) /\ next[r] >= request[r].size
    /\ Finish(r, 204)

\* ... or one is not: MessageQueueException, and the codes of send_messages.
MetricsFail(r) ==
    /\ request[r].publisher = "metrics" /\ Returned(r, {"unavailable", "unknown"})
    /\ Finish(r, 503)
EventFails(r) ==
    /\ request[r].publisher = "raw-events" /\ Returned(r, {"unavailable", "unknown"})
    /\ Finish(r, 500)
RawFails(r) ==
    /\ request[r].publisher = "raw" /\ Returned(r, {"unavailable", "unknown", "malformed"})
    /\ Finish(r, [unavailable |-> 503, unknown |-> 500, malformed |-> 406][call[r].outcome])

Handle(r) ==
    SendNext(r) \/ AnswerSent(r) \/ MetricsFail(r) \/ EventFails(r) \/ RawFails(r)
Transport(r) == CallStep(r) /\ UNCHANGED handlerVars
Drains(p) == (\E i \in DOMAIN made[p] : Drain(p, i)) /\ UNCHANGED handlerVars

BrokerGoesDown ==
    BrokerDown /\ calm' = {} /\ UNCHANGED <<pc, request, next, answer>>
BrokerComesUp == BrokerUp /\ UNCHANGED handlerVars
ProcessRestarts ==
    /\ Restart
    /\ pc' = [r \in Requests |-> IF pc[r] = "sending" THEN "gone" ELSE pc[r]]
    /\ calm' = {}
    /\ UNCHANGED <<request, next, answer>>

Next ==
    \/ \E r \in Requests, body \in {"valid"} \cup DOMAIN Refusal :
        \/ ReceiveEvent(r, body)
        \/ \E n \in Sizes :
            ReceiveMetrics(r, body, n) \/ ReceiveValidatedMetrics(r, body, n) \/ ReceiveRaw(r, body, n)
    \/ \E r \in Requests : Handle(r) \/ Transport(r)
    \/ \E p \in Publishers : Drains(p)
    \/ BrokerGoesDown \/ BrokerComesUp \/ ProcessRestarts

Spec == Init /\ [][Next]_vars
\* A greenlet that can go on does, and Kafka answers or the connection fails.
Fairness == /\ \A r \in Requests : WF_vars(Handle(r) \/ Transport(r))
            /\ \A p \in Publishers : WF_vars(Drains(p))
FairSpec == Spec /\ Fairness
------------------------------------------------------------------------------
(* Properties *)
Messages(r) == {<<r, i>> : i \in 1..request[r].size}
OnTopic(r) == {m \in ToSet(topic[request[r].publisher]) : m[1] = r}
Waiting(p) == UNION {ToSet(made[p][i].queue) : i \in DOMAIN made[p]}
Accepted(r) == answer[r] = 204 /\ request[r].publisher # "none"

\* What was accepted is on its topic, whole, unless the process was told to drop
\* it.  An asynchronous publisher still has it in a queue, or has dropped it in an
\* outage or with the process: it is not told to the client.
AcceptedIsPublished ==
    \A r \in Requests : Accepted(r) /\ ~config.dropData =>
        IF config.async THEN Messages(r) \subseteq OnTopic(r) \cup Waiting(request[r].publisher) \cup dropped
                        ELSE Messages(r) \subseteq OnTopic(r)

\* Of a request that is refused for its headers or its body, nothing is published;
\* one that fails on the way has published a prefix of its metrics, in their order,
\* no further than the one it was sending, and none twice.  (Those of an asynchronous
\* publisher may have gaps, and two producers that started together have two queues.)
PublishedIsPrefix ==
    \A r \in {x \in Requests : pc[x] # "idle"} :
        LET t == topic[request[r].publisher]
        IN  \A i \in {x \in DOMAIN t : t[x][1] = r} :
                /\ answer[r] \notin {400, 401, 406}
                /\ t[i][2] <= next[r]
                /\ \A j \in DOMAIN t : t[i] = t[j] => i = j
                /\ ~config.async => \A n \in 1..(t[i][2] - 1) :
                                        \E j \in 1..(i - 1) : t[j] = <<r, n>>

\* Messages of a request that came after another was answered come after it on
\* the topic.  This is said of synchronous processes only: in an asynchronous one
\* messages wait in queues, and two producers that were made at once have one each.
InRealTimeOrder ==
    \A r, q \in Requests : q \in request[r].after /\ ~config.async =>
        LET t == topic[request[r].publisher]
        IN  request[q].publisher = request[r].publisher =>
                \A i, j \in DOMAIN t : t[i][1] = r /\ t[j][1] = q => j < i

\* A client that is refused with the broker up all the while, in a process that
\* lived all the while, is refused because the producer was made without a client,
\* or because the retry of another request closed the client that was in use.
\* Neither happens to an asynchronous publisher, which connects again.
RefusedForAReason ==
    \A r \in calm :
        call[r].place = "returned" /\ call[r].outcome \in {"unavailable", "unknown"} =>
            ~config.async /\ (call[r].cut \/ call[r].using = NoClient)

\* A publisher whose producer has a client keeps one till the process restarts, as
\* long as no call has found Kafka unavailable.  After that a call that began before
\* there was a producer, and gives up, puts one without a client in its place.
Connected(p) == producer[p] # NoProducer /\ made[p][producer[p]].client # NoClient
StaysConnected ==
    [][\A p \in Publishers : Connected(p) /\ client[p] # NoClient /\ clients'[p] >= clients[p] =>
            Connected(p)']_vars

\* Every request is answered, or its process dies.
AllAnswered ==
    \A r \in Requests : pc[r] = "sending" ~> pc[r] \in {"done", "gone"}
==============================================================================
