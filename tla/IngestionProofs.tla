----------------------------- MODULE IngestionProofs -----------------------------
(***************************************************************************)
(* Theorems about module Ingestion and the publishers of KafkaPublisher,   *)
(* for every number of requests and of metrics in a request, any options,  *)
(* any max_retry and any number of outages and restarts.                   *)
(***************************************************************************)
EXTENDS Ingestion, SequenceTheorems, TLAPS

------------------------------------------------------------------------------
(* What the broker, the publishers and the handlers look like.             *)

\* The numbers a metric may have in its request, and what is published.
Numbers == UNION {1..n : n \in Sizes \cup {1}}
Items == Requests \X Numbers
Places == {"none", "connect", "wait", "send", "ack", "returned"}
Calls == [place : Places, publisher : Publishers \cup {"none"},
          message : Items \cup {NoMessage, Malformed}, attempt : Nat, using : Nat,
          cut : BOOLEAN, outcome : {"none", "sent", "malformed", "unknown", "unavailable"}]

BrokerOK ==
    /\ broker \in {"up", "down"} /\ topic \in [Publishers -> Seq(Items)]
    /\ config \in Configurations

\* A client is one of those that were made, a producer too.
Producers == [client : Nat, queue : Seq(Items)]
ClientsOK ==
    /\ client \in [Publishers -> Nat] /\ clients \in [Publishers -> Nat]
    /\ \A p \in Publishers : client[p] <= clients[p]
ProducersOK ==
    /\ made \in [Publishers -> Seq(Producers)]
    /\ producer \in [Publishers -> Nat]
    /\ \A p \in Publishers : producer[p] <= Len(made[p])
HandlersOK ==
    /\ call \in [Requests -> Calls]
    /\ pc \in [Requests -> {"idle", "sending", "done", "gone"}]
    /\ request \in [Requests -> [publisher : Publishers \cup {"none"},
                                 size : Sizes \cup {0, 1}, after : SUBSET Requests]]
    /\ next \in [Requests -> Numbers \cup {0}]
    /\ answer \in [Requests -> Statuses \cup {None}]
    /\ calm \subseteq Requests

\* What a call sends is the metric its request has come to, or nothing.
MessageOK(r) ==
    \/ call[r].message \in {NoMessage, Malformed} /\ next[r] = 0 /\ request[r].size = 0
    \/ call[r].message = <<r, next[r]>> /\ next[r] \in 1..request[r].size
WhereOK(r) ==
    /\ pc[r] = "idle" => request[r] = NoRequest /\ next[r] = 0
    /\ pc[r] # "idle" => request[r].publisher \in Publishers
    /\ pc[r] # "sending" => call[r] = NoCall
    /\ pc[r] = "done" <=> answer[r] # None
    /\ pc[r] = "sending" =>
         /\ call[r].place # "none" /\ call[r].publisher = request[r].publisher
         /\ MessageOK(r)

\* Before a call has a producer it uses no client; a message that cannot be parsed
\* is not sent.
CallOK(r) ==
    /\ call[r].place \in {"connect", "wait"} => call[r].using = NoClient
    /\ call[r].message = Malformed => call[r].outcome # "sent"
    /\ call[r].message \in {NoMessage, Malformed} => call[r].place \notin {"send", "ack"}

\* Only an asynchronous producer has something in its queue; it has a client, and
\* takes any message at once.
ModeOK ==
    /\ config.async =>
         /\ \A p \in Publishers : \A n \in 1..Len(made[p]) : made[p][n].client # NoClient
         /\ \A r \in Requests : call[r].place \notin {"send", "ack"}
    /\ ~ config.async =>
         \A p \in Publishers : \A n \in 1..Len(made[p]) : made[p][n].queue = <<>>

TypeInv ==
    /\ BrokerOK /\ ClientsOK /\ ProducersOK /\ HandlersOK /\ ModeOK
    /\ \A r \in Requests : WhereOK(r) /\ CallOK(r)

USE MessagesAssumption, NoneAssumption, PublishersAssumption, SizesAssumption, RetryAssumption

USE DEF Requests

------------------------------------------------------------------------------
(* The steps, in the terms the proofs need: a request is refused, begins   *)
(* or goes on with its next message; its call hands the message to a       *)
(* producer.                                                               *)

Answers(r, status) ==
    /\ pc' = [pc EXCEPT ![r] = "done"]
    /\ answer' = [answer EXCEPT ![r] = status]
Refuses(r, p, n, status) ==
    /\ Accept(r, p, n) /\ Answers(r, status) /\ UNCHANGED <<publisherVars, next>>
    /\ status = 204 => n = 0 \/ config.dropData

\* A request comes in with n metrics and sends m, which is the i-th or nothing.
Begins(r, p, n, m, i) ==
    /\ Accept(r, p, n)
    /\ \/ m \in {NoMessage, Malformed} /\ i = 0 /\ n = 0
       \/ m = <<r, i>> /\ i = 1 /\ n # 0
    /\ pc' = [pc EXCEPT ![r] = "sending"] /\ next' = [next EXCEPT ![r] = i]
    /\ UNCHANGED answer
    /\ SendMessage(r, p, m)
GoesOn(r) ==
    /\ pc[r] = "sending" /\ call[r].place = "returned" /\ call[r].outcome = "sent"
    /\ next[r] < request[r].size
    /\ pc' = [pc EXCEPT ![r] = "sending"] /\ next' = [next EXCEPT ![r] = @ + 1]
    /\ SendMessage(r, request[r].publisher, <<r, next[r] + 1>>)
    /\ UNCHANGED <<request, calm, answer>>
Finishes(r, status) ==
    /\ pc[r] = "sending" /\ call[r].place = "returned" /\ Answers(r, status)
    /\ call' = [call EXCEPT ![r] = NoCall]
    /\ UNCHANGED <<broker, outages, topic, config, client, clients, producer, made, dropped,
                   request, next, calm>>
    /\ status = 204 => call[r].outcome = "sent" /\ next[r] >= request[r].size
    /\ status \in {400, 401, 406} => call[r].outcome = "malformed"

\* A producer is found, made or not made, and the call goes on with it or ends.
Stores(p, queue, cl) ==
    \/ /\ CannotCopy(cl) /\ producer' = [producer EXCEPT ![p] = NoProducer]
       /\ UNCHANGED made
    \/ /\ ~ CannotCopy(cl) /\ producer' = [producer EXCEPT ![p] = Len(made[p]) + 1]
       /\ made' = [made EXCEPT ![p] = Append(@, [client |-> cl, queue |-> queue])]
    \/ \E u \in 1..Len(made[p]) :
        /\ made[p][u].client = cl /\ UNCHANGED producer
        /\ made' = [made EXCEPT ![p][u].queue = @ \o queue]
Hands(r, k, cl) ==
    /\ call' = [call EXCEPT ![r] = Handed(k, cl)]
    /\ Stores(k.publisher, Queue(k.message), cl)
Fresh(p, m) == [NoCall EXCEPT !.publisher = p, !.message = m]

\* The numbers of metrics.
LEMMA NumbersAre ==
    /\ Numbers \subseteq Nat \ {0} /\ 1 \in Numbers
    /\ \A n \in Sizes \cup {0, 1} : n \in Nat /\ 1..n \subseteq Numbers
    /\ \A r \in Requests, i \in Numbers : <<r, i>> \notin {NoMessage, Malformed}
  BY DEF Numbers

\* What a call of send_message does at once.
LEMMA SendIs ==
    ASSUME TypeInv, NEW r \in Requests, NEW p \in Publishers, NEW m, SendMessage(r, p, m)
    PROVE  /\ UNCHANGED <<broker, outages, topic, config, client, clients, dropped>>
           /\ call[r].place \in {"none", "returned"}
           /\ \/ /\ call' = [call EXCEPT ![r] =
                                [Fresh(p, m) EXCEPT !.place = "connect", !.attempt = 1]]
                 /\ UNCHANGED <<producer, made>>
              \/ \E cl \in Nat :
                    /\ Hands(r, Fresh(p, m), cl)
                    /\ producer[p] # NoProducer => made[p][producer[p]].client = cl
                    /\ config.async => cl # NoClient
<1>1. Fresh(p, m).publisher = p /\ Fresh(p, m).message = m
  BY DEF Fresh, NoCall
<1>2. CASE producer[p] # NoProducer
  <2> DEFINE u == producer[p]
             cl == made[p][u].client
  <2>1. u \in 1..Len(made[p]) /\ cl \in Nat
    <3>1. u \in 1..Len(made[p])
      BY <1>2 DEF TypeInv, ProducersOK, NoProducer
    <3>2. made[p] \in Seq(Producers)
      BY DEF TypeInv, ProducersOK
    <3>3. made[p][u] \in Producers
      BY <3>1, <3>2, ElementOfSeq
    <3> QED
      BY <3>1, <3>3 DEF Producers
  <2>2. Hands(r, Fresh(p, m), cl)
    <3>1. call' = [call EXCEPT ![r] = Handed(Fresh(p, m), cl)]
      BY <1>2 DEF SendMessage, Fresh
    <3>2. made' = [made EXCEPT ![p][u].queue = @ \o Queue(m)] /\ UNCHANGED producer
      BY <1>2 DEF SendMessage
    <3>3. Stores(p, Queue(m), cl)
      BY <2>1, <3>2 DEF Stores
    <3> QED
      BY <1>1, <3>1, <3>3 DEF Hands
  <2>3. config.async => cl # NoClient
    BY <2>1 DEF TypeInv, ModeOK
  <2> QED
    BY <2>1, <2>2, <2>3 DEF SendMessage
<1>3. CASE producer[p] = NoProducer /\ client[p] # NoClient
  <2>1. MakeProducer(r, Fresh(p, m), client[p])
    BY <1>3 DEF SendMessage, Fresh
  <2>2. client[p] \in Nat
    BY DEF TypeInv, ClientsOK
  <2>3. Hands(r, Fresh(p, m), client[p])
    BY <1>1, <2>1 DEF MakeProducer, Hands, Stores
  <2> QED
    BY <1>3, <2>2, <2>3 DEF SendMessage
<1>4. CASE producer[p] = NoProducer /\ client[p] = NoClient
  BY <1>4 DEF SendMessage, Fresh
<1> QED
  BY <1>2, <1>3, <1>4

LEMMA MakeIs ==
    ASSUME NEW r, NEW k, NEW cl, MakeProducer(r, k, cl)
    PROVE  Hands(r, k, cl)
  BY DEF MakeProducer, Hands, Stores


\* A request that comes in is refused or begins to send.
Bodies == {"valid"} \cup DOMAIN Refusal
LEMMA RefusalIs == \A body \in Bodies : body # "valid" => Refusal[body] \in {400, 401}
  BY DEF Bodies, Refusal

LEMMA RefuseIs ==
    ASSUME NEW r \in Requests, NEW p, NEW n, NEW status,
           Accept(r, p, n), Refuse(r, status), status = 204 => n = 0 \/ config.dropData
    PROVE  Refuses(r, p, n, status)
  BY DEF Refuses, Refuse, Reply, Answers

LEMMA SendBegins ==
    ASSUME TypeInv, NEW r \in Requests, NEW p \in Publishers, NEW n \in Nat, Accept(r, p, n),
           Send(r, IF n = 0 THEN 0 ELSE 1)
    PROVE  \E m, i : Begins(r, p, n, m, i)
<1> DEFINE i == IF n = 0 THEN 0 ELSE 1
           m == IF i = 0 THEN NoMessage ELSE <<r, i>>
<1>1. request'[r].publisher = p
  BY DEF Accept, TypeInv, HandlersOK
<1>2. SendMessage(r, p, m)
  BY <1>1 DEF Send
<1>3. Begins(r, p, n, m, i)
  BY <1>2 DEF Begins, Send
<1> QED
  BY <1>3

LEMMA EventIs ==
    ASSUME TypeInv, NEW r \in Requests, NEW body \in Bodies, ReceiveEvent(r, body)
    PROVE  \E p \in Publishers, n \in Sizes \cup {0, 1} :
              \/ \E status \in Statuses : Refuses(r, p, n, status)
              \/ \E m, i : Begins(r, p, n, m, i)
<1> DEFINE n == SizeOf(body, 1)
<1>1. /\ n \in {0, 1} /\ (body = "valid" => n = 1)
      /\ {400, 401, 500} \subseteq Statuses
  BY DEF SizeOf, Statuses
<1>2. Accept(r, "raw-events", n) /\ "raw-events" \in Publishers
  BY DEF ReceiveEvent
<1>3. CASE body # "valid" \/ ~ CanTransform
  <2>1. PICK status \in {400, 401, 500} : Refuse(r, status)
    BY <1>3, RefusalIs DEF ReceiveEvent
  <2>2. Refuses(r, "raw-events", n, status)
    BY <1>2, <2>1, RefuseIs
  <2> QED
    BY <1>1, <1>2, <2>2
<1>4. CASE body = "valid" /\ CanTransform
  <2>1. Send(r, IF n = 0 THEN 0 ELSE 1)
    BY <1>1, <1>4 DEF ReceiveEvent
  <2> QED
    BY <1>1, <1>2, <2>1, SendBegins
<1> QED
  BY <1>3, <1>4

LEMMA ReceiveIs ==
    ASSUME TypeInv, NEW r \in Requests, NEW body \in Bodies, NEW size \in Sizes,
           \/ ReceiveMetrics(r, body, size)
           \/ ReceiveValidatedMetrics(r, body, size) \/ ReceiveRaw(r, body, size)
    PROVE  \E p \in Publishers, n \in Sizes \cup {0, 1} :
              \/ \E status \in Statuses : Refuses(r, p, n, status)
              \/ \E m, i : Begins(r, p, n, m, i)
<1>1. /\ SizeOf(body, 1) \in {0, 1} /\ SizeOf(body, size) \in Sizes \cup {0}
      /\ body = "valid" => SizeOf(body, 1) = 1 /\ SizeOf(body, size) = size
      /\ body # "valid" => SizeOf(body, 1) = 0 /\ SizeOf(body, size) = 0
      /\ \A n \in Sizes \cup {0, 1} : n \in Nat
      /\ {204, 400, 401, 500} \subseteq Statuses
  BY DEF SizeOf, Statuses
<1>2. CASE ReceiveMetrics(r, body, size)
  <2> DEFINE n == SizeOf(body, size)
  <2>1. Accept(r, "metrics", n) /\ n \in Sizes \cup {0, 1} /\ "metrics" \in Publishers
    BY <1>1, <1>2 DEF ReceiveMetrics
  <2>2. CASE body # "valid" \/ ~ CanTransform \/ n = 0
    <3>1. PICK status \in {204, 400, 401, 500} :
              Refuse(r, status) /\ (status = 204 => n = 0)
      BY <1>1, <1>2, <2>2, RefusalIs DEF ReceiveMetrics
    <3>2. Refuses(r, "metrics", n, status)
      BY <2>1, <3>1, RefuseIs
    <3> QED
      BY <1>1, <2>1, <3>2
  <2>3. CASE body = "valid" /\ CanTransform /\ n # 0
    <3>1. Send(r, IF n = 0 THEN 0 ELSE 1)
      BY <1>1, <1>2, <2>3 DEF ReceiveMetrics
    <3> QED
      BY <1>1, <2>1, <3>1, SendBegins
  <2> QED
    BY <2>2, <2>3
<1>3. CASE ReceiveValidatedMetrics(r, body, size)
  <2> DEFINE n == SizeOf(body, size)
  <2>1. Accept(r, "metrics", n) /\ n \in Sizes \cup {0, 1} /\ "metrics" \in Publishers
    BY <1>1, <1>3 DEF ReceiveValidatedMetrics
  <2>2. PICK status \in {400, 401} : Refuse(r, status)
    BY <1>3, RefusalIs DEF ReceiveValidatedMetrics
  <2>3. Refuses(r, "metrics", n, status)
    BY <2>1, <2>2, RefuseIs
  <2> QED
    BY <1>1, <2>1, <2>3
<1>4. CASE ReceiveRaw(r, body, size)
  <2>0. "raw" \in Publishers
    OBVIOUS
  <2>1. CASE config.validator /\ body # "valid"
    <3>1. Accept(r, "raw", 0) /\ Refuse(r, 400)
      BY <1>4, <2>1 DEF ReceiveRaw
    <3>2. Refuses(r, "raw", 0, 400)
      BY <3>1, RefuseIs
    <3>3. \E status \in Statuses : Refuses(r, "raw", 0, status)
      BY <1>1, <3>2
    <3> QED
      BY <2>0, <3>3
  <2>2. CASE ~ (config.validator /\ body # "valid") /\ body = "empty"
    <3>1. Accept(r, "raw", 0) /\ Refuse(r, 204)
      BY <1>4, <2>2 DEF ReceiveRaw
    <3>2. Refuses(r, "raw", 0, 204)
      BY <3>1, RefuseIs
    <3>3. \E status \in Statuses : Refuses(r, "raw", 0, status)
      BY <1>1, <3>2
    <3> QED
      BY <2>0, <3>3
  <2>3. CASE ~ (config.validator /\ body # "valid") /\ body # "empty"
    <3> DEFINE n == RawSize(body, size)
    <3>1. Accept(r, "raw", n) /\ n \in Sizes \cup {0, 1}
      BY <1>1, <1>4, <2>3 DEF ReceiveRaw, RawSize
    <3>2. CASE config.dropData
      <4>1. Refuse(r, 204)
        BY <1>4, <2>3, <3>2 DEF ReceiveRaw
      <4>2. Refuses(r, "raw", n, 204)
        BY <3>1, <3>2, <4>1, RefuseIs
      <4>3. \E status \in Statuses : Refuses(r, "raw", n, status)
        BY <1>1, <4>2
      <4> QED
        BY <2>0, <3>1, <4>3
    <3>3. CASE ~ config.dropData /\ body = "json" /\ ~ config.compact
      <4>1. n = 0
        BY <1>1, <2>3, <3>3 DEF RawSize
      <4>2. pc[r] = "idle" /\ next[r] = 0
        BY <3>1 DEF Accept, TypeInv, WhereOK
      <4>3. next' = [next EXCEPT ![r] = 0]
        BY <1>4, <2>3, <3>3, <4>2 DEF ReceiveRaw, TypeInv, HandlersOK
      <4>4. Begins(r, "raw", n, Malformed, 0)
        BY <1>4, <2>3, <3>1, <3>3, <4>1, <4>2, <4>3 DEF ReceiveRaw, Begins
      <4> QED
        BY <2>0, <3>1, <4>4
    <3>4. CASE ~ config.dropData /\ ~ (body = "json" /\ ~ config.compact)
      <4>1. request'[r].size = n
        BY <3>1 DEF Accept, TypeInv, HandlersOK
      <4>2. Send(r, IF n = 0 THEN 0 ELSE 1)
        BY <1>4, <2>3, <3>4, <4>1 DEF ReceiveRaw
      <4> QED
        BY ZenonT(60), <1>1, <2>0, <3>1, <4>2, SendBegins
    <3> QED
      BY <3>2, <3>3, <3>4
  <2> QED
    BY <2>1, <2>2, <2>3
<1> QED
  BY <1>2, <1>3, <1>4


\* Every step is one of these.
LEMMA StepIs ==
    ASSUME TypeInv, [Next]_vars
    PROVE  \/ \E r \in Requests, p \in Publishers, n \in Sizes \cup {0, 1}, status \in Statuses :
                  Refuses(r, p, n, status)
           \/ \E r \in Requests, p \in Publishers, n \in Sizes \cup {0, 1} :
                  \E m, i : Begins(r, p, n, m, i)
           \/ \E r \in Requests : GoesOn(r)
           \/ \E r \in Requests, status \in Statuses : Finishes(r, status)
           \/ \E r \in Requests : Transport(r)
           \/ \E p \in Publishers : Drains(p)
           \/ BrokerGoesDown \/ BrokerComesUp \/ ProcessRestarts
           \/ UNCHANGED vars
<1>1. CASE \E r \in Requests, body \in Bodies :
              \/ ReceiveEvent(r, body)
              \/ \E n \in Sizes : \/ ReceiveMetrics(r, body, n) \/ ReceiveValidatedMetrics(r, body, n)
                                  \/ ReceiveRaw(r, body, n)
  <2>1. PICK r \in Requests, body \in Bodies :
              \/ ReceiveEvent(r, body)
              \/ \E n \in Sizes : \/ ReceiveMetrics(r, body, n) \/ ReceiveValidatedMetrics(r, body, n)
                                  \/ ReceiveRaw(r, body, n)
    BY <1>1
  <2>2. CASE \E n \in Sizes : \/ ReceiveMetrics(r, body, n) \/ ReceiveValidatedMetrics(r, body, n)
                              \/ ReceiveRaw(r, body, n)
    BY <2>2, ReceiveIs
  <2>3. CASE ReceiveEvent(r, body)
    BY <2>3, EventIs
  <2> QED
    BY <2>1, <2>2, <2>3
<1>2. CASE \E r \in Requests : Handle(r)
  <2>1. PICK r \in Requests : Handle(r)
    BY <1>2
  <2>2. CASE SendNext(r)
    <3>1. /\ pc[r] = "sending" /\ call[r].place = "returned" /\ call[r].outcome = "sent"
          /\ next[r] < request[r].size
          /\ UNCHANGED <<request, calm, answer>> /\ pc' = [pc EXCEPT ![r] = "sending"]
          /\ next' = [next EXCEPT ![r] = next[r] + 1]
          /\ SendMessage(r, request'[r].publisher,
                         IF next[r] + 1 = 0 THEN NoMessage ELSE <<r, next[r] + 1>>)
      BY <2>2 DEF SendNext, Returned, Send, At
    <3>2. next[r] \in Nat
      BY NumbersAre DEF TypeInv, HandlersOK
    <3>3. SendMessage(r, request[r].publisher, <<r, next[r] + 1>>)
      BY <3>1, <3>2
    <3> QED
      BY <3>1, <3>3 DEF GoesOn
  <2>3. CASE ~ SendNext(r)
    <3>1. PICK status \in Statuses :
             /\ Finish(r, status) /\ UNCHANGED <<request, calm>> /\ pc[r] = "sending"
             /\ call[r].place = "returned"
             /\ status = 204 => call[r].outcome = "sent" /\ next[r] >= request[r].size
             /\ status \in {400, 401, 406} => call[r].outcome = "malformed"
      <4>1. {204, 503, 500, 406} \subseteq Statuses
        BY DEF Statuses
      <4>2. CASE AnswerSent(r)
        BY <4>1, <4>2 DEF AnswerSent, Returned, At
      <4>3. CASE MetricsFail(r)
        BY <4>1, <4>3 DEF MetricsFail, Returned, At
      <4>4. CASE EventFails(r)
        BY <4>1, <4>4 DEF EventFails, Returned, At
      <4>5. CASE RawFails(r)
        BY <4>1, <4>5 DEF RawFails, Returned, At
      <4> QED
        BY <2>1, <2>3, <4>2, <4>3, <4>4, <4>5 DEF Handle
    <3>2. Finishes(r, status)
      BY <3>1 DEF Finish, Finishes, Reply, Answers, EndCall
    <3> QED
      BY <3>2
  <2> QED
    BY <2>2, <2>3
<1> QED
  BY <1>1, <1>2 DEF Next, Bodies

\* The call that has, or has not, a producer now.
LEMMA HandedIs ==
    ASSUME NEW k \in Calls, NEW cl \in Nat
    PROVE  LET h == Handed(k, cl)
           IN  /\ h \in Calls /\ h.publisher = k.publisher /\ h.message = k.message
               /\ h.place \in {"returned", "send"} /\ h.cut = k.cut
               /\ h.place = "send" =>
                    /\ h.using = cl /\ cl # NoClient /\ ~ config.async
                    /\ h.message \notin {NoMessage, Malformed}
               /\ h.place = "returned" =>
                    /\ h.using = k.using /\ h.outcome \in {"sent", "malformed", "unknown"}
                    /\ h.outcome = "sent" =>
                         h.message = NoMessage \/ (config.async /\ cl # NoClient)
                    /\ h.outcome = "unknown" => cl = NoClient
                    /\ h.outcome = "malformed" <=> h.message = Malformed
  BY ZenonT(60) DEF Handed, Ended, Calls, Places, NoClient

LEMMA QueueIs ==
    ASSUME NEW m \in Items \cup {NoMessage, Malformed}
    PROVE  /\ Queue(m) \in Seq(Items)
           /\ Queue(m) = <<>> \/ (Queue(m) = <<m>> /\ m \in Items)
           /\ ~ config.async => Queue(m) = <<>>
           /\ config.async /\ m \notin {NoMessage, Malformed} => Queue(m) = <<m>>
  BY DEF Queue


\* Of the producers of a publisher one gets the message at the end of its queue,
\* the others are as they were.
SameProducer(q, n) == n \in 1..Len(made[q]) /\ made'[q][n] = made[q][n]
LongerQueue(q, n, queue, cl) ==
    /\ n \in 1..Len(made[q]) /\ made[q][n].client = cl /\ made'[q][n].client = cl
    /\ made'[q][n].queue = made[q][n].queue \o queue
NewProducer(q, n, queue, cl) ==
    /\ n = Len(made[q]) + 1 /\ made'[q][n].client = cl /\ made'[q][n].queue = queue
    /\ ~ CannotCopy(cl)

LEMMA MadeIs ==
    ASSUME TypeInv
    PROVE  \A q \in Publishers :
             /\ made[q] \in Seq(Producers) /\ Len(made[q]) \in Nat
             /\ \A n \in 1..Len(made[q]) : /\ made[q][n] \in Producers
                                           /\ made[q][n].queue \in Seq(Items)
<1> SUFFICES ASSUME NEW q \in Publishers
             PROVE  /\ made[q] \in Seq(Producers) /\ Len(made[q]) \in Nat
                    /\ \A n \in 1..Len(made[q]) : /\ made[q][n] \in Producers
                                                  /\ made[q][n].queue \in Seq(Items)
  OBVIOUS
<1>1. made[q] \in Seq(Producers)
  BY DEF TypeInv, ProducersOK
<1>2. \A n \in 1..Len(made[q]) : made[q][n] \in Producers
  BY <1>1, ElementOfSeq
<1> QED
  BY <1>1, <1>2, LenProperties DEF Producers

LEMMA StoresIs ==
    ASSUME TypeInv, NEW p \in Publishers, NEW queue \in Seq(Items), NEW cl \in Nat,
           Stores(p, queue, cl)
    PROVE  /\ ProducersOK'
           /\ \A q \in Publishers : Len(made[q]) <= Len(made'[q])
           /\ \A q \in Publishers \ {p} : made'[q] = made[q] /\ producer'[q] = producer[q]
           /\ \/ made' = made /\ CannotCopy(cl)
              \/ \E u \in 1..Len(made'[p]) :
                    /\ LongerQueue(p, u, queue, cl) \/ NewProducer(p, u, queue, cl)
                    /\ \A n \in 1..Len(made'[p]) : n # u => SameProducer(p, n)
                    /\ Len(made'[p]) = IF u <= Len(made[p]) THEN Len(made[p]) ELSE u
<1>1. /\ made \in [Publishers -> Seq(Producers)] /\ producer \in [Publishers -> Nat]
      /\ \A q \in Publishers : Len(made[q]) \in Nat /\ producer[q] <= Len(made[q])
  BY MadeIs DEF TypeInv, ProducersOK
<1>2. CASE /\ CannotCopy(cl) /\ producer' = [producer EXCEPT ![p] = NoProducer]
           /\ UNCHANGED made
  BY <1>1, <1>2 DEF ProducersOK, NoProducer
<1>3. CASE /\ ~ CannotCopy(cl) /\ producer' = [producer EXCEPT ![p] = Len(made[p]) + 1]
           /\ made' = [made EXCEPT ![p] = Append(@, [client |-> cl, queue |-> queue])]
  <2> DEFINE new == [client |-> cl, queue |-> queue]
             u == Len(made[p]) + 1
  <2>1. new \in Producers
    BY DEF Producers
  <2>2. /\ made'[p] = Append(made[p], new) /\ made[p] \in Seq(Producers)
        /\ \A q \in Publishers \ {p} : made'[q] = made[q] /\ producer'[q] = producer[q]
        /\ producer'[p] = u
    BY <1>1, <1>3
  <2>3. /\ made'[p] \in Seq(Producers) /\ Len(made'[p]) = u /\ made'[p][u] = new
        /\ \A n \in 1..Len(made[p]) : made'[p][n] = made[p][n]
    BY <2>1, <2>2, AppendProperties
  <2>4. ProducersOK'
    <3>1. made' \in [Publishers -> Seq(Producers)]
      BY <1>1, <1>3, <2>2, <2>3
    <3>2. producer' \in [Publishers -> Nat]
      BY <1>1, <1>3
    <3>3. \A q \in Publishers : producer'[q] <= Len(made'[q])
      BY <1>1, <2>2, <2>3
    <3> QED
      BY <3>1, <3>2, <3>3 DEF ProducersOK
  <2>5. NewProducer(p, u, queue, cl)
    BY <1>3, <2>3 DEF NewProducer
  <2>6. u \in 1..Len(made'[p]) /\ \A n \in 1..Len(made'[p]) : n # u => SameProducer(p, n)
    <3>1. u = Len(made[p]) + 1 /\ Len(made[p]) \in Nat /\ Len(made'[p]) = u
      BY <1>1, <2>2, <2>3
    <3>2. ASSUME NEW n \in 1..Len(made'[p]), n # u PROVE n \in 1..Len(made[p])
      BY <3>1, <3>2
    <3> QED
      BY <2>3, <3>1, <3>2 DEF SameProducer
  <2>7. \E v \in 1..Len(made'[p]) :
           /\ LongerQueue(p, v, queue, cl) \/ NewProducer(p, v, queue, cl)
           /\ \A n \in 1..Len(made'[p]) : n # v => SameProducer(p, n)
           /\ Len(made'[p]) = IF v <= Len(made[p]) THEN Len(made[p]) ELSE v
    <3>1. Len(made'[p]) = IF u <= Len(made[p]) THEN Len(made[p]) ELSE u
      BY <1>1, <2>3
    <3> HIDE DEF u
    <3> QED
      BY <2>5, <2>6, <3>1
  <2>8. \A q \in Publishers : Len(made[q]) <= Len(made'[q])
    BY <1>1, <2>2, <2>3
  <2> QED
    BY <2>2, <2>4, <2>7, <2>8
<1>4. CASE \E u \in 1..Len(made[p]) :
              /\ made[p][u].client = cl /\ UNCHANGED producer
              /\ made' = [made EXCEPT ![p][u].queue = @ \o queue]
  <2>1. PICK u \in 1..Len(made[p]) :
              /\ made[p][u].client = cl /\ UNCHANGED producer
              /\ made' = [made EXCEPT ![p][u].queue = @ \o queue]
    BY <1>4
  <2> DEFINE new == [made[p][u] EXCEPT !.queue = @ \o queue]
  <2>2. /\ made[p] \in Seq(Producers) /\ made[p][u] \in Producers
        /\ made[p][u].queue \o queue \in Seq(Items)
    BY MadeIs, ConcatProperties
  <2>3. new \in Producers /\ new.client = cl /\ new.queue = made[p][u].queue \o queue
    BY <2>1, <2>2 DEF Producers
  <2>4. /\ made'[p] = [made[p] EXCEPT ![u] = new]
        /\ \A q \in Publishers \ {p} : made'[q] = made[q] /\ producer'[q] = producer[q]
    BY <1>1, <2>1
  <2>5. /\ made'[p] \in Seq(Producers) /\ Len(made'[p]) = Len(made[p]) /\ made'[p][u] = new
        /\ \A n \in 1..Len(made[p]) : n # u => made'[p][n] = made[p][n]
    BY <2>2, <2>3, <2>4, ExceptSeq
  <2>6. ProducersOK'
    <3>1. made' \in [Publishers -> Seq(Producers)]
      BY <1>1, <2>1, <2>4, <2>5
    <3>2. \A q \in Publishers : Len(made'[q]) = Len(made[q])
      BY <2>4, <2>5
    <3> QED
      BY <1>1, <2>1, <3>1, <3>2 DEF ProducersOK
  <2>7. LongerQueue(p, u, queue, cl)
    BY <2>1, <2>3, <2>5 DEF LongerQueue
  <2>8. \A n \in 1..Len(made'[p]) : n # u => SameProducer(p, n)
    BY <2>5 DEF SameProducer
  <2>9. \E v \in 1..Len(made'[p]) :
           /\ LongerQueue(p, v, queue, cl) \/ NewProducer(p, v, queue, cl)
           /\ \A n \in 1..Len(made'[p]) : n # v => SameProducer(p, n)
           /\ Len(made'[p]) = IF v <= Len(made[p]) THEN Len(made[p]) ELSE v
    BY <1>1, <2>5, <2>7, <2>8
  <2>10. \A q \in Publishers : Len(made[q]) <= Len(made'[q])
    BY SMTT(30), <1>1, <2>4, <2>5
  <2> QED
    BY <2>4, <2>6, <2>9, <2>10
<1> QED
  BY <1>2, <1>3, <1>4 DEF Stores


------------------------------------------------------------------------------
(* The types are kept.                                                     *)

\* A request that a step leaves alone.
Same(s) == UNCHANGED <<call[s], pc[s], request[s], next[s], answer[s]>>
LEMMA SameIsOK ==
    ASSUME TypeInv, NEW s \in Requests, Same(s)
    PROVE  WhereOK(s)' /\ CallOK(s)'
  BY DEF Same, TypeInv, WhereOK, CallOK, MessageOK

\* A call that is handed to a producer.
LEMMA HandsTypes ==
    ASSUME TypeInv, NEW r \in Requests, NEW k \in Calls, NEW cl \in Nat,
           k.publisher \in Publishers, k.using = NoClient, Hands(r, k, cl),
           UNCHANGED <<broker, topic, config>>, ClientsOK'
    PROVE  /\ BrokerOK' /\ ProducersOK' /\ ModeOK' /\ call' \in [Requests -> Calls] /\ CallOK(r)'
           /\ call'[r].publisher = k.publisher /\ call'[r].message = k.message
           /\ call'[r].place # "none"
           /\ \A s \in Requests : s # r => call'[s] = call[s]
<1> DEFINE queue == Queue(k.message)
           p == k.publisher
<1>1. /\ queue \in Seq(Items) /\ (~ config.async => queue = <<>>)
  BY QueueIs DEF Calls
<1>2. call \in [Requests -> Calls] /\ config' = config
  BY DEF TypeInv, HandlersOK
<1>3. call'[r] = Handed(k, cl) /\ \A s \in Requests : s # r => call'[s] = call[s]
  BY <1>2 DEF Hands
<1>4. call' \in [Requests -> Calls]
  BY <1>2, HandedIs DEF Hands
<1>5. CallOK(r)'
  BY <1>3, HandedIs DEF CallOK
<1>6. BrokerOK'
  BY DEF TypeInv, BrokerOK
<1>7. Stores(p, queue, cl)
  BY DEF Hands
<1> HIDE DEF queue
<1>8. ASSUME NEW q \in Publishers, NEW n \in 1..Len(made'[q])
      PROVE  /\ config.async => made'[q][n].client # NoClient
             /\ ~ config.async => made'[q][n].queue = <<>>
  <2>1. SameProducer(q, n) \/ LongerQueue(q, n, queue, cl) \/ NewProducer(q, n, queue, cl)
    BY SMTT(20), <1>1, <1>7, StoresIs DEF SameProducer
  <2>2. CASE SameProducer(q, n)
    BY <2>2 DEF SameProducer, TypeInv, ModeOK
  <2>3. CASE LongerQueue(q, n, queue, cl)
    <3>1. n \in 1..Len(made[q]) /\ made'[q][n].client = made[q][n].client
      BY <2>3 DEF LongerQueue
    <3>2. ~ config.async => made[q][n].queue = <<>> /\ queue = <<>>
      BY <1>1, <3>1 DEF TypeInv, ModeOK
    <3>3. ~ config.async => made'[q][n].queue = <<>> \o <<>>
      BY <2>3, <3>2 DEF LongerQueue
    <3> QED
      BY <3>1, <3>3 DEF TypeInv, ModeOK
  <2>4. CASE NewProducer(q, n, queue, cl)
    BY <1>1, <2>4 DEF NewProducer, CannotCopy
  <2> QED
    BY <2>1, <2>2, <2>3, <2>4
<1>9. ASSUME config.async, NEW s \in Requests PROVE call'[s].place \notin {"send", "ack"}
  <2>1. CASE s = r
    <3>1. Handed(k, cl).place \notin {"send", "ack"}
      BY <1>9, HandedIs
    <3> QED
      BY <1>3, <2>1, <3>1
  <2>2. CASE s # r
    BY <1>3, <1>9, <2>2 DEF TypeInv, ModeOK
  <2> QED
    BY <2>1, <2>2
<1>10. ModeOK'
  BY <1>2, <1>8, <1>9 DEF ModeOK
<1>11. ProducersOK'
  BY <1>1, <1>7, StoresIs
<1> QED
  BY <1>3, <1>4, <1>5, <1>6, <1>10, <1>11, HandedIs

\* A message that is sent, by a request that begins or goes on.
LEMMA SendTypes ==
    ASSUME TypeInv, NEW r \in Requests, NEW p \in Publishers, NEW m, SendMessage(r, p, m),
           m \in Items \cup {NoMessage, Malformed}
    PROVE  /\ BrokerOK' /\ ClientsOK' /\ ProducersOK' /\ ModeOK'
           /\ call' \in [Requests -> Calls] /\ CallOK(r)'
           /\ call'[r].publisher = p /\ call'[r].message = m /\ call'[r].place # "none"
           /\ \A s \in Requests : s # r => call'[s] = call[s]
<1>1. Fresh(p, m) \in Calls /\ Fresh(p, m).publisher = p /\ Fresh(p, m).message = m
      /\ Fresh(p, m).using = NoClient
  BY DEF Fresh, NoCall, Calls, Places, NoClient
<1>2. ClientsOK' /\ UNCHANGED <<broker, topic, config>>
  BY SendIs DEF TypeInv, ClientsOK
<1>3. CASE \E cl \in Nat : Hands(r, Fresh(p, m), cl)
  BY <1>1, <1>2, <1>3, HandsTypes
<1>4. CASE /\ call' = [call EXCEPT ![r] =
                        [Fresh(p, m) EXCEPT !.place = "connect", !.attempt = 1]]
           /\ UNCHANGED <<producer, made>>
  <2> DEFINE k == [Fresh(p, m) EXCEPT !.place = "connect", !.attempt = 1]
  <2>1. /\ k \in Calls /\ k.publisher = p /\ k.message = m /\ k.place = "connect"
        /\ k.using = NoClient /\ k.outcome = "none"
    BY DEF Fresh, NoCall, Calls, Places, NoClient
  <2>2. call \in [Requests -> Calls]
    BY DEF TypeInv, HandlersOK
  <2> HIDE DEF k
  <2>3. /\ call' \in [Requests -> Calls] /\ call'[r] = k
        /\ \A s \in Requests : s # r => call'[s] = call[s]
    BY <1>4, <2>1, <2>2 DEF k
  <2>4. CallOK(r)'
    BY <2>1, <2>3 DEF CallOK
  <2>5. BrokerOK' /\ ProducersOK'
    BY <1>2, <1>4 DEF TypeInv, BrokerOK, ProducersOK
  <2>6. ModeOK'
    BY <1>2, <1>4, <2>1, <2>3 DEF TypeInv, ModeOK
  <2> QED
    BY <1>2, <2>1, <2>3, <2>4, <2>5, <2>6
<1> QED
  BY <1>3, <1>4, SendIs

LEMMA BeginsTypes ==
    ASSUME TypeInv, NEW r \in Requests, NEW p \in Publishers, NEW n \in Sizes \cup {0, 1},
           NEW m, NEW i, Begins(r, p, n, m, i)
    PROVE  TypeInv'
<1>1. /\ m \in Items \cup {NoMessage, Malformed} /\ i \in Numbers \cup {0}
      /\ \/ m \in {NoMessage, Malformed} /\ i = 0 /\ n = 0
         \/ m = <<r, i>> /\ i \in 1..n
  BY NumbersAre DEF Begins, Items
<1>2. /\ BrokerOK' /\ ClientsOK' /\ ProducersOK' /\ ModeOK'
      /\ call' \in [Requests -> Calls] /\ CallOK(r)'
      /\ call'[r].publisher = p /\ call'[r].message = m /\ call'[r].place # "none"
      /\ \A s \in Requests : s # r => call'[s] = call[s]
  BY <1>1, SendTypes DEF Begins
<1>3. /\ pc' = [pc EXCEPT ![r] = "sending"] /\ next' = [next EXCEPT ![r] = i]
      /\ pc[r] = "idle" /\ answer' = answer
      /\ request' = [request EXCEPT ![r] = [publisher |-> p, size |-> n,
                         after |-> {x \in Requests : pc[x] = "done"}]]
      /\ calm' \subseteq Requests
  BY DEF Begins, Accept, TypeInv, HandlersOK
<1>4. HandlersOK'
  BY <1>1, <1>2, <1>3 DEF TypeInv, HandlersOK
<1>5. \A s \in Requests : s # r => Same(s)
  BY <1>2, <1>3 DEF Same, TypeInv, HandlersOK
<1>6. WhereOK(r)'
  <2>1. /\ pc'[r] = "sending" /\ next'[r] = i /\ answer'[r] = None
        /\ request'[r].publisher = p /\ request'[r].size = n
    BY <1>3 DEF TypeInv, HandlersOK, WhereOK
  <2> QED
    BY <1>1, <1>2, <2>1 DEF WhereOK, MessageOK
<1> QED
  BY <1>2, <1>4, <1>5, <1>6, SameIsOK DEF TypeInv

LEMMA GoesOnTypes ==
    ASSUME TypeInv, NEW r \in Requests, GoesOn(r)
    PROVE  TypeInv'
<1> DEFINE p == request[r].publisher
           m == <<r, next[r] + 1>>
<1>1. /\ p \in Publishers /\ next[r] \in Nat /\ request[r].size \in Sizes \cup {0, 1}
      /\ next[r] + 1 \in 1..request[r].size /\ next[r] + 1 \in Numbers /\ m \in Items
  <2>1. p \in Publishers /\ next[r] \in Nat /\ request[r].size \in Sizes \cup {0, 1}
    <3>1. next[r] \in Numbers \cup {0} /\ request[r].size \in Sizes \cup {0, 1}
      BY DEF TypeInv, HandlersOK
    <3>2. p \in Publishers
      BY DEF TypeInv, WhereOK, GoesOn
    <3> QED
      BY <3>1, <3>2, NumbersAre
  <2>2. next[r] + 1 \in 1..request[r].size
    <3>1. next[r] < request[r].size /\ request[r].size \in Nat
      BY <2>1, NumbersAre DEF GoesOn
    <3> QED
      BY <2>1, <3>1
  <2> QED
    BY <2>1, <2>2, NumbersAre DEF Items
<1>2. /\ BrokerOK' /\ ClientsOK' /\ ProducersOK' /\ ModeOK'
      /\ call' \in [Requests -> Calls] /\ CallOK(r)'
      /\ call'[r].publisher = p /\ call'[r].message = m /\ call'[r].place # "none"
      /\ \A s \in Requests : s # r => call'[s] = call[s]
  BY <1>1, SendTypes DEF GoesOn
<1>3. /\ pc' = [pc EXCEPT ![r] = "sending"] /\ next' = [next EXCEPT ![r] = @ + 1]
      /\ pc[r] = "sending" /\ UNCHANGED <<request, calm, answer>>
  BY DEF GoesOn
<1>4. HandlersOK'
  BY <1>1, <1>2, <1>3 DEF TypeInv, HandlersOK
<1>5. \A s \in Requests : s # r => Same(s)
  BY <1>2, <1>3 DEF Same, TypeInv, HandlersOK
<1>6. WhereOK(r)'
  <2>1. /\ pc'[r] = "sending" /\ next'[r] = next[r] + 1 /\ answer'[r] = None
        /\ request'[r] = request[r]
    BY <1>3 DEF TypeInv, HandlersOK, WhereOK
  <2> QED
    BY <1>1, <1>2, <2>1 DEF WhereOK, MessageOK
<1> QED
  BY <1>2, <1>4, <1>5, <1>6, SameIsOK DEF TypeInv


LEMMA RefusesTypes ==
    ASSUME TypeInv, NEW r \in Requests, NEW p \in Publishers, NEW n \in Sizes \cup {0, 1},
           NEW status \in Statuses, Refuses(r, p, n, status)
    PROVE  TypeInv'
<1>1. /\ pc' = [pc EXCEPT ![r] = "done"] /\ answer' = [answer EXCEPT ![r] = status]
      /\ pc[r] = "idle"
      /\ request' = [request EXCEPT ![r] = [publisher |-> p, size |-> n,
                         after |-> {x \in Requests : pc[x] = "done"}]]
      /\ calm' \subseteq Requests /\ UNCHANGED <<publisherVars, next>>
  BY DEF Refuses, Answers, Accept, TypeInv, HandlersOK
<1>2. HandlersOK'
  BY <1>1 DEF TypeInv, HandlersOK, publisherVars
<1>3. BrokerOK' /\ ClientsOK' /\ ProducersOK' /\ ModeOK'
  BY <1>1 DEF TypeInv, BrokerOK, ClientsOK, ProducersOK, ModeOK, publisherVars
<1>4. \A s \in Requests : s # r => Same(s)
  BY <1>1 DEF Same, TypeInv, HandlersOK, publisherVars
<1>5. WhereOK(r)' /\ CallOK(r)'
  BY <1>1 DEF TypeInv, HandlersOK, WhereOK, CallOK, publisherVars
<1> QED
  BY <1>2, <1>3, <1>4, <1>5, SameIsOK DEF TypeInv

LEMMA FinishesTypes ==
    ASSUME TypeInv, NEW r \in Requests, NEW status \in Statuses, Finishes(r, status)
    PROVE  TypeInv'
<1>1. /\ pc' = [pc EXCEPT ![r] = "done"] /\ answer' = [answer EXCEPT ![r] = status]
      /\ pc[r] = "sending" /\ call' = [call EXCEPT ![r] = NoCall]
      /\ UNCHANGED <<broker, topic, config, client, clients, producer, made, request, next, calm>>
  BY DEF Finishes, Answers
<1>2. NoCall \in Calls /\ NoCall.place = "none" /\ NoCall.message = NoMessage
      /\ NoCall.outcome = "none"
  BY DEF NoCall, Calls, Places, NoClient
<1>3. HandlersOK'
  BY <1>1, <1>2 DEF TypeInv, HandlersOK
<1>4. call'[r] = NoCall /\ \A s \in Requests : s # r => call'[s] = call[s]
  BY <1>1 DEF TypeInv, HandlersOK
<1>5. BrokerOK' /\ ClientsOK' /\ ProducersOK'
  BY <1>1 DEF TypeInv, BrokerOK, ClientsOK, ProducersOK
<1>6. ModeOK'
  BY <1>1, <1>2, <1>4 DEF TypeInv, ModeOK
<1>7. \A s \in Requests : s # r => Same(s)
  BY <1>1, <1>4 DEF Same, TypeInv, HandlersOK
<1>8. WhereOK(r)' /\ CallOK(r)'
  BY <1>1, <1>2, <1>4 DEF TypeInv, HandlersOK, WhereOK, CallOK
<1> QED
  BY <1>3, <1>5, <1>6, <1>7, <1>8, SameIsOK DEF TypeInv

\* Who is in a call is sending.
LEMMA CallingIs ==
    ASSUME TypeInv, NEW r \in Requests, call[r].place # "none"
    PROVE  /\ pc[r] = "sending" /\ call[r] \in Calls /\ MessageOK(r)
           /\ call[r].publisher = request[r].publisher /\ call[r].publisher \in Publishers
<1>1. pc[r] = "sending"
  BY DEF TypeInv, WhereOK, NoCall
<1> QED
  BY <1>1 DEF TypeInv, WhereOK, HandlersOK

\* A step of the transport changes neither what the calls send nor who is in one.
LEMMA TransportTypes ==
    ASSUME TypeInv, BrokerOK', ClientsOK', ProducersOK', ModeOK', call' \in [Requests -> Calls],
           UNCHANGED <<pc, request, next, answer>>, calm' \subseteq Requests,
           \A s \in Requests :
              /\ call[s] = NoCall => call'[s] = NoCall
              /\ call[s].place # "none" => call'[s].place # "none" /\ CallOK(s)'
              /\ call'[s].publisher = call[s].publisher /\ call'[s].message = call[s].message
    PROVE  TypeInv'
<1>1. HandlersOK'
  BY DEF TypeInv, HandlersOK
<1>2. ASSUME NEW s \in Requests PROVE WhereOK(s)' /\ CallOK(s)'
  <2>1. CASE pc[s] # "sending"
    BY <2>1 DEF TypeInv, WhereOK, CallOK
  <2>2. CASE pc[s] = "sending"
    BY <2>2 DEF TypeInv, WhereOK, MessageOK
  <2> QED
    BY <2>1, <2>2
<1> QED
  BY <1>1, <1>2 DEF TypeInv

\* One call has moved on.
Moves(r, k) ==
    /\ call' = [call EXCEPT ![r] = k] /\ k \in Calls /\ k.place # "none"
    /\ k.publisher = call[r].publisher /\ k.message = call[r].message
LEMMA MovesTypes ==
    ASSUME TypeInv, NEW r \in Requests, NEW k, Moves(r, k), call[r].place # "none",
           k.place \in {"connect", "wait"} => k.using = NoClient,
           k.message = Malformed => k.outcome # "sent",
           k.message \in {NoMessage, Malformed} => k.place \notin {"send", "ack"},
           config.async => k.place \notin {"send", "ack"},
           UNCHANGED <<config, producer, made, pc, request, next, answer, calm>>,
           BrokerOK', ClientsOK'
    PROVE  TypeInv'
<1>1. /\ call' \in [Requests -> Calls] /\ call'[r] = k
      /\ \A s \in Requests : s # r => call'[s] = call[s]
  BY DEF Moves, TypeInv, HandlersOK
<1>2. ProducersOK'
  BY DEF TypeInv, ProducersOK
<1>3. ModeOK'
  BY <1>1 DEF TypeInv, ModeOK
<1>4. CallOK(r)'
  BY <1>1 DEF CallOK
<1>5. ASSUME NEW s \in Requests
      PROVE  /\ call[s] = NoCall => call'[s] = NoCall
             /\ call[s].place # "none" => call'[s].place # "none" /\ CallOK(s)'
             /\ call'[s].publisher = call[s].publisher /\ call'[s].message = call[s].message
  <2>1. CASE s = r
    BY <1>1, <1>4, <2>1 DEF Moves, NoCall
  <2>2. CASE s # r
    BY <1>1, <2>2 DEF TypeInv, CallOK
  <2> QED
    BY <2>1, <2>2
<1> QED
  BY <1>1, <1>2, <1>3, <1>5, TransportTypes DEF TypeInv, HandlersOK


LEMMA CallHandsTypes ==
    ASSUME TypeInv, NEW r \in Requests, NEW cl \in Nat, call[r].place \in {"connect", "wait"},
           Hands(r, call[r], cl), UNCHANGED <<broker, topic, config>>, ClientsOK',
           UNCHANGED handlerVars
    PROVE  TypeInv'
<1>1. call[r] \in Calls /\ call[r].publisher \in Publishers /\ call[r].using = NoClient
  BY CallingIs DEF TypeInv, CallOK
<1>2. /\ BrokerOK' /\ ProducersOK' /\ ModeOK' /\ call' \in [Requests -> Calls] /\ CallOK(r)'
      /\ call'[r].publisher = call[r].publisher /\ call'[r].message = call[r].message
      /\ call'[r].place # "none"
      /\ \A s \in Requests : s # r => call'[s] = call[s]
  BY <1>1, HandsTypes
<1>3. ASSUME NEW s \in Requests
      PROVE  /\ call[s] = NoCall => call'[s] = NoCall
             /\ call[s].place # "none" => call'[s].place # "none" /\ CallOK(s)'
             /\ call'[s].publisher = call[s].publisher /\ call'[s].message = call[s].message
  <2>1. CASE s = r
    BY <1>2, <2>1 DEF NoCall
  <2>2. CASE s # r
    BY <1>2, <2>2 DEF TypeInv, CallOK
  <2> QED
    BY <2>1, <2>2
<1> QED
  BY <1>2, <1>3, TransportTypes DEF handlerVars, TypeInv, HandlersOK

\* What a call is after it has been cut.
LEMMA CutIs ==
    ASSUME NEW k \in Calls, NEW p, NEW cl
    PROVE  LET h == Cut(k, p, cl)
           IN  /\ h \in Calls /\ h.place = k.place /\ h.using = k.using /\ h.outcome = k.outcome
               /\ h.publisher = k.publisher /\ h.message = k.message /\ h.attempt = k.attempt
               /\ (k.place \notin {"send", "ack"} => h = k)
  BY DEF Cut, InFlight, Calls

\* Calls that are cut, or not; one of them may try again.
LEMMA CutTypes ==
    ASSUME TypeInv, call' \in [Requests -> Calls], UNCHANGED <<pc, request, next, answer>>,
           calm' \subseteq Requests, BrokerOK', UNCHANGED <<config, client, clients, producer, made>>,
           \A s \in Requests :
              /\ call[s] = NoCall => call'[s] = NoCall
              /\ \/ /\ call'[s].place = call[s].place
                    /\ call'[s].using = call[s].using /\ call'[s].outcome = call[s].outcome
                 \/ /\ call[s].place = "wait" /\ call'[s].place = "connect"
                    /\ call'[s].using = call[s].using /\ call'[s].outcome = call[s].outcome
              /\ call'[s].publisher = call[s].publisher /\ call'[s].message = call[s].message
    PROVE  TypeInv'
<1>1. ClientsOK' /\ ProducersOK'
  BY DEF TypeInv, ClientsOK, ProducersOK
<1>2. ModeOK'
  BY DEF TypeInv, ModeOK
<1>3. ASSUME NEW s \in Requests, call[s].place # "none"
      PROVE  call'[s].place # "none" /\ CallOK(s)'
  BY <1>3 DEF TypeInv, CallOK
<1> QED
  BY <1>1, <1>2, <1>3, TransportTypes

LEMMA StepTransport ==
    ASSUME TypeInv, NEW r \in Requests, Transport(r)
    PROVE  TypeInv'
<1> USE DEF At
<1>1. UNCHANGED handlerVars /\ CallStep(r) /\ UNCHANGED <<pc, request, next, answer, calm>>
  BY DEF Transport, handlerVars
<1>2. CASE Connect(r)
  <2> DEFINE p == call[r].publisher
             cl == clients[p] + 1
  <2>1. /\ call[r].place = "connect" /\ MakeProducer(r, call[r], cl)
        /\ clients' = [clients EXCEPT ![p] = @ + 1] /\ client' = [client EXCEPT ![p] = cl]
        /\ UNCHANGED <<broker, topic, config>>
    BY <1>2 DEF Connect
  <2>2. p \in Publishers
    BY <2>1, CallingIs
  <2>3. cl \in Nat /\ ClientsOK'
    BY <2>1, <2>2 DEF TypeInv, ClientsOK
  <2> QED
    BY <1>1, <2>1, <2>3, MakeIs, CallHandsTypes
<1>3. CASE ConnectFails(r)
  <2> DEFINE k == [call[r] EXCEPT !.place = "wait"]
  <2>1. call[r].place = "connect" /\ call[r] \in Calls /\ CallOK(r)
    BY <1>3, CallingIs DEF ConnectFails, TypeInv
  <2>2. /\ k \in Calls /\ k.place = "wait" /\ k.using = call[r].using /\ k.outcome = call[r].outcome
        /\ k.publisher = call[r].publisher /\ k.message = call[r].message
    BY <2>1 DEF Calls, Places
  <2>3. call' = [call EXCEPT ![r] = k]
        /\ UNCHANGED <<broker, topic, config, client, clients, producer, made>>
    BY <1>3 DEF ConnectFails
  <2> HIDE DEF k
  <2>4. Moves(r, k)
    BY <2>2, <2>3 DEF Moves
  <2>5. BrokerOK' /\ ClientsOK'
    BY <2>3 DEF TypeInv, BrokerOK, ClientsOK
  <2> QED
    BY <1>1, <2>1, <2>2, <2>3, <2>4, <2>5, MovesTypes DEF CallOK
<1>4. CASE TryAgain(r)
  <2> DEFINE p == call[r].publisher
             closed == [x \in Callers |-> IF client[p] = NoClient THEN call[x]
                                                       ELSE Cut(call[x], p, client[p])]
  <2>1. /\ call[r].place = "wait" /\ call[r] \in Calls
        /\ call' = [closed EXCEPT ![r].place = "connect", ![r].attempt = NextAttempt(@)]
        /\ UNCHANGED <<broker, topic, config, client, clients, producer, made>>
    BY <1>4, CallingIs DEF TryAgain
  <2>2. \A s \in Requests : call[s] \in Calls
    BY DEF TypeInv, HandlersOK
  <2>3. \A s \in Requests :
          /\ closed[s] \in Calls /\ closed[s].place = call[s].place
          /\ closed[s].using = call[s].using /\ closed[s].outcome = call[s].outcome
          /\ closed[s].publisher = call[s].publisher /\ closed[s].message = call[s].message
          /\ call[s].place \notin {"send", "ack"} => closed[s] = call[s]
    BY <2>2, CutIs
  <2> HIDE DEF closed
  <2>4. closed = [x \in Requests |-> closed[x]]
    BY DEF closed
  <2>5. /\ call' = [closed EXCEPT ![r] =
                        [[closed[r] EXCEPT !.place = "connect"] EXCEPT !.attempt = NextAttempt(@)]]
        /\ \A s \in Requests : s # r => call'[s] = closed[s]
    BY <2>1, <2>4
  <2>6. /\ call'[r] \in Calls /\ call'[r].place = "connect"
        /\ call'[r].using = closed[r].using /\ call'[r].outcome = closed[r].outcome
        /\ call'[r].publisher = closed[r].publisher /\ call'[r].message = closed[r].message
    <3> DEFINE h == [closed[r] EXCEPT !.place = "connect"]
               k == [h EXCEPT !.attempt = NextAttempt(@)]
    <3>1. closed[r] \in Calls /\ h \in Calls /\ h.place = "connect"
          /\ h.using = closed[r].using /\ h.outcome = closed[r].outcome
          /\ h.publisher = closed[r].publisher /\ h.message = closed[r].message
      BY <2>3 DEF Calls, Places
    <3>2. call'[r] = k
      BY <2>4, <2>5
    <3> HIDE DEF h
    <3>3. /\ k \in Calls /\ k.place = h.place /\ k.using = h.using /\ k.outcome = h.outcome
          /\ k.publisher = h.publisher /\ k.message = h.message
      BY <3>1 DEF NextAttempt, Calls
    <3> QED
      BY <3>1, <3>2, <3>3
  <2>7. call' \in [Requests -> Calls]
    BY <2>3, <2>4, <2>5, <2>6
  <2>8. ASSUME NEW s \in Requests
        PROVE  /\ call[s] = NoCall => call'[s] = NoCall
               /\ \/ /\ call'[s].place = call[s].place
                     /\ call'[s].using = call[s].using /\ call'[s].outcome = call[s].outcome
                  \/ /\ call[s].place = "wait" /\ call'[s].place = "connect"
                     /\ call'[s].using = call[s].using /\ call'[s].outcome = call[s].outcome
               /\ call'[s].publisher = call[s].publisher /\ call'[s].message = call[s].message
    <3>1. CASE s = r
      BY <2>1, <2>3, <2>6, <3>1 DEF NoCall
    <3>2. CASE s # r
      BY <2>3, <2>5, <3>2 DEF NoCall
    <3> QED
      BY <3>1, <3>2
  <2>9. BrokerOK'
    BY <2>1 DEF TypeInv, BrokerOK
  <2> QED
    BY <1>1, <2>1, <2>7, <2>8, <2>9, CutTypes DEF TypeInv, HandlersOK
<1>5. CASE GiveUp(r)
  <2> DEFINE p == call[r].publisher
  <2>1. /\ call[r].place = "wait" /\ MakeProducer(r, call[r], client[p])
        /\ UNCHANGED <<broker, topic, config, client, clients>>
    BY <1>5 DEF GiveUp, FoundClient
  <2>2. p \in Publishers
    BY <2>1, CallingIs
  <2>3. client[p] \in Nat /\ ClientsOK'
    BY <2>1, <2>2 DEF TypeInv, ClientsOK
  <2> QED
    BY <1>1, <2>1, <2>3, MakeIs, CallHandsTypes
<1>6. CASE Reach(r)
  <2> DEFINE k == [call[r] EXCEPT !.place = "ack"]
             p == call[r].publisher
  <2>1. /\ call[r].place = "send" /\ call[r] \in Calls /\ CallOK(r) /\ p \in Publishers
        /\ ~ config.async /\ call[r].message \in Items
    <3>1. call[r].place = "send" /\ call[r] \in Calls /\ CallOK(r) /\ p \in Publishers
      BY <1>6, CallingIs DEF Reach, TypeInv
    <3> QED
      BY <3>1 DEF TypeInv, ModeOK, CallOK, Calls
  <2>2. /\ k \in Calls /\ k.place = "ack" /\ k.outcome = call[r].outcome
        /\ k.publisher = call[r].publisher /\ k.message = call[r].message
    BY <2>1 DEF Calls, Places
  <2>3. /\ call' = [call EXCEPT ![r] = k]
        /\ topic' = [topic EXCEPT ![p] = Append(@, call[r].message)]
        /\ UNCHANGED <<broker, config, client, clients, producer, made>>
    BY <1>6 DEF Reach
  <2> HIDE DEF k
  <2>4. Moves(r, k)
    BY <2>2, <2>3 DEF Moves
  <2>5. BrokerOK' /\ ClientsOK'
    <3>1. topic \in [Publishers -> Seq(Items)] /\ Append(topic[p], call[r].message) \in Seq(Items)
      BY <2>1, AppendProperties DEF TypeInv, BrokerOK
    <3> QED
      BY <2>1, <2>3, <3>1 DEF TypeInv, BrokerOK, ClientsOK
  <2> QED
    BY <1>1, <2>1, <2>2, <2>3, <2>4, <2>5, MovesTypes DEF CallOK
<1>7. CASE Acknowledged(r) \/ Unavailable(r) \/ ConnectionFails(r)
  <2>1. call[r].place \in {"send", "ack"} /\ call[r] \in Calls /\ CallOK(r)
        /\ call[r].publisher \in Publishers
    BY <1>7, CallingIs DEF Acknowledged, Unavailable, ConnectionFails, InFlight, TypeInv
  <2>2. PICK outcome \in {"sent", "unavailable", "unknown"} : Return(r, outcome)
    BY <1>7 DEF Acknowledged, Unavailable, ConnectionFails, Raised
  <2> DEFINE k == Ended(call[r], outcome)
  <2>3. /\ k \in Calls /\ k.place = "returned" /\ k.outcome = outcome
        /\ k.publisher = call[r].publisher /\ k.message = call[r].message
    BY <2>1 DEF Ended, Calls, Places
  <2>4. call' = [call EXCEPT ![r] = k] /\ UNCHANGED <<broker, topic, config, clients, producer, made>>
    BY <1>7, <2>2 DEF Return, Acknowledged, Unavailable, ConnectionFails
  <2> HIDE DEF k
  <2>5. Moves(r, k)
    BY <2>3, <2>4 DEF Moves
  <2>6. client' \in {client, [client EXCEPT ![call[r].publisher] = NoClient]}
    BY <1>7 DEF Acknowledged, Unavailable, ConnectionFails
  <2>7. BrokerOK' /\ ClientsOK'
    BY <2>1, <2>4, <2>6 DEF TypeInv, BrokerOK, ClientsOK, NoClient
  <2>8. k.message # Malformed
    BY <2>1, <2>3 DEF CallOK
  <2> QED
    BY <1>1, <2>1, <2>3, <2>4, <2>5, <2>7, <2>8, MovesTypes
<1> QED
  BY <1>1, <1>2, <1>3, <1>4, <1>5, <1>6, <1>7 DEF CallStep


LEMMA DrainIs ==
    ASSUME TypeInv, NEW p \in Publishers, NEW n \in DOMAIN made[p], Drain(p, n)
    PROVE  /\ n \in 1..Len(made[p]) /\ made[p][n].queue \in Seq(Items) /\ made[p][n].queue # <<>>
           /\ Head(made[p][n].queue) \in Items /\ Tail(made[p][n].queue) \in Seq(Items)
           /\ config.async
           /\ ProducersOK' /\ Len(made'[p]) = Len(made[p])
           /\ made'[p][n].queue = Tail(made[p][n].queue)
           /\ made'[p][n].client = made[p][n].client
           /\ \A q \in Publishers \ {p} : made'[q] = made[q]
           /\ \A i \in 1..Len(made[p]) : i # n => made'[p][i] = made[p][i]
<1>1. /\ made \in [Publishers -> Seq(Producers)] /\ n \in 1..Len(made[p])
      /\ made[p] \in Seq(Producers) /\ made[p][n] \in Producers
      /\ made[p][n].queue \in Seq(Items) /\ made[p][n].queue # <<>>
  BY SMTT(20), MadeIs DEF TypeInv, ProducersOK, Drain
<1>2. Head(made[p][n].queue) \in Items /\ Tail(made[p][n].queue) \in Seq(Items)
  BY <1>1, HeadTailProperties
<1>3. config.async
  BY <1>1 DEF TypeInv, ModeOK
<1> DEFINE new == [made[p][n] EXCEPT !.queue = Tail(@)]
<1>4. new \in Producers /\ new.queue = Tail(made[p][n].queue) /\ new.client = made[p][n].client
  BY <1>1, <1>2 DEF Producers
<1>5. made' = [made EXCEPT ![p] = [@ EXCEPT ![n] = new]] /\ producer' = producer
  BY <1>1 DEF Drain
<1> HIDE DEF new
<1>6. /\ made'[p] = [made[p] EXCEPT ![n] = new]
      /\ \A q \in Publishers \ {p} : made'[q] = made[q]
  BY <1>1, <1>5
<1>7. /\ made'[p] \in Seq(Producers) /\ Len(made'[p]) = Len(made[p]) /\ made'[p][n] = new
      /\ \A i \in 1..Len(made[p]) : i # n => made'[p][i] = made[p][i]
  BY <1>1, <1>4, <1>6, ExceptSeq
<1>8. ProducersOK'
  <2>1. made' \in [Publishers -> Seq(Producers)]
    BY <1>1, <1>5, <1>6, <1>7
  <2>2. \A q \in Publishers : Len(made'[q]) = Len(made[q])
    BY <1>6, <1>7
  <2> QED
    BY <1>5, <2>1, <2>2 DEF TypeInv, ProducersOK
<1> QED
  BY <1>1, <1>2, <1>3, <1>4, <1>6, <1>7, <1>8

LEMMA StepOthers ==
    ASSUME TypeInv, \/ \E p \in Publishers : Drains(p)
                    \/ BrokerGoesDown \/ BrokerComesUp \/ ProcessRestarts \/ UNCHANGED vars
    PROVE  TypeInv'
<1>1. CASE \E p \in Publishers : Drains(p)
  <2>a. PICK p \in Publishers : Drains(p)
    BY <1>1
  <2>1. PICK n \in DOMAIN made[p] : Drain(p, n) /\ UNCHANGED handlerVars
    BY <2>a DEF Drains
  <2> DEFINE m == Head(made[p][n].queue)
  <2>2. /\ topic' \in {topic, [topic EXCEPT ![p] = Append(@, m)]}
        /\ UNCHANGED <<broker, config, client, clients, call>>
    BY <2>1 DEF Drain
  <2>3. BrokerOK' /\ ClientsOK' /\ ProducersOK'
    <3>1. topic \in [Publishers -> Seq(Items)] /\ Append(topic[p], m) \in Seq(Items)
      BY <2>1, DrainIs, AppendProperties DEF TypeInv, BrokerOK
    <3>2. topic' \in [Publishers -> Seq(Items)]
      BY <2>2, <3>1
    <3> QED
      BY <2>1, <2>2, <3>2, DrainIs DEF TypeInv, BrokerOK, ClientsOK
  <2>4. ModeOK'
    <3>1. config.async
      BY <2>1, DrainIs
    <3>2. \A q \in Publishers : \A i \in 1..Len(made'[q]) :
              i \in 1..Len(made[q]) /\ made'[q][i].client = made[q][i].client
      BY <2>1, DrainIs
    <3>3. \A q \in Publishers : \A i \in 1..Len(made'[q]) : made'[q][i].client # NoClient
      <4> SUFFICES ASSUME NEW q \in Publishers, NEW i \in 1..Len(made'[q])
                   PROVE  made'[q][i].client # NoClient
        OBVIOUS
      <4>1. i \in 1..Len(made[q]) /\ made'[q][i].client = made[q][i].client
        BY <3>2
      <4> QED
        BY <3>1, <4>1 DEF TypeInv, ModeOK
    <3>4. \A r \in Requests : call'[r].place \notin {"send", "ack"}
      BY <2>2, <3>1 DEF TypeInv, ModeOK
    <3>5. config'.async
      BY <2>2, <3>1
    <3> QED
      BY <3>3, <3>4, <3>5 DEF ModeOK
  <2>5. call' = call /\ UNCHANGED <<pc, request, next, answer, calm>>
    BY <2>1, <2>2 DEF handlerVars
  <2>6. \A s \in Requests : CallOK(s)'
    BY <2>5 DEF TypeInv, CallOK
  <2> QED
    BY <2>3, <2>4, <2>5, <2>6, TransportTypes DEF TypeInv, HandlersOK
<1>2. CASE BrokerGoesDown
  <2>1. /\ broker' = "down" /\ calm' = {} /\ UNCHANGED <<pc, request, next, answer>>
        /\ call' = [c \in Requests |-> Cut(call[c], call[c].publisher, call[c].using)]
        /\ UNCHANGED <<topic, config, client, clients, producer, made>>
    BY <1>2 DEF BrokerGoesDown, BrokerDown
  <2>2. \A s \in Requests : call[s] \in Calls
    BY DEF TypeInv, HandlersOK
  <2>3. ASSUME NEW s \in Requests
        PROVE  /\ call'[s] \in Calls
               /\ call'[s].place = call[s].place
               /\ call'[s].using = call[s].using /\ call'[s].outcome = call[s].outcome
               /\ call'[s].publisher = call[s].publisher /\ call'[s].message = call[s].message
               /\ call[s].place \notin {"send", "ack"} => call'[s] = call[s]
    BY <2>1, <2>2, CutIs
  <2>4. call' \in [Requests -> Calls]
    BY <2>1, <2>3
  <2>5. \A s \in Requests : call[s] = NoCall => call'[s] = NoCall
    BY <2>3 DEF NoCall
  <2>6. BrokerOK'
    BY <2>1 DEF TypeInv, BrokerOK
  <2> QED
    BY <2>1, <2>3, <2>4, <2>5, <2>6, CutTypes
<1>3. CASE BrokerComesUp
  <2>1. /\ UNCHANGED <<topic, config, client, clients, producer, made, call>> /\ broker' = "up"
        /\ UNCHANGED handlerVars
    BY <1>3 DEF BrokerComesUp, BrokerUp
  <2>2. BrokerOK'
    BY <2>1 DEF TypeInv, BrokerOK
  <2> QED
    BY <2>1, <2>2, CutTypes DEF TypeInv, HandlersOK, handlerVars
<1>4. CASE ProcessRestarts
  <2>1. /\ client' = [p \in Publishers |-> NoClient] /\ clients' = [p \in Publishers |-> 0]
        /\ producer' = [p \in Publishers |-> NoProducer] /\ made' = [p \in Publishers |-> <<>>]
        /\ call' = [c \in Requests |-> NoCall] /\ UNCHANGED <<broker, topic, config>>
        /\ pc' = [r \in Requests |-> IF pc[r] = "sending" THEN "gone" ELSE pc[r]]
        /\ calm' = {} /\ UNCHANGED <<request, next, answer>>
    BY <1>4 DEF ProcessRestarts, Restart
  <2>2. NoCall \in Calls /\ NoCall.place = "none" /\ NoCall.message = NoMessage
        /\ NoCall.outcome = "none"
    BY DEF NoCall, Calls, Places, NoClient
  <2>3. BrokerOK' /\ ClientsOK'
    BY <2>1 DEF TypeInv, BrokerOK, ClientsOK, NoClient
  <2>4. \A p \in Publishers : made'[p] = <<>> /\ Len(made'[p]) = 0 /\ made'[p] \in Seq(Producers)
    BY <2>1, EmptySeq
  <2>5. ProducersOK'
    <3>1. made' \in [Publishers -> Seq(Producers)]
      BY <2>1, <2>4
    <3>2. producer' \in [Publishers -> Nat] /\ \A p \in Publishers : producer'[p] = 0
      BY <2>1 DEF NoProducer
    <3> QED
      BY <2>4, <3>1, <3>2 DEF ProducersOK
  <2>6. ModeOK'
    BY <2>1, <2>2, <2>4 DEF ModeOK
  <2>7. HandlersOK'
    BY <2>1, <2>2 DEF TypeInv, HandlersOK
  <2>8. ASSUME NEW s \in Requests PROVE WhereOK(s)' /\ CallOK(s)'
    <3>1. call'[s] = NoCall /\ pc'[s] = IF pc[s] = "sending" THEN "gone" ELSE pc[s]
      BY <2>1
    <3> QED
      BY <2>1, <2>2, <3>1 DEF TypeInv, WhereOK, CallOK
  <2> QED
    BY <2>3, <2>5, <2>6, <2>7, <2>8 DEF TypeInv
<1>5. CASE UNCHANGED vars
  BY <1>5, CutTypes DEF vars, publisherVars, TypeInv, HandlersOK, BrokerOK
<1> QED
  BY <1>1, <1>2, <1>3, <1>4, <1>5

LEMMA StepTypes == TypeInv /\ [Next]_vars => TypeInv'
<1> SUFFICES ASSUME TypeInv, [Next]_vars PROVE TypeInv'
  OBVIOUS
<1>1. CASE \E r \in Requests, p \in Publishers, n \in Sizes \cup {0, 1}, status \in Statuses :
              Refuses(r, p, n, status)
  BY <1>1, RefusesTypes
<1>2. CASE \E r \in Requests, p \in Publishers, n \in Sizes \cup {0, 1} :
              \E m, i : Begins(r, p, n, m, i)
  BY <1>2, BeginsTypes
<1>3. CASE \E r \in Requests, status \in Statuses : Finishes(r, status)
  BY <1>3, FinishesTypes
<1> QED
  BY <1>1, <1>2, <1>3, StepIs, GoesOnTypes, StepTransport, StepOthers

LEMMA InitTypes == Init => TypeInv
<1> SUFFICES ASSUME Init PROVE TypeInv
  OBVIOUS
<1> USE DEF Init, InitPublisher
<1>1. NoCall \in Calls /\ NoCall.place = "none" /\ NoCall.message = NoMessage
      /\ NoCall.outcome = "none"
  BY DEF NoCall, Calls, Places, NoClient
<1>2. BrokerOK /\ ClientsOK
  BY EmptySeq DEF BrokerOK, ClientsOK, NoClient
<1>3. ProducersOK
  <2>1. \A p \in Publishers : made[p] = <<>> /\ Len(made[p]) = 0 /\ made[p] \in Seq(Producers)
    BY EmptySeq
  <2> QED
    BY <2>1 DEF ProducersOK, NoProducer
<1>4. HandlersOK
  BY <1>1 DEF HandlersOK, NoRequest
<1>5. ModeOK
  <2>1. \A p \in Publishers : made[p] = <<>> /\ Len(made[p]) = 0
    BY EmptySeq
  <2> QED
    BY <1>1, <2>1 DEF ModeOK
<1>6. \A r \in Requests : WhereOK(r) /\ CallOK(r)
  BY <1>1 DEF WhereOK, CallOK
<1> QED
  BY <1>2, <1>3, <1>4, <1>5, <1>6 DEF TypeInv

LEMMA Typed == Spec => []TypeInv
  BY InitTypes, StepTypes, PTL DEF Spec


------------------------------------------------------------------------------
(* A publisher that is connected stays so.                                 *)

LEMMA StoresConnects ==
    ASSUME TypeInv, NEW p \in Publishers, NEW q \in Publishers, NEW queue \in Seq(Items),
           NEW cl \in Nat, Stores(q, queue, cl), p = q => cl # NoClient, Connected(p)
    PROVE  Connected(p)'
<1>1. CASE p # q
  BY <1>1, StoresIs DEF Connected
<1>2. CASE p = q
  <2>1. made \in [Publishers -> Seq(Producers)] /\ producer \in [Publishers -> Nat]
        /\ producer[p] \in 1..Len(made[p]) /\ ~ CannotCopy(cl) /\ Len(made[p]) \in Nat
    BY <1>2, MadeIs DEF TypeInv, ProducersOK, Connected, CannotCopy, NoProducer
  <2>2. CASE /\ producer' = [producer EXCEPT ![p] = Len(made[p]) + 1]
             /\ made' = [made EXCEPT ![p] = Append(@, [client |-> cl, queue |-> queue])]
    <3>1. [client |-> cl, queue |-> queue] \in Producers
      BY DEF Producers
    <3>2. /\ made'[p][Len(made[p]) + 1] = [client |-> cl, queue |-> queue]
          /\ producer'[p] = Len(made[p]) + 1
      BY <2>1, <2>2, <3>1, AppendProperties
    <3> QED
      BY <1>2, <2>1, <3>2 DEF Connected, NoProducer
  <2>3. CASE \E u \in 1..Len(made[p]) :
                /\ made[p][u].client = cl /\ UNCHANGED producer
                /\ made' = [made EXCEPT ![p][u].queue = @ \o queue]
    <3>1. PICK u \in 1..Len(made[p]) :
                /\ made[p][u].client = cl /\ UNCHANGED producer
                /\ made' = [made EXCEPT ![p][u].queue = @ \o queue]
      BY <2>3
    <3>2. made[p][u] \in Producers /\ made[p][producer[p]] \in Producers
      BY <2>1, MadeIs
    <3>3. made'[p][producer[p]].client = made[p][producer[p]].client
      BY <2>1, <3>1, <3>2 DEF Producers
    <3> QED
      BY <3>1, <3>3 DEF Connected
  <2> QED
    BY <1>2, <2>1, <2>2, <2>3 DEF Stores
<1> QED
  BY <1>1, <1>2

LEMMA ItemIs ==
    \A m \in Items : /\ m[1] \in Requests /\ m[2] \in Numbers /\ m = <<m[1], m[2]>>
                      /\ m \notin {NoMessage, Malformed}
<1> SUFFICES ASSUME NEW m \in Items
             PROVE  /\ m[1] \in Requests /\ m[2] \in Numbers /\ m = <<m[1], m[2]>>
                    /\ m \notin {NoMessage, Malformed}
  OBVIOUS
<1>1. PICK r \in Requests, i \in Numbers : m = <<r, i>>
  BY DEF Items
<1> QED
  BY <1>1, NumbersAre

\* The messages a call hands over are in order for a queue.
LEMMA QueueOfCall ==
    ASSUME NEW k \in Calls
    PROVE  /\ Queue(k.message) \in Seq(Items)
           /\ Queue(k.message) = <<>>
              \/ (Queue(k.message) = <<k.message>> /\ k.message \in Items /\ config.async)
           /\ config.async /\ k.message \in Items => Queue(k.message) = <<k.message>>
<1>1. k.message \in Items \cup {NoMessage, Malformed}
  BY DEF Calls
<1> QED
  BY <1>1, ItemIs, QueueIs

\* What a request that begins or goes on sends.
LEMMA Sending ==
    ASSUME TypeInv,
           \/ \E r \in Requests, p \in Publishers, n \in Sizes \cup {0, 1} :
                  \E m, i : Begins(r, p, n, m, i)
           \/ \E r \in Requests : GoesOn(r)
    PROVE  \E r \in Requests, p \in Publishers, m \in Items \cup {NoMessage, Malformed} :
              /\ SendMessage(r, p, m) /\ pc[r] \in {"idle", "sending"} /\ answer' = answer
              /\ pc' = [pc EXCEPT ![r] = "sending"] /\ request'[r].publisher = p
              /\ m \in {NoMessage, Malformed} \/ (m = <<r, next'[r]>> /\ next'[r] = next[r] + 1)
              /\ calm' = calm \/ (calm' = calm \cup {r} /\ broker = "up")
              /\ \A s \in Requests : s # r => request'[s] = request[s] /\ next'[s] = next[s]
              /\ pc[r] = "idle" \/ GoesOn(r)
<1>1. CASE \E r \in Requests, p \in Publishers, n \in Sizes \cup {0, 1} :
              \E m, i : Begins(r, p, n, m, i)
  <2>1. PICK r \in Requests, p \in Publishers, n \in Sizes \cup {0, 1} :
              \E m, i : Begins(r, p, n, m, i)
    BY <1>1
  <2>2. PICK m, i : Begins(r, p, n, m, i)
    BY <2>1
  <2>3. /\ m \in Items \cup {NoMessage, Malformed} /\ i \in {0, 1}
        /\ m \in {NoMessage, Malformed} \/ (m = <<r, i>> /\ i = 1)
    BY <2>2, NumbersAre DEF Begins, Items
  <2>4. /\ pc[r] = "idle" /\ next[r] = 0 /\ next' = [next EXCEPT ![r] = i]
        /\ request' = [request EXCEPT ![r] = [publisher |-> p, size |-> n,
                         after |-> {x \in Requests : pc[x] = "done"}]]
    BY <2>2 DEF Begins, Accept, TypeInv, WhereOK
  <2>5. /\ next'[r] = i /\ request'[r].publisher = p
        /\ \A s \in Requests : s # r => request'[s] = request[s] /\ next'[s] = next[s]
    BY <2>4 DEF TypeInv, HandlersOK
  <2>6. /\ SendMessage(r, p, m) /\ answer' = answer /\ pc' = [pc EXCEPT ![r] = "sending"]
        /\ calm' = calm \/ (calm' = calm \cup {r} /\ broker = "up")
    BY <2>2 DEF Begins, Accept
  <2>7. m \in {NoMessage, Malformed} \/ (m = <<r, next'[r]>> /\ next'[r] = next[r] + 1)
    BY <2>3, <2>4, <2>5
  <2>8. pc[r] \in {"idle", "sending"} /\ m \in Items \cup {NoMessage, Malformed}
    BY <2>3, <2>4
  <2> QED
    BY <2>4, <2>5, <2>6, <2>7, <2>8
<1>2. CASE \E r \in Requests : GoesOn(r)
  <2>1. PICK r \in Requests : GoesOn(r)
    BY <1>2
  <2> DEFINE p == request[r].publisher
             m == <<r, next[r] + 1>>
  <2>2. p \in Publishers /\ m \in Items
    <3>1. next[r] \in Numbers \cup {0} /\ request[r].size \in Sizes \cup {0, 1}
      BY DEF TypeInv, HandlersOK
    <3>2. next[r] + 1 \in 1..request[r].size
      <4>1. next[r] \in Nat /\ request[r].size \in Nat /\ next[r] < request[r].size
        BY <2>1, <3>1, NumbersAre DEF GoesOn
      <4> QED
        BY <4>1
    <3> QED
      BY <2>1, <3>1, <3>2, NumbersAre DEF TypeInv, WhereOK, GoesOn, Items
  <2>3. /\ SendMessage(r, p, m) /\ pc[r] = "sending" /\ pc' = [pc EXCEPT ![r] = "sending"]
        /\ next' = [next EXCEPT ![r] = @ + 1] /\ UNCHANGED <<request, calm, answer>>
    BY <2>1 DEF GoesOn
  <2>4. next'[r] = next[r] + 1 /\ \A s \in Requests : s # r => next'[s] = next[s]
    BY <2>3 DEF TypeInv, HandlersOK
  <2> QED
    BY <2>1, <2>2, <2>3, <2>4
<1> QED
  BY <1>1, <1>2


LEMMA KeepsConnected ==
    ASSUME TypeInv, [Next]_vars, NEW p \in Publishers, Connected(p), client[p] # NoClient,
           clients'[p] >= clients[p]
    PROVE  Connected(p)'
<1>1. CASE UNCHANGED <<producer, made>>
  BY <1>1 DEF Connected
<1>2. CASE \E r \in Requests, q \in Publishers, m \in Items \cup {NoMessage, Malformed} :
              SendMessage(r, q, m)
  <2>1. PICK r \in Requests, q \in Publishers, m \in Items \cup {NoMessage, Malformed} :
              SendMessage(r, q, m)
    BY <1>2
  <2>2. CASE UNCHANGED <<producer, made>>
    BY <1>1, <2>2
  <2>3. CASE \E cl \in Nat :
                /\ Hands(r, Fresh(q, m), cl)
                /\ producer[q] # NoProducer => made[q][producer[q]].client = cl
    <3>1. PICK cl \in Nat :
                /\ Hands(r, Fresh(q, m), cl)
                /\ producer[q] # NoProducer => made[q][producer[q]].client = cl
      BY <2>3
    <3>2. Stores(q, Queue(m), cl) /\ Queue(m) \in Seq(Items)
      <4>1. Fresh(q, m).publisher = q /\ Fresh(q, m).message = m
        BY DEF Fresh, NoCall
      <4>2. Stores(q, Queue(m), cl)
        BY <3>1, <4>1 DEF Hands
      <4> QED
        BY <4>2, QueueIs
    <3>3. p = q => cl # NoClient
      BY <3>1 DEF Connected
    <3> QED
      BY <3>2, <3>3, StoresConnects
  <2> QED
    BY ZenonT(60), <2>1, <2>2, <2>3, SendIs
<1>3. CASE \E r \in Requests, cl \in Nat :
              /\ call[r].place \in {"connect", "wait"} /\ Hands(r, call[r], cl)
              /\ call[r].publisher = p => cl # NoClient
  <2>1. PICK r \in Requests, cl \in Nat :
              /\ call[r].place \in {"connect", "wait"} /\ Hands(r, call[r], cl)
              /\ call[r].publisher = p => cl # NoClient
    BY <1>3
  <2>2. call[r] \in Calls /\ call[r].publisher \in Publishers
    BY <2>1, CallingIs
  <2>3. Stores(call[r].publisher, Queue(call[r].message), cl)
        /\ Queue(call[r].message) \in Seq(Items)
    BY <2>1, <2>2, QueueOfCall DEF Hands
  <2> QED
    BY <2>1, <2>2, <2>3, StoresConnects
<1>4. CASE \E r \in Requests : Transport(r)
  <2>1. PICK r \in Requests : Transport(r)
    BY <1>4
  <2>2. CASE Connect(r)
    <3> DEFINE cl == clients[call[r].publisher] + 1
    <3>1. call[r].place = "connect" /\ MakeProducer(r, call[r], cl)
      BY <2>2 DEF Connect, At
    <3>2. cl \in Nat /\ cl # NoClient
      BY <3>1, CallingIs DEF TypeInv, ClientsOK, NoClient
    <3> QED
      BY <1>3, <3>1, <3>2, MakeIs
  <2>3. CASE GiveUp(r)
    <3> DEFINE cl == client[call[r].publisher]
    <3>1. call[r].place = "wait" /\ MakeProducer(r, call[r], cl)
      BY <2>3 DEF GiveUp, At, FoundClient
    <3>2. cl \in Nat /\ (call[r].publisher = p => cl # NoClient)
      BY <3>1, CallingIs DEF TypeInv, ClientsOK
    <3> QED
      BY <1>3, <3>1, <3>2, MakeIs
  <2>4. CASE ~ Connect(r) /\ ~ GiveUp(r)
    <3>1. UNCHANGED <<producer, made>>
      BY <2>1, <2>4 DEF Transport, CallStep, ConnectFails, TryAgain, Reach, Acknowledged,
         Unavailable, ConnectionFails
    <3> QED
      BY <1>1, <3>1
  <2> QED
    BY <2>2, <2>3, <2>4
<1>5. CASE \E q \in Publishers : Drains(q)
  <2>1. PICK q \in Publishers : Drains(q)
    BY <1>5
  <2>2. PICK n \in DOMAIN made[q] : Drain(q, n)
    BY <2>1 DEF Drains
  <2>3. producer' = producer
    BY <2>2 DEF Drain
  <2>4. producer[p] \in 1..Len(made[p])
    BY MadeIs DEF TypeInv, ProducersOK, Connected, NoProducer
  <2>5. made'[p][producer[p]].client = made[p][producer[p]].client
    BY <2>2, <2>4, DrainIs
  <2> QED
    BY <2>3, <2>5 DEF Connected
<1>6. ~ ProcessRestarts
  BY DEF ProcessRestarts, Restart, TypeInv, ClientsOK, NoClient
<1>7. CASE \/ \E r \in Requests, q \in Publishers, n \in Sizes \cup {0, 1}, status \in Statuses :
                  Refuses(r, q, n, status)
           \/ \E r \in Requests, status \in Statuses : Finishes(r, status)
           \/ BrokerGoesDown \/ BrokerComesUp \/ UNCHANGED vars
  <2>1. UNCHANGED <<producer, made>>
    BY <1>7 DEF Refuses, Finishes, BrokerGoesDown, BrokerDown, BrokerComesUp, BrokerUp, vars,
       publisherVars
  <2> QED
    BY <1>1, <2>1
<1> QED
  BY <1>2, <1>4, <1>5, <1>6, <1>7, StepIs, Sending

\* A publisher whose producer has a client keeps one till the process restarts, as
\* long as no call has found Kafka unavailable.
THEOREM StayConnected == Spec => StaysConnected
<1>1. TypeInv /\ [Next]_vars =>
        [\A p \in Publishers : Connected(p) /\ client[p] # NoClient /\ clients'[p] >= clients[p] =>
            Connected(p)']_vars
  BY KeepsConnected
<1> QED
  BY <1>1, Typed, PTL DEF Spec, StaysConnected


------------------------------------------------------------------------------
(* Who is refused in calm weather.  While some request is calm the broker  *)
(* is up, and none of the calm ones has ever failed to connect: they do    *)
(* not wait, so they cannot give up.                                       *)

Reasoned(r) ==
    call[r].place = "returned" /\ call[r].outcome \in {"unavailable", "unknown"} =>
        ~config.async /\ (call[r].cut \/ call[r].using = NoClient)
CalmInv ==
    /\ calm # {} => broker = "up"
    /\ \A r \in calm : call[r].place # "wait" /\ Reasoned(r)

\* A call that has come to a producer.
LEMMA HandedReasoned ==
    ASSUME TypeInv, NEW r \in Requests, NEW k \in Calls, NEW cl \in Nat, Hands(r, k, cl),
           k.using = NoClient, config' = config, config.async => cl # NoClient
    PROVE  call'[r].place # "wait" /\ Reasoned(r)'
<1>1. call'[r] = Handed(k, cl)
  BY DEF Hands, TypeInv, HandlersOK
<1>2. CASE Handed(k, cl).place = "send"
  BY <1>1, <1>2 DEF Reasoned
<1>3. CASE Handed(k, cl).place = "returned"
  <2>1. Handed(k, cl).outcome # "unavailable" /\ Handed(k, cl).using = NoClient
    BY <1>3, HandedIs
  <2>2. Handed(k, cl).outcome = "unknown" => ~ config'.async
    <3> SUFFICES ASSUME Handed(k, cl).outcome = "unknown" PROVE ~ config'.async
      OBVIOUS
    <3>1. cl = NoClient
      BY <1>3, HandedIs
    <3> QED
      BY <3>1
  <2> QED
    BY <1>1, <1>3, <2>1, <2>2 DEF Reasoned
<1> QED
  BY <1>2, <1>3, HandedIs

LEMMA CalmTransport ==
    ASSUME TypeInv, CalmInv, NEW r \in Requests, Transport(r)
    PROVE  CalmInv'
<1> USE DEF At
<1>1. calm' = calm /\ CallStep(r) /\ broker' = broker /\ config' = config /\ calm \subseteq Requests
  BY DEF Transport, handlerVars, CallStep, Connect, ConnectFails, TryAgain, GiveUp, Reach,
     Acknowledged, Unavailable, ConnectionFails, TypeInv, HandlersOK
<1> SUFFICES ASSUME NEW s \in calm PROVE call'[s].place # "wait" /\ Reasoned(s)'
  BY <1>1 DEF CalmInv
<1>2. broker = "up" /\ call[s].place # "wait" /\ Reasoned(s) /\ s \in Requests
  BY <1>1 DEF CalmInv
<1>3. CASE call'[s] = call[s]
  BY <1>1, <1>2, <1>3 DEF Reasoned
<1>4. CASE TryAgain(r)
  <2> DEFINE p == call[r].publisher
             closed == [x \in Callers |-> IF client[p] = NoClient THEN call[x]
                                                       ELSE Cut(call[x], p, client[p])]
  <2>1. call' = [closed EXCEPT ![r].place = "connect", ![r].attempt = NextAttempt(@)]
        /\ call[r].place = "wait"
    BY <1>4 DEF TryAgain
  <2>2. call[s] \in Calls /\ s # r
    BY <1>2, <2>1 DEF TypeInv, HandlersOK
  <2>3. call'[s] = closed[s]
    <3> HIDE DEF closed
    <3>1. closed = [x \in Requests |-> closed[x]]
      BY DEF closed
    <3> QED
      BY <1>2, <2>1, <2>2, <3>1
  <2>4. closed[s].place = call[s].place /\ (call[s].place \notin {"send", "ack"} => closed[s] = call[s])
    <3>1. closed[s] = IF client[p] = NoClient THEN call[s] ELSE Cut(call[s], p, client[p])
      BY <1>2
    <3> HIDE DEF closed
    <3> QED
      BY <2>2, <3>1, CutIs
  <2> HIDE DEF closed
  <2>5. CASE call[s].place \in {"send", "ack"}
    BY <2>3, <2>4, <2>5 DEF Reasoned
  <2>6. CASE call[s].place \notin {"send", "ack"}
    BY <1>3, <2>3, <2>4, <2>6
  <2> QED
    BY <2>5, <2>6
<1>5. CASE Connect(r)
  <2> DEFINE cl == clients[call[r].publisher] + 1
  <2>1. /\ call[r].place = "connect" /\ Hands(r, call[r], cl)
    BY <1>5, MakeIs DEF Connect
  <2>2. cl \in Nat /\ cl # NoClient /\ call[r] \in Calls /\ call[r].using = NoClient
    BY <2>1, CallingIs DEF TypeInv, ClientsOK, NoClient, CallOK
  <2>3. CASE s = r
    BY <1>1, <2>1, <2>2, <2>3, HandedReasoned
  <2>4. CASE s # r
    <3>1. call'[s] = call[s]
      BY <1>2, <2>1, <2>4 DEF Hands, TypeInv, HandlersOK
    <3> QED
      BY <1>3, <3>1
  <2> QED
    BY <2>3, <2>4
<1>6. CASE GiveUp(r)
  <2>1. s # r /\ Hands(r, call[r], client[call[r].publisher])
    BY <1>2, <1>6, MakeIs DEF GiveUp, FoundClient
  <2>2. call'[s] = call[s]
    BY <1>2, <2>1 DEF Hands, TypeInv, HandlersOK
  <2> QED
    BY <1>3, <2>2
<1>7. CASE Reach(r)
  <2>1. call' = [call EXCEPT ![r].place = "ack"]
    BY <1>7 DEF Reach
  <2>2. CASE s = r
    <3>1. call'[s].place = "ack"
      BY <1>2, <2>1, <2>2 DEF TypeInv, HandlersOK, Calls
    <3> QED
      BY <3>1 DEF Reasoned
  <2>3. CASE s # r
    BY <1>2, <1>3, <2>1, <2>3 DEF TypeInv, HandlersOK
  <2> QED
    BY <2>2, <2>3
<1>8. CASE Acknowledged(r)
  <2>1. call' = [call EXCEPT ![r] = Ended(call[r], "sent")]
    BY <1>8 DEF Acknowledged, Return
  <2>2. CASE s = r
    <3>1. call'[s].place = "returned" /\ call'[s].outcome = "sent"
      BY <1>2, <2>1, <2>2 DEF TypeInv, HandlersOK, Calls, Ended
    <3> QED
      BY <3>1 DEF Reasoned
  <2>3. CASE s # r
    BY <1>2, <1>3, <2>1, <2>3 DEF TypeInv, HandlersOK
  <2> QED
    BY <2>2, <2>3
<1>9. CASE ConnectionFails(r)
  <2>1. /\ call' = [call EXCEPT ![r] = Ended(call[r], "unknown")]
        /\ call[r].place \in {"send", "ack"} /\ call[r].cut
    BY <1>2, <1>9 DEF ConnectionFails, Raised, Return, InFlight
  <2>2. CASE s = r
    <3>1. call[r] \in Calls /\ ~ config.async
      BY <2>1 DEF TypeInv, HandlersOK, ModeOK
    <3>2. call'[s].place = "returned" /\ call'[s].cut = call[r].cut
      BY <1>2, <2>1, <2>2, <3>1 DEF TypeInv, HandlersOK, Calls, Ended
    <3> QED
      BY <1>1, <2>1, <3>1, <3>2 DEF Reasoned
  <2>3. CASE s # r
    BY <1>2, <1>3, <2>1, <2>3 DEF TypeInv, HandlersOK
  <2> QED
    BY <2>2, <2>3
<1>10. ~ ConnectFails(r) /\ ~ Unavailable(r)
  BY <1>2 DEF ConnectFails, Unavailable
<1> QED
  BY <1>1, <1>4, <1>5, <1>6, <1>7, <1>8, <1>9, <1>10 DEF CallStep

LEMMA StepCalm == TypeInv /\ CalmInv /\ [Next]_vars => CalmInv'
<1> SUFFICES ASSUME TypeInv, CalmInv, [Next]_vars PROVE CalmInv'
  OBVIOUS
<1>0. calm \subseteq Requests
  BY DEF TypeInv, HandlersOK
<1>1. CASE \E r \in Requests, p \in Publishers, m \in Items \cup {NoMessage, Malformed} :
              /\ SendMessage(r, p, m) /\ (calm' = calm \/ (calm' = calm \cup {r} /\ broker = "up"))
  <2>1. PICK r \in Requests, p \in Publishers, m \in Items \cup {NoMessage, Malformed} :
              /\ SendMessage(r, p, m) /\ (calm' = calm \/ (calm' = calm \cup {r} /\ broker = "up"))
    BY <1>1
  <2>2. UNCHANGED <<broker, config>>
    BY <2>1, SendIs
  <2>3. call'[r].place # "wait" /\ Reasoned(r)'
    <3>1. CASE call' = [call EXCEPT ![r] =
                          [Fresh(p, m) EXCEPT !.place = "connect", !.attempt = 1]]
      <4>1. call'[r].place = "connect"
        BY <3>1 DEF TypeInv, HandlersOK, Fresh, NoCall
      <4> QED
        BY <4>1 DEF Reasoned
    <3>2. CASE \E cl \in Nat : /\ Hands(r, Fresh(p, m), cl) /\ (config.async => cl # NoClient)
      <4>1. Fresh(p, m) \in Calls /\ Fresh(p, m).using = NoClient
        BY DEF Fresh, NoCall, Calls, Places, NoClient
      <4> QED
        BY <2>2, <3>2, <4>1, HandedReasoned
    <3> QED
      BY ZenonT(60), <2>1, <3>1, <3>2, SendIs
  <2>4. \A s \in Requests : s # r => call'[s] = call[s]
    BY <2>1, SendTypes
  <2>5. \A s \in calm' : s # r => call'[s].place # "wait" /\ Reasoned(s)'
    BY <1>0, <2>1, <2>2, <2>4 DEF CalmInv, Reasoned
  <2> QED
    BY <2>1, <2>2, <2>3, <2>5 DEF CalmInv
<1>2. CASE \E r \in Requests, p \in Publishers, n \in Sizes \cup {0, 1}, status \in Statuses :
                  Refuses(r, p, n, status)
  <2>1. PICK r \in Requests, p \in Publishers, n \in Sizes \cup {0, 1}, status \in Statuses :
                  Refuses(r, p, n, status)
    BY <1>2
  <2>2. /\ pc[r] = "idle" /\ calm' = IF broker = "up" THEN calm \cup {r} ELSE calm
        /\ UNCHANGED <<broker, config, call>>
    BY <2>1 DEF Refuses, Accept, publisherVars
  <2>3. call[r].place = "none"
    BY <2>2 DEF TypeInv, WhereOK, NoCall
  <2> QED
    BY <2>2, <2>3 DEF CalmInv, Reasoned
<1>3. CASE \E r \in Requests, status \in Statuses : Finishes(r, status)
  <2>1. PICK r \in Requests, status \in Statuses : Finishes(r, status)
    BY <1>3
  <2>2. call' = [call EXCEPT ![r] = NoCall] /\ UNCHANGED <<broker, config, calm>>
    BY <2>1 DEF Finishes
  <2>3. call'[r].place = "none"
    BY <2>2 DEF TypeInv, HandlersOK, NoCall
  <2>4. \A s \in Requests : s # r => call'[s] = call[s]
    BY <2>2 DEF TypeInv, HandlersOK
  <2> QED
    BY <1>0, <2>2, <2>3, <2>4 DEF CalmInv, Reasoned
<1>4. CASE \E p \in Publishers : Drains(p)
  <2>1. UNCHANGED <<broker, config, call, calm>>
    BY <1>4 DEF Drains, Drain, handlerVars
  <2> QED
    BY <2>1 DEF CalmInv, Reasoned
<1>5. CASE BrokerGoesDown \/ ProcessRestarts
  BY <1>5 DEF BrokerGoesDown, ProcessRestarts, CalmInv
<1>6. CASE BrokerComesUp \/ UNCHANGED vars
  BY <1>6 DEF BrokerComesUp, BrokerUp, handlerVars, vars, publisherVars, CalmInv, Reasoned
<1> QED
  BY <1>1, <1>2, <1>3, <1>4, <1>5, <1>6, StepIs, Sending, CalmTransport

\* A client that is refused with the broker up and the process alive all the while is
\* refused because the producer was made without a client, or because the retry of
\* another request closed the client in use; and never by an asynchronous publisher.
THEOREM RefusedWithReason == Spec => []RefusedForAReason
<1>1. Init => CalmInv
  BY DEF Init, CalmInv
<1>2. CalmInv => RefusedForAReason
  BY DEF CalmInv, Reasoned, RefusedForAReason
<1> QED
  BY <1>1, <1>2, StepCalm, Typed, PTL DEF Spec


------------------------------------------------------------------------------
(* What is on the topics, and in which order.                              *)

\* What a request is does not change once it has come in; nor does anything of it
\* once it is answered or gone.
LEMMA RequestKept ==
    ASSUME TypeInv, [Next]_vars, NEW r \in Requests, pc[r] # "idle"
    PROVE  /\ request'[r] = request[r] /\ pc'[r] # "idle"
           /\ next[r] \in Nat /\ next'[r] \in {next[r], next[r] + 1}
           /\ pc[r] # "sending" => UNCHANGED <<pc[r], next[r], answer[r]>>
           /\ config' = config
<1>0. next[r] \in Nat
  BY NumbersAre DEF TypeInv, HandlersOK
<1>1. CASE \E s \in Requests, p \in Publishers, m \in Items \cup {NoMessage, Malformed} :
              /\ SendMessage(s, p, m) /\ pc[s] \in {"idle", "sending"} /\ answer' = answer
              /\ pc' = [pc EXCEPT ![s] = "sending"]
              /\ \A q \in Requests : q # s => request'[q] = request[q] /\ next'[q] = next[q]
              /\ s # r
  <2>1. config' = config
    BY <1>1 DEF SendMessage
  <2>2. pc'[r] = pc[r] /\ request'[r] = request[r] /\ next'[r] = next[r] /\ answer'[r] = answer[r]
    BY <1>1 DEF TypeInv, HandlersOK
  <2> QED
    BY <1>0, <2>1, <2>2
<1>2. CASE GoesOn(r)
  <2>1. /\ pc[r] = "sending" /\ pc' = [pc EXCEPT ![r] = "sending"]
        /\ next' = [next EXCEPT ![r] = @ + 1] /\ request' = request
    BY <1>2 DEF GoesOn
  <2>2. config' = config
    BY <1>2 DEF GoesOn, SendMessage
  <2> QED
    BY <1>0, <2>1, <2>2 DEF TypeInv, HandlersOK
<1>3. CASE \E s \in Requests, p \in Publishers, n \in Sizes \cup {0, 1}, status \in Statuses :
                  Refuses(s, p, n, status)
  <2>1. PICK s \in Requests, p \in Publishers, n \in Sizes \cup {0, 1}, status \in Statuses :
                  Refuses(s, p, n, status)
    BY <1>3
  <2>2. /\ pc[s] = "idle" /\ s # r
        /\ pc' = [pc EXCEPT ![s] = "done"] /\ answer' = [answer EXCEPT ![s] = status]
        /\ request' = [request EXCEPT ![s] = [publisher |-> p, size |-> n,
                         after |-> {x \in Requests : pc[x] = "done"}]]
        /\ UNCHANGED <<next, config>>
    BY <2>1 DEF Refuses, Answers, Accept, publisherVars
  <2> QED
    BY <1>0, <2>2 DEF TypeInv, HandlersOK
<1>4. CASE \E s \in Requests, status \in Statuses : Finishes(s, status)
  <2>1. PICK s \in Requests, status \in Statuses : Finishes(s, status)
    BY <1>4
  <2>2. /\ pc[s] = "sending" /\ pc' = [pc EXCEPT ![s] = "done"]
        /\ answer' = [answer EXCEPT ![s] = status] /\ UNCHANGED <<request, next, config>>
    BY <2>1 DEF Finishes, Answers
  <2> QED
    BY <1>0, <2>2 DEF TypeInv, HandlersOK
<1>5. CASE (\E s \in Requests : Transport(s)) \/ (\E p \in Publishers : Drains(p))
           \/ BrokerComesUp \/ BrokerGoesDown \/ UNCHANGED vars
  <2>1. UNCHANGED <<pc, request, next, answer, config>>
    BY <1>5 DEF Transport, Drains, Drain, BrokerComesUp, BrokerUp, BrokerGoesDown, BrokerDown,
       handlerVars, vars, publisherVars, CallStep, Connect, ConnectFails, TryAgain, GiveUp, Reach,
       Acknowledged, Unavailable, ConnectionFails
  <2> QED
    BY <1>0, <2>1
<1>6. CASE ProcessRestarts
  <2>1. /\ pc' = [s \in Requests |-> IF pc[s] = "sending" THEN "gone" ELSE pc[s]]
        /\ UNCHANGED <<request, next, answer, config>>
    BY <1>6 DEF ProcessRestarts, Restart
  <2> QED
    BY <1>0, <2>1
<1>7. CASE \/ \E s \in Requests, p \in Publishers, n \in Sizes \cup {0, 1} :
                  \E m, i : Begins(s, p, n, m, i)
           \/ \E s \in Requests : GoesOn(s)
  <2>1. PICK s \in Requests, p \in Publishers, m \in Items \cup {NoMessage, Malformed} :
              /\ SendMessage(s, p, m) /\ pc[s] \in {"idle", "sending"} /\ answer' = answer
              /\ pc' = [pc EXCEPT ![s] = "sending"]
              /\ \A q \in Requests : q # s => request'[q] = request[q] /\ next'[q] = next[q]
              /\ pc[s] = "idle" \/ GoesOn(s)
    BY <1>7, Sending
  <2>2. CASE s # r
    BY <1>1, <2>1, <2>2
  <2>3. CASE s = r
    BY <1>2, <2>1, <2>3
  <2> QED
    BY <2>2, <2>3
<1> QED
  BY <1>3, <1>4, <1>5, <1>6, <1>7, StepIs

\* The messages on a topic stay; at most one comes to its end, from a call that sends
\* or from a queue.
Reaches(r, p) ==
    /\ call[r].place = "send" /\ ~ call[r].cut /\ call[r].publisher = p
    /\ topic' = [topic EXCEPT ![p] = Append(@, call[r].message)]
    /\ call' = [call EXCEPT ![r].place = "ack"]
    /\ UNCHANGED <<made, dropped, pc, request, next, answer, config>>
LEMMA TopicStep ==
    ASSUME TypeInv, [Next]_vars
    PROVE  \/ topic' = topic
           \/ \E r \in Requests, p \in Publishers : Reaches(r, p)
           \/ \E p \in Publishers : Drains(p)
<1>1. CASE \E r \in Requests : Transport(r)
  <2>1. PICK r \in Requests : Transport(r)
    BY <1>1
  <2>2. CASE Reach(r)
    <3>1. Reaches(r, call[r].publisher)
      BY <2>1, <2>2 DEF Transport, handlerVars, Reach, Reaches, At
    <3>2. call[r].publisher \in Publishers
      BY <2>2, CallingIs DEF Reach, At
    <3> QED
      BY <3>1, <3>2
  <2>3. CASE ~ Reach(r)
    BY <2>1, <2>3 DEF Transport, CallStep, Connect, ConnectFails, TryAgain, GiveUp,
       Acknowledged, Unavailable, ConnectionFails
  <2> QED
    BY <2>2, <2>3
<1>2. CASE \E r \in Requests, p \in Publishers, m \in Items \cup {NoMessage, Malformed} :
              SendMessage(r, p, m)
  BY <1>2 DEF SendMessage
<1>3. CASE \/ \E r \in Requests, q \in Publishers, n \in Sizes \cup {0, 1}, status \in Statuses :
                  Refuses(r, q, n, status)
           \/ \E r \in Requests, status \in Statuses : Finishes(r, status)
           \/ BrokerGoesDown \/ BrokerComesUp \/ ProcessRestarts \/ UNCHANGED vars
  BY <1>3 DEF Refuses, Finishes, BrokerGoesDown, BrokerDown, BrokerComesUp, BrokerUp,
       ProcessRestarts, Restart, vars, publisherVars
<1> QED
  BY <1>1, <1>2, <1>3, StepIs, Sending

\* The same, of one topic.
LEMMA TopicIs ==
    ASSUME TypeInv, NEW p \in Publishers
    PROVE  /\ topic[p] \in Seq(Items) /\ Len(topic[p]) \in Nat
           /\ \A i \in 1..Len(topic[p]) : topic[p][i] \in Items
<1>1. topic[p] \in Seq(Items)
  BY DEF TypeInv, BrokerOK
<1> QED
  BY <1>1, ElementOfSeq, LenProperties

LEMMA TopicGrows ==
    ASSUME TypeInv, NEW p \in Publishers, NEW m \in Items,
           topic' = [topic EXCEPT ![p] = Append(@, m)]
    PROVE  /\ \A q \in Publishers : q # p => topic'[q] = topic[q]
           /\ Len(topic'[p]) = Len(topic[p]) + 1 /\ topic'[p][Len(topic[p]) + 1] = m
           /\ \A i \in 1..Len(topic[p]) : topic'[p][i] = topic[p][i]
<1>1. /\ topic'[p] = Append(topic[p], m) /\ \A q \in Publishers : q # p => topic'[q] = topic[q]
  BY DEF TypeInv, BrokerOK
<1> QED
  BY <1>1, TopicIs, AppendProperties


\* A call hands its message to a producer, be it one that has waited or one that is
\* made just now.
SendsNow(r, p, m) ==
    /\ pc[r] \in {"idle", "sending"} /\ pc'[r] = "sending" /\ request'[r].publisher = p
    /\ m \in {NoMessage, Malformed} \/ (m = <<r, next'[r]>> /\ next'[r] = next[r] + 1)
    /\ pc[r] = "idle" \/ (next'[r] = next[r] + 1 /\ call[r].outcome = "sent")
    /\ call[r].place \in {"none", "returned"}
HasWaited(r, p, m) ==
    /\ call[r].place \in {"connect", "wait"} /\ call[r].message = m /\ call[r].publisher = p
    /\ UNCHANGED <<pc[r], request[r], next[r]>>
Puts(r, p, m, cl) ==
    /\ Stores(p, Queue(m), cl) /\ UNCHANGED <<topic, dropped, config>>
    /\ \E k \in Calls : k.message = m /\ k.publisher = p /\ call'[r] = Handed(k, cl)
    /\ SendsNow(r, p, m) \/ HasWaited(r, p, m)
Asks(r, p, m) ==
    /\ call'[r].place = "connect" /\ call'[r].message = m /\ call'[r].publisher = p
    /\ SendsNow(r, p, m)
    /\ UNCHANGED <<topic, made, dropped, config>>

LEMMA SendPuts ==
    ASSUME TypeInv,
           \/ \E r \in Requests, p \in Publishers, n \in Sizes \cup {0, 1} :
                  \E m, i : Begins(r, p, n, m, i)
           \/ \E r \in Requests : GoesOn(r)
    PROVE  \E r \in Requests, p \in Publishers, m \in Items \cup {NoMessage, Malformed} :
              /\ Asks(r, p, m) \/ \E cl \in Nat : Puts(r, p, m, cl)
              /\ \A s \in Requests : s # r => Same(s)
<1>1. PICK r \in Requests, p \in Publishers, m \in Items \cup {NoMessage, Malformed} :
              /\ SendMessage(r, p, m) /\ pc[r] \in {"idle", "sending"} /\ answer' = answer
              /\ pc' = [pc EXCEPT ![r] = "sending"] /\ request'[r].publisher = p
              /\ m \in {NoMessage, Malformed} \/ (m = <<r, next'[r]>> /\ next'[r] = next[r] + 1)
              /\ \A s \in Requests : s # r => request'[s] = request[s] /\ next'[s] = next[s]
              /\ pc[r] = "idle" \/ GoesOn(r)
  BY Sending
<1>2. \A s \in Requests : s # r => call'[s] = call[s]
  BY <1>1, SendTypes
<1>3. \A s \in Requests : s # r => Same(s)
  BY <1>1, <1>2 DEF Same, TypeInv, HandlersOK
<1>4. SendsNow(r, p, m)
  <2>1. pc[r] = "idle" \/ (next'[r] = next[r] + 1 /\ call[r].outcome = "sent")
    BY <1>1 DEF GoesOn, TypeInv, HandlersOK
  <2>2. pc'[r] = "sending"
    BY <1>1 DEF TypeInv, HandlersOK
  <2>3. call[r].place \in {"none", "returned"}
    BY <1>1 DEF SendMessage
  <2> QED
    BY <1>1, <2>1, <2>2, <2>3 DEF SendsNow
<1>5. UNCHANGED <<topic, dropped, config>>
  BY <1>1, SendIs
<1>6. CASE /\ call' = [call EXCEPT ![r] =
                        [Fresh(p, m) EXCEPT !.place = "connect", !.attempt = 1]]
           /\ UNCHANGED <<producer, made>>
  <2>1. /\ call'[r].place = "connect" /\ call'[r].message = m /\ call'[r].publisher = p
    BY <1>6 DEF Fresh, NoCall, TypeInv, HandlersOK
  <2> QED
    BY <1>3, <1>4, <1>5, <1>6, <2>1 DEF Asks
<1>7. CASE \E cl \in Nat : Hands(r, Fresh(p, m), cl)
  <2>1. PICK cl \in Nat : Hands(r, Fresh(p, m), cl)
    BY <1>7
  <2>2. Fresh(p, m) \in Calls /\ Fresh(p, m).publisher = p /\ Fresh(p, m).message = m
    BY DEF Fresh, NoCall, Calls, Places, NoClient
  <2>3. call'[r] = Handed(Fresh(p, m), cl) /\ Stores(p, Queue(m), cl)
    BY <2>1, <2>2 DEF Hands, TypeInv, HandlersOK
  <2>4. Puts(r, p, m, cl)
    BY <1>4, <1>5, <2>2, <2>3 DEF Puts
  <2> QED
    BY <1>3, <2>4
<1> QED
  BY <1>1, <1>6, <1>7, SendIs

\* What else a call may do in a step.
StillAs(r) ==
    /\ call'[r].place = call[r].place /\ call'[r].outcome = call[r].outcome
    /\ call'[r].publisher = call[r].publisher /\ call'[r].message = call[r].message
    /\ UNCHANGED <<pc[r], next[r], request[r]>>
Waits(r) ==
    /\ call[r].place \in {"connect", "wait"} /\ call'[r].place \in {"connect", "wait"}
    /\ call'[r].publisher = call[r].publisher /\ call'[r].message = call[r].message
    /\ UNCHANGED <<pc[r], next[r], request[r]>>
Returns(r) ==
    /\ call[r].place \in {"send", "ack"} /\ call'[r].place = "returned"
    /\ call'[r].publisher = call[r].publisher /\ call'[r].message = call[r].message
    /\ call'[r].outcome = "sent" => call[r].place = "ack"
    /\ call'[r].outcome # "malformed"
    /\ UNCHANGED <<pc[r], next[r], request[r]>>
Ends(r) == call'[r] = NoCall /\ next'[r] = next[r] /\ pc'[r] # "sending"

LEMMA TransportMoves ==
    ASSUME TypeInv, NEW r \in Requests, Transport(r)
    PROVE  /\ \/ UNCHANGED <<made, dropped>>
              \/ \E p \in Publishers, m \in Items \cup {NoMessage, Malformed}, cl \in Nat :
                    Puts(r, p, m, cl)
           /\ \A s \in Requests : s # r => StillAs(s)
           /\ \/ StillAs(r) \/ Waits(r) \/ Returns(r)
              \/ \E p \in Publishers : Reaches(r, p)
              \/ \E p \in Publishers, m \in Items \cup {NoMessage, Malformed}, cl \in Nat :
                    Puts(r, p, m, cl)
<1> USE DEF At
<1>1. /\ UNCHANGED <<pc, request, next, answer>> /\ CallStep(r) /\ call[r].place # "none"
      /\ call[r] \in Calls /\ call[r].publisher \in Publishers
      /\ call[r].message \in Items \cup {NoMessage, Malformed}
  <2>1. UNCHANGED <<pc, request, next, answer>> /\ CallStep(r) /\ call[r].place # "none"
    BY DEF Transport, handlerVars, CallStep, Connect, ConnectFails, TryAgain, GiveUp, Reach,
       Acknowledged, Unavailable, ConnectionFails, InFlight
  <2> QED
    BY <2>1, CallingIs DEF Calls
<1>2. ASSUME NEW k, call' = [call EXCEPT ![r] = k]
      PROVE  call'[r] = k /\ \A s \in Requests : s # r => StillAs(s)
  BY <1>1, <1>2 DEF StillAs, TypeInv, HandlersOK
<1>3. CASE Connect(r) \/ GiveUp(r)
  <2>1. PICK cl \in {clients[call[r].publisher] + 1, client[call[r].publisher]} :
              MakeProducer(r, call[r], cl)
    BY <1>3 DEF Connect, GiveUp, FoundClient
  <2>2. cl \in Nat /\ call[r].place \in {"connect", "wait"} /\ UNCHANGED <<topic, dropped, config>>
    BY <1>1, <1>3, <2>1 DEF Connect, GiveUp, TypeInv, ClientsOK
  <2>3. /\ call' = [call EXCEPT ![r] = Handed(call[r], cl)]
        /\ Stores(call[r].publisher, Queue(call[r].message), cl)
    BY <2>1, MakeIs DEF Hands
  <2>4. Puts(r, call[r].publisher, call[r].message, cl)
    BY <1>1, <1>2, <2>2, <2>3 DEF Puts, HasWaited
  <2> QED
    BY <1>1, <1>2, <2>2, <2>3, <2>4
<1>4. CASE ConnectFails(r)
  <2>1. call' = [call EXCEPT ![r] = [call[r] EXCEPT !.place = "wait"]] /\ UNCHANGED <<made, dropped>>
        /\ call[r].place = "connect"
    BY <1>4 DEF ConnectFails
  <2>2. Waits(r)
    BY <1>1, <1>2, <2>1 DEF Waits, Calls
  <2> QED
    BY <1>2, <2>1, <2>2
<1>5. CASE TryAgain(r)
  <2> DEFINE p == call[r].publisher
             closed == [x \in Callers |-> IF client[p] = NoClient THEN call[x]
                                                       ELSE Cut(call[x], p, client[p])]
  <2>1. /\ call' = [closed EXCEPT ![r].place = "connect", ![r].attempt = NextAttempt(@)]
        /\ call[r].place = "wait" /\ UNCHANGED <<made, dropped>>
    BY <1>5 DEF TryAgain
  <2>2. \A s \in Requests : call[s] \in Calls
    BY DEF TypeInv, HandlersOK
  <2>3. \A s \in Requests :
          /\ closed[s] \in Calls /\ closed[s].place = call[s].place
          /\ closed[s].outcome = call[s].outcome
          /\ closed[s].publisher = call[s].publisher /\ closed[s].message = call[s].message
    BY <2>2, CutIs
  <2> HIDE DEF closed
  <2>4. closed = [x \in Requests |-> closed[x]]
    BY DEF closed
  <2>5. /\ call'[r] = [[closed[r] EXCEPT !.place = "connect"] EXCEPT !.attempt = NextAttempt(@)]
        /\ \A s \in Requests : s # r => call'[s] = closed[s]
    BY <2>1, <2>4
  <2>6. /\ call'[r].place = "connect" /\ call'[r].publisher = closed[r].publisher
        /\ call'[r].message = closed[r].message
    BY <2>3, <2>5 DEF Calls
  <2>7. Waits(r)
    BY <1>1, <2>1, <2>3, <2>6 DEF Waits
  <2>8. \A s \in Requests : s # r => StillAs(s)
    BY <1>1, <2>3, <2>5 DEF StillAs
  <2> QED
    BY <2>1, <2>7, <2>8
<1>6. CASE Reach(r)
  <2>1. call' = [call EXCEPT ![r] = [call[r] EXCEPT !.place = "ack"]]
    BY <1>6 DEF Reach
  <2>2. Reaches(r, call[r].publisher) /\ UNCHANGED <<made, dropped>>
    BY <1>1, <1>6 DEF Reach, Reaches
  <2> QED
    BY <1>1, <1>2, <2>1, <2>2
<1>7. CASE Acknowledged(r) \/ Unavailable(r) \/ ConnectionFails(r)
  <2>1. PICK outcome \in {"sent", "unavailable", "unknown"} :
              Return(r, outcome) /\ (outcome = "sent" => call[r].place = "ack")
    BY <1>7 DEF Acknowledged, Unavailable, ConnectionFails, Raised
  <2>2. call[r].place \in {"send", "ack"} /\ UNCHANGED <<made, dropped>>
    BY <1>7 DEF Acknowledged, Unavailable, ConnectionFails, InFlight
  <2>3. call' = [call EXCEPT ![r] = Ended(call[r], outcome)]
    BY <2>1 DEF Return
  <2>4. Returns(r)
    <3>1. call'[r] = Ended(call[r], outcome)
      BY <1>2, <2>3
    <3>2. /\ call'[r].place = "returned" /\ call'[r].outcome = outcome
          /\ call'[r].publisher = call[r].publisher /\ call'[r].message = call[r].message
      BY <1>1, <3>1 DEF Ended, Calls
    <3> QED
      BY <1>1, <2>1, <2>2, <3>2 DEF Returns
  <2> QED
    BY <1>2, <2>2, <2>3, <2>4
<1> QED
  BY <1>1, <1>3, <1>4, <1>5, <1>6, <1>7 DEF CallStep


\* What a step does to the calls and the queues.
LEMMA StepCalls ==
    ASSUME TypeInv, [Next]_vars, NEW r \in Requests
    PROVE  \/ StillAs(r) \/ Waits(r) \/ Returns(r) \/ Ends(r)
           \/ pc[r] = "idle" /\ pc'[r] = "done" /\ call'[r] = NoCall /\ next'[r] = next[r]
           \/ \E p \in Publishers : Reaches(r, p)
           \/ \E p \in Publishers, m \in Items \cup {NoMessage, Malformed} :
                Asks(r, p, m) \/ \E cl \in Nat : Puts(r, p, m, cl)
<1>1. CASE \E s \in Requests : Transport(s)
  BY <1>1, TransportMoves
<1>2. CASE \E s \in Requests, p \in Publishers, m \in Items \cup {NoMessage, Malformed} :
              /\ Asks(s, p, m) \/ \E cl \in Nat : Puts(s, p, m, cl)
              /\ \A q \in Requests : q # s => Same(q)
  <2>1. PICK s \in Requests, p \in Publishers, m \in Items \cup {NoMessage, Malformed} :
              /\ Asks(s, p, m) \/ \E cl \in Nat : Puts(s, p, m, cl)
              /\ \A q \in Requests : q # s => Same(q)
    BY <1>2
  <2>2. CASE s = r
    BY <2>1, <2>2
  <2>3. CASE s # r
    BY <2>1, <2>3 DEF Same, StillAs
  <2> QED
    BY <2>2, <2>3
<1>3. CASE \E s \in Requests, p \in Publishers, n \in Sizes \cup {0, 1}, status \in Statuses :
                  Refuses(s, p, n, status)
  <2>1. PICK s \in Requests, p \in Publishers, n \in Sizes \cup {0, 1}, status \in Statuses :
                  Refuses(s, p, n, status)
    BY <1>3
  <2>2. /\ pc[s] = "idle" /\ pc' = [pc EXCEPT ![s] = "done"] /\ UNCHANGED <<next, call>>
        /\ request' = [request EXCEPT ![s] = [publisher |-> p, size |-> n,
                         after |-> {x \in Requests : pc[x] = "done"}]]
    BY <2>1 DEF Refuses, Answers, Accept, publisherVars
  <2>3. CASE s = r
    BY <2>2, <2>3 DEF TypeInv, HandlersOK, WhereOK
  <2>4. CASE s # r
    BY <2>2, <2>4 DEF StillAs, TypeInv, HandlersOK
  <2> QED
    BY <2>3, <2>4
<1>4. CASE \E s \in Requests, status \in Statuses : Finishes(s, status)
  <2>1. PICK s \in Requests, status \in Statuses : Finishes(s, status)
    BY <1>4
  <2>2. /\ pc' = [pc EXCEPT ![s] = "done"] /\ UNCHANGED <<next, request>>
        /\ call' = [call EXCEPT ![s] = NoCall]
    BY <2>1 DEF Finishes, Answers
  <2> QED
    BY <2>2 DEF StillAs, Ends, TypeInv, HandlersOK
<1>5. CASE BrokerGoesDown
  <2>1. /\ call' = [c \in Requests |-> Cut(call[c], call[c].publisher, call[c].using)]
        /\ UNCHANGED <<pc, next, request>>
    BY <1>5 DEF BrokerGoesDown, BrokerDown
  <2>2. call[r] \in Calls
    BY DEF TypeInv, HandlersOK
  <2>3. call'[r] = Cut(call[r], call[r].publisher, call[r].using)
    BY <2>1
  <2> QED
    BY <2>1, <2>2, <2>3, CutIs DEF StillAs
<1>6. CASE ProcessRestarts
  <2>1. call'[r] = NoCall /\ UNCHANGED next /\ pc'[r] # "sending"
    BY <1>6 DEF ProcessRestarts, Restart
  <2> QED
    BY <2>1 DEF Ends
<1>7. CASE (\E p \in Publishers : Drains(p)) \/ BrokerComesUp \/ UNCHANGED vars
  <2>1. UNCHANGED <<call, pc, next, request>>
    BY <1>7 DEF Drains, Drain, handlerVars, BrokerComesUp, BrokerUp, vars, publisherVars
  <2> QED
    BY <2>1 DEF StillAs
<1> QED
  BY <1>1, <1>2, <1>3, <1>4, <1>5, <1>6, <1>7, StepIs, SendPuts

LEMMA StepMade ==
    ASSUME TypeInv, [Next]_vars
    PROVE  \/ UNCHANGED <<made, dropped>>
           \/ \E r \in Requests, p \in Publishers, m \in Items \cup {NoMessage, Malformed}, cl \in Nat :
                Puts(r, p, m, cl)
           \/ \E p \in Publishers : Drains(p)
           \/ ProcessRestarts
<1>1. CASE \E r \in Requests : Transport(r)
  BY <1>1, TransportMoves
<1>2. CASE \/ \E r \in Requests, p \in Publishers, n \in Sizes \cup {0, 1} :
                  \E m, i : Begins(r, p, n, m, i)
           \/ \E r \in Requests : GoesOn(r)
  BY <1>2, SendPuts DEF Asks
<1>3. CASE \/ \E r \in Requests, q \in Publishers, n \in Sizes \cup {0, 1}, status \in Statuses :
                  Refuses(r, q, n, status)
           \/ \E r \in Requests, status \in Statuses : Finishes(r, status)
           \/ BrokerGoesDown \/ BrokerComesUp \/ UNCHANGED vars
  BY <1>3 DEF Refuses, Finishes, BrokerGoesDown, BrokerDown, BrokerComesUp, BrokerUp,
       vars, publisherVars
<1> QED
  BY <1>1, <1>2, <1>3, StepIs


==============================================================================
