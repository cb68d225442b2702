---------------------------- MODULE KafkaPublisher ----------------------------
(***************************************************************************)
(* The Kafka publishers of one Python API process: KafkaPublisher of the   *)
(* reference dispatcher and KafkaConnection of the Kafka dispatcher, whose *)
(* client and producer are the same code.  A publisher is shared by all    *)
(* the greenlets that handle requests, so a call of send_message is cut    *)
(* where it yields: while it connects, while it sleeps before it tries     *)
(* again, and while it waits for the broker.                               *)
(*                                                                         *)
(* The Kafka library is external.  A KafkaClient connects when it is made  *)
(* and reconnects by itself; a SimpleProducer keeps the client it was made *)
(* with, which is nothing at all when the connection failed.               *)
(***************************************************************************)
EXTENDS Naturals, Sequences, SequencesExt

CONSTANTS Callers,      \* the greenlets that call
          Publishers,   \* one object, and one topic, each
          MaxRetry,     \* option max_retry
          MaxOutages,   \* bound: how often the broker goes down
          NoMessage,    \* a call with nothing to send
          Malformed     \* a call whose body cannot be parsed

ASSUME RetryAssumption == MaxRetry \in Nat \ {0} /\ MaxOutages \in Nat

VARIABLES broker,     \* "up" or "down"
          outages,    \* how often it went down
          topic,      \* what the broker has, by publisher
          config,     \* the options the process was started with
          client,     \* self._client of each publisher
          clients,    \* how many clients each publisher has made
          producer,   \* self._producer: 0, or an index of ...
          made,       \* ... the producers made: their client and, async, their queue
          call,       \* where the call of each greenlet stands
          dropped     \* history: messages that were queued and never sent
publisherVars == <<broker, outages, topic, config, client, clients, producer, made, call, dropped>>

NoClient == 0
NoProducer == 0
NoCall == [place |-> "none", publisher |-> "none", message |-> NoMessage, attempt |-> 0,
           using |-> NoClient, cut |-> FALSE, outcome |-> "none"]

InitPublisher(configurations) ==
    /\ broker \in {"up", "down"}
    /\ outages = 0
    /\ topic = [p \in Publishers |-> <<>>]
    /\ config \in configurations
    /\ client = [p \in Publishers |-> NoClient]
    /\ clients = [p \in Publishers |-> 0]
    /\ producer = [p \in Publishers |-> NoProducer]
    /\ made = [p \in Publishers |-> <<>>]
    /\ call = [c \in Callers |-> NoCall]
    /\ dropped = {}
------------------------------------------------------------------------------
At(c, place) == call[c].place = place
Ended(k, outcome) == [k EXCEPT !.place = "returned", !.outcome = outcome]
Return(c, outcome) == call' = [call EXCEPT ![c] = Ended(@, outcome)]

\* The call, from where it has a producer that holds `cl`.  A producer without a
\* client fails at once, and a queue takes anything.
Handed(k, cl) ==
    IF k.message = NoMessage THEN Ended(k, "sent")
    ELSE IF k.message = Malformed THEN Ended(k, "malformed")
    ELSE IF cl = NoClient THEN Ended(k, "unknown")
    ELSE IF config.async THEN Ended(k, "sent")
    ELSE [k EXCEPT !.place = "send", !.using = cl, !.attempt = 0]
Queue(m) == IF config.async /\ m \notin {NoMessage, Malformed} THEN <<m>> ELSE <<>>

\* _init_producer, once there is a client or no more hope of one.  An asynchronous
\* producer copies its client, which fails where there is none.
Anyway(cl) == FALSE   \* mutant: nobody looks whether there is a client
CannotCopy(cl) == config.async /\ cl = NoClient
MakeProducer(c, k, cl) ==
    LET p == k.publisher
    IN  /\ IF CannotCopy(cl)
             THEN producer' = [producer EXCEPT ![p] = NoProducer] /\ UNCHANGED made
             ELSE /\ producer' = [producer EXCEPT ![p] = Len(made[p]) + 1]
                  /\ made' = [made EXCEPT ![p] =
                                Append(@, [client |-> cl, queue |-> Queue(k.message)])]
        /\ call' = [call EXCEPT ![c] = Handed(k, cl)]

\* send_message, up to where it first waits.
SendMessage(c, p, m) ==
    LET k == [NoCall EXCEPT !.publisher = p, !.message = m]
        use == producer[p]
    IN  /\ call[c].place \in {"none", "returned"}
        /\ IF use # NoProducer
             THEN /\ made' = [made EXCEPT ![p][use].queue = @ \o Queue(m)]
                  /\ call' = [call EXCEPT ![c] = Handed(k, made[p][use].client)]
                  /\ UNCHANGED producer
           ELSE IF client[p] # NoClient THEN MakeProducer(c, k, client[p])
             ELSE /\ call' = [call EXCEPT ![c] = [k EXCEPT !.place = "connect", !.attempt = 1]]
                  /\ UNCHANGED <<producer, made>>
        /\ UNCHANGED <<broker, outages, topic, config, client, clients, dropped>>
------------------------------------------------------------------------------
\* _init_client: a connection is made, ...
Connect(c) ==
    LET p == call[c].publisher
    IN  /\ At(c, "connect") /\ broker = "up"
        /\ clients' = [clients EXCEPT ![p] = @ + 1]
        /\ client' = [client EXCEPT ![p] = clients[p] + 1]
        /\ MakeProducer(c, call[c], clients[p] + 1)
        /\ UNCHANGED <<broker, outages, topic, config, dropped>>

\* ... or fails; after a while ...
ConnectFails(c) ==
    /\ At(c, "connect") /\ broker = "down"
    /\ call' = [call EXCEPT ![c].place = "wait"]
    /\ UNCHANGED <<broker, outages, topic, config, client, clients, producer, made, dropped>>

InFlight(k) == k.place \in {"send", "ack"}
Cut(k, p, cl) ==
    IF InFlight(k) /\ k.publisher = p /\ k.using = cl THEN [k EXCEPT !.cut = TRUE] ELSE k

\* ... it is tried again.  The client found there is closed: another call made it
\* meanwhile.
AttemptAgain(n) == n   \* mutant: the attempts are not counted
NextAttempt(n) == n + 1
TryAgain(c) ==
    LET p == call[c].publisher
        closed == [x \in Callers |-> IF client[p] = NoClient THEN call[x]
                                                      ELSE Cut(call[x], p, client[p])]
    IN  /\ At(c, "wait") /\ call[c].attempt < MaxRetry
        /\ call' = [closed EXCEPT ![c].place = "connect", ![c].attempt = NextAttempt(@)]
        /\ UNCHANGED <<broker, outages, topic, config, client, clients, producer, made, dropped>>

\* After max_retry failures a producer is made all the same, with what client there is.
OwnClient(p) == NoClient   \* mutant: what this call connected, which is nothing
FoundClient(p) == client[p]
GiveUp(c) ==
    /\ At(c, "wait") /\ call[c].attempt >= MaxRetry
    /\ MakeProducer(c, call[c], FoundClient(call[c].publisher))
    /\ UNCHANGED <<broker, outages, topic, config, client, clients, dropped>>
------------------------------------------------------------------------------
\* A synchronous send: the message reaches the broker, ...
Reach(c) ==
    LET p == call[c].publisher
    IN  /\ At(c, "send") /\ broker = "up" /\ ~call[c].cut
        /\ topic' = [topic EXCEPT ![p] = Append(@, call[c].message)]
        /\ call' = [call EXCEPT ![c].place = "ack"]
        /\ UNCHANGED <<broker, outages, config, client, clients, producer, made, dropped>>

\* ... and is acknowledged;
Acknowledged(c) ==
    /\ At(c, "ack") /\ ~call[c].cut
    /\ Return(c, "sent")
    /\ UNCHANGED <<broker, outages, topic, config, client, clients, producer, made, dropped>>

\* no broker or no leader is found: the client is dropped, and the producer that
\* holds it is kept;
Swallowed(c, outcome) == Return(c, "sent")   \* mutant: the exception is only logged
Raised(c, outcome) == Return(c, outcome)
Unavailable(c) ==
    /\ At(c, "send") /\ broker = "down"
    /\ client' = [client EXCEPT ![call[c].publisher] = NoClient]
    /\ Raised(c, "unavailable")
    /\ UNCHANGED <<broker, outages, topic, config, clients, producer, made, dropped>>

\* the connection fails before the message was sent, or before its acknowledgement.
ConnectionFails(c) ==
    /\ \/ InFlight(call[c]) /\ call[c].cut
       \/ At(c, "send") /\ broker = "down"
    /\ Raised(c, "unknown")
    /\ UNCHANGED <<broker, outages, topic, config, client, clients, producer, made, dropped>>

\* The thread of an asynchronous producer sends what is queued, and logs a failure.
Drain(p, i) ==
    LET queue == made[p][i].queue
    IN  /\ queue # <<>>
        /\ made' = [made EXCEPT ![p][i].queue = Tail(@)]
        /\ IF broker = "up" THEN topic' = [topic EXCEPT ![p] = Append(@, Head(queue))]
                                 /\ UNCHANGED dropped
                            ELSE dropped' = dropped \cup {Head(queue)} /\ UNCHANGED topic
        /\ UNCHANGED <<broker, outages, config, client, clients, producer, call>>
------------------------------------------------------------------------------
BrokerDown ==
    /\ broker = "up" /\ outages < MaxOutages
    /\ broker' = "down"
    /\ outages' = outages + 1
    /\ call' = [c \in Callers |-> Cut(call[c], call[c].publisher, call[c].using)]
    /\ UNCHANGED <<topic, config, client, clients, producer, made, dropped>>

BrokerUp ==
    /\ broker = "down"
    /\ broker' = "up"
    /\ UNCHANGED <<outages, topic, config, client, clients, producer, made, call, dropped>>

\* The process dies with its queues; gunicorn starts another.
Restart ==
    /\ client' = [p \in Publishers |-> NoClient]
    /\ clients' = [p \in Publishers |-> 0]
    /\ producer' = [p \in Publishers |-> NoProducer]
    /\ made' = [p \in Publishers |-> <<>>]
    /\ call' = [c \in Callers |-> NoCall]
    /\ dropped' = dropped \cup UNION {UNION {ToSet(made[p][i].queue) : i \in DOMAIN made[p]} :
                                          p \in Publishers}
    /\ UNCHANGED <<broker, outages, topic, config>>

EndCall(c) ==
    /\ call' = [call EXCEPT ![c] = NoCall]
    /\ UNCHANGED <<broker, outages, topic, config, client, clients, producer, made, dropped>>

CallStep(c) ==
    \/ Connect(c) \/ ConnectFails(c) \/ TryAgain(c) \/ GiveUp(c)
    \/ Reach(c) \/ Acknowledged(c) \/ Unavailable(c) \/ ConnectionFails(c)
==============================================================================
