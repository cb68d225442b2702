---------------------------- MODULE IngestionHistory ----------------------------
(***************************************************************************)
(* Theorems about what the topics of module Ingestion hold, for every      *)
(* number of requests and of metrics, any options, outages and restarts:   *)
(* messages come in the order of the requests, what was accepted is        *)
(* published or queued or known to be dropped, and what is published of a  *)
(* request is the beginning of it.                                         *)
(***************************************************************************)
EXTENDS IngestionProofs

------------------------------------------------------------------------------
(* The queues, message by message.                                         *)

Spot(p, n, i) == n \in 1..Len(made[p]) /\ i \in 1..Len(made[p][n].queue)

\* A message belongs to its topic, and comes from a request that has got that far; not
\* yet the one that a call is about to send.
Busy == {"connect", "wait", "send"}
Filed(p, m) ==
    LET r == m[1]
    IN  /\ request[r].publisher = p /\ pc[r] # "idle" /\ m[2] <= next[r]
        /\ call[r].place \in Busy => m[2] < next[r]
FiledInv ==
    \A p \in Publishers :
        /\ \A i \in 1..Len(topic[p]) : Filed(p, topic[p][i])
        /\ \A n \in 1..Len(made[p]) : \A i \in 1..Len(made[p][n].queue) :
                Filed(p, made[p][n].queue[i])

\* Who had been answered before a request came in is done, and published first.
OrderInv ==
    \A r \in Requests : \A q \in request[r].after :
        /\ pc[q] = "done"
        /\ ~ config.async => \A p \in Publishers : \A i, j \in 1..Len(topic[p]) :
                topic[p][i][1] = r /\ topic[p][j][1] = q => j < i

\* Where a message has come to: its topic, or a queue, or nowhere any more.
Arrived(p, m) ==
    \/ \E i \in 1..Len(topic[p]) : topic[p][i] = m
    \/ config.async /\ m \in dropped
    \/ config.async /\ \E n \in 1..Len(made[p]) : \E i \in 1..Len(made[p][n].queue) :
                            made[p][n].queue[i] = m
Delivered(r) ==
    LET p == request[r].publisher
        c == call[r]
    IN  /\ pc[r] = "sending" => \A k \in 1..(next[r] - 1) : Arrived(p, <<r, k>>)
        /\ c.message \in Items /\ (c.place = "ack" \/ (c.place = "returned" /\ c.outcome = "sent")) =>
                Arrived(p, c.message)
        /\ answer[r] = 204 /\ ~ config.dropData =>
                \A k \in 1..request[r].size : Arrived(p, <<r, k>>)
DeliveryInv == \A r \in Requests : Delivered(r)

\* No message is in two places.
OnceInv ==
    \A p \in Publishers :
        /\ \A i, j \in 1..Len(topic[p]) : topic[p][i] = topic[p][j] => i = j
        /\ \A n \in 1..Len(made[p]) : \A i \in 1..Len(made[p][n].queue) :
             /\ \A j \in 1..Len(topic[p]) : topic[p][j] # made[p][n].queue[i]
             /\ \A o \in 1..Len(made[p]) : \A j \in 1..Len(made[p][o].queue) :
                    made[p][o].queue[j] = made[p][n].queue[i] => o = n /\ j = i

\* Nothing comes of a request that is refused, and of others what came first.
RefusedInv ==
    \A r \in Requests :
        /\ answer[r] \in {400, 401, 406} => next[r] = 0
        /\ call[r].place = "returned" /\ call[r].outcome = "malformed" => call[r].message = Malformed
PrefixInv ==
    ~ config.async => \A p \in Publishers : \A i \in 1..Len(topic[p]) :
        \A k \in 1..(topic[p][i][2] - 1) : \E j \in 1..(i - 1) : topic[p][j] = <<topic[p][i][1], k>>

------------------------------------------------------------------------------
(* What a step does to the messages in the queues.                         *)

\* A place in a queue that a step leaves alone.
SpotStays(p, n, i) ==
    /\ Spot(p, n, i)' <=> Spot(p, n, i)
    /\ Spot(p, n, i) => made'[p][n].queue[i] = made[p][n].queue[i]

LEMMA SameSpots ==
    ASSUME NEW p, NEW n, SameProducer(p, n), Len(made'[p]) >= Len(made[p]), Len(made[p]) \in Nat,
           Len(made'[p]) \in Nat
    PROVE  \A i \in Nat : SpotStays(p, n, i)
  BY DEF SameProducer, SpotStays, Spot

\* Handing a message over adds one place to a queue, or none.
LEMMA PutSpots ==
    ASSUME TypeInv, NEW p \in Publishers, NEW m \in Items \cup {NoMessage, Malformed},
           NEW cl \in Nat, Stores(p, Queue(m), cl)
    PROVE  \/ /\ \A q \in Publishers : \A n, i \in Nat : SpotStays(q, n, i)
              /\ config.async /\ m \in Items => cl = NoClient
           \/ /\ m \in Items /\ config.async
              /\ \E u, v \in Nat :
                   /\ Spot(p, u, v)' /\ ~ Spot(p, u, v) /\ made'[p][u].queue[v] = m
                   /\ \A q \in Publishers : \A n, i \in Nat :
                        q # p \/ n # u \/ i # v => SpotStays(q, n, i)
<1>1. /\ Queue(m) \in Seq(Items) /\ Len(made[p]) \in Nat
      /\ Queue(m) = <<>> \/ (Queue(m) = <<m>> /\ m \in Items /\ config.async)
      /\ config.async /\ m \in Items => Queue(m) = <<m>>
  BY QueueIs, ItemIs, MadeIs
<1>2. \A q \in Publishers \ {p} : \A n, i \in Nat : SpotStays(q, n, i)
  <2> SUFFICES ASSUME NEW q \in Publishers \ {p} PROVE \A n, i \in Nat : SpotStays(q, n, i)
    OBVIOUS
  <2>1. made'[q] = made[q]
    BY <1>1, StoresIs
  <2> QED
    BY <2>1 DEF SpotStays, Spot
<1>3. CASE made' = made /\ CannotCopy(cl)
  <2>1. \A q \in Publishers : \A n, i \in Nat : SpotStays(q, n, i)
    BY <1>3 DEF SpotStays, Spot
  <2> QED
    BY <1>3, <2>1 DEF CannotCopy
<1>4. CASE \E u \in 1..Len(made'[p]) :
              /\ LongerQueue(p, u, Queue(m), cl) \/ NewProducer(p, u, Queue(m), cl)
              /\ \A n \in 1..Len(made'[p]) : n # u => SameProducer(p, n)
              /\ Len(made'[p]) = IF u <= Len(made[p]) THEN Len(made[p]) ELSE u
  <2>1. PICK u \in 1..Len(made'[p]) :
              /\ LongerQueue(p, u, Queue(m), cl) \/ NewProducer(p, u, Queue(m), cl)
              /\ \A n \in 1..Len(made'[p]) : n # u => SameProducer(p, n)
              /\ Len(made'[p]) = IF u <= Len(made[p]) THEN Len(made[p]) ELSE u
    BY <1>4
  <2>2. /\ Len(made[p]) <= Len(made'[p]) /\ Len(made'[p]) \in Nat /\ u \in Nat
        /\ \A n \in 1..Len(made'[p]) : n # u => n \in 1..Len(made[p])
    <3>1. u \in Nat /\ Len(made[p]) <= Len(made'[p])
      BY <2>1, StoresIs
    <3> QED
      BY <1>1, <2>1, <3>1 DEF SameProducer
  <2>3. \A n, i \in Nat : n # u => SpotStays(p, n, i)
    <3> SUFFICES ASSUME NEW n \in Nat, NEW i \in Nat, n # u PROVE SpotStays(p, n, i)
      OBVIOUS
    <3>1. CASE n \in 1..Len(made'[p])
      <4>1. SameProducer(p, n)
        BY <2>1, <3>1
      <4> QED
        BY <1>1, <2>2, <4>1, SameSpots
    <3>2. CASE n \notin 1..Len(made'[p])
      BY <1>1, <2>2, <3>2 DEF SpotStays, Spot
    <3> QED
      BY <3>1, <3>2
  <2>4. /\ Len(made'[p][u].queue) \in Nat
        /\ u \in 1..Len(made[p]) =>
             /\ made[p][u].queue \in Seq(Items) /\ Len(made[p][u].queue) \in Nat
             /\ made'[p][u].queue = made[p][u].queue \o Queue(m)
             /\ Len(made'[p][u].queue) = Len(made[p][u].queue) + Len(Queue(m))
             /\ \A i \in 1..Len(made[p][u].queue) : made'[p][u].queue[i] = made[p][u].queue[i]
             /\ Queue(m) = <<m>> => made'[p][u].queue[Len(made[p][u].queue) + 1] = m
        /\ u \notin 1..Len(made[p]) => made'[p][u].queue = Queue(m)
    <3>1. CASE LongerQueue(p, u, Queue(m), cl)
      <4>1. u \in 1..Len(made[p]) /\ made'[p][u].queue = made[p][u].queue \o Queue(m)
        BY <3>1 DEF LongerQueue
      <4>2. made[p][u].queue \in Seq(Items)
        BY <4>1, MadeIs
      <4> DEFINE old == made[p][u].queue
                 new == Queue(m)
                 long == made'[p][u].queue
      <4>3. /\ old \in Seq(Items) /\ new \in Seq(Items) /\ long = old \o new
            /\ u \in 1..Len(made[p])
        BY <1>1, <4>1, <4>2
      <4> HIDE DEF old, new, long
      <4>4. Len(old) \in Nat /\ Len(new) \in Nat /\ Len(long) = Len(old) + Len(new)
        BY <4>3, ConcatProperties, LenProperties
      <4>5. \A i \in 1..Len(old) : long[i] = old[i]
        BY <4>3, <4>4, ConcatProperties
      <4>6. new = <<m>> => long[Len(old) + 1] = m
        BY <4>3, <4>4, ConcatProperties
      <4>7. Len(long) \in Nat
        BY <4>4
      <4> QED
        BY <4>3, <4>4, <4>5, <4>6, <4>7 DEF old, new, long
    <3>2. CASE NewProducer(p, u, Queue(m), cl)
      BY <1>1, <3>2, LenProperties DEF NewProducer
    <3> QED
      BY <2>1, <3>1, <3>2
  <2>5. CASE Queue(m) = <<>>
    <3>1. \A i \in Nat : SpotStays(p, u, i)
      BY <2>1, <2>2, <2>4, <2>5 DEF SpotStays, Spot
    <3>2. ~ (config.async /\ m \in Items)
      BY <1>1, <2>5
    <3> QED
      BY <1>2, <2>3, <3>1, <3>2
  <2>6. CASE Queue(m) = <<m>> /\ m \in Items /\ config.async
    <3>1. PICK v \in Nat : /\ Spot(p, u, v)' /\ ~ Spot(p, u, v) /\ made'[p][u].queue[v] = m
                           /\ \A i \in Nat : i # v => SpotStays(p, u, i)
      <4>1. Len(Queue(m)) = 1 /\ Queue(m)[1] = m
        BY <2>6
      <4>2. CASE u \in 1..Len(made[p])
        <5>1. PICK v \in Nat : /\ v = Len(made[p][u].queue) + 1
                               /\ Len(made'[p][u].queue) = v /\ made'[p][u].queue[v] = m
          BY <2>4, <2>6, <4>1, <4>2
        <5>2. Spot(p, u, v)' /\ ~ Spot(p, u, v)
          BY <2>1, <2>4, <4>2, <5>1 DEF Spot
        <5>3. \A i \in Nat : i # v => SpotStays(p, u, i)
          BY SMTT(20), <2>1, <2>4, <4>2, <5>1 DEF SpotStays, Spot
        <5> QED
          BY <5>1, <5>2, <5>3
      <4>3. CASE u \notin 1..Len(made[p])
        <5>1. Len(made'[p][u].queue) = 1 /\ made'[p][u].queue[1] = m
          BY <2>4, <4>1, <4>3
        <5>2. Spot(p, u, 1)' /\ ~ Spot(p, u, 1)
          BY <2>1, <4>3, <5>1 DEF Spot
        <5>3. \A i \in Nat : i # 1 => SpotStays(p, u, i)
          BY <4>3, <5>1 DEF SpotStays, Spot
        <5> QED
          BY <5>1, <5>2, <5>3
      <4> QED
        BY <4>2, <4>3
    <3>3. \A q \in Publishers : \A n, i \in Nat : q # p \/ n # u \/ i # v => SpotStays(q, n, i)
      BY <1>2, <2>3, <3>1
    <3> QED
      BY <2>2, <2>6, <3>1, <3>3
  <2> QED
    BY <1>1, <2>5, <2>6
<1> QED
  BY <1>1, <1>3, <1>4, StoresIs

\* A queue that is drained moves up by one.
LEMMA DrainSpots ==
    ASSUME TypeInv, NEW p \in Publishers, NEW n \in DOMAIN made[p], Drain(p, n)
    PROVE  /\ Spot(p, n, 1) /\ made[p][n].queue[1] = Head(made[p][n].queue)
           /\ \A i \in Nat : Spot(p, n, i)' => /\ Spot(p, n, i + 1)
                                               /\ made'[p][n].queue[i] = made[p][n].queue[i + 1]
           /\ \A i \in Nat \ {0} : Spot(p, n, i + 1) =>
                /\ Spot(p, n, i)' /\ made'[p][n].queue[i] = made[p][n].queue[i + 1]
           /\ \A q \in Publishers : \A o, i \in Nat : q # p \/ o # n => SpotStays(q, o, i)
<1> DEFINE queue == made[p][n].queue
<1>1. /\ n \in 1..Len(made[p]) /\ queue \in Seq(Items) /\ queue # <<>>
      /\ made'[p][n].queue = Tail(queue) /\ Len(made'[p]) = Len(made[p])
      /\ \A q \in Publishers \ {p} : made'[q] = made[q]
      /\ \A i \in 1..Len(made[p]) : i # n => made'[p][i] = made[p][i]
  BY DrainIs
<1>2. /\ Len(queue) \in Nat \ {0} /\ Len(Tail(queue)) = Len(queue) - 1
      /\ \A i \in 1..Len(Tail(queue)) : Tail(queue)[i] = queue[i + 1]
      /\ Head(queue) = queue[1]
  BY <1>1, HeadTailProperties, EmptySeq, LenProperties
<1> QED
  BY SMTT(30), <1>1, <1>2 DEF Spot, SpotStays


------------------------------------------------------------------------------
(* What is filed.                                                          *)

LEMMA FiledStays ==
    ASSUME TypeInv, [Next]_vars, NEW p \in Publishers, NEW m \in Items, Filed(p, m)
    PROVE  Filed(p, m)'
<1> DEFINE r == m[1]
<1>1. r \in Requests /\ m[2] \in Nat \ {0} /\ pc[r] # "idle" /\ m[2] <= next[r]
  BY ItemIs, NumbersAre DEF Filed
<1>2. /\ request'[r] = request[r] /\ pc'[r] # "idle" /\ next[r] \in Nat
      /\ next'[r] \in {next[r], next[r] + 1}
  BY <1>1, RequestKept
<1>3. ASSUME call'[r].place \in Busy PROVE m[2] < next'[r]
  <2>1. CASE StillAs(r) \/ Waits(r)
    BY <1>3, <2>1 DEF StillAs, Waits, Filed, Busy
  <2>2. CASE \E q \in Publishers, x \in Items \cup {NoMessage, Malformed} :
                Asks(r, q, x) \/ \E cl \in Nat : Puts(r, q, x, cl)
    <3>1. PICK q \in Publishers, x \in Items \cup {NoMessage, Malformed} :
                Asks(r, q, x) \/ \E cl \in Nat : Puts(r, q, x, cl)
      BY <2>2
    <3>2. SendsNow(r, q, x) \/ HasWaited(r, q, x)
      BY <3>1 DEF Asks, Puts
    <3>3. CASE SendsNow(r, q, x)
      BY <1>1, <1>2, <3>3 DEF SendsNow
    <3>4. CASE HasWaited(r, q, x)
      BY <3>4 DEF HasWaited, Filed, Busy
    <3> QED
      BY <3>2, <3>3, <3>4
  <2>3. ~ Returns(r) /\ ~ Ends(r)
    BY <1>3 DEF Returns, Ends, NoCall, Busy
  <2>4. ~ \E q \in Publishers : Reaches(r, q)
    <3>1. call[r] \in Calls
      BY <1>1 DEF TypeInv, HandlersOK
    <3> QED
      BY <1>1, <1>3, <3>1 DEF Reaches, Busy, TypeInv, HandlersOK, Calls
  <2> QED
    BY <1>1, <2>1, <2>2, <2>3, <2>4, StepCalls
<1>4. m[2] <= next'[r]
  BY <1>1, <1>2
<1> QED
  BY <1>1, <1>2, <1>3, <1>4 DEF Filed

\* The message that a call has just sent, or queued, is filed.
LEMMA FiledNow ==
    ASSUME TypeInv, TypeInv', NEW r \in Requests, NEW p \in Publishers,
           NEW m \in Items, call'[r].message = m, call'[r].publisher = p,
           call'[r].place \notin Busy \cup {"none"}
    PROVE  Filed(p, m)'
<1>1. pc'[r] = "sending" /\ request'[r].publisher = p
  BY DEF TypeInv, WhereOK, NoCall
<1>2. m = <<r, next'[r]>>
  BY <1>1, ItemIs DEF TypeInv, WhereOK, MessageOK
<1>3. next'[r] \in Nat
  BY NumbersAre DEF TypeInv, HandlersOK
<1> QED
  BY <1>1, <1>2, <1>3 DEF Filed

\* A call that puts a message in a queue has returned, and sent it as far as it knows.
LEMMA PutReturns ==
    ASSUME TypeInv, NEW r \in Requests, NEW p \in Publishers, NEW m \in Items, NEW cl \in Nat,
           Puts(r, p, m, cl), config.async
    PROVE  call'[r].place = "returned" /\ call'[r].message = m /\ call'[r].publisher = p
<1>1. PICK k \in Calls : k.message = m /\ k.publisher = p /\ call'[r] = Handed(k, cl)
  BY DEF Puts
<1> QED
  BY <1>1, HandedIs

\* The message that comes to a topic from a call.
LEMMA ReachIs ==
    ASSUME TypeInv, NEW r \in Requests, NEW p \in Publishers, Reaches(r, p)
    PROVE  /\ call[r].message \in Items /\ call[r].message = <<r, next[r]>> /\ pc[r] = "sending"
           /\ request[r].publisher = p /\ ~ config.async
           /\ call'[r].message = call[r].message /\ call'[r].publisher = p /\ call'[r].place = "ack"
           /\ topic' = [topic EXCEPT ![p] = Append(@, call[r].message)]
<1>1. /\ call[r].place = "send" /\ call[r].publisher = p
      /\ topic' = [topic EXCEPT ![p] = Append(@, call[r].message)]
      /\ call' = [call EXCEPT ![r].place = "ack"]
  BY DEF Reaches
<1>2. pc[r] = "sending" /\ call[r] \in Calls /\ MessageOK(r) /\ request[r].publisher = p
  BY <1>1, CallingIs
<1>3. call[r].message \in Items /\ call[r].message = <<r, next[r]>>
  BY <1>1, <1>2, ItemIs DEF TypeInv, CallOK, MessageOK, Calls
<1>4. ~ config.async
  BY <1>1 DEF TypeInv, ModeOK
<1>5. call'[r].message = call[r].message /\ call'[r].publisher = p /\ call'[r].place = "ack"
  BY <1>1, <1>2 DEF TypeInv, HandlersOK, Calls
<1> QED
  BY <1>1, <1>2, <1>3, <1>4, <1>5

\* The message that comes to a topic from a queue.
LEMMA DrainTopic ==
    ASSUME TypeInv, NEW p \in Publishers, NEW n \in DOMAIN made[p], Drain(p, n)
    PROVE  LET m == Head(made[p][n].queue)
           IN  /\ m \in Items /\ m = made[p][n].queue[1] /\ Spot(p, n, 1) /\ config.async
               /\ \/ topic' = [topic EXCEPT ![p] = Append(@, m)] /\ dropped' = dropped
                  \/ topic' = topic /\ dropped' = dropped \cup {m}
  BY DrainIs, DrainSpots DEF Drain

\* Where the messages of a queue come from.
LEMMA SpotFrom ==
    ASSUME TypeInv, [Next]_vars, NEW p \in Publishers, NEW n \in Nat, NEW i \in Nat, Spot(p, n, i)'
    PROVE  \/ \E j \in Nat : Spot(p, n, j) /\ made'[p][n].queue[i] = made[p][n].queue[j]
           \/ \E r \in Requests, m \in Items, cl \in Nat :
                Puts(r, p, m, cl) /\ config.async /\ made'[p][n].queue[i] = m
<1>1. CASE made' = made
  BY <1>1 DEF Spot
<1>2. CASE \E r \in Requests, q \in Publishers, m \in Items \cup {NoMessage, Malformed}, cl \in Nat :
              Puts(r, q, m, cl)
  <2>1. PICK r \in Requests, q \in Publishers, m \in Items \cup {NoMessage, Malformed}, cl \in Nat :
              Puts(r, q, m, cl)
    BY <1>2
  <2>2. Stores(q, Queue(m), cl)
    BY <2>1 DEF Puts
  <2>3. CASE SpotStays(p, n, i)
    BY <2>3 DEF SpotStays
  <2>4. CASE ~ SpotStays(p, n, i)
    <3>1. /\ m \in Items /\ config.async
          /\ \E u, v \in Nat :
               /\ Spot(q, u, v)' /\ ~ Spot(q, u, v) /\ made'[q][u].queue[v] = m
               /\ \A s \in Publishers : \A o, j \in Nat :
                        s # q \/ o # u \/ j # v => SpotStays(s, o, j)
      BY ZenonT(60), <2>2, <2>4, PutSpots
    <3>2. q = p /\ made'[p][n].queue[i] = m
      BY <2>4, <3>1
    <3> QED
      BY <2>1, <3>1, <3>2
  <2> QED
    BY <2>3, <2>4
<1>3. CASE \E q \in Publishers : Drains(q)
  <2>1. PICK q \in Publishers : Drains(q)
    BY <1>3
  <2>2. PICK k \in DOMAIN made[q] : Drain(q, k)
    BY <2>1 DEF Drains
  <2>3. CASE q = p /\ n = k
    BY <2>2, <2>3, DrainSpots
  <2>4. CASE q # p \/ n # k
    <3>1. SpotStays(p, n, i)
      BY <2>2, <2>4, DrainSpots
    <3> QED
      BY <3>1 DEF SpotStays
  <2> QED
    BY <2>3, <2>4
<1>4. ~ ProcessRestarts
  <2> SUFFICES ASSUME ProcessRestarts PROVE FALSE
    OBVIOUS
  <2>1. made'[p] = <<>>
    BY DEF ProcessRestarts, Restart
  <2> QED
    BY <2>1, EmptySeq DEF Spot
<1> QED
  BY <1>1, <1>2, <1>3, <1>4, StepMade

LEMMA StepFiled == TypeInv /\ TypeInv' /\ FiledInv /\ [Next]_vars => FiledInv'
<1> SUFFICES ASSUME TypeInv, TypeInv', FiledInv, [Next]_vars, NEW p \in Publishers
             PROVE  /\ \A i \in 1..Len(topic'[p]) : Filed(p, topic[p][i])'
                    /\ \A n \in 1..Len(made'[p]) : \A i \in 1..Len(made'[p][n].queue) :
                            Filed(p, made[p][n].queue[i])'
  BY DEF FiledInv
<1>1. ASSUME NEW x, x = topic'[p] PROVE \A i \in 1..Len(x) : \A m : m = x[i] => Filed(p, m)'
  <2>1. \A i \in 1..Len(topic[p]) : topic[p][i] \in Items /\ Filed(p, topic[p][i])
    BY TopicIs DEF FiledInv
  <2>2. \A m : (\E i \in 1..Len(topic[p]) : m = topic[p][i]) => Filed(p, m)'
    BY <2>1, FiledStays
  <2>3. CASE topic'[p] = topic[p]
    BY <1>1, <2>2, <2>3
  <2>4. ASSUME NEW m \in Items, Filed(p, m)', topic' = [topic EXCEPT ![p] = Append(@, m)]
        PROVE  \A i \in 1..Len(x) : \A y : y = x[i] => Filed(p, y)'
    <3>1. /\ Len(x) = Len(topic[p]) + 1 /\ Len(topic[p]) \in Nat
          /\ x[Len(topic[p]) + 1] = m
          /\ \A i \in 1..Len(topic[p]) : x[i] = topic[p][i]
      BY <1>1, <2>4, TopicGrows, TopicIs
    <3>2. \A i \in 1..Len(x) : i \in 1..Len(topic[p]) \/ i = Len(topic[p]) + 1
      BY <3>1
    <3> QED
      BY <2>2, <2>4, <3>1, <3>2
  <2>5. CASE \E r \in Requests, q \in Publishers : Reaches(r, q)
    <3>1. PICK r \in Requests, q \in Publishers : Reaches(r, q)
      BY <2>5
    <3>2. CASE q = p
      <4>1. Filed(p, call[r].message)'
        <5>1. ASSUME NEW m, m = call[r].message PROVE Filed(p, m)'
          BY <3>1, <3>2, <5>1, ReachIs, FiledNow DEF Busy
        <5>2. call'[r].message = call[r].message
          BY <3>1, ReachIs
        <5> QED
          BY <5>1, <5>2
      <4>2. ASSUME NEW m, m = call[r].message PROVE m \in Items /\ Filed(p, m)'
        BY <3>1, <3>2, <4>2, ReachIs, FiledNow DEF Busy
      <4> QED
        BY <2>4, <3>1, <3>2, <4>2, ReachIs
    <3>3. CASE q # p
      BY <2>3, <3>1, <3>3, ReachIs, TopicGrows
    <3> QED
      BY <3>2, <3>3
  <2>6. CASE \E q \in Publishers : Drains(q)
    <3>1. PICK q \in Publishers : Drains(q)
      BY <2>6
    <3>2. PICK n \in DOMAIN made[q] : Drain(q, n)
      BY <3>1 DEF Drains
    <3>3. PICK m \in Items : /\ m = made[q][n].queue[1] /\ Spot(q, n, 1)
                             /\ topic' \in {topic, [topic EXCEPT ![q] = Append(@, m)]}
      BY <3>2, DrainTopic
    <3>4. Filed(q, m)
      BY <3>3 DEF FiledInv, Spot
    <3>5. Filed(q, m)'
      BY <3>4, FiledStays
    <3>6. CASE q = p
      BY <2>3, <2>4, <3>3, <3>5, <3>6
    <3>7. CASE q # p
      BY <2>3, <3>3, <3>7, TopicGrows
    <3> QED
      BY <3>6, <3>7
  <2> QED
    BY <2>3, <2>5, <2>6, TopicStep
<1>2. ASSUME NEW n \in Nat, NEW i \in Nat, Spot(p, n, i)', NEW m, m = made'[p][n].queue[i]
      PROVE  Filed(p, m)'
  <2>1. CASE \E j \in Nat : Spot(p, n, j) /\ m = made[p][n].queue[j]
    <3>1. PICK j \in Nat : Spot(p, n, j) /\ m = made[p][n].queue[j]
      BY <2>1
    <3>2. Filed(p, m)
      BY <3>1 DEF FiledInv, Spot
    <3>3. m \in Items
      BY <3>1, MadeIs, ElementOfSeq DEF Spot
    <3> QED
      BY <3>2, <3>3, FiledStays
  <2>2. CASE \E r \in Requests, x \in Items, cl \in Nat :
                Puts(r, p, x, cl) /\ config.async /\ m = x
    <3>1. PICK r \in Requests, cl \in Nat : Puts(r, p, m, cl) /\ config.async /\ m \in Items
      BY <2>2
    <3>2. call'[r].place = "returned" /\ call'[r].message = m /\ call'[r].publisher = p
      BY <3>1, PutReturns
    <3> QED
      BY <3>1, <3>2, FiledNow DEF Busy
  <2> QED
    BY <1>2, <2>1, <2>2, SpotFrom
<1>3. \A i \in 1..Len(topic'[p]) : Filed(p, topic[p][i])'
  BY <1>1
<1>4. \A n \in 1..Len(made'[p]) : \A i \in 1..Len(made'[p][n].queue) : Filed(p, made[p][n].queue[i])'
  BY <1>2 DEF Spot
<1> QED
  BY <1>3, <1>4


LEMMA Filing == Spec => []FiledInv
<1>1. Init => FiledInv
  BY EmptySeq DEF Init, InitPublisher, FiledInv
<1> QED
  BY <1>1, StepFiled, Typed, PTL DEF Spec

------------------------------------------------------------------------------
(* The order of the requests.                                              *)

\* A request is what it was, or comes in.
LEMMA ComesIn ==
    ASSUME TypeInv, [Next]_vars, NEW r \in Requests
    PROVE  \/ request'[r] = request[r]
           \/ pc[r] = "idle" /\ request'[r].after = {x \in Requests : pc[x] = "done"}
<1>1. CASE \E s \in Requests, p \in Publishers, n \in Sizes \cup {0, 1} : Accept(s, p, n)
  BY <1>1 DEF Accept, TypeInv, HandlersOK
<1>2. CASE UNCHANGED request
  BY <1>2
<1> QED
  BY <1>1, <1>2, StepIs DEF Refuses, Begins, GoesOn, Finishes, Transport, Drains, handlerVars,
     BrokerGoesDown, BrokerComesUp, ProcessRestarts, vars

LEMMA StepOrder == TypeInv /\ FiledInv /\ OrderInv /\ [Next]_vars => OrderInv'
<1> SUFFICES ASSUME TypeInv, FiledInv, OrderInv, [Next]_vars,
                    NEW r \in Requests, NEW q \in request'[r].after
             PROVE  /\ pc'[q] = "done"
                    /\ ~ config'.async => \A p \in Publishers : \A i, j \in 1..Len(topic'[p]) :
                            topic'[p][i][1] = r /\ topic'[p][j][1] = q => j < i
  BY DEF OrderInv
<1>1. q \in Requests /\ pc[q] = "done"
  <2>1. request[r].after \subseteq Requests
    BY DEF TypeInv, HandlersOK
  <2> QED
    BY <2>1, ComesIn DEF OrderInv
<1>2. pc'[q] = "done" /\ config' = config
  BY <1>1, RequestKept
<1>3. ASSUME NEW p \in Publishers, ~ config.async, NEW x, x = topic'[p],
             NEW i \in 1..Len(x), NEW j \in 1..Len(x), x[i][1] = r, x[j][1] = q
      PROVE  j < i
  <2>1. ASSUME NEW k \in 1..Len(topic[p]), NEW l \in 1..Len(topic[p]),
               topic[p][k][1] = r, topic[p][l][1] = q
        PROVE  l < k
    <3>1. CASE request'[r] = request[r]
      BY <1>3, <2>1, <3>1 DEF OrderInv
    <3>2. CASE pc[r] = "idle"
      BY <2>1, <3>2 DEF FiledInv, Filed
    <3> QED
      BY <3>1, <3>2, ComesIn
  <2>2. CASE topic'[p] = topic[p]
    BY <1>3, <2>1, <2>2
  <2>3. CASE \E s \in Requests : Reaches(s, p)
    <3>1. PICK s \in Requests : Reaches(s, p)
      BY <2>3
    <3>2. PICK m \in Items : /\ m = <<s, next[s]>> /\ pc[s] = "sending"
                             /\ topic' = [topic EXCEPT ![p] = Append(@, m)]
      BY ZenonT(60), <3>1, ReachIs
    <3>3. m[1] # q
      BY <1>1, <3>2
    <3>4. /\ Len(x) = Len(topic[p]) + 1 /\ Len(topic[p]) \in Nat /\ x[Len(topic[p]) + 1] = m
          /\ \A k \in 1..Len(topic[p]) : x[k] = topic[p][k]
      BY <1>3, <3>2, TopicGrows, TopicIs
    <3>5. j \in 1..Len(topic[p])
      BY <1>3, <3>3, <3>4
    <3> QED
      BY SMTT(20), <1>3, <2>1, <3>4, <3>5
  <2>4. ASSUME NEW s \in Publishers, Drains(s) PROVE FALSE
    BY <1>3, <2>4, DrainTopic DEF Drains
  <2>5. ASSUME NEW s \in Requests, NEW o \in Publishers \ {p}, Reaches(s, o)
        PROVE  topic'[p] = topic[p]
    BY <2>5, ReachIs, TopicGrows
  <2> QED
    BY <2>2, <2>3, <2>4, <2>5, TopicStep
<1> QED
  BY <1>2, <1>3

\* What came first is first on the topic: a message of a request that came after
\* another had been answered is behind all of that one, when no queues are between.
THEOREM MessagesInRealTimeOrder == Spec => []InRealTimeOrder
<1>1. Init => OrderInv
  BY DEF Init, OrderInv, NoRequest
<1>2. TypeInv /\ OrderInv => InRealTimeOrder
  <2> SUFFICES ASSUME TypeInv, OrderInv, NEW r \in Requests, NEW q \in Requests,
                      q \in request[r].after, ~ config.async,
                      NEW t, t = topic[request[r].publisher],
                      NEW i \in DOMAIN t, NEW j \in DOMAIN t, t[i][1] = r, t[j][1] = q
               PROVE  j < i
    BY DEF InRealTimeOrder
  <2>1. request[r].publisher \in Publishers
    BY DEF TypeInv, WhereOK, NoRequest
  <2>2. DOMAIN t = 1..Len(t)
    BY <2>1, TopicIs, LenProperties
  <2> QED
    BY <2>1, <2>2 DEF OrderInv
<1> QED
  BY <1>1, <1>2, StepOrder, Typed, Filing, PTL DEF Spec


------------------------------------------------------------------------------
(* What becomes of a message.                                              *)

LEMMA ArrivedStays ==
    ASSUME TypeInv, [Next]_vars, NEW p \in Publishers, NEW m \in Items, pc[m[1]] # "idle",
           Arrived(p, m)
    PROVE  Arrived(p, m)'
<1>1. m[1] \in Requests
  BY ItemIs
<1>2. config' = config
  BY <1>1, RequestKept
<1>3. CASE \E i \in 1..Len(topic[p]) : topic[p][i] = m
  <2>1. PICK i \in 1..Len(topic[p]) : topic[p][i] = m
    BY <1>3
  <2>2. ASSUME NEW x \in Items, NEW q \in Publishers, topic' = [topic EXCEPT ![q] = Append(@, x)]
        PROVE  i \in 1..Len(topic'[p]) /\ topic'[p][i] = m
    BY <2>1, <2>2, TopicGrows, TopicIs
  <2>3. topic' = topic \/ \E x \in Items, q \in Publishers : topic' = [topic EXCEPT ![q] = Append(@, x)]
    BY TopicStep, ReachIs, DrainTopic DEF Drains
  <2>4. i \in 1..Len(topic'[p]) /\ topic'[p][i] = m
    BY <2>1, <2>2, <2>3
  <2> QED
    BY <2>4 DEF Arrived
<1>4. CASE config.async /\ m \in dropped
  <2>1. m \in dropped'
    BY <1>4, StepMade, DrainTopic DEF Puts, Drains, ProcessRestarts, Restart
  <2> QED
    BY <1>2, <1>4, <2>1 DEF Arrived
<1>5. CASE config.async /\ \E n \in 1..Len(made[p]) : \E i \in 1..Len(made[p][n].queue) :
                                made[p][n].queue[i] = m
  <2>1. PICK n \in 1..Len(made[p]), i \in Nat : Spot(p, n, i) /\ made[p][n].queue[i] = m
    BY <1>5 DEF Spot
  <2>2. ASSUME NEW o \in Nat, NEW j \in Nat, Spot(p, o, j)', made'[p][o].queue[j] = m
        PROVE  Arrived(p, m)'
    BY <1>2, <1>5, <2>2 DEF Arrived, Spot
  <2>3. CASE SpotStays(p, n, i)
    BY <2>1, <2>2, <2>3 DEF SpotStays
  <2>4. CASE UNCHANGED made
    BY <2>1, <2>3, <2>4 DEF SpotStays, Spot
  <2>5. CASE \E r \in Requests, q \in Publishers, x \in Items \cup {NoMessage, Malformed}, cl \in Nat :
                Puts(r, q, x, cl)
    <3>1. PICK r \in Requests, q \in Publishers, x \in Items \cup {NoMessage, Malformed}, cl \in Nat :
                Stores(q, Queue(x), cl)
      BY <2>5 DEF Puts
    <3>2. SpotStays(p, n, i)
      BY <2>1, <3>1, PutSpots
    <3> QED
      BY <2>3, <3>2
  <2>6. CASE \E q \in Publishers : Drains(q)
    <3>1. PICK q \in Publishers : Drains(q)
      BY <2>6
    <3>2. PICK o \in DOMAIN made[q] : Drain(q, o)
      BY <3>1 DEF Drains
    <3>3. CASE q # p \/ o # n
      <4>1. SpotStays(p, n, i)
        BY <3>2, <3>3, DrainSpots
      <4> QED
        BY <2>3, <4>1
    <3>4. CASE q = p /\ o = n /\ i = 1
      <4>1. \/ topic' = [topic EXCEPT ![p] = Append(@, m)]
            \/ m \in dropped'
        BY <2>1, <3>2, <3>4, DrainTopic
      <4>2. ASSUME topic' = [topic EXCEPT ![p] = Append(@, m)] PROVE Arrived(p, m)'
        <5>1. Len(topic[p]) \in Nat
          BY TopicIs
        <5>2. Len(topic'[p]) = Len(topic[p]) + 1 /\ topic'[p][Len(topic[p]) + 1] = m
          BY <4>2, TopicGrows
        <5>3. PICK k \in Nat : k = Len(topic[p]) + 1 /\ k \in 1..Len(topic'[p]) /\ topic'[p][k] = m
          BY <5>1, <5>2
        <5> QED
          BY <5>3 DEF Arrived
      <4> QED
        BY <1>2, <1>5, <4>1, <4>2 DEF Arrived
    <3>5. CASE q = p /\ o = n /\ i # 1
      <4>1. i - 1 \in Nat \ {0} /\ i = (i - 1) + 1
        BY <2>1, <3>5, MadeIs DEF Spot
      <4>2. Spot(p, n, i - 1)' /\ made'[p][n].queue[i - 1] = m
        BY <2>1, <3>2, <3>5, <4>1, DrainSpots
      <4> QED
        BY <2>2, <4>1, <4>2
    <3> QED
      BY <3>3, <3>4, <3>5
  <2>7. CASE ProcessRestarts
    <3>1. m \in ToSet(made[p][n].queue) /\ n \in DOMAIN made[p]
      BY <2>1, MadeIs, LenProperties DEF ToSet, Spot
    <3>2. m \in dropped'
      BY <2>7, <3>1 DEF ProcessRestarts, Restart
    <3> QED
      BY <1>2, <1>5, <3>2 DEF Arrived
  <2> QED
    BY <2>4, <2>5, <2>6, <2>7, StepMade
<1> QED
  BY <1>3, <1>4, <1>5 DEF Arrived


\* A request is answered as it comes in, or when its call is over.
LEMMA AnswerIs ==
    ASSUME TypeInv, [Next]_vars, NEW r \in Requests
    PROVE  \/ answer'[r] = answer[r]
           \/ \E p \in Publishers, n \in Sizes \cup {0, 1}, status \in Statuses :
                Refuses(r, p, n, status) /\ answer'[r] = status
           \/ \E status \in Statuses : Finishes(r, status) /\ answer'[r] = status
<1>1. CASE UNCHANGED answer
  BY <1>1
<1>2. CASE \E s \in Requests, p \in Publishers, n \in Sizes \cup {0, 1}, status \in Statuses :
              Refuses(s, p, n, status)
  <2>1. PICK s \in Requests, p \in Publishers, n \in Sizes \cup {0, 1}, status \in Statuses :
              Refuses(s, p, n, status)
    BY <1>2
  <2>2. answer' = [answer EXCEPT ![s] = status] /\ answer \in [Requests -> Statuses \cup {None}]
    BY <2>1 DEF Refuses, Answers, TypeInv, HandlersOK
  <2> QED
    BY <2>1, <2>2
<1>3. CASE \E s \in Requests, status \in Statuses : Finishes(s, status)
  <2>1. PICK s \in Requests, status \in Statuses : Finishes(s, status)
    BY <1>3
  <2>2. answer' = [answer EXCEPT ![s] = status] /\ answer \in [Requests -> Statuses \cup {None}]
    BY <2>1 DEF Finishes, Answers, TypeInv, HandlersOK
  <2> QED
    BY <2>1, <2>2
<1> QED
  BY <1>1, <1>2, <1>3, StepIs DEF Begins, GoesOn, Transport, Drains, handlerVars,
     BrokerGoesDown, BrokerComesUp, ProcessRestarts, vars

\* The number a request has come to.
LEMMA NextIs ==
    ASSUME TypeInv, TypeInv', [Next]_vars, NEW r \in Requests
    PROVE  /\ next[r] \in Nat /\ next'[r] \in Nat
           /\ pc[r] = "idle" => next'[r] \in {0, 1}
           /\ pc[r] = "sending" => \/ next'[r] = next[r]
                                   \/ /\ next'[r] = next[r] + 1
                                      /\ call[r].place = "returned" /\ call[r].outcome = "sent"
<1>1. next[r] \in Nat /\ next'[r] \in Nat
  BY NumbersAre DEF TypeInv, HandlersOK
<1>2. pc[r] = "idle" => next[r] = 0 /\ call[r].place = "none"
  BY DEF TypeInv, WhereOK, NoCall
<1>3. CASE StillAs(r) \/ Waits(r) \/ Returns(r) \/ Ends(r)
  BY <1>1, <1>2, <1>3 DEF StillAs, Waits, Returns, Ends
<1>4. CASE pc[r] = "idle" /\ pc'[r] = "done" /\ call'[r] = NoCall /\ next'[r] = next[r]
  BY <1>1, <1>2, <1>4
<1>5. CASE \E p \in Publishers : Reaches(r, p)
  BY <1>1, <1>2, <1>5 DEF Reaches
<1>6. CASE \E p \in Publishers, m \in Items \cup {NoMessage, Malformed} :
                Asks(r, p, m) \/ \E cl \in Nat : Puts(r, p, m, cl)
  <2>1. PICK p \in Publishers, m \in Items \cup {NoMessage, Malformed} :
                /\ SendsNow(r, p, m) \/ HasWaited(r, p, m)
                /\ call'[r].message = m
    <3>1. PICK p \in Publishers, m \in Items \cup {NoMessage, Malformed} :
                Asks(r, p, m) \/ \E cl \in Nat : Puts(r, p, m, cl)
      BY <1>6
    <3>2. call'[r].message = m /\ (SendsNow(r, p, m) \/ HasWaited(r, p, m))
      BY <3>1, HandedIs DEF Asks, Puts
    <3> QED
      BY <3>2
  <2>2. CASE HasWaited(r, p, m)
    BY <1>1, <1>2, <2>2 DEF HasWaited
  <2>3. CASE SendsNow(r, p, m)
    <3>1. m \in {NoMessage, Malformed} => next'[r] = 0
      <4>1. pc'[r] = "sending" /\ call'[r].message = m
        BY <2>1, <2>3 DEF SendsNow
      <4>2. MessageOK(r)'
        BY <4>1 DEF TypeInv, WhereOK
      <4> QED
        BY <4>1, <4>2, NumbersAre, ItemIs DEF MessageOK, TypeInv, HandlersOK
    <3>2. pc[r] = "sending" => call[r].place # "none"
      BY DEF TypeInv, WhereOK
    <3> QED
      BY <1>1, <1>2, <2>3, <3>1, <3>2 DEF SendsNow
  <2> QED
    BY <2>1, <2>2, <2>3
<1> QED
  BY <1>1, <1>3, <1>4, <1>5, <1>6, StepCalls


\* A message that a call has queued has arrived.
LEMMA PutArrives ==
    ASSUME TypeInv, NEW r \in Requests, NEW p \in Publishers, NEW m \in Items, NEW cl \in Nat,
           Puts(r, p, m, cl), cl # NoClient, config.async
    PROVE  Arrived(p, m)'
<1>1. Stores(p, Queue(m), cl) /\ config' = config
  BY DEF Puts
<1>2. PICK u, v \in Nat : Spot(p, u, v)' /\ made'[p][u].queue[v] = m
  BY <1>1, PutSpots
<1> QED
  BY <1>1, <1>2 DEF Arrived, Spot

\* The metrics before the one that is being sent.
LEMMA ArrivedBefore ==
    ASSUME TypeInv, TypeInv', DeliveryInv, [Next]_vars, NEW r \in Requests, pc'[r] = "sending",
           NEW k \in 1..(next'[r] - 1), NEW p, p = request'[r].publisher
    PROVE  Arrived(p, <<r, k>>)'
<1>1. pc[r] = "sending"
  BY SMTT(20), NextIs, RequestKept DEF TypeInv, HandlersOK
<1>2. /\ request'[r] = request[r] /\ p \in Publishers /\ Delivered(r)
      /\ pc[r] # "idle" /\ next[r] \in Nat /\ next'[r] \in Nat
  BY <1>1, RequestKept, NextIs DEF TypeInv, WhereOK, DeliveryInv
<1>3. ASSUME Arrived(p, <<r, k>>), <<r, k>> \in Items PROVE Arrived(p, <<r, k>>)'
  BY <1>2, <1>3, ArrivedStays
<1>4. <<r, k>> \in Items
  <2>1. next'[r] \in Numbers \cup {0} /\ MessageOK(r)'
    BY DEF TypeInv, HandlersOK, WhereOK
  <2>2. next'[r] \in 1..request'[r].size /\ request'[r].size \in Sizes \cup {0, 1}
    BY <1>2, <2>1 DEF MessageOK, TypeInv, HandlersOK
  <2>3. k \in 1..request'[r].size
    BY <1>2, <2>2, NumbersAre
  <2> QED
    BY <2>2, <2>3, NumbersAre DEF Items
<1>5. CASE k \in 1..(next[r] - 1)
  BY <1>1, <1>2, <1>3, <1>4, <1>5 DEF Delivered
<1>6. CASE k \notin 1..(next[r] - 1)
  <2>1. k = next[r] /\ call[r].place = "returned" /\ call[r].outcome = "sent"
    BY <1>1, <1>2, <1>6, NextIs
  <2>2. call[r].message = <<r, k>>
    BY <1>1, <1>2, <2>1 DEF TypeInv, WhereOK, MessageOK
  <2>3. Arrived(p, <<r, k>>)
    BY <1>2, <1>4, <2>1, <2>2 DEF Delivered
  <2> QED
    BY <1>3, <1>4, <2>3
<1> QED
  BY <1>5, <1>6

\* The message of a call that has sent it.
LEMMA ArrivedNow ==
    ASSUME TypeInv, TypeInv', DeliveryInv, [Next]_vars, NEW r \in Requests,
           NEW m \in Items, m = call'[r].message, NEW p, p = request'[r].publisher,
           call'[r].place = "ack" \/ (call'[r].place = "returned" /\ call'[r].outcome = "sent")
    PROVE  Arrived(p, m)'
<1>1. pc'[r] = "sending" /\ p \in Publishers /\ call'[r].publisher = p
  BY DEF TypeInv, WhereOK, NoCall
<1>2. ASSUME call[r].place = "ack" \/ (call[r].place = "returned" /\ call[r].outcome = "sent"),
             call[r].message = m, request'[r] = request[r]
      PROVE  Arrived(p, m)'
  <2>1. pc[r] = "sending"
    BY <1>2, CallingIs
  <2>2. Arrived(p, m)
    BY <1>2 DEF DeliveryInv, Delivered
  <2>3. m[1] = r
    BY <1>2, <2>1, ItemIs DEF TypeInv, WhereOK, MessageOK
  <2> QED
    BY <1>1, <2>1, <2>2, <2>3, ArrivedStays
<1>3. CASE StillAs(r) \/ Returns(r)
  BY <1>2, <1>3 DEF StillAs, Returns
<1>4. ~ Waits(r) /\ ~ Ends(r) /\ call'[r] # NoCall
  BY DEF Waits, Ends, NoCall
<1>5. CASE \E q \in Publishers : Reaches(r, q)
  <2>1. PICK q \in Publishers : Reaches(r, q)
    BY <1>5
  <2>2. q = p /\ topic' = [topic EXCEPT ![p] = Append(@, m)]
    BY <1>1, <2>1, ReachIs
  <2>3. Len(topic[p]) \in Nat
    BY <1>1, TopicIs
  <2>4. Len(topic'[p]) = Len(topic[p]) + 1 /\ topic'[p][Len(topic[p]) + 1] = m
    BY <1>1, <2>2, TopicGrows
  <2>5. PICK k \in Nat : k = Len(topic[p]) + 1 /\ k \in 1..Len(topic'[p]) /\ topic'[p][k] = m
    BY <2>3, <2>4
  <2> QED
    BY <2>5 DEF Arrived
<1>6. CASE \E q \in Publishers, x \in Items \cup {NoMessage, Malformed} :
                Asks(r, q, x) \/ \E cl \in Nat : Puts(r, q, x, cl)
  <2>1. PICK q \in Publishers, x \in Items \cup {NoMessage, Malformed}, cl \in Nat : Puts(r, q, x, cl)
    BY <1>6 DEF Asks
  <2>2. PICK k \in Calls : k.message = x /\ k.publisher = q /\ call'[r] = Handed(k, cl)
    BY <2>1 DEF Puts
  <2>3. x = m /\ q = p /\ m # NoMessage
    BY SMTT(20), <1>1, <2>2, HandedIs, ItemIs
  <2>4. call'[r].place = "returned" /\ call'[r].outcome = "sent"
    BY <2>2, HandedIs
  <2>5. config.async /\ cl # NoClient
    BY <2>2, <2>3, <2>4, HandedIs
  <2> QED
    BY <2>1, <2>3, <2>5, PutArrives
<1> QED
  BY <1>3, <1>4, <1>5, <1>6, StepCalls

\* The metrics of a request that is accepted.
LEMMA ArrivedWhole ==
    ASSUME TypeInv, DeliveryInv, [Next]_vars, NEW r \in Requests, answer'[r] = 204,
           ~ config'.dropData, NEW p, p = request'[r].publisher, NEW k \in 1..request'[r].size
    PROVE  Arrived(p, <<r, k>>)'
<1>1. ASSUME pc[r] # "idle", Arrived(request[r].publisher, <<r, k>>) PROVE Arrived(p, <<r, k>>)'
  <2>1. p = request[r].publisher /\ p \in Publishers /\ request'[r] = request[r]
    BY <1>1, RequestKept DEF TypeInv, WhereOK
  <2>2. <<r, k>> \in Items
    BY <2>1, NumbersAre DEF TypeInv, HandlersOK, Items
  <2> QED
    BY <1>1, <2>1, <2>2, ArrivedStays
<1>2. CASE answer'[r] = answer[r]
  <2>1. pc[r] = "done"
    BY <1>2, NoneAssumption DEF TypeInv, WhereOK, Statuses
  <2>2. config' = config /\ request'[r] = request[r]
    BY <2>1, RequestKept
  <2> QED
    BY <1>1, <1>2, <2>1, <2>2 DEF DeliveryInv, Delivered
<1>3. CASE \E q \in Publishers, n \in Sizes \cup {0, 1}, status \in Statuses :
                Refuses(r, q, n, status) /\ answer'[r] = status
  <2>1. PICK q \in Publishers, n \in Sizes \cup {0, 1} : Refuses(r, q, n, 204)
    BY <1>3
  <2>2. n = 0 /\ request'[r].size = n
    BY <2>1 DEF Refuses, Accept, publisherVars, TypeInv, HandlersOK
  <2> QED
    BY <2>2
<1>4. CASE Finishes(r, 204)
  <2>1. /\ pc[r] = "sending" /\ call[r].place = "returned" /\ call[r].outcome = "sent"
        /\ next[r] >= request[r].size /\ request' = request
    BY <1>4 DEF Finishes
  <2>2. MessageOK(r) /\ next[r] \in Nat /\ request[r].size \in Nat /\ k \in 1..request[r].size
    <3>1. next[r] \in Numbers \cup {0} /\ request[r].size \in Sizes \cup {0, 1}
      BY DEF TypeInv, HandlersOK
    <3>2. MessageOK(r)
      BY <2>1 DEF TypeInv, WhereOK
    <3> QED
      BY <2>1, <3>1, <3>2, NumbersAre
  <2>3. call[r].message = <<r, next[r]>> /\ next[r] \in 1..request[r].size
    BY <2>2 DEF MessageOK
  <2>4. CASE k = next[r]
    <3>1. call[r].message \in Items
      BY <2>3, NumbersAre DEF TypeInv, HandlersOK, Items
    <3>2. Arrived(request[r].publisher, <<r, k>>)
      BY <2>1, <2>3, <2>4, <3>1 DEF DeliveryInv, Delivered
    <3> QED
      BY <1>1, <2>1, <3>2
  <2>5. CASE k # next[r]
    <3>1. k \in 1..(next[r] - 1)
      BY <2>1, <2>2, <2>5
    <3> QED
      BY <1>1, <2>1, <3>1 DEF DeliveryInv, Delivered
  <2> QED
    BY <2>4, <2>5
<1> QED
  BY <1>2, <1>3, <1>4, AnswerIs

LEMMA StepDelivery == TypeInv /\ TypeInv' /\ DeliveryInv /\ [Next]_vars => DeliveryInv'
<1> SUFFICES ASSUME TypeInv, TypeInv', DeliveryInv, [Next]_vars, NEW r \in Requests
             PROVE  Delivered(r)'
  BY DEF DeliveryInv
<1> DEFINE p == request[r].publisher
           m == call[r].message
<1>1. (pc[r] = "sending" => \A k \in 1..(next[r] - 1) : Arrived(p, <<r, k>>))'
  <2>1. ASSUME pc'[r] = "sending", NEW k \in 1..(next'[r] - 1), NEW o, o = request'[r].publisher
        PROVE  Arrived(o, <<r, k>>)'
    BY <2>1, ArrivedBefore
  <2> QED
    BY <2>1
<1>2. (m \in Items /\ (call[r].place = "ack" \/ (call[r].place = "returned" /\ call[r].outcome = "sent"))
          => Arrived(p, m))'
  <2>1. ASSUME NEW x \in Items, x = call'[r].message, NEW o, o = request'[r].publisher,
               call'[r].place = "ack" \/ (call'[r].place = "returned" /\ call'[r].outcome = "sent")
        PROVE  Arrived(o, x)'
    BY <2>1, ArrivedNow
  <2> QED
    BY <2>1
<1>3. (answer[r] = 204 /\ ~ config.dropData => \A k \in 1..request[r].size : Arrived(p, <<r, k>>))'
  <2>1. ASSUME answer'[r] = 204, ~ config'.dropData, NEW o, o = request'[r].publisher,
               NEW k \in 1..request'[r].size
        PROVE  Arrived(o, <<r, k>>)'
    BY <2>1, ArrivedWhole
  <2> QED
    BY <2>1
<1> QED
  BY <1>1, <1>2, <1>3 DEF Delivered


LEMMA Delivering == Spec => []DeliveryInv
<1>1. Init => DeliveryInv
  <2> SUFFICES ASSUME Init, NEW r \in Requests PROVE Delivered(r)
    BY DEF DeliveryInv
  <2>1. pc[r] = "idle" /\ call[r] = NoCall /\ answer[r] = None
    BY DEF Init, InitPublisher, Requests
  <2>2. answer[r] # 204
    BY <2>1, NoneAssumption DEF Statuses
  <2> QED
    BY <2>1, <2>2 DEF Delivered, NoCall
<1> QED
  BY <1>1, StepDelivery, Typed, PTL DEF Spec

\* What was accepted is on its topic, or, from an asynchronous publisher, in a queue or
\* known to be dropped; only a process that drops what it receives leaves nothing.
THEOREM AcceptedArePublished == Spec => []AcceptedIsPublished
<1>1. TypeInv /\ DeliveryInv => AcceptedIsPublished
  <2> SUFFICES ASSUME TypeInv, DeliveryInv, NEW r \in Requests, Accepted(r), ~ config.dropData,
                      NEW k \in 1..request[r].size
               PROVE  /\ config.async => <<r, k>> \in OnTopic(r) \cup Waiting(request[r].publisher)
                                                                 \cup dropped
                      /\ ~ config.async => <<r, k>> \in OnTopic(r)
    BY DEF AcceptedIsPublished, Messages
  <2> DEFINE p == request[r].publisher
  <2>1. p \in Publishers
    BY DEF Accepted, TypeInv, HandlersOK
  <2>2. Arrived(p, <<r, k>>)
    BY DEF DeliveryInv, Delivered, Accepted
  <2>3. ASSUME NEW i \in 1..Len(topic[p]), topic[p][i] = <<r, k>>
        PROVE  <<r, k>> \in OnTopic(r)
    <3>1. i \in DOMAIN topic[p]
      BY <2>1, TopicIs, LenProperties
    <3>2. <<r, k>> \in ToSet(topic[p]) /\ <<r, k>>[1] = r
      BY <2>3, <3>1 DEF ToSet
    <3> QED
      BY <3>2 DEF OnTopic
  <2>4. ASSUME NEW n \in 1..Len(made[p]), NEW i \in 1..Len(made[p][n].queue),
               made[p][n].queue[i] = <<r, k>>
        PROVE  <<r, k>> \in Waiting(p)
    <3>1. n \in DOMAIN made[p] /\ i \in DOMAIN made[p][n].queue
      BY <2>1, MadeIs, LenProperties
    <3>2. <<r, k>> \in ToSet(made[p][n].queue)
      BY <2>4, <3>1 DEF ToSet
    <3> QED
      BY <3>1, <3>2 DEF Waiting
  <2> QED
    BY <2>2, <2>3, <2>4 DEF Arrived
<1> QED
  BY <1>1, Delivering, Typed, PTL


------------------------------------------------------------------------------
(* What is published of a request.                                         *)

\* A message that a call sends, or queues, was nowhere before.
LEMMA SentIsNew ==
    ASSUME TypeInv, NEW r \in Requests, NEW p \in Publishers, Reaches(r, p),
           NEW m \in Items, m = call[r].message, NEW q \in Publishers
    PROVE  ~ Filed(q, m)
<1>1. call[r].place = "send" /\ m = <<r, next[r]>>
  BY ReachIs DEF Reaches
<1>2. next[r] \in Nat
  BY NumbersAre DEF TypeInv, HandlersOK
<1> QED
  BY <1>1, <1>2 DEF Filed, Busy

LEMMA QueuedIsNew ==
    ASSUME TypeInv, NEW r \in Requests, NEW p \in Publishers, NEW m \in Items, NEW cl \in Nat,
           Puts(r, p, m, cl), NEW q \in Publishers
    PROVE  ~ Filed(q, m)
<1>1. next[r] \in Nat /\ m \notin {NoMessage, Malformed}
  BY NumbersAre, ItemIs DEF TypeInv, HandlersOK
<1>2. CASE SendsNow(r, p, m)
  BY <1>1, <1>2 DEF SendsNow, Filed
<1>3. CASE HasWaited(r, p, m)
  <2>1. call[r].place \in Busy /\ m = <<r, next[r]>>
    BY <1>1, <1>3, CallingIs DEF HasWaited, Busy, MessageOK
  <2> QED
    BY <1>1, <2>1 DEF Filed
<1> QED
  BY <1>2, <1>3 DEF Puts

\* The places of a publisher, with the messages in them, after a step.
OnceOnTopic(p) == \A i, j \in 1..Len(topic[p]) : topic[p][i] = topic[p][j] => i = j
OnceOutside(p) ==
    \A n, i \in Nat : Spot(p, n, i) =>
        /\ \A j \in 1..Len(topic[p]) : topic[p][j] # made[p][n].queue[i]
        /\ \A o, j \in Nat : Spot(p, o, j) /\ made[p][o].queue[j] = made[p][n].queue[i]
              => o = n /\ j = i
LEMMA OnceIs ==
    OnceInv <=> \A p \in Publishers : OnceOnTopic(p) /\ OnceOutside(p)
<1>1. ASSUME NEW p \in Publishers
      PROVE  OnceOutside(p) <=>
                \A n \in 1..Len(made[p]) : \A i \in 1..Len(made[p][n].queue) :
                  /\ \A j \in 1..Len(topic[p]) : topic[p][j] # made[p][n].queue[i]
                  /\ \A o \in 1..Len(made[p]) : \A j \in 1..Len(made[p][o].queue) :
                        made[p][o].queue[j] = made[p][n].queue[i] => o = n /\ j = i
  BY SMTT(30) DEF OnceOutside, Spot
<1> QED
  BY <1>1 DEF OnceInv, OnceOnTopic

LEMMA OnceNext ==
    OnceInv' <=> (\A p \in Publishers : OnceOnTopic(p) /\ OnceOutside(p))'
  BY OnceIs, PTL

\* A topic on which the message that comes is not yet.
LEMMA OnceAppended ==
    ASSUME TypeInv, NEW p \in Publishers, NEW q \in Publishers, OnceOnTopic(p), NEW m \in Items,
           topic' = [topic EXCEPT ![q] = Append(@, m)],
           \A i \in 1..Len(topic[q]) : topic[q][i] # m
    PROVE  OnceOnTopic(p)'
<1>1. CASE q = p
  <2>1. Len(topic[p]) \in Nat
    BY TopicIs
  <2>2. /\ Len(topic'[p]) = Len(topic[p]) + 1 /\ topic'[p][Len(topic[p]) + 1] = m
        /\ \A i \in 1..Len(topic[p]) : topic'[p][i] = topic[p][i]
    BY <1>1, TopicGrows
  <2>3. \A i \in 1..Len(topic'[p]) : i \in 1..Len(topic[p]) \/ i = Len(topic[p]) + 1
    BY <2>1, <2>2
  <2> QED
    BY <1>1, <2>1, <2>2, <2>3 DEF OnceOnTopic
<1>2. CASE q # p
  <2>1. topic'[p] = topic[p]
    BY <1>2, TopicGrows
  <2> QED
    BY <2>1 DEF OnceOnTopic
<1> QED
  BY <1>1, <1>2

LEMMA OnceReached ==
    ASSUME TypeInv, FiledInv, OnceInv, NEW r \in Requests, NEW q \in Publishers, Reaches(r, q)
    PROVE  OnceInv'
<1> SUFFICES ASSUME NEW p \in Publishers PROVE OnceOnTopic(p)' /\ OnceOutside(p)'
  BY OnceNext
<1>1. PICK m \in Items : m = call[r].message /\ topic' = [topic EXCEPT ![q] = Append(@, m)]
  BY ReachIs
<1>2. \A i \in 1..Len(topic[q]) : topic[q][i] # m
  BY <1>1, SentIsNew DEF FiledInv
<1>3. OnceOnTopic(p)'
  BY <1>1, <1>2, OnceIs, OnceAppended
<1>4. ~ config.async /\ made' = made
  BY ReachIs DEF Reaches
<1>5. \A n, i \in Nat : ~ Spot(p, n, i)
  <2>1. \A n \in 1..Len(made[p]) : made[p][n].queue = <<>>
    BY <1>4 DEF TypeInv, ModeOK
  <2> QED
    BY <2>1, EmptySeq DEF Spot
<1>6. \A n, i \in Nat : ~ Spot(p, n, i)'
  BY <1>4, <1>5 DEF Spot
<1> QED
  BY <1>3, <1>6 DEF OnceOutside

LEMMA OncePut ==
    ASSUME TypeInv, FiledInv, OnceInv, NEW r \in Requests, NEW q \in Publishers,
           NEW m \in Items \cup {NoMessage, Malformed}, NEW cl \in Nat, Puts(r, q, m, cl)
    PROVE  OnceInv'
<1> SUFFICES ASSUME NEW p \in Publishers PROVE OnceOnTopic(p)' /\ OnceOutside(p)'
  BY OnceNext
<1>1. topic' = topic /\ Stores(q, Queue(m), cl) /\ OnceOnTopic(p) /\ OnceOutside(p)
  BY OnceIs DEF Puts
<1>2. OnceOnTopic(p)'
  BY <1>1 DEF OnceOnTopic
<1>3. CASE \A n, i \in Nat : SpotStays(p, n, i)
  BY <1>1, <1>2, <1>3 DEF SpotStays, OnceOutside
<1>4. ASSUME m \in Items, NEW u \in Nat, NEW v \in Nat, made'[q][u].queue[v] = m,
             \A o \in Publishers : \A n, i \in Nat : o # q \/ n # u \/ i # v => SpotStays(o, n, i)
      PROVE  OnceOutside(p)'
  <2>1. CASE p # q
    BY <1>1, <1>4, <2>1 DEF SpotStays, OnceOutside
  <2>2. CASE p = q
    <3>1. /\ \A j \in 1..Len(topic[p]) : topic[p][j] # m
          /\ \A n, i \in Nat : Spot(p, n, i) => made[p][n].queue[i] # m
      <4>1. ~ Filed(p, m)
        BY <1>4, QueuedIsNew
      <4>2. ASSUME NEW j \in 1..Len(topic[p])
            PROVE  topic[p][j] # m
        BY <4>1, <4>2 DEF FiledInv
      <4>3. ASSUME NEW n \in Nat, NEW i \in Nat, Spot(p, n, i)
            PROVE  made[p][n].queue[i] # m
        BY <4>1, <4>3 DEF FiledInv, Spot
      <4> QED
        BY <4>2, <4>3
    <3>2. ASSUME NEW n \in Nat, NEW i \in Nat, Spot(p, n, i)'
          PROVE  \/ n = u /\ i = v /\ made'[p][n].queue[i] = m
                 \/ Spot(p, n, i) /\ made'[p][n].queue[i] = made[p][n].queue[i]
      BY <1>4, <2>2, <3>2 DEF SpotStays
    <3>3. ASSUME NEW n \in Nat, NEW i \in Nat, Spot(p, n, i)', NEW j \in 1..Len(topic[p])
          PROVE  topic[p][j] # made'[p][n].queue[i]
      BY SMTT(30), <1>1, <3>1, <3>2, <3>3 DEF OnceOutside
    <3>4. ASSUME NEW n \in Nat, NEW i \in Nat, Spot(p, n, i)', NEW o \in Nat, NEW j \in Nat,
                 Spot(p, o, j)', made'[p][o].queue[j] = made'[p][n].queue[i]
          PROVE  o = n /\ j = i
      <4>1. CASE Spot(p, n, i) /\ made'[p][n].queue[i] = made[p][n].queue[i]
        <5>1. Spot(p, o, j) /\ made'[p][o].queue[j] = made[p][o].queue[j]
          BY <3>1, <3>2, <3>4, <4>1
        <5> QED
          BY <1>1, <3>4, <4>1, <5>1 DEF OnceOutside
      <4>2. CASE n = u /\ i = v /\ made'[p][n].queue[i] = m
        <5>1. ~ (Spot(p, o, j) /\ made'[p][o].queue[j] = made[p][o].queue[j])
          BY <3>1, <3>4, <4>2
        <5> QED
          BY <3>2, <3>4, <4>2, <5>1
      <4> QED
        BY <3>2, <3>4, <4>1, <4>2
    <3> QED
      BY <1>1, <3>3, <3>4 DEF OnceOutside
  <2> QED
    BY <2>1, <2>2
<1> QED
  BY <1>1, <1>2, <1>3, <1>4, PutSpots

LEMMA OnceDrained ==
    ASSUME TypeInv, OnceInv, NEW q \in Publishers, Drains(q)
    PROVE  OnceInv'
<1> SUFFICES ASSUME NEW p \in Publishers PROVE OnceOnTopic(p)' /\ OnceOutside(p)'
  BY OnceNext
<1>1. PICK u \in DOMAIN made[q] : Drain(q, u)
  BY DEF Drains
<1>2. PICK m \in Items : /\ m = made[q][u].queue[1] /\ Spot(q, u, 1)
                         /\ topic' \in {topic, [topic EXCEPT ![q] = Append(@, m)]}
  BY <1>1, DrainTopic
<1>3. \A o \in Publishers : OnceOnTopic(o) /\ OnceOutside(o)
  BY OnceIs
<1>4. u \in Nat
  BY <1>1, DrainIs
<1>5. \A j \in 1..Len(topic[q]) : topic[q][j] # m
  BY <1>2, <1>3, <1>4 DEF OnceOutside
<1>6. OnceOnTopic(p)'
  <2>1. CASE topic' = topic
    BY <1>3, <2>1 DEF OnceOnTopic
  <2> QED
    BY <1>2, <1>3, <1>5, <2>1, OnceAppended
<1>7. ASSUME NEW n \in Nat, NEW i \in Nat, Spot(p, n, i)'
      PROVE  \E k \in Nat : /\ k = (IF p = q /\ n = u THEN i + 1 ELSE i)
                            /\ Spot(p, n, k) /\ made'[p][n].queue[i] = made[p][n].queue[k]
  <2>1. CASE p = q /\ n = u
    <3>1. Spot(p, n, i + 1) /\ made'[p][n].queue[i] = made[p][n].queue[i + 1] /\ i + 1 \in Nat
      BY <1>1, <1>7, <2>1, DrainSpots
    <3> QED
      BY <2>1, <3>1
  <2>2. CASE ~ (p = q /\ n = u)
    <3>1. SpotStays(p, n, i)
      BY <1>1, <2>2, DrainSpots
    <3> QED
      BY <1>7, <2>2, <3>1 DEF SpotStays
  <2> QED
    BY <2>1, <2>2
<1>8. ASSUME NEW n \in Nat, NEW i \in Nat, Spot(p, n, i)', NEW j \in 1..Len(topic'[p])
      PROVE  topic'[p][j] # made'[p][n].queue[i]
  <2>1. PICK k \in Nat : /\ k = (IF p = q /\ n = u THEN i + 1 ELSE i)
                         /\ Spot(p, n, k) /\ made'[p][n].queue[i] = made[p][n].queue[k]
    BY <1>7, <1>8
  <2>2. CASE j \in 1..Len(topic[p]) /\ topic'[p][j] = topic[p][j]
    BY <1>3, <2>1, <2>2 DEF OnceOutside
  <2>3. CASE p = q /\ topic'[p][j] = m
    <3>1. n # u \/ k # 1
      BY <1>8, <2>1, <2>3, <1>4 DEF Spot
    <3> QED
      BY <1>2, <1>3, <1>4, <2>1, <2>3, <3>1 DEF OnceOutside
  <2>4. \/ j \in 1..Len(topic[p]) /\ topic'[p][j] = topic[p][j]
        \/ p = q /\ topic'[p][j] = m
    <3>1. CASE topic' = topic
      BY <1>8, <3>1
    <3>2. CASE topic' = [topic EXCEPT ![q] = Append(@, m)] /\ p = q
      <4>1. Len(topic[p]) \in Nat
        BY TopicIs
      <4>2. /\ Len(topic'[p]) = Len(topic[p]) + 1 /\ topic'[p][Len(topic[p]) + 1] = m
            /\ \A l \in 1..Len(topic[p]) : topic'[p][l] = topic[p][l]
        BY ZenonT(60), <3>2, TopicGrows
      <4> QED
        BY <1>8, <3>2, <4>1, <4>2
    <3>3. CASE topic' = [topic EXCEPT ![q] = Append(@, m)] /\ p # q
      BY <1>8, <3>3, TopicGrows
    <3> QED
      BY <1>2, <3>1, <3>2, <3>3
  <2> QED
    BY <2>2, <2>3, <2>4
<1>9. ASSUME NEW n \in Nat, NEW i \in Nat, Spot(p, n, i)', NEW o \in Nat, NEW j \in Nat, Spot(p, o, j)',
             made'[p][o].queue[j] = made'[p][n].queue[i]
      PROVE  o = n /\ j = i
  <2>1. PICK k \in Nat : /\ k = (IF p = q /\ n = u THEN i + 1 ELSE i)
                         /\ Spot(p, n, k) /\ made'[p][n].queue[i] = made[p][n].queue[k]
    BY <1>7, <1>9
  <2>2. PICK l \in Nat : /\ l = (IF p = q /\ o = u THEN j + 1 ELSE j)
                         /\ Spot(p, o, l) /\ made'[p][o].queue[j] = made[p][o].queue[l]
    BY <1>7, <1>9
  <2>3. o = n /\ l = k
    BY <1>3, <1>9, <2>1, <2>2 DEF OnceOutside
  <2> QED
    BY <2>1, <2>2, <2>3
<1> QED
  BY <1>6, <1>8, <1>9 DEF OnceOutside

LEMMA StepOnce == TypeInv /\ FiledInv /\ OnceInv /\ [Next]_vars => OnceInv'
<1> SUFFICES ASSUME TypeInv, FiledInv, OnceInv, [Next]_vars PROVE OnceInv'
  OBVIOUS
<1>1. CASE topic' = topic /\ made' = made
  <2> SUFFICES ASSUME NEW p \in Publishers PROVE OnceOnTopic(p)' /\ OnceOutside(p)'
    BY OnceNext
  <2>1. OnceOnTopic(p) /\ OnceOutside(p)
    BY OnceIs
  <2>2. \A n, i \in Nat : SpotStays(p, n, i)
    BY <1>1 DEF SpotStays, Spot
  <2>3. OnceOnTopic(p)'
    BY <1>1, <2>1 DEF OnceOnTopic
  <2>4. OnceOutside(p)'
    BY <1>1, <2>1, <2>2 DEF SpotStays, OnceOutside
  <2> QED
    BY <2>3, <2>4
<1>2. CASE topic' = topic /\ ProcessRestarts
  <2>1. \A p \in Publishers : made'[p] = <<>>
    BY <1>2 DEF ProcessRestarts, Restart
  <2>2. \A p \in Publishers : Len(made'[p]) = 0
    BY <2>1, EmptySeq
  <2> QED
    BY <1>2, <2>2 DEF OnceInv
<1> QED
  BY <1>1, <1>2, OnceReached, OncePut, OnceDrained, TopicStep, StepMade


LEMMA StepRefused == TypeInv /\ TypeInv' /\ RefusedInv /\ [Next]_vars => RefusedInv'
<1> SUFFICES ASSUME TypeInv, TypeInv', RefusedInv, [Next]_vars, NEW r \in Requests
             PROVE  /\ answer'[r] \in {400, 401, 406} => next'[r] = 0
                    /\ call'[r].place = "returned" /\ call'[r].outcome = "malformed" =>
                          call'[r].message = Malformed
  BY DEF RefusedInv
<1>1. ASSUME answer'[r] \in {400, 401, 406} PROVE next'[r] = 0
  <2>1. CASE answer'[r] = answer[r]
    <3>1. pc[r] = "done"
      BY <1>1, <2>1, NoneAssumption DEF TypeInv, WhereOK, Statuses
    <3> QED
      BY <1>1, <2>1, <3>1, RequestKept DEF RefusedInv
  <2>2. CASE \E p \in Publishers, n \in Sizes \cup {0, 1}, status \in Statuses :
                Refuses(r, p, n, status) /\ answer'[r] = status
    <3>1. pc[r] = "idle" /\ next' = next
      BY <2>2 DEF Refuses, Accept
    <3> QED
      BY <3>1 DEF TypeInv, WhereOK
  <2>3. CASE \E status \in Statuses : Finishes(r, status) /\ answer'[r] = status
    <3>1. /\ pc[r] = "sending" /\ next' = next /\ call[r].place = "returned"
          /\ call[r].outcome = "malformed"
      BY <1>1, <2>3 DEF Finishes
    <3>2. call[r].message = Malformed /\ MessageOK(r)
      BY <3>1 DEF RefusedInv, TypeInv, WhereOK
    <3>3. next[r] \in Numbers => Malformed # <<r, next[r]>>
      BY NumbersAre
    <3>4. next[r] \in Numbers \cup {0}
      BY DEF TypeInv, HandlersOK
    <3> QED
      BY <3>1, <3>2, <3>3, <3>4 DEF MessageOK
  <2> QED
    BY <2>1, <2>2, <2>3, AnswerIs
<1>2. ASSUME call'[r].place = "returned", call'[r].outcome = "malformed"
      PROVE  call'[r].message = Malformed
  <2>1. CASE StillAs(r)
    BY <1>2, <2>1 DEF StillAs, RefusedInv
  <2>2. ~ Waits(r) /\ ~ Returns(r) /\ ~ Ends(r) /\ call'[r] # NoCall
    BY <1>2 DEF Waits, Returns, Ends, NoCall
  <2>3. ~ \E p \in Publishers : Reaches(r, p)
    BY <1>2, ReachIs
  <2>4. CASE \E p \in Publishers, m \in Items \cup {NoMessage, Malformed} :
                Asks(r, p, m) \/ \E cl \in Nat : Puts(r, p, m, cl)
    BY <1>2, <2>4, HandedIs DEF Asks, Puts
  <2> QED
    BY <2>1, <2>2, <2>3, <2>4, StepCalls
<1> QED
  BY <1>1, <1>2

LEMMA ConfigKept == TypeInv /\ [Next]_vars => config' = config
<1> SUFFICES ASSUME TypeInv, [Next]_vars PROVE config' = config
  OBVIOUS
<1>1. CASE \E r \in Requests, p \in Publishers, m \in Items \cup {NoMessage, Malformed} :
              SendMessage(r, p, m)
  BY <1>1 DEF SendMessage
<1>2. CASE \E r \in Requests : Transport(r)
  BY <1>2 DEF Transport, CallStep, Connect, ConnectFails, TryAgain, GiveUp, Reach, Acknowledged,
     Unavailable, ConnectionFails
<1>3. CASE \/ \E r \in Requests, p \in Publishers, n \in Sizes \cup {0, 1}, status \in Statuses :
                  Refuses(r, p, n, status)
           \/ \E r \in Requests, status \in Statuses : Finishes(r, status)
           \/ \E p \in Publishers : Drains(p)
           \/ BrokerGoesDown \/ BrokerComesUp \/ ProcessRestarts \/ UNCHANGED vars
  BY <1>3 DEF Refuses, Finishes, Drains, Drain, BrokerGoesDown, BrokerDown, BrokerComesUp, BrokerUp,
       ProcessRestarts, Restart, vars, publisherVars
<1> QED
  BY <1>1, <1>2, <1>3, StepIs, Sending

LEMMA StepPrefix == TypeInv /\ DeliveryInv /\ PrefixInv /\ [Next]_vars => PrefixInv'
<1> SUFFICES ASSUME TypeInv, DeliveryInv, PrefixInv, [Next]_vars, ~ config'.async,
                    NEW p \in Publishers, NEW i \in 1..Len(topic'[p]),
                    NEW k \in 1..(topic'[p][i][2] - 1)
             PROVE  \E j \in 1..(i - 1) : topic'[p][j] = <<topic'[p][i][1], k>>
  BY DEF PrefixInv
<1> DEFINE x == topic'[p]
<1>1. ~ config.async
  BY ConfigKept
<1>2. ASSUME i \in 1..Len(topic[p]), \A j \in 1..Len(topic[p]) : x[j] = topic[p][j]
      PROVE  \E j \in 1..(i - 1) : x[j] = <<x[i][1], k>>
  <2>1. PICK j \in 1..(i - 1) : topic[p][j] = <<topic[p][i][1], k>>
    BY <1>1, <1>2 DEF PrefixInv
  <2>2. j \in 1..Len(topic[p])
    BY <1>2, <2>1, TopicIs
  <2> QED
    BY <1>2, <2>1, <2>2
<1>3. CASE topic'[p] = topic[p]
  BY <1>2, <1>3
<1>4. ASSUME NEW r \in Requests, NEW q \in Publishers, Reaches(r, q)
      PROVE  \E j \in 1..(i - 1) : x[j] = <<x[i][1], k>>
  <2>1. PICK m \in Items : /\ m = <<r, next[r]>> /\ pc[r] = "sending" /\ request[r].publisher = q
                           /\ topic' = [topic EXCEPT ![q] = Append(@, m)]
    BY ZenonT(60), <1>4, ReachIs
  <2>2. CASE q # p
    BY <1>3, <2>1, <2>2, TopicGrows
  <2>3. CASE q = p
    <3>1. Len(topic[p]) \in Nat
      BY TopicIs
    <3>2. /\ Len(x) = Len(topic[p]) + 1 /\ x[Len(topic[p]) + 1] = m
          /\ \A j \in 1..Len(topic[p]) : x[j] = topic[p][j]
      BY <2>1, <2>3, TopicGrows
    <3>3. CASE i \in 1..Len(topic[p])
      BY <1>2, <3>2, <3>3
    <3>4. CASE i = Len(topic[p]) + 1
      <4>1. x[i] = m /\ m[1] = r /\ k \in 1..(next[r] - 1)
        BY <2>1, <3>2, <3>4
      <4>2. Arrived(p, <<r, k>>)
        BY <2>1, <2>3, <4>1 DEF DeliveryInv, Delivered
      <4>3. PICK j \in 1..Len(topic[p]) : topic[p][j] = <<r, k>>
        BY <1>1, <4>2 DEF Arrived
      <4> QED
        BY SMTT(30), <3>1, <3>2, <3>4, <4>1, <4>3
    <3> QED
      BY <3>1, <3>2, <3>3, <3>4
  <2> QED
    BY <2>2, <2>3
<1>5. ~ \E q \in Publishers : Drains(q)
  BY <1>1, DrainTopic DEF Drains
<1> QED
  BY <1>3, <1>4, <1>5, TopicStep

\* Of a request that is refused nothing is published, and of others what comes first,
\* no message twice; on a synchronous topic the metrics of a request are in their order.
THEOREM PublishedInOrder == Spec => []PublishedIsPrefix
<1>1. Init => OnceInv /\ RefusedInv /\ PrefixInv
  <2> SUFFICES ASSUME Init PROVE OnceInv /\ RefusedInv /\ PrefixInv
    OBVIOUS
  <2>1. \A p \in Publishers : Len(topic[p]) = 0 /\ Len(made[p]) = 0
    BY EmptySeq DEF Init, InitPublisher
  <2>2. \A r \in Requests : next[r] = 0 /\ call[r] = NoCall
    BY DEF Init, InitPublisher, Requests
  <2> QED
    BY <2>1, <2>2 DEF OnceInv, RefusedInv, PrefixInv, NoCall
<1>2. TypeInv /\ FiledInv /\ OnceInv /\ RefusedInv /\ PrefixInv => PublishedIsPrefix
  <2> DEFINE t(r) == topic[request[r].publisher]
             Fine(r, i) == /\ answer[r] \notin {400, 401, 406}
                           /\ t(r)[i][2] <= next[r]
                           /\ \A j \in DOMAIN t(r) : t(r)[i] = t(r)[j] => i = j
                           /\ ~ config.async => \A n \in 1..(t(r)[i][2] - 1) :
                                                   \E j \in 1..(i - 1) : t(r)[j] = <<r, n>>
  <2> SUFFICES ASSUME TypeInv, FiledInv, OnceInv, RefusedInv, PrefixInv
               PROVE  \A r \in {x \in Requests : pc[x] # "idle"} :
                         \A i \in {x \in DOMAIN t(r) : t(r)[x][1] = r} : Fine(r, i)
    BY DEF PublishedIsPrefix
  <2> HIDE DEF Fine
  <2> SUFFICES ASSUME NEW r \in Requests, pc[r] # "idle", NEW i \in DOMAIN t(r), t(r)[i][1] = r
               PROVE  Fine(r, i)
    OBVIOUS
  <2>1. request[r].publisher \in Publishers
    BY DEF TypeInv, WhereOK
  <2>2. DOMAIN t(r) = 1..Len(t(r)) /\ t(r)[i] \in Items
    BY <2>1, TopicIs, LenProperties
  <2>3. t(r)[i][2] <= next[r] /\ t(r)[i][2] \in Nat \ {0}
    <3>1. t(r)[i][2] \in Numbers /\ t(r)[i][1] = r
      BY <2>2, ItemIs
    <3>2. Filed(request[r].publisher, t(r)[i])
      BY <2>1, <2>2 DEF FiledInv
    <3> QED
      BY <3>1, <3>2, NumbersAre DEF Filed
  <2>4. answer[r] \notin {400, 401, 406}
    BY <2>3 DEF RefusedInv
  <2>5. \A j \in DOMAIN t(r) : t(r)[i] = t(r)[j] => i = j
    BY <2>1, <2>2 DEF OnceInv
  <2>6. ~ config.async => \A n \in 1..(t(r)[i][2] - 1) : \E j \in 1..(i - 1) : t(r)[j] = <<r, n>>
    BY <2>1, <2>2 DEF PrefixInv
  <2> QED
    BY <2>3, <2>4, <2>5, <2>6 DEF Fine
<1> QED
  BY <1>1, <1>2, StepOnce, StepRefused, StepPrefix, Typed, Filing, Delivering, PTL DEF Spec
==============================================================================
