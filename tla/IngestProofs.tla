---------------------------- MODULE IngestProofs ----------------------------
(***************************************************************************)
(* Proofs about Ingest, for any number of uplinks and faults, any sizes of *)
(* the queues and any number of attempts and retries.                      *)
(***************************************************************************)
EXTENDS Ingest, TLAPS, FiniteSetTheorems

(* The sets the variables of the two threads range over                     *)
PublisherShape ==
  /\ mqtt \in [Uplinks -> {"waiting", "sent", "gone"}]
  /\ queue \in Seq(Uplinks)
  /\ publishing \in [uplink : Uplinks \cup {None}, attempt : Nat, at : {"get", "publish", "ack"}]
  /\ publishing.at # "get" => publishing.uplink \in Uplinks

CountShape ==
  /\ ready \in [Uplinks -> Nat]
  /\ left \subseteq Uplinks \X Nat /\ IsFiniteSet(left)
  /\ broadcasts \in [Uplinks -> Nat]
  /\ channel \in BOOLEAN

ConsumerShape ==
  /\ handling \in [uplink : Uplinks \cup {None}, attempt : Nat,
                   at : {"consume", "insert", "broadcast", "dead letter", "ack"}]
  /\ handling.at # "consume" => handling.uplink \in Uplinks
  /\ abandoned \subseteq [uplink : Uplinks, at : {"insert", "broadcast"}]

Shape == PublisherShape /\ CountShape /\ ConsumerShape

(* A broadcast still to come is the only one of its row.                    *)
OnceInv ==
  /\ \A u \in Uplinks : broadcasts[u] <= 1 /\ (u \notin rows => broadcasts[u] = 0)
  /\ \A c \in abandoned : c.at = "broadcast" => c.uplink \in rows /\ broadcasts[c.uplink] = 0
  /\ handling.at = "broadcast" =>
       /\ handling.uplink \in rows /\ broadcasts[handling.uplink] = 0
       /\ \A c \in abandoned : c.at = "broadcast" => c.uplink # handling.uplink

Kept(u) == Settled(u) \/ InTenantQueue(u)

(* What an ack to RabbitMQ can rely on                                      *)
HandlingInv ==
  /\ handling.at = "broadcast" => handling.uplink \in rows
  /\ handling.at = "ack" => handling.uplink \in rows \cup dlq

(* What an ack to the MQTT broker can rely on, and what it leaves           *)
AckInv ==
  /\ HandlingInv
  /\ \A u \in Uplinks : mqtt[u] = "gone" => Kept(u)
  /\ publishing.at = "ack" => Kept(publishing.uplink)
-----------------------------------------------------------------------------
(* The invariants hold initially.                                           *)
LEMMA InitInv == Init => Shape /\ OnceInv /\ AckInv
<1> SUFFICES ASSUME Init PROVE Shape /\ OnceInv /\ AckInv
  OBVIOUS
<1> USE DEF Init, R!Init, T!Init, R!Idle, T!Idle
<1>1. PublisherShape
  BY DEF PublisherShape
<1>2. CountShape
  BY FS_EmptySet DEF CountShape
<1>3. ConsumerShape
  BY DEF ConsumerShape
<1>4. OnceInv
  BY DEF OnceInv
<1>5. AckInv
  BY DEF AckInv, HandlingInv
<1> QED BY <1>1, <1>2, <1>3, <1>4, <1>5 DEF Shape

(* Each thread keeps the shape of its own variables.                        *)
LEMMA PublisherKeepsShape ==
  ASSUME PublisherShape, R!Next
  PROVE  PublisherShape'
<1> USE DEF PublisherShape, R!broker, R!memory, R!Idle
<1>1. ASSUME NEW u \in Uplinks, R!Deliver(u) PROVE PublisherShape'
  BY <1>1 DEF R!Deliver, R!Discard
<1>2. CASE R!Take
  <2>1. Head(queue) \in Uplinks /\ Tail(queue) \in Seq(Uplinks)
    BY <1>2 DEF R!Take
  <2> QED BY <1>2, <2>1 DEF R!Take
<1>3. CASE R!PublishOk \/ R!Ack
  BY <1>3 DEF R!PublishOk, R!Ack, R!Acked
<1>4. CASE R!PublishFails
  <2>2. CASE publishing' = R!Idle
    BY <1>4, <2>2 DEF R!PublishFails
  <2>3. CASE publishing' = [publishing EXCEPT !.attempt = @ + 1]
    BY <1>4, <2>3 DEF R!PublishFails
  <2> QED BY <1>4, <2>2, <2>3 DEF R!PublishFails, R!NextAttempt
<1>5. CASE R!Disconnect \/ R!Reconnect \/ R!Start
  BY <1>5 DEF R!Disconnect, R!Reconnect, R!Start, R!Unlink
<1>6. CASE R!Stop
  BY <1>6 DEF R!Stop, R!Unlink
<1>7. CASE R!Exit
  BY <1>7 DEF R!Exit
<1>8. CASE R!Crash
  BY <1>8 DEF R!Crash, R!Unlink
<1> QED BY <1>1, <1>2, <1>3, <1>4, <1>5, <1>6, <1>7, <1>8 DEF R!Next, R!Publisher

(* A retry goes on with the same uplink, and never by broadcasting.         *)
LEMMA RetryShape ==
  ASSUME ConsumerShape, T!Retry, handling.at # "consume"
  PROVE  /\ handling' \in [uplink : Uplinks, attempt : Nat, at : {"insert", "dead letter"}]
         /\ handling'.uplink = handling.uplink
<1>1. CASE handling' = [handling EXCEPT !.attempt = @ + 1, !.at = "insert"]
  <2>1. handling.attempt \in Nat
    BY DEF ConsumerShape
  <2>2. handling.attempt + 1 \in Nat
    BY <2>1
  <2> QED BY <1>1, <2>2 DEF ConsumerShape
<1>2. CASE handling' = [handling EXCEPT !.at = "dead letter"]
  BY <1>2 DEF ConsumerShape
<1> QED BY <1>1, <1>2 DEF T!Retry, T!Goto

(* The same of the consumer thread and of the coroutines it has abandoned   *)
LEMMA ConsumerKeepsShape ==
  ASSUME ConsumerShape, T!Next
  PROVE  ConsumerShape'
<1>1. ASSUME NEW u \in Uplinks, T!Take(u) PROVE ConsumerShape'
  BY <1>1 DEF T!Take, ConsumerShape
<1>2. CASE T!Insert \/ T!BroadcastEvent \/ T!DeadLetter
  BY <1>2 DEF T!Insert, T!BroadcastEvent, T!DeadLetter, T!Goto, ConsumerShape
<1>3. CASE T!Unparsable \/ T!InsertFails
  <2>1. T!Retry /\ handling.at # "consume" /\ abandoned' = abandoned
    BY <1>3 DEF T!Unparsable, T!InsertFails
  <2>2. /\ handling' \in [uplink : Uplinks, attempt : Nat, at : {"insert", "dead letter"}]
        /\ handling'.uplink = handling.uplink
    BY <2>1, RetryShape
  <2> QED BY <2>1, <2>2 DEF ConsumerShape
<1>4. CASE T!TimesOut
  <2>1. /\ T!Retry /\ handling.at \in {"insert", "broadcast"}
        /\ abandoned' = abandoned \cup {[uplink |-> handling.uplink, at |-> handling.at]}
    BY <1>4 DEF T!TimesOut
  <2>2. /\ handling' \in [uplink : Uplinks, attempt : Nat, at : {"insert", "dead letter"}]
        /\ handling'.uplink = handling.uplink
    BY <2>1, RetryShape
  <2>3. [uplink |-> handling.uplink, at |-> handling.at]
          \in [uplink : Uplinks, at : {"insert", "broadcast"}]
    BY <2>1 DEF ConsumerShape
  <2> QED BY <2>1, <2>2, <2>3 DEF ConsumerShape
<1>5. CASE T!DeadLetterRefused \/ T!Ack \/ T!ChannelClosed \/ T!Die
  <2>1. handling' = T!Idle /\ abandoned' \subseteq abandoned
    BY <1>5 DEF T!DeadLetterRefused, T!PassOver, T!Ack, T!ChannelClosed, T!Die
  <2> QED BY <2>1 DEF ConsumerShape, T!Idle
<1>6. CASE T!Connect \/ T!LoseConnection
  <2>1. handling' = handling /\ abandoned' = abandoned
    BY <1>6 DEF T!Connect, T!LoseConnection
  <2> QED BY <2>1 DEF ConsumerShape
<1>7. ASSUME NEW c \in abandoned, T!Abandoned(c) \/ T!AbandonedFails(c) PROVE ConsumerShape'
  <2>1. [c EXCEPT !.at = "broadcast"] \in [uplink : Uplinks, at : {"insert", "broadcast"}]
    BY <1>7 DEF ConsumerShape
  <2>2. handling' = handling /\ abandoned' \subseteq abandoned \cup {[c EXCEPT !.at = "broadcast"]}
    BY <1>7 DEF T!Abandoned, T!AbandonedFails
  <2> QED BY <2>1, <2>2 DEF ConsumerShape
<1> QED BY <1>1, <1>2, <1>3, <1>4, <1>5, <1>6, <1>7 DEF T!Next, T!Consumer

(* The instance of TelemetryConsumer counts as FiniteSets does.             *)
LEMMA SameCount == ASSUME NEW S PROVE T!Cardinality(S) = Cardinality(S)
BY DEF T!Cardinality, Cardinality

(* How many copies of an uplink have been passed over                       *)
LEMMA LeftCount ==
  ASSUME CountShape, NEW u
  PROVE  \E n \in Nat :
           /\ n = Cardinality(T!Left(u))
           /\ n > 0 <=> \E copy \in left : copy[1] = u
           /\ T!Unacked(u) = n + (IF channel /\ handling.uplink = u THEN 1 ELSE 0)
<1>1. IsFiniteSet(T!Left(u))
  BY FS_Subset DEF T!Left, CountShape
<1>2. PICK n \in Nat : n = Cardinality(T!Left(u))
  BY <1>1, FS_CardinalityType
<1>3. n = 0 <=> T!Left(u) = {}
  BY <1>1, <1>2, FS_EmptySet
<1>4. n > 0 <=> \E copy \in left : copy[1] = u
  BY <1>3 DEF T!Left
<1>5. T!Unacked(u) = n + (IF channel /\ handling.uplink = u THEN 1 ELSE 0)
  BY <1>2, SameCount DEF T!Unacked
<1> QED BY <1>2, <1>4, <1>5

LEMMA LeftNextCount ==
  ASSUME CountShape', NEW u
  PROVE  \E n \in Nat :
           /\ n = Cardinality(T!Left(u)')
           /\ n > 0 <=> \E copy \in left' : copy[1] = u
           /\ T!Unacked(u)' = n + (IF channel' /\ handling'.uplink = u THEN 1 ELSE 0)
<1>1. IsFiniteSet(T!Left(u)')
  BY FS_Subset DEF T!Left, CountShape
<1>2. PICK n \in Nat : n = Cardinality(T!Left(u)')
  BY <1>1, FS_CardinalityType
<1>3. n = 0 <=> T!Left(u)' = {}
  BY <1>1, <1>2, FS_EmptySet
<1>4. n > 0 <=> \E copy \in left' : copy[1] = u
  BY <1>3 DEF T!Left
<1>5. T!Unacked(u)' = n + (IF channel' /\ handling'.uplink = u THEN 1 ELSE 0)
  BY <1>2, SameCount DEF T!Unacked
<1> QED BY <1>2, <1>4, <1>5

(* Every count is kept in the natural numbers.                              *)
LEMMA RoutingKeepsCounts ==
  ASSUME PublisherShape, CountShape, R!Next, UNCHANGED consumer
  PROVE  CountShape'
<1> USE DEF CountShape, consumer, R!broker
<1>1. ASSUME NEW u \in Uplinks, R!Deliver(u) PROVE CountShape'
  BY <1>1 DEF R!Deliver
<1>2. CASE R!PublishOk \/ R!PublishFails
  BY <1>2 DEF R!PublishOk, R!PublishFails, R!Route
<1>3. CASE R!Take \/ R!Ack \/ R!Reconnect \/ R!Start \/ R!Exit
  BY <1>3 DEF R!Take, R!Ack, R!Reconnect, R!Start, R!Exit
<1>4. CASE R!Disconnect \/ R!Stop \/ R!Crash
  BY <1>4 DEF R!Disconnect, R!Stop, R!Crash
<1> QED BY <1>1, <1>2, <1>3, <1>4 DEF R!Next, R!Publisher

LEMMA ConsumerKeepsCounts ==
  ASSUME ConsumerShape, CountShape, T!Next
  PROVE  CountShape'
<1> USE DEF CountShape, T!stored
<1>1. ASSUME NEW u \in Uplinks, T!Take(u) PROVE CountShape'
  <2>1. ready[u] - 1 \in Nat
    BY <1>1 DEF T!Take
  <2> QED BY <1>1, <2>1 DEF T!Take
<1>2. CASE T!Insert \/ T!BroadcastEvent
  BY <1>2 DEF T!Insert, T!BroadcastEvent, T!Store, T!Broadcast
<1>3. CASE T!Unparsable \/ T!InsertFails \/ T!TimesOut
  BY <1>3 DEF T!Unparsable, T!InsertFails, T!TimesOut, T!Store
<1>4. CASE T!DeadLetter \/ T!Ack \/ T!ChannelClosed \/ T!Connect
  BY <1>4 DEF T!DeadLetter, T!Ack, T!ChannelClosed, T!Connect
<1>5. CASE T!DeadLetterRefused
  <2> DEFINE copy == <<handling.uplink, Cardinality(T!Left(handling.uplink))>>
  <2>1. handling.uplink \in Uplinks /\ left' = left \cup {copy}
    BY <1>5, SameCount DEF T!DeadLetterRefused, T!PassOver, ConsumerShape
  <2>2. copy \in Uplinks \X Nat
    BY <2>1, LeftCount
  <2> HIDE DEF copy
  <2>3. IsFiniteSet(left \cup {copy})
    BY FS_AddElement
  <2> QED BY <1>5, <2>1, <2>2, <2>3 DEF T!DeadLetterRefused
<1>6. CASE T!LoseConnection \/ T!Die
  <2>1. \A u \in Uplinks : ready[u] + T!Unacked(u) \in Nat
    BY LeftCount
  <2>2. T!CloseChannel /\ broadcasts' = broadcasts
    BY <1>6 DEF T!LoseConnection, T!Die
  <2>3. ready' \in [Uplinks -> Nat]
    BY <2>1, <2>2 DEF T!CloseChannel
  <2>4. left' = {} /\ IsFiniteSet({}) /\ channel' = FALSE
    BY <2>2, FS_EmptySet DEF T!CloseChannel
  <2> QED BY <2>2, <2>3, <2>4
<1>7. ASSUME NEW c \in abandoned, T!Abandoned(c) \/ T!AbandonedFails(c) PROVE CountShape'
  <2>1. \/ broadcasts' = broadcasts
        \/ broadcasts' = [broadcasts EXCEPT ![c.uplink] = @ + 1]
    BY <1>7 DEF T!Abandoned, T!AbandonedFails, T!Store, T!Broadcast
  <2>2. broadcasts' \in [Uplinks -> Nat]
    BY <2>1
  <2> QED BY <1>7, <2>2 DEF T!Abandoned, T!AbandonedFails
<1> QED BY <1>1, <1>2, <1>3, <1>4, <1>5, <1>6, <1>7 DEF T!Next, T!Consumer

(* The counters are natural numbers, and what a thread holds is an uplink.  *)
LEMMA ShapeInvariant == Spec => []Shape
<1>1. Shape /\ [Next]_vars => Shape'
  <2> SUFFICES ASSUME Shape, [Next]_vars PROVE Shape'
    OBVIOUS
  <2>1. CASE R!Next /\ UNCHANGED consumer
    <3>1. PublisherShape' /\ CountShape'
      BY <2>1, PublisherKeepsShape, RoutingKeepsCounts DEF Shape
    <3>2. ConsumerShape'
      BY <2>1 DEF Shape, ConsumerShape, consumer
    <3> QED BY <3>1, <3>2 DEF Shape
  <2>2. CASE T!Next /\ UNCHANGED routing
    <3>1. ConsumerShape' /\ CountShape'
      BY <2>2, ConsumerKeepsShape, ConsumerKeepsCounts DEF Shape
    <3>2. PublisherShape'
      BY <2>2 DEF Shape, PublisherShape, routing
    <3> QED BY <3>1, <3>2 DEF Shape
  <2>3. CASE UNCHANGED vars
    <3>1. PublisherShape'
      BY <2>3 DEF Shape, PublisherShape, vars, routing
    <3>2. CountShape'
      BY <2>3 DEF Shape, CountShape, vars, consumer
    <3>3. ConsumerShape'
      BY <2>3 DEF Shape, ConsumerShape, vars, consumer
    <3> QED BY <3>1, <3>2, <3>3 DEF Shape
  <2> QED BY <2>1, <2>2, <2>3 DEF Next
<1> QED BY <1>1, InitInv, PTL DEF Spec
-----------------------------------------------------------------------------
(* A coroutine is told by its uplink and its place.                         *)
LEMMA SameCoroutine ==
  ASSUME NEW c \in [uplink : Uplinks, at : {"insert", "broadcast"}],
         NEW d \in [uplink : Uplinks, at : {"insert", "broadcast"}],
         c.uplink = d.uplink, c.at = d.at
  PROVE  c = d
  OBVIOUS

(* Retries, duplicates and abandoned coroutines: at most one broadcasts.    *)
LEMMA ConsumerKeepsOnce ==
  ASSUME ConsumerShape, CountShape, OnceInv, T!Next
  PROVE  OnceInv'
<1>1. ASSUME NEW u \in Uplinks, T!Take(u) PROVE OnceInv'
  BY <1>1 DEF T!Take, T!stored, OnceInv
<1>2. CASE T!Insert
  <2>1. CASE T!Insertable(handling.uplink)
    <3>1. rows' = rows \cup {handling.uplink} /\ handling.uplink \notin rows
          /\ broadcasts' = broadcasts /\ abandoned' = abandoned
      BY <1>2, <2>1 DEF T!Insert, T!Insertable, T!Store
    <3>2. handling'.uplink = handling.uplink /\ handling.uplink \in Uplinks
      BY <1>2, <2>1 DEF T!Insert, T!Goto, ConsumerShape
    <3> QED BY <3>1, <3>2 DEF OnceInv
  <2>2. CASE ~T!Insertable(handling.uplink)
    BY <1>2, <2>2 DEF T!Insert, T!Goto, T!stored, OnceInv, ConsumerShape
  <2> QED BY <2>1, <2>2
<1>3. CASE T!BroadcastEvent
  <2>1. /\ handling.uplink \in Uplinks /\ rows' = rows /\ abandoned' = abandoned
        /\ broadcasts' = [broadcasts EXCEPT ![handling.uplink] = @ + 1]
        /\ handling'.at = "ack"
    BY <1>3 DEF T!BroadcastEvent, T!Broadcast, T!Goto, ConsumerShape
  <2>2. /\ broadcasts[handling.uplink] = 0 /\ handling.uplink \in rows
        /\ \A c \in abandoned : c.at = "broadcast" => c.uplink # handling.uplink
    BY <1>3 DEF T!BroadcastEvent, OnceInv
  <2>3. \A u \in Uplinks : broadcasts'[u] = IF u = handling.uplink THEN 1 ELSE broadcasts[u]
    BY <2>1, <2>2 DEF CountShape
  <2>4. \A c \in abandoned : c.uplink \in Uplinks
    BY DEF ConsumerShape
  <2> QED BY <2>1, <2>2, <2>3, <2>4 DEF OnceInv
<1>4. CASE T!Unparsable \/ T!InsertFails
  <2>1. /\ T!Retry /\ handling.at = "insert" /\ handling.uplink \in Uplinks
        /\ abandoned' = abandoned /\ broadcasts' = broadcasts /\ rows \subseteq rows'
    BY <1>4 DEF T!Unparsable, T!InsertFails, T!Store, T!stored, ConsumerShape
  <2>2. handling'.at # "broadcast"
    BY <2>1, RetryShape
  <2> QED BY <2>1, <2>2 DEF OnceInv
<1>5. CASE T!TimesOut
  <2>1. /\ T!Retry /\ handling.at # "consume"
        /\ abandoned' = abandoned \cup {[uplink |-> handling.uplink, at |-> handling.at]}
        /\ broadcasts' = broadcasts /\ rows' = rows
    BY <1>5 DEF T!TimesOut, T!stored
  <2>2. handling'.at # "broadcast"
    BY <2>1, RetryShape
  <2> QED BY <2>1, <2>2 DEF OnceInv
<1>6. CASE T!DeadLetter \/ T!DeadLetterRefused \/ T!Ack \/ T!ChannelClosed \/ T!Die
  <2>1. /\ handling' = T!Idle \/ handling' = [handling EXCEPT !.at = "ack"]
        /\ abandoned' \subseteq abandoned /\ broadcasts' = broadcasts /\ rows' = rows
    BY <1>6 DEF T!DeadLetter, T!DeadLetterRefused, T!PassOver, T!Ack, T!ChannelClosed, T!Die,
                T!Goto, T!stored
  <2>2. CASE handling' = T!Idle
    BY <2>1, <2>2 DEF T!Idle, OnceInv
  <2>3. CASE handling' = [handling EXCEPT !.at = "ack"]
    <3>1. handling'.at = "ack"
      BY <2>3 DEF ConsumerShape
    <3> QED BY <2>1, <3>1 DEF OnceInv
  <2> QED BY <2>1, <2>2, <2>3
<1>7. CASE T!Connect \/ T!LoseConnection
  BY <1>7 DEF T!Connect, T!LoseConnection, T!stored, OnceInv
<1>8. ASSUME NEW c \in abandoned, T!Abandoned(c) PROVE OnceInv'
  <2>0. /\ c \in [uplink : Uplinks, at : {"insert", "broadcast"}]
        /\ handling' = handling
    BY <1>8 DEF ConsumerShape, T!Abandoned
  <2>1. CASE c.at = "insert" /\ T!Insertable(c.uplink)
    <3> DEFINE d == [c EXCEPT !.at = "broadcast"]
    <3>1. /\ rows' = rows \cup {c.uplink} /\ c.uplink \notin rows
          /\ broadcasts' = broadcasts /\ abandoned' = (abandoned \ {c}) \cup {d}
      BY <1>8, <2>1 DEF T!Abandoned, T!Insertable, T!Store
    <3>2. d.uplink = c.uplink /\ broadcasts[c.uplink] = 0
      BY <2>0, <3>1 DEF OnceInv
    <3> HIDE DEF d
    <3> QED BY <2>0, <3>1, <3>2 DEF OnceInv
  <2>2. CASE c.at = "broadcast"
    <3>1. /\ broadcasts' = [broadcasts EXCEPT ![c.uplink] = @ + 1]
          /\ rows' = rows /\ abandoned' = abandoned \ {c}
      BY <1>8, <2>2 DEF T!Abandoned, T!Broadcast
    <3>2. broadcasts[c.uplink] = 0 /\ c.uplink \in rows
      BY <2>2 DEF OnceInv
    <3>3. \A u \in Uplinks : broadcasts'[u] = IF u = c.uplink THEN 1 ELSE broadcasts[u]
      BY <2>0, <3>1, <3>2 DEF CountShape
    <3>4. \A e \in abandoned \ {c} : e.uplink \in Uplinks
                                    /\ (e.at = "broadcast" => e.uplink # c.uplink)
      BY <2>0, <2>2, SameCoroutine DEF ConsumerShape
    <3>5. handling.at = "broadcast" => handling.uplink # c.uplink /\ handling.uplink \in Uplinks
      BY <2>2 DEF OnceInv, ConsumerShape
    <3> QED BY <2>0, <3>1, <3>2, <3>3, <3>4, <3>5 DEF OnceInv
  <2>3. CASE c.at = "insert" /\ ~T!Insertable(c.uplink)
    <3>1. broadcasts' = broadcasts /\ rows' = rows /\ abandoned' = abandoned \ {c}
      BY <1>8, <2>3 DEF T!Abandoned, T!stored
    <3> QED BY <2>0, <3>1 DEF OnceInv
  <2> QED BY <2>0, <2>1, <2>2, <2>3
<1>9. ASSUME NEW c \in abandoned, T!AbandonedFails(c) PROVE OnceInv'
  <2>1. /\ handling' = handling /\ abandoned' = abandoned \ {c}
        /\ broadcasts' = broadcasts /\ rows \subseteq rows'
    BY <1>9 DEF T!AbandonedFails, T!Store, T!stored
  <2> QED BY <2>1 DEF OnceInv
<1> QED BY <1>1, <1>2, <1>3, <1>4, <1>5, <1>6, <1>7, <1>8, <1>9 DEF T!Next, T!Consumer

(* Routing has no part in it.                                               *)
LEMMA OnceInvariant == Spec => []OnceInv
<1>1. Shape /\ OnceInv /\ [Next]_vars => OnceInv'
  BY ConsumerKeepsOnce DEF Next, vars, consumer, Shape, OnceInv
<1> QED BY <1>1, InitInv, ShapeInvariant, PTL DEF Spec

(* Every uplink is broadcast at most once, and never before it is stored.   *)
THEOREM BroadcastAtMostOnce == Spec => []BroadcastOnce
<1>1. Shape /\ OnceInv => BroadcastOnce
  BY DEF OnceInv, BroadcastOnce
<1> QED BY <1>1, ShapeInvariant, OnceInvariant, PTL
-----------------------------------------------------------------------------
(* No step of routing takes a copy out of the tenant's queue.               *)
LEMMA RoutingKeeps ==
  ASSUME CountShape, CountShape', R!Next, UNCHANGED consumer, NEW u \in Uplinks, Kept(u)
  PROVE  Kept(u)'
<1> DEFINE Grows == ready'[u] >= ready[u] /\ dropped \subseteq dropped' /\ unrouted \subseteq unrouted'
<1>1. Grows
  <2>1. ASSUME NEW v \in Uplinks, R!Deliver(v) PROVE Grows
    BY <2>1 DEF R!Deliver, R!Discard, R!broker, CountShape
  <2>2. CASE R!PublishOk \/ R!PublishFails
    BY <2>2 DEF R!PublishOk, R!PublishFails, R!Route, R!broker, CountShape
  <2>3. CASE R!Take \/ R!Ack \/ R!Reconnect \/ R!Start \/ R!Exit
    BY <2>3 DEF R!Take, R!Ack, R!Reconnect, R!Start, R!Exit, R!broker, CountShape
  <2>4. CASE R!Disconnect \/ R!Stop \/ R!Crash
    BY <2>4 DEF R!Disconnect, R!Stop, R!Crash, R!broker, CountShape
  <2> QED BY <2>1, <2>2, <2>3, <2>4 DEF R!Next, R!Publisher
<1>2. rows' = rows /\ dlq' = dlq /\ T!Unacked(u)' = T!Unacked(u)
  BY DEF consumer, T!Unacked, T!Left
<1>3. T!Unacked(u) \in Nat /\ ready[u] \in Nat /\ ready'[u] \in Nat
  BY LeftCount DEF CountShape
<1> QED BY <1>1, <1>2, <1>3 DEF Kept, Settled, InTenantQueue

(* No step of telemetry_consumer loses one but by settling it.              *)
LEMMA ConsumerKeeps ==
  ASSUME CountShape, CountShape', ConsumerShape, T!Next, UNCHANGED routing,
         HandlingInv,
         NEW u \in Uplinks, Kept(u)
  PROVE  Kept(u)'
<1> DEFINE Copies == ready[u] + T!Unacked(u)
<1>0. /\ rows \subseteq rows' /\ dlq \subseteq dlq' /\ Copies' >= Copies => Kept(u)'
      /\ Copies' > 0 => Kept(u)'
      /\ rows' = rows /\ dlq' = dlq /\ u \in rows \cup dlq => Kept(u)'
  <2>1. Copies \in Nat /\ Copies' \in Nat
    <3>1. Copies \in Nat
      BY LeftCount DEF CountShape
    <3>2. ready'[u] \in Nat /\ T!Unacked(u)' \in Nat
      BY LeftNextCount DEF CountShape
    <3> QED BY <3>1, <3>2
  <2> QED BY <2>1 DEF Kept, Settled, InTenantQueue, routing
<1>n. PICK n \in Nat : /\ n = Cardinality(T!Left(u))
                       /\ T!Unacked(u) = n + (IF channel /\ handling.uplink = u THEN 1 ELSE 0)
  BY LeftCount
<1>s. left' = left =>
        T!Unacked(u)' = n + (IF channel' /\ handling'.uplink = u THEN 1 ELSE 0)
  BY <1>n, LeftNextCount DEF T!Left
<1>r. ready[u] \in Nat
  BY DEF CountShape
<1>1. ASSUME NEW v \in Uplinks, T!Take(v) PROVE Kept(u)'
  <2>1. left' = left
    BY <1>1 DEF T!Take
  <2>2. channel /\ channel' /\ handling.uplink = None /\ handling'.uplink = v
    BY <1>1 DEF T!Take, T!Idle
  <2>3. Copies' = Copies
    <3>1. CASE u = v
      <4>1. ready'[u] = ready[u] - 1
        BY <1>1, <3>1 DEF T!Take, CountShape
      <4> QED BY <1>n, <1>r, <1>s, <2>1, <2>2, <3>1, <4>1, IngestConstants
    <3>2. CASE u # v
      <4>1. ready'[u] = ready[u]
        BY <1>1, <3>2 DEF T!Take, CountShape
      <4> QED BY <1>n, <1>r, <1>s, <2>1, <2>2, <3>2, <4>1, IngestConstants
    <3> QED BY <3>1, <3>2
  <2>4. rows' = rows /\ dlq' = dlq
    BY <1>1 DEF T!Take, T!stored
  <2> QED BY <1>0, <1>n, <1>r, <2>3, <2>4
<1>2. CASE T!Insert \/ T!BroadcastEvent \/ T!DeadLetter
  <2>1. /\ ready' = ready /\ left' = left /\ channel' = channel
        /\ rows \subseteq rows' /\ dlq \subseteq dlq'
    BY <1>2 DEF T!Insert, T!BroadcastEvent, T!DeadLetter, T!Store, T!Broadcast, T!stored
  <2>2. handling'.uplink = handling.uplink
    BY <1>2 DEF T!Insert, T!BroadcastEvent, T!DeadLetter, T!Goto, ConsumerShape
  <2> QED BY <1>0, <1>n, <1>r, <1>s, <2>1, <2>2
<1>3. CASE T!Unparsable \/ T!InsertFails \/ T!TimesOut
  <2>1. /\ ready' = ready /\ left' = left /\ channel' = channel
        /\ rows \subseteq rows' /\ dlq \subseteq dlq' /\ T!Retry /\ handling.at # "consume"
    BY <1>3 DEF T!Unparsable, T!InsertFails, T!TimesOut, T!Store, T!stored
  <2>2. handling'.uplink = handling.uplink
    BY <2>1, RetryShape
  <2> QED BY <1>0, <1>n, <1>r, <1>s, <2>1, <2>2
<1>4. CASE T!DeadLetterRefused
  <2> DEFINE copy == <<handling.uplink, Cardinality(T!Left(handling.uplink))>>
  <2>1. /\ channel = TRUE /\ ready' = ready /\ handling.uplink \in Uplinks
        /\ left' = left \cup {copy} /\ handling' = T!Idle
    BY <1>4, SameCount DEF T!DeadLetterRefused, T!PassOver, ConsumerShape, CountShape
  <2>2. rows' = rows /\ dlq \subseteq dlq' /\ copy[1] = handling.uplink
    BY <1>4 DEF T!DeadLetterRefused, T!stored
  <2> HIDE DEF copy
  <2>3. CASE u = handling.uplink
    <3>1. copy \in left' /\ copy[1] = u
      BY <2>1, <2>2, <2>3
    <3>2. T!Unacked(u)' \in Nat /\ T!Unacked(u)' > 0
      BY <3>1, LeftNextCount
    <3> QED BY <1>0, <1>r, <2>1, <3>2
  <2>4. CASE u # handling.uplink
    <3>1. T!Left(u)' = T!Left(u)
      BY <2>1, <2>2, <2>4 DEF T!Left
    <3>2. handling'.uplink # u
      BY <2>1, IngestConstants DEF T!Idle
    <3>3. T!Unacked(u)' = T!Unacked(u)
      BY <1>n, <2>4, <3>1, <3>2, LeftNextCount
    <3> QED BY <1>0, <1>n, <1>r, <2>1, <2>2, <3>3
  <2> QED BY <2>3, <2>4
<1>5. CASE T!Ack
  <2>1. /\ ready' = ready /\ left' = left /\ rows' = rows /\ dlq' = dlq
        /\ handling.uplink \in rows \cup dlq /\ channel' = channel
    BY <1>5 DEF T!Ack, T!stored, HandlingInv
  <2>2. u = handling.uplink \/ Copies' >= Copies
    BY <1>n, <1>r, <1>s, <2>1
  <2> QED BY <1>0, <2>1, <2>2
<1>6. CASE T!ChannelClosed \/ T!Connect
  <2>1. /\ ready' = ready /\ left' = left /\ channel = FALSE
    BY <1>6 DEF T!ChannelClosed, T!Connect, CountShape
  <2>2. Copies' >= Copies
    BY <1>n, <1>r, <1>s, <2>1
  <2>3. rows' = rows /\ dlq' = dlq
    BY <1>6 DEF T!ChannelClosed, T!Connect, T!stored
  <2> QED BY <1>0, <2>2, <2>3
<1>7. CASE T!LoseConnection \/ T!Die
  <2>1. T!CloseChannel /\ rows' = rows /\ dlq' = dlq
    BY <1>7 DEF T!LoseConnection, T!Die, T!stored
  <2>2. ready'[u] = Copies
    BY <2>1 DEF T!CloseChannel
  <2>3. Copies' >= ready'[u]
    BY <2>2, LeftNextCount DEF CountShape
  <2> QED BY <1>0, <2>1, <2>2, <2>3
<1>8. ASSUME NEW c \in abandoned, T!Abandoned(c) \/ T!AbandonedFails(c) PROVE Kept(u)'
  <2>1. /\ ready' = ready /\ left' = left /\ channel' = channel /\ handling' = handling
        /\ rows \subseteq rows' /\ dlq \subseteq dlq'
    BY <1>8 DEF T!Abandoned, T!AbandonedFails, T!Store, T!Broadcast, T!stored
  <2> QED BY <1>0, <1>n, <1>r, <1>s, <2>1
<1> QED BY <1>1, <1>2, <1>3, <1>4, <1>5, <1>6, <1>7, <1>8 DEF T!Next, T!Consumer

(* What the consumer thread knows of its message when it acks it            *)
LEMMA ConsumerKeepsHandling ==
  ASSUME ConsumerShape, HandlingInv, T!Next
  PROVE  HandlingInv'
<1>1. ASSUME NEW u \in Uplinks, T!Take(u) PROVE HandlingInv'
  BY <1>1 DEF T!Take, HandlingInv
<1>2. CASE T!Insert
  <2>1. handling'.uplink = handling.uplink
    BY <1>2 DEF T!Insert, T!Goto, ConsumerShape
  <2>2. handling.uplink \in rows'
    BY <1>2 DEF T!Insert, T!Insertable, T!Store, T!stored
  <2> QED BY <2>1, <2>2 DEF HandlingInv
<1>3. CASE T!BroadcastEvent \/ T!DeadLetter
  <2>1. handling'.uplink = handling.uplink
    BY <1>3 DEF T!BroadcastEvent, T!DeadLetter, T!Goto, ConsumerShape
  <2>2. handling.uplink \in rows' \cup dlq'
    BY <1>3 DEF T!BroadcastEvent, T!Broadcast, T!DeadLetter, T!stored, HandlingInv
  <2>3. handling'.at = "ack"
    BY <1>3 DEF T!BroadcastEvent, T!DeadLetter, T!Goto, ConsumerShape
  <2> QED BY <2>1, <2>2, <2>3 DEF HandlingInv
<1>4. CASE T!Unparsable \/ T!InsertFails \/ T!TimesOut
  <2>1. T!Retry /\ handling.at # "consume"
    BY <1>4 DEF T!Unparsable, T!InsertFails, T!TimesOut
  <2>2. handling'.at \in {"insert", "dead letter"}
    BY <2>1, RetryShape
  <2> QED BY <2>2 DEF HandlingInv
<1>5. CASE T!DeadLetterRefused \/ T!Ack \/ T!ChannelClosed \/ T!Die
  <2>1. handling' = T!Idle
    BY <1>5 DEF T!DeadLetterRefused, T!PassOver, T!Ack, T!ChannelClosed, T!Die
  <2> QED BY <2>1 DEF HandlingInv, T!Idle
<1>6. CASE T!Connect \/ T!LoseConnection
  BY <1>6 DEF T!Connect, T!LoseConnection, T!stored, HandlingInv
<1>7. ASSUME NEW c \in abandoned, T!Abandoned(c) \/ T!AbandonedFails(c) PROVE HandlingInv'
  <2>1. handling' = handling /\ rows \subseteq rows' /\ dlq' = dlq
    BY <1>7 DEF T!Abandoned, T!AbandonedFails, T!Store, T!Broadcast, T!stored
  <2> QED BY <2>1 DEF HandlingInv
<1> QED BY <1>1, <1>2, <1>3, <1>4, <1>5, <1>6, <1>7 DEF T!Next, T!Consumer

(* routing acks after the confirmation, and duplicates do no harm.          *)
LEMMA RoutingKeepsAcks ==
  ASSUME PublisherShape, CountShape, CountShape', AckInv, R!Next, UNCHANGED consumer
  PROVE  AckInv'
<1>0. HandlingInv' /\ \A u \in Uplinks : Kept(u) => Kept(u)'
  BY RoutingKeeps DEF AckInv, HandlingInv, consumer
<1>1. ASSUME NEW u \in Uplinks, R!Deliver(u) PROVE AckInv'
  <2>1. \A v \in Uplinks : mqtt'[v] = "gone" => mqtt[v] = "gone" \/ v \in dropped'
    BY <1>1 DEF R!Deliver, R!Discard, PublisherShape
  <2>2. publishing' = publishing
    BY <1>1 DEF R!Deliver
  <2> QED BY <1>0, <2>1, <2>2 DEF AckInv, PublisherShape, Kept, Settled
<1>2. CASE R!PublishOk
  <2>1. /\ mqtt' = mqtt /\ publishing.uplink \in Uplinks
        /\ publishing'.uplink = publishing.uplink
    BY <1>2 DEF R!PublishOk, PublisherShape
  <2>2. CASE bound
    <3>1. ready'[publishing.uplink] > 0
      BY <1>2, <2>1, <2>2 DEF R!PublishOk, R!Route, CountShape
    <3>2. T!Unacked(publishing.uplink)' \in Nat
      <4>1. PICK u \in Uplinks : u = publishing.uplink
        BY <2>1
      <4>2. T!Unacked(u)' = T!Unacked(u)
        BY DEF T!Unacked, T!Left, consumer
      <4>3. T!Unacked(u)' \in Nat
        BY <4>2, LeftCount
      <4> QED BY <2>1, <4>1, <4>3
    <3>3. InTenantQueue(publishing.uplink)'
      BY <2>1, <3>1, <3>2 DEF InTenantQueue, CountShape
    <3> QED BY <1>0, <2>1, <3>3 DEF AckInv, Kept
  <2>3. CASE ~bound
    BY <1>0, <1>2, <2>1, <2>3 DEF R!PublishOk, R!Route, AckInv, Kept, Settled
  <2> QED BY <2>2, <2>3
<1>3. CASE R!PublishFails
  <2>1. publishing'.at # "ack"
    <3>1. CASE publishing' = R!Idle
      BY <3>1 DEF R!Idle
    <3>2. CASE publishing' = [publishing EXCEPT !.attempt = @ + 1]
      BY <1>3, <3>2 DEF R!PublishFails, PublisherShape
    <3> QED BY <1>3, <3>1, <3>2 DEF R!PublishFails, R!NextAttempt
  <2>2. mqtt' = mqtt
    BY <1>3 DEF R!PublishFails
  <2> QED BY <1>0, <2>1, <2>2 DEF AckInv
<1>4. CASE R!Ack
  <2>1. \A v \in Uplinks : mqtt'[v] = "gone" => mqtt[v] = "gone" \/ v = publishing.uplink
    BY <1>4 DEF R!Ack, R!Acked, PublisherShape
  <2>2. publishing.at = "ack" /\ publishing'.at # "ack"
    BY <1>4 DEF R!Ack, R!Idle
  <2> QED BY <1>0, <2>1, <2>2 DEF AckInv
<1>5. CASE R!Take \/ R!Reconnect \/ R!Start \/ R!Exit
  <2>1. mqtt' = mqtt /\ (publishing'.at = "ack" => publishing' = publishing)
    BY <1>5 DEF R!Take, R!Reconnect, R!Start, R!Exit, R!memory, R!Idle
  <2> QED BY <1>0, <2>1 DEF AckInv, PublisherShape
<1>6. CASE R!Disconnect \/ R!Stop \/ R!Crash
  <2>1. \A v \in Uplinks : mqtt'[v] = "gone" => mqtt[v] = "gone"
    BY <1>6 DEF R!Disconnect, R!Stop, R!Crash, R!Unlink, PublisherShape
  <2>2. publishing'.at = "ack" => publishing' = publishing
    BY <1>6 DEF R!Disconnect, R!Stop, R!Crash, R!memory, R!Idle
  <2> QED BY <1>0, <2>1, <2>2 DEF AckInv, PublisherShape
<1> QED BY <1>1, <1>2, <1>3, <1>4, <1>5, <1>6 DEF R!Next, R!Publisher

(* telemetry_consumer acks what it has settled.                             *)
LEMMA ConsumerKeepsAcks ==
  ASSUME Shape, Shape', AckInv, T!Next, UNCHANGED routing
  PROVE  AckInv'
<1>1. HandlingInv'
  BY ConsumerKeepsHandling DEF AckInv, Shape
<1>2. \A u \in Uplinks : Kept(u) => Kept(u)'
  BY ConsumerKeeps DEF AckInv, Shape
<1> QED BY <1>1, <1>2 DEF AckInv, Shape, PublisherShape, routing

(* Both together                                                            *)
LEMMA AckInvariant == Spec => []AckInv
<1>1. Shape /\ Shape' /\ AckInv /\ [Next]_vars => AckInv'
  <2> SUFFICES ASSUME Shape, Shape', AckInv, [Next]_vars PROVE AckInv'
    OBVIOUS
  <2>1. CASE R!Next /\ UNCHANGED consumer
    BY <2>1, RoutingKeepsAcks DEF Shape
  <2>2. CASE T!Next /\ UNCHANGED routing
    BY <2>2, ConsumerKeepsAcks
  <2>3. CASE UNCHANGED vars
    BY <2>3 DEF vars, routing, consumer, AckInv, HandlingInv, Kept, Settled, InTenantQueue, T!Unacked, T!Left
  <2> QED BY <2>1, <2>2, <2>3 DEF Next
<1> QED BY <1>1, InitInv, ShapeInvariant, PTL DEF Spec

(* Whatever fails, an uplink that has been acked to the MQTT broker is      *)
(* where it ends, or RabbitMQ has a copy that nobody has acked.             *)
THEOREM AckedStaysAccounted == Spec => []AckedIsAccounted
<1>1. AckInv => AckedIsAccounted
  BY DEF AckInv, AckedIsAccounted, Kept
<1> QED BY <1>1, AckInvariant, PTL

-----------------------------------------------------------------------------
(* Types                                                                    *)

LEMMA Sizes ==
  /\ QueueSize \in Nat \ {0} /\ MaxAttempts \in Nat \ {0} /\ Prefetch \in Nat \ {0}
  /\ T!Attempts \in Nat \ {0}
<1>1. MaxRetries \in Nat
  BY IngestConstants
<1> QED BY <1>1, IngestConstants DEF T!Attempts

LEMMA IdleAt == T!Idle.at = "consume" /\ T!Idle.uplink = None
BY DEF T!Idle

LEMMA FaultsBounded ==
  ASSUME faults \in 0..MaxFaults,
         UNCHANGED faults \/ (\E kind : R!Fault(kind)) \/ (\E kind : T!Fault(kind))
  PROVE  faults' \in 0..MaxFaults
<1>1. faults \in Nat /\ MaxFaults \in Nat
  BY IngestConstants
<1>2. UNCHANGED faults \/ (faults < MaxFaults /\ faults' = faults + 1)
  BY DEF R!Fault, T!Fault
<1> QED BY <1>1, <1>2

LEMMA RoutingKeepsFaults ==
  ASSUME faults \in 0..MaxFaults, R!Next PROVE faults' \in 0..MaxFaults
<1>1. UNCHANGED faults \/ \E kind : R!Fault(kind)
  BY DEF R!Next, R!Publisher, R!Deliver, R!Take, R!PublishOk, R!Ack, R!PublishFails, R!Disconnect,
         R!Reconnect, R!Stop, R!Exit, R!Crash, R!Start
<1> QED BY <1>1, FaultsBounded

LEMMA ConsumerKeepsFaults ==
  ASSUME faults \in 0..MaxFaults, T!Next PROVE faults' \in 0..MaxFaults
<1>1. UNCHANGED faults \/ \E kind : T!Fault(kind)
  BY DEF T!Next, T!Consumer, T!Take, T!Insert, T!BroadcastEvent, T!Unparsable, T!DeadLetter, T!Ack,
         T!ChannelClosed, T!Connect, T!InsertFails, T!TimesOut, T!DeadLetterRefused, T!Abandoned,
         T!AbandonedFails, T!LoseConnection, T!Die
<1> QED BY <1>1, FaultsBounded

(* A disconnection sends all that is in flight back to the broker.          *)
LEMMA UnlinkedFlight ==
  ASSUME R!TypeOK, R!Unlink
  PROVE  /\ mqtt' \in [Uplinks -> {"waiting", "sent", "gone"}]
         /\ linked' = FALSE /\ R!InFlight' = {}
BY DEF R!TypeOK, R!Unlink, R!InFlight

LEMMA RoutingKeepsTypes ==
  ASSUME R!TypeOK, R!Next PROVE R!TypeOK'
<1> USE DEF R!TypeOK, R!memory
<1>0. QueueSize \in Nat /\ MaxAttempts \in Nat \ {0} /\ QueueSize # 0
  BY Sizes
<1>1. ASSUME NEW u \in Uplinks, R!Deliver(u) PROVE R!TypeOK'
  <2>1. /\ mqtt' \in [Uplinks -> {"waiting", "sent", "gone"}]
        /\ dropped' \subseteq Uplinks
        /\ UNCHANGED <<linked, process, publishing, unrouted>>
        /\ linked /\ process = "up"
    BY <1>1 DEF R!Deliver, R!Discard
  <2>2. queue' \in Seq(Uplinks) /\ Len(queue') <= QueueSize
    <3>1. CASE queue' = queue
      BY <3>1
    <3>2. CASE queue' = Append(queue, u) /\ Len(queue) # QueueSize
      <4>1. Len(queue) \in Nat /\ Len(queue') = Len(queue) + 1 /\ queue' \in Seq(Uplinks)
        BY <3>2
      <4> QED BY <1>0, <3>2, <4>1
    <3> QED BY <1>1, <3>1, <3>2 DEF R!Deliver, R!Discard
  <2> QED BY <2>1, <2>2
<1>2. CASE R!Take
  <2>1. /\ Head(queue) \in Uplinks /\ Tail(queue) \in Seq(Uplinks)
        /\ Len(Tail(queue)) <= QueueSize
    <3>1. Len(queue) \in Nat /\ Len(Tail(queue)) = Len(queue) - 1
          /\ Head(queue) \in Uplinks /\ Tail(queue) \in Seq(Uplinks)
      BY <1>2 DEF R!Take
    <3> QED BY <1>0, <3>1
  <2>2. publishing' \in [uplink : Uplinks, attempt : 1..MaxAttempts, at : {"publish", "ack"}]
    BY <1>0, <1>2, <2>1 DEF R!Take
  <2> QED BY <1>2, <2>1, <2>2 DEF R!Take, R!InFlight
<1>3. CASE R!PublishOk \/ R!PublishFails
  <2>1. publishing \in [uplink : Uplinks, attempt : 1..MaxAttempts, at : {"publish", "ack"}]
    BY <1>3 DEF R!PublishOk, R!PublishFails, R!Idle
  <2>2. /\ unrouted' \subseteq Uplinks
        /\ UNCHANGED <<mqtt, linked, process, queue, dropped>>
    BY <1>3, <2>1 DEF R!PublishOk, R!PublishFails, R!Route
  <2>3. process # "down"
    BY <1>3 DEF R!PublishOk, R!PublishFails, R!Idle
  <2>4. \/ publishing' = R!Idle
        \/ publishing' \in [uplink : Uplinks, attempt : 1..MaxAttempts, at : {"publish", "ack"}]
    <3>1. CASE publishing' = [publishing EXCEPT !.at = "ack"]
      BY <2>1, <3>1
    <3>2. CASE publishing' = R!NextAttempt
      <4>1. publishing.attempt < MaxAttempts => publishing.attempt + 1 \in 1..MaxAttempts
        BY <1>0, <2>1
      <4> QED BY <2>1, <3>2, <4>1 DEF R!NextAttempt
    <3> QED BY <1>3, <3>1, <3>2 DEF R!PublishOk, R!PublishFails
  <2> QED BY <2>2, <2>3, <2>4 DEF R!InFlight
<1>4. CASE R!Ack
  <2>1. mqtt' \in [Uplinks -> {"waiting", "sent", "gone"}] /\ (~linked => mqtt' = mqtt)
    BY <1>4 DEF R!Ack, R!Acked
  <2> QED BY <1>4, <2>1 DEF R!Ack, R!InFlight
<1>5. CASE R!Reconnect \/ R!Start
  BY <1>5 DEF R!Reconnect, R!Start
<1>6. CASE R!Disconnect
  BY <1>6, UnlinkedFlight DEF R!Disconnect
<1>7. CASE R!Stop
  BY <1>7, UnlinkedFlight DEF R!Stop
<1>8. CASE R!Crash
  <2>1. /\ mqtt' \in [Uplinks -> {"waiting", "sent", "gone"}]
        /\ linked' = FALSE /\ R!InFlight' = {}
    BY <1>8, UnlinkedFlight DEF R!Crash
  <2>2. /\ process' = "down" /\ queue' = <<>> /\ publishing' = R!Idle
        /\ UNCHANGED <<dropped, unrouted>>
    BY <1>8 DEF R!Crash
  <2>3. <<>> \in Seq(Uplinks) /\ Len(<<>>) <= QueueSize
    BY <1>0
  <2> QED BY <2>1, <2>2, <2>3
<1>9. CASE R!Exit
  <2>1. ~linked
    BY <1>9 DEF R!Exit
  <2> QED BY <1>0, <1>9, <2>1 DEF R!Exit, R!InFlight
<1> QED BY <1>1, <1>2, <1>3, <1>4, <1>5, <1>6, <1>7, <1>8, <1>9 DEF R!Next, R!Publisher

(* What the consumer thread holds, and what it has stored                   *)
Handled == [uplink : Uplinks, attempt : 1..T!Attempts,
            at : {"insert", "broadcast", "dead letter", "ack"}]

StoredInv ==
  /\ handling = T!Idle \/ handling \in Handled
  /\ abandoned \subseteq [uplink : Uplinks, at : {"insert", "broadcast"}]
  /\ rows \subseteq Uplinks \ Poison /\ dlq \subseteq Uplinks

LEMMA RetryHandled ==
  ASSUME handling \in Handled, T!Retry PROVE handling' \in Handled
<1>1. T!Attempts \in Nat /\ handling.attempt \in 1..T!Attempts
  BY Sizes DEF Handled
<1>2. CASE handling' = [handling EXCEPT !.attempt = @ + 1, !.at = "insert"]
           /\ handling.attempt < T!Attempts
  <2>1. handling.attempt + 1 \in 1..T!Attempts
    BY <1>1, <1>2
  <2> QED BY <1>2, <2>1 DEF Handled
<1>3. CASE handling' = [handling EXCEPT !.at = "dead letter"]
  BY <1>3 DEF Handled
<1> QED BY <1>2, <1>3 DEF T!Retry, T!Goto

LEMMA ConsumerKeepsStored ==
  ASSUME StoredInv, T!Next PROVE StoredInv'
<1> USE DEF StoredInv
<1>0. handling.at \in {"insert", "broadcast", "dead letter", "ack"} => handling \in Handled
  BY IdleAt
<1>1. ASSUME NEW u \in Uplinks, T!Take(u) PROVE StoredInv'
  <2>1. T!Attempts \in Nat /\ 1 \in 1..T!Attempts
    BY Sizes
  <2>2. handling' \in Handled
    BY <1>1, <2>1 DEF T!Take, Handled
  <2> QED BY <1>1, <2>2 DEF T!Take, T!stored
<1>2. CASE T!Insert \/ T!BroadcastEvent \/ T!DeadLetter
  <2>1. handling \in Handled
    BY <1>0, <1>2 DEF T!Insert, T!BroadcastEvent, T!DeadLetter
  <2>2. handling' \in Handled /\ handling.uplink \in Uplinks
    BY <1>2, <2>1 DEF T!Insert, T!BroadcastEvent, T!DeadLetter, T!Goto, Handled
  <2>3. abandoned' = abandoned /\ dlq' \subseteq dlq \cup {handling.uplink}
        /\ (rows' = rows \/ (rows' = rows \cup {handling.uplink} /\ handling.uplink \notin Poison))
    BY <1>2 DEF T!Insert, T!BroadcastEvent, T!DeadLetter, T!Store, T!Broadcast, T!stored,
                T!Insertable
  <2> QED BY <2>2, <2>3
<1>3. CASE T!Unparsable \/ T!InsertFails \/ T!TimesOut
  <2>1. handling \in Handled /\ T!Retry
    BY <1>0, <1>3 DEF T!Unparsable, T!InsertFails, T!TimesOut
  <2>2. handling' \in Handled /\ handling.uplink \in Uplinks
    BY <2>1, RetryHandled DEF Handled
  <2>3. dlq' = dlq
        /\ (rows' = rows \/ (rows' = rows \cup {handling.uplink} /\ handling.uplink \notin Poison))
    BY <1>3 DEF T!Unparsable, T!InsertFails, T!TimesOut, T!Store, T!stored, T!Insertable
  <2>4. \/ abandoned' = abandoned
        \/ /\ handling.at \in {"insert", "broadcast"}
           /\ abandoned' = abandoned \cup {[uplink |-> handling.uplink, at |-> handling.at]}
    BY <1>3 DEF T!Unparsable, T!InsertFails, T!TimesOut
  <2> QED BY <2>2, <2>3, <2>4
<1>4. CASE T!DeadLetterRefused
  <2>1. handling.uplink \in Uplinks
    BY <1>0, <1>4 DEF T!DeadLetterRefused, Handled
  <2> QED BY <1>4, <2>1 DEF T!DeadLetterRefused, T!PassOver, T!stored
<1>5. CASE T!Ack \/ T!ChannelClosed \/ T!Connect \/ T!LoseConnection \/ T!Die
  BY <1>5 DEF T!Ack, T!ChannelClosed, T!Connect, T!LoseConnection, T!Die, T!stored
<1>6. ASSUME NEW c \in abandoned, T!Abandoned(c) \/ T!AbandonedFails(c) PROVE StoredInv'
  <2>1. c.uplink \in Uplinks
        /\ [c EXCEPT !.at = "broadcast"] \in [uplink : Uplinks, at : {"insert", "broadcast"}]
    OBVIOUS
  <2>2. /\ handling' = handling /\ dlq' = dlq
        /\ abandoned' \subseteq abandoned \cup {[c EXCEPT !.at = "broadcast"]}
        /\ (rows' = rows \/ (rows' = rows \cup {c.uplink} /\ c.uplink \notin Poison))
    BY <1>6 DEF T!Abandoned, T!AbandonedFails, T!Store, T!Broadcast, T!stored, T!Insertable
  <2> QED BY <2>1, <2>2
<1> QED BY <1>1, <1>2, <1>3, <1>4, <1>5, <1>6 DEF T!Next, T!Consumer

(* What RabbitMQ has delivered and not seen acked: only on an open channel, *)
(* and no more than Prefetch, the message of the thread included            *)
InHand == channel /\ handling # T!Idle

DeliveredInv ==
  /\ bound \in BOOLEAN /\ (channel => bound)
  /\ ~channel => left = {}
  /\ \A copy \in left : copy[2] < Cardinality(T!Left(copy[1]))
  /\ Cardinality(left) + (IF InHand THEN 1 ELSE 0) <= Prefetch

LEMMA LeftSize == ASSUME CountShape PROVE Cardinality(left) \in Nat
BY FS_CardinalityType DEF CountShape

LEMMA SameLeft ==
  ASSUME CountShape, DeliveredInv, left' = left, channel' = channel,
         bound' = bound, InHand' => InHand
  PROVE  DeliveredInv'
<1>1. \A u : T!Left(u)' = T!Left(u)
  BY DEF T!Left
<1>2. \A copy \in left' : copy[2] < Cardinality(T!Left(copy[1])')
  BY <1>1 DEF DeliveredInv
<1>3. Prefetch \in Nat
  BY Sizes
<1> QED BY <1>2, <1>3, LeftSize DEF DeliveredInv

LEMMA NothingLeft ==
  ASSUME left' = {}, bound' \in BOOLEAN, channel' => bound', ~InHand'
  PROVE  DeliveredInv'
<1>1. Cardinality(left') = 0
  BY FS_EmptySet
<1> QED BY <1>1, Sizes DEF DeliveredInv

(* A message that is passed over takes the place it had in the prefetch.    *)
LEMMA PassOverKeepsDelivered ==
  ASSUME CountShape, CountShape', ConsumerShape, DeliveredInv, T!DeadLetterRefused
  PROVE  DeliveredInv'
<1>0. PICK v \in Uplinks : v = handling.uplink
  BY DEF T!DeadLetterRefused, ConsumerShape
<1> DEFINE copy == <<v, Cardinality(T!Left(v))>>
<1>1. /\ channel /\ handling.at = "dead letter"
      /\ UNCHANGED <<bound, channel>> /\ handling' = T!Idle
      /\ left' = left \cup {copy}
  BY <1>0, SameCount DEF T!DeadLetterRefused, T!PassOver
<1>2. InHand /\ ~InHand'
  BY <1>1, IdleAt DEF InHand
<1>3. PICK n \in Nat : n = Cardinality(T!Left(v))
  BY LeftCount
<1>4. copy[1] = v /\ copy[2] = n
  BY <1>3
<1>5. copy \notin left
  BY <1>3, <1>4 DEF DeliveredInv
<1> HIDE DEF copy
<1>6. IsFiniteSet(left) /\ IsFiniteSet(T!Left(v))
  BY FS_Subset DEF CountShape, T!Left
<1>7. Cardinality(left') = Cardinality(left) + 1
  BY <1>1, <1>5, <1>6, FS_AddElement
<1>8. Cardinality(T!Left(v)') = n + 1
  <2>1. T!Left(v)' = T!Left(v) \cup {copy}
    BY <1>1, <1>4 DEF T!Left
  <2>2. copy \notin T!Left(v)
    BY <1>5 DEF T!Left
  <2> QED BY <1>3, <1>6, <2>1, <2>2, FS_AddElement
<1>9. ASSUME NEW e \in left' PROVE e[2] < Cardinality(T!Left(e[1])')
  <2>1. CASE e[1] = v
    <3>1. e = copy \/ (e \in left /\ e[2] < n /\ e[2] \in Nat)
      BY <1>1, <1>3, <2>1 DEF DeliveredInv, CountShape
    <3>2. T!Left(e[1])' = T!Left(v)'
      BY <1>1, <2>1 DEF T!Left
    <3> QED BY <1>3, <1>4, <1>8, <3>1, <3>2
  <2>2. CASE e[1] # v
    <3>1. PICK w \in Uplinks : w = e[1] /\ w # v
      BY <2>2 DEF CountShape
    <3>2. e \in left
      BY <1>1, <1>4, <2>2
    <3>3. copy[1] # w
      BY <1>4, <3>1
    <3>4. T!Left(w)' = T!Left(w)
      BY <1>1, <3>3 DEF T!Left
    <3> QED BY <3>1, <3>2, <3>4 DEF DeliveredInv
  <2> QED BY <2>1, <2>2
<1>10. Cardinality(left') + (IF InHand' THEN 1 ELSE 0) <= Prefetch
  <2>1. Cardinality(left) + 1 <= Prefetch
    BY <1>2 DEF DeliveredInv
  <2> QED BY <1>2, <1>7, <2>1, LeftSize, Sizes
<1> QED BY <1>1, <1>9, <1>10 DEF DeliveredInv

LEMMA ConsumerKeepsDelivered ==
  ASSUME CountShape, CountShape', ConsumerShape, DeliveredInv, T!Next
  PROVE  DeliveredInv'
<1>0. \A at \in {"insert", "broadcast", "dead letter", "ack"} :
        handling.at = at => handling # T!Idle
  BY IdleAt
<1>1. ASSUME NEW u \in Uplinks, T!Take(u) PROVE DeliveredInv'
  <2>1. /\ channel /\ UNCHANGED <<left, channel, bound>> /\ T!Room
    BY <1>1 DEF T!Take
  <2>2. Cardinality(left) < Prefetch
    BY <2>1, SameCount DEF T!Room
  <2>3. \A v : T!Left(v)' = T!Left(v)
    BY <2>1 DEF T!Left
  <2>4. \A copy \in left' : copy[2] < Cardinality(T!Left(copy[1])')
    BY <2>1, <2>3 DEF DeliveredInv
  <2> QED BY <2>1, <2>2, <2>4, LeftSize, Sizes DEF DeliveredInv
<1>2. CASE T!Insert \/ T!BroadcastEvent \/ T!DeadLetter \/ T!Unparsable \/ T!InsertFails
           \/ T!TimesOut
  <2>1. UNCHANGED <<left, channel, bound>> /\ handling # T!Idle
    BY <1>0, <1>2 DEF T!Insert, T!BroadcastEvent, T!DeadLetter, T!Unparsable, T!InsertFails,
                      T!TimesOut
  <2> QED BY <2>1, SameLeft DEF InHand
<1>3. CASE T!Ack \/ T!ChannelClosed
  <2>1. UNCHANGED <<left, channel, bound>> /\ handling' = T!Idle
    BY <1>3 DEF T!Ack, T!ChannelClosed
  <2> QED BY <2>1, SameLeft DEF InHand
<1>4. CASE T!DeadLetterRefused
  BY <1>4, PassOverKeepsDelivered
<1>5. CASE T!Connect
  <2>1. left' = {} /\ bound' = TRUE /\ handling' = T!Idle
    BY <1>5 DEF T!Connect, DeliveredInv
  <2> QED BY <2>1, NothingLeft DEF InHand
<1>6. CASE T!LoseConnection \/ T!Die
  <2>1. left' = {} /\ channel' = FALSE /\ bound' = bound
    BY <1>6 DEF T!LoseConnection, T!Die, T!CloseChannel
  <2> QED BY <2>1, NothingLeft DEF InHand, DeliveredInv
<1>7. ASSUME NEW c \in abandoned, T!Abandoned(c) \/ T!AbandonedFails(c) PROVE DeliveredInv'
  <2>1. UNCHANGED <<left, channel, bound, handling>>
    BY <1>7 DEF T!Abandoned, T!AbandonedFails
  <2> QED BY <2>1, SameLeft DEF InHand
<1> QED BY <1>1, <1>2, <1>3, <1>4, <1>5, <1>6, <1>7 DEF T!Next, T!Consumer

LEMMA RoutingKeepsDelivered ==
  ASSUME CountShape, DeliveredInv, R!Next, UNCHANGED consumer
  PROVE  DeliveredInv'
<1>1. bound' = bound
  BY DEF R!Next, R!Publisher, R!Deliver, R!Take, R!PublishOk, R!Ack, R!PublishFails, R!Route,
         R!Disconnect, R!Reconnect, R!Stop, R!Exit, R!Crash, R!Start, R!broker
<1> QED BY <1>1, SameLeft DEF consumer, InHand

(* The bounds of the two queues hold for any sizes: the service holds no    *)
(* more than QueueSize uplinks, RabbitMQ has delivered no more messages     *)
(* than Prefetch, and a message is tried no more often than it may be.      *)
THEOREM IngestTypes == Spec => []TypeOK
<1> DEFINE Inv == R!TypeOK /\ StoredInv /\ DeliveredInv /\ faults \in 0..MaxFaults
<1>1. Init => Inv
  <2> SUFFICES ASSUME Init PROVE Inv
    OBVIOUS
  <2> USE DEF Init, R!Init, T!Init
  <2>1. R!TypeOK
    <3>1. Len(<<>>) <= QueueSize /\ <<>> \in Seq(Uplinks)
      BY IngestConstants
    <3> QED BY <3>1 DEF R!TypeOK, R!InFlight
  <2>2. StoredInv /\ 0 \in 0..MaxFaults
    BY IngestConstants DEF StoredInv
  <2>3. DeliveredInv
    <3>1. Cardinality({}) = 0 /\ left = {} /\ channel = FALSE /\ bound = FALSE
      BY FS_EmptySet
    <3>2. ~InHand /\ (IF InHand THEN 1 ELSE 0) = 0
      BY <3>1 DEF InHand
    <3>3. Cardinality(left) + (IF InHand THEN 1 ELSE 0) <= Prefetch
      BY <3>1, <3>2, Sizes
    <3> QED BY <3>1, <3>3 DEF DeliveredInv
  <2> QED BY <2>1, <2>2, <2>3
<1>2. Shape /\ Shape' /\ Inv /\ [Next]_vars => Inv'
  <2> SUFFICES ASSUME Shape, Shape', Inv, [Next]_vars PROVE Inv'
    OBVIOUS
  <2>1. CASE R!Next /\ UNCHANGED consumer
    <3>1. R!TypeOK' /\ DeliveredInv' /\ faults' \in 0..MaxFaults
      BY <2>1, RoutingKeepsTypes, RoutingKeepsDelivered, RoutingKeepsFaults DEF Shape
    <3>2. StoredInv'
      BY <2>1 DEF StoredInv, consumer
    <3> QED BY <3>1, <3>2
  <2>2. CASE T!Next /\ UNCHANGED routing
    <3>1. StoredInv' /\ DeliveredInv' /\ faults' \in 0..MaxFaults
      BY <2>2, ConsumerKeepsStored, ConsumerKeepsDelivered, ConsumerKeepsFaults DEF Shape
    <3>2. R!TypeOK'
      BY <2>2 DEF R!TypeOK, R!InFlight, routing
    <3> QED BY <3>1, <3>2
  <2>3. CASE UNCHANGED vars
    <3>1. R!TypeOK'
      BY <2>3 DEF R!TypeOK, R!InFlight, vars, routing
    <3>2. StoredInv' /\ faults' \in 0..MaxFaults
      BY <2>3 DEF StoredInv, vars, consumer
    <3>3. DeliveredInv'
      BY <2>3, SameLeft DEF vars, consumer, InHand, Shape
    <3> QED BY <3>1, <3>2, <3>3
  <2> QED BY <2>1, <2>2, <2>3 DEF Next
<1>3. Shape /\ Inv => TypeOK
  <2> SUFFICES ASSUME Shape, Inv PROVE T!TypeOK
    BY DEF TypeOK
  <2>1. \A S : T!Cardinality(S) = Cardinality(S)
    BY SameCount
  <2> QED BY <2>1 DEF T!TypeOK, Shape, CountShape, StoredInv, Handled, DeliveredInv, InHand
<1> QED BY <1>1, <1>2, <1>3, InitInv, ShapeInvariant, PTL DEF Spec
=============================================================================
