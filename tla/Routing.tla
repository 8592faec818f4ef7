------------------------------- MODULE Routing -------------------------------
(***************************************************************************)
(* middleware/services/routing: the MQTT callback, the bounded queue and   *)
(* the publisher thread.  The MQTT session is persistent and acks are      *)
(* manual: the broker keeps an uplink until it is acked, keeps a limited   *)
(* number of them in flight, and sends again those in flight when the      *)
(* client has been away, and only then.                                    *)
(***************************************************************************)
EXTENDS Naturals, Sequences, FiniteSets

CONSTANTS
  Uplinks,      \* uplinks published by the network server, each once
  Invalid,      \* those that validate_message refuses
  QueueSize,    \* maxsize of the queue of IngestService
  MaxAttempts,  \* rabbit_connect_max_attempts
  Window,       \* uplinks the MQTT broker keeps in flight
  Faults,       \* kinds of fault that may happen
  MaxFaults,    \* bound: how many faults happen in a behaviour
  None

VARIABLES
  mqtt,       \* of each uplink: waiting at the broker, in flight, or acked
  linked,     \* the client is connected to the MQTT broker
  process,    \* the service is up, stopping or down
  queue,      \* IngestService._q
  publishing, \* what the publisher thread holds
  dropped,    \* history: uplinks acked without publishing, by on_message
  unrouted,   \* history: uplinks published while no tenant queue was bound
  ready,      \* of each uplink: its copies ready in the tenant's queue
  bound,      \* the tenant's queue is bound to its exchange
  faults      \* number of faults so far

broker == <<ready, bound>>
memory == <<process, queue, publishing>>
vars == <<mqtt, linked, memory, dropped, unrouted, broker, faults>>

Idle == [uplink |-> None, attempt |-> 0, at |-> "get"]

InFlight == {u \in Uplinks : mqtt[u] = "sent"}
Queued == {queue[i] : i \in DOMAIN queue}

(* In flight, and nothing in the service will ever ack it.                  *)
Stranded == InFlight \ (Queued \cup {publishing.uplink})

Fault(kind) == kind \in Faults /\ faults < MaxFaults /\ faults' = faults + 1

Init ==
  /\ mqtt = [u \in Uplinks |-> "waiting"]
  /\ linked = TRUE
  /\ process = "up"
  /\ queue = <<>>
  /\ publishing = Idle
  /\ dropped = {}
  /\ unrouted = {}

-----------------------------------------------------------------------------
(* The MQTT thread *)

(* client.ack: without a connection it is lost.                             *)
Acked(u) ==
  IF linked /\ mqtt[u] = "sent" THEN [mqtt EXCEPT ![u] = "gone"] ELSE mqtt

(* on_message                                                               *)
Discard(u) ==
  /\ mqtt' = [mqtt EXCEPT ![u] = "gone"]
  /\ dropped' = dropped \cup {u}
  /\ UNCHANGED queue

Deliver(u) ==
  /\ linked /\ process = "up"
  /\ mqtt[u] = "waiting"
  /\ Cardinality(InFlight) < Window
  /\ IF u \in Invalid \/ Len(queue) = QueueSize
     THEN Discard(u)
     ELSE /\ mqtt' = [mqtt EXCEPT ![u] = "sent"]
          /\ queue' = Append(queue, u)
          /\ UNCHANGED dropped
  /\ UNCHANGED <<linked, process, publishing, unrouted, broker, faults>>

(* The session is kept: what was in flight will be sent again.              *)
Unlink ==
  /\ linked' = FALSE
  /\ mqtt' = [u \in Uplinks |-> IF mqtt[u] = "sent" THEN "waiting" ELSE mqtt[u]]

Disconnect ==
  /\ linked
  /\ Fault("disconnect")
  /\ Unlink
  /\ UNCHANGED <<memory, dropped, unrouted, broker>>

(* loop_forever connects again, on_connect subscribes again.                *)
Reconnect ==
  /\ process = "up" /\ ~linked
  /\ linked' = TRUE
  /\ UNCHANGED <<mqtt, memory, dropped, unrouted, broker, faults>>

-----------------------------------------------------------------------------
(* The publisher thread *)

(* A Take that was ahead of the stop event is a Take before the Stop.       *)
Take ==
  /\ process = "up"
  /\ publishing = Idle
  /\ queue # <<>>
  /\ publishing' = [uplink |-> Head(queue), attempt |-> 1, at |-> "publish"]
  /\ queue' = Tail(queue)
  /\ UNCHANGED <<mqtt, linked, process, dropped, unrouted, broker, faults>>

(* The exchange takes the message: the audit queue keeps it, and the queue  *)
(* of the tenant if it is bound.                                            *)
Route(u) ==
  IF bound
  THEN ready' = [ready EXCEPT ![u] = @ + 1] /\ UNCHANGED <<bound, unrouted>>
  ELSE unrouted' = unrouted \cup {u} /\ UNCHANGED broker

PublishOk ==
  /\ publishing.at = "publish"
  /\ Route(publishing.uplink)
  /\ publishing' = [publishing EXCEPT !.at = "ack"]
  /\ UNCHANGED <<mqtt, linked, process, queue, dropped, faults>>

(* An error, a refusal, or a confirmation that never came.                  *)
NextAttemptOrAck ==  \* mutant: acked after the last attempt
  IF publishing.attempt < MaxAttempts
  THEN [publishing EXCEPT !.attempt = @ + 1]
  ELSE [publishing EXCEPT !.at = "ack"]

NextAttempt ==
  IF publishing.attempt < MaxAttempts
  THEN [publishing EXCEPT !.attempt = @ + 1]
  ELSE Idle

PublishFails ==
  /\ publishing.at = "publish"
  /\ Fault("publish")
  /\ Route(publishing.uplink) \/ UNCHANGED <<unrouted, broker>>
  /\ publishing' = NextAttempt
  /\ UNCHANGED <<mqtt, linked, process, queue, dropped>>

Ack ==
  /\ publishing.at = "ack"
  /\ mqtt' = Acked(publishing.uplink)
  /\ publishing' = Idle
  /\ UNCHANGED <<linked, process, queue, dropped, unrouted, broker, faults>>

-----------------------------------------------------------------------------
(* The process *)

(* IngestService.stop: the publisher thread finishes the uplink it holds.   *)
Stop ==
  /\ process = "up"
  /\ Fault("stop")
  /\ process' = "stopping"
  /\ Unlink
  /\ UNCHANGED <<queue, publishing, dropped, unrouted, broker>>

(* The thread has ended, or the join timed out: it is a daemon.             *)
Exit ==
  /\ process = "stopping"
  /\ process' = "down"
  /\ queue' = <<>>
  /\ publishing' = Idle
  /\ UNCHANGED <<mqtt, linked, dropped, unrouted, broker, faults>>

Crash ==
  /\ process # "down"
  /\ Fault("crash")
  /\ process' = "down"
  /\ queue' = <<>>
  /\ publishing' = Idle
  /\ Unlink
  /\ UNCHANGED <<dropped, unrouted, broker>>

(* IngestService.start; a start that cannot connect exits and is repeated.  *)
Start ==
  /\ process = "down"
  /\ process' = "up"
  /\ linked' = TRUE
  /\ UNCHANGED <<mqtt, queue, publishing, dropped, unrouted, broker, faults>>

-----------------------------------------------------------------------------
Publisher == Take \/ PublishOk \/ Ack

Next ==
  \/ \E u \in Uplinks : Deliver(u)
  \/ Publisher \/ PublishFails
  \/ Disconnect \/ Reconnect
  \/ Stop \/ Exit \/ Crash \/ Start

(* Type correctness, and what a program counter implies.                    *)
TypeOK ==
  /\ mqtt \in [Uplinks -> {"waiting", "sent", "gone"}]
  /\ linked \in BOOLEAN
  /\ process \in {"up", "stopping", "down"}
  /\ queue \in Seq(Uplinks) /\ Len(queue) <= QueueSize
  /\ \/ publishing = Idle
     \/ publishing \in [uplink : Uplinks, attempt : 1..MaxAttempts, at : {"publish", "ack"}]
  /\ dropped \subseteq Uplinks /\ unrouted \subseteq Uplinks
  /\ linked => process = "up"
  /\ process = "down" => queue = <<>> /\ publishing = Idle
  /\ ~linked => InFlight = {}
=============================================================================
