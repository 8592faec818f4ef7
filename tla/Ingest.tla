-------------------------------- MODULE Ingest --------------------------------
(***************************************************************************)
(* The path of telemetry from MQTT to the table of a tenant: routing and   *)
(* telemetry_consumer around the tenant's queue in RabbitMQ.               *)
(***************************************************************************)
EXTENDS Naturals, Sequences, FiniteSets

CONSTANTS
  Uplinks, Invalid, QueueSize, MaxAttempts, Window,  \* of Routing
  Poison, MaxRetries, Prefetch,                      \* of TelemetryConsumer
  Faults, MaxFaults, None

ASSUME IngestConstants ==
  /\ Invalid \subseteq Uplinks /\ Poison \subseteq Uplinks
  /\ {QueueSize, MaxAttempts, Window, Prefetch} \subseteq Nat \ {0}
  /\ MaxRetries \in Nat /\ MaxFaults \in Nat
  /\ None \notin Uplinks

VARIABLES
  mqtt, linked, process, queue, publishing, dropped, unrouted,
  ready, bound,
  channel, left, handling, abandoned, rows, broadcasts, dlq,
  faults

R == INSTANCE Routing
T == INSTANCE TelemetryConsumer

routing == <<mqtt, linked, process, queue, publishing, dropped, unrouted>>
consumer == <<channel, left, handling, abandoned, rows, broadcasts, dlq>>
vars == <<routing, ready, bound, consumer, faults>>

Init ==
  /\ R!Init /\ T!Init
  /\ ready = [u \in Uplinks |-> 0]
  /\ bound = FALSE
  /\ faults = 0

Next ==
  \/ R!Next /\ UNCHANGED consumer
  \/ T!Next /\ UNCHANGED routing

Spec == Init /\ [][Next]_vars

(* Threads that loop and catch their exceptions, clients that reconnect,    *)
(* containers that restart.                                                 *)
FairSpec ==
  /\ Spec
  /\ \A u \in Uplinks : WF_vars(R!Deliver(u) /\ UNCHANGED consumer)
  /\ WF_vars(R!Publisher /\ UNCHANGED consumer)
  /\ WF_vars(R!Reconnect /\ UNCHANGED consumer)
  /\ WF_vars((R!Exit \/ R!Start) /\ UNCHANGED consumer)
  /\ WF_vars(T!Consumer /\ UNCHANGED routing)
  /\ WF_vars(T!Connect /\ UNCHANGED routing)

-----------------------------------------------------------------------------
(* Type correctness of both components.                                     *)
TypeOK == R!TypeOK /\ T!TypeOK

(* The tenant's queue, or a consumer that has not acked, has a copy of u.   *)
InTenantQueue(u) == ready[u] + T!Unacked(u) > 0

(* Where an uplink ends: discarded by on_message, published before the      *)
(* tenant's queue was bound (the audit queue has it), stored, dead-lettered.*)
Settled(u) == u \in dropped \cup unrouted \cup rows \cup dlq

(* At least once: between the ack of an uplink to the MQTT broker and its   *)
(* end, RabbitMQ has a copy that will be consumed, whatever crashes, which- *)
(* ever confirmation or connection is lost (routing acks after the confirm, *)
(* telemetry_consumer after the insertion or the dead letter).              *)
AckedIsAccounted ==
  \A u \in Uplinks : mqtt[u] = "gone" => Settled(u) \/ InTenantQueue(u)

(* WebSocket clients see an uplink at most once, and only when the table    *)
(* has it, in spite of duplicates, of retries and of coroutines that        *)
(* outlive their timeout (the handler broadcasts what it has inserted).     *)
BroadcastOnce ==
  \A u \in Uplinks : broadcasts[u] <= 1 /\ (broadcasts[u] = 1 => u \in rows)

(* Every uplink ends, unless some uplink whose publication was given up, or *)
(* a message whose dead letter was refused, waits for a connection to close *)
(* (both stay in flight, and may keep others from being delivered).         *)
EverySettles ==
  (\A u \in Uplinks : <>Settled(u)) \/ <>[](R!Stranded # {} \/ left # {})

(* docs/comunicacao_entre_servicos.md says that an uplink met by an         *)
(* unavailable broker stays without ack and is redelivered: one that the    *)
(* publisher has given up is sent again by the MQTT broker.                 *)
GivenUpIsRedelivered ==
  \A u \in Uplinks : [](u \in R!Stranded => <>(u \notin R!Stranded))
=============================================================================
