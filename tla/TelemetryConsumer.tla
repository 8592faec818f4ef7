-------------------------- MODULE TelemetryConsumer --------------------------
(***************************************************************************)
(* client/services/telemetry_consumer: a thread takes messages from the    *)
(* queue of the tenant and hands each to a coroutine that stores and       *)
(* broadcasts it, with retries, and with a dead-letter queue for what      *)
(* cannot be stored.  A message delivered on a channel and not acked is    *)
(* ready again when that channel closes, and not before.                   *)
(*                                                                         *)
(* Messages in the consumer's buffer behave as ready ones: they count as   *)
(* ready.  routing builds every field _parse asks for, so it never fails.  *)
(***************************************************************************)
EXTENDS Naturals, FiniteSets

CONSTANTS
  Uplinks,     \* uplinks, each with its own time
  Poison,      \* those whose time is not an ISO 8601 date: _parse_iso refuses it
  MaxRetries,  \* consumer_max_retries
  Prefetch,    \* rabbit_prefetch_count
  Faults,      \* kinds of fault that may happen
  MaxFaults,   \* bound: how many faults happen in a behaviour
  None

VARIABLES
  ready,       \* of each uplink: its copies ready in the tenant's queue
  bound,       \* that queue is bound to the tenant's exchange
  channel,     \* the consumer has an open channel
  left,        \* what was delivered on it and passed over without ack: uplink and number
  handling,    \* the message of _handle_message
  abandoned,   \* coroutines whose future.result timed out
  rows,        \* table telemetry
  broadcasts,  \* history: how often each uplink was broadcast
  dlq,         \* history: uplinks in the dead-letter queue
  faults       \* number of faults so far

stored == <<rows, broadcasts>>
vars == <<ready, bound, channel, left, handling, abandoned, stored, dlq, faults>>

Attempts == 1 + MaxRetries
Idle == [uplink |-> None, attempt |-> 0, at |-> "consume"]

Fault(kind) == kind \in Faults /\ faults < MaxFaults /\ faults' = faults + 1

Init ==
  /\ channel = FALSE
  /\ left = {}
  /\ handling = Idle
  /\ abandoned = {}
  /\ rows = {}
  /\ broadcasts = [u \in Uplinks |-> 0]
  /\ dlq = {}

-----------------------------------------------------------------------------
(* The connection *)

(* _run, or a new container: connect, _open                                 *)
ConnectOnce ==  \* mutant: an exception ends _run
  /\ handling = Idle
  /\ ~bound
  /\ channel' = TRUE
  /\ bound' = TRUE
  /\ UNCHANGED <<ready, left, handling, abandoned, stored, dlq, faults>>

Connect ==
  /\ handling = Idle
  /\ ~channel
  /\ channel' = TRUE
  /\ bound' = TRUE
  /\ UNCHANGED <<ready, left, handling, abandoned, stored, dlq, faults>>

(* What was delivered on the channel and not acked.                         *)
Left(u) == {copy \in left : copy[1] = u}
Unacked(u) == Cardinality(Left(u)) + (IF channel /\ handling.uplink = u THEN 1 ELSE 0)

CloseChannel ==
  /\ channel' = FALSE
  /\ ready' = [u \in Uplinks |-> ready[u] + Unacked(u)]
  /\ left' = {}

(* The thread finds out at its next use of the channel.                     *)
LoseConnection ==
  /\ channel
  /\ Fault("connection")
  /\ CloseChannel
  /\ UNCHANGED <<bound, handling, abandoned, stored, dlq>>

(* The process ends, with its coroutines.                                   *)
Die ==
  /\ Fault("die")
  /\ CloseChannel
  /\ handling' = Idle
  /\ abandoned' = {}
  /\ UNCHANGED <<bound, stored, dlq>>

-----------------------------------------------------------------------------
(* The handler of app.py *)

InsertableAgain(u) == u \notin Poison  \* mutant: a duplicate counts as inserted
Insertable(u) == u \notin rows /\ u \notin Poison

Store(u) ==
  /\ rows' = rows \cup {u}
  /\ UNCHANGED broadcasts

Broadcast(u) ==
  /\ broadcasts' = [broadcasts EXCEPT ![u] = @ + 1]
  /\ UNCHANGED rows

-----------------------------------------------------------------------------
(* The consumer thread *)

(* The broker delivers no more than Prefetch messages ahead of their acks.  *)
Room == Cardinality(left) < Prefetch

Take(u) ==
  /\ channel /\ handling = Idle
  /\ ready[u] > 0
  /\ Room
  /\ ready' = [ready EXCEPT ![u] = @ - 1]
  /\ handling' = [uplink |-> u, attempt |-> 1, at |-> "insert"]
  /\ UNCHANGED <<bound, channel, left, abandoned, stored, dlq, faults>>

Goto(pc) == handling' = [handling EXCEPT !.at = pc]

(* insert_event: ON CONFLICT DO NOTHING, and only a new row is broadcast    *)
Insert ==
  /\ handling.at = "insert"
  /\ handling.uplink \notin Poison
  /\ IF Insertable(handling.uplink)
     THEN Store(handling.uplink) /\ Goto("broadcast")
     ELSE Goto("ack") /\ UNCHANGED stored
  /\ UNCHANGED <<ready, bound, channel, left, abandoned, dlq, faults>>

BroadcastEvent ==
  /\ handling.at = "broadcast"
  /\ Broadcast(handling.uplink)
  /\ Goto("ack")
  /\ UNCHANGED <<ready, bound, channel, left, abandoned, dlq, faults>>

(* _process_with_retry                                                      *)
RetryOnceMore ==  \* mutant: one retry too many
  IF handling.attempt <= Attempts
  THEN handling' = [handling EXCEPT !.attempt = @ + 1, !.at = "insert"]
  ELSE Goto("dead letter")

Retry ==
  IF handling.attempt < Attempts
  THEN handling' = [handling EXCEPT !.attempt = @ + 1, !.at = "insert"]
  ELSE Goto("dead letter")

(* A time that cannot be parsed.                                            *)
Unparsable ==
  /\ handling.at = "insert"
  /\ handling.uplink \in Poison
  /\ Retry
  /\ UNCHANGED <<ready, bound, channel, left, abandoned, stored, dlq, faults>>

(* No pool, or an error of the database, which may have stored the row.     *)
InsertFails ==
  /\ handling.at = "insert"
  /\ Fault("database")
  /\ UNCHANGED stored \/ (Insertable(handling.uplink) /\ Store(handling.uplink))
  /\ Retry
  /\ UNCHANGED <<ready, bound, channel, left, abandoned, dlq>>

(* future.result ends, the coroutine does not.                              *)
TimesOut ==
  /\ handling.at \in {"insert", "broadcast"}
  /\ Fault("timeout")
  /\ abandoned' = abandoned \cup {[uplink |-> handling.uplink, at |-> handling.at]}
  /\ Retry
  /\ UNCHANGED <<ready, bound, channel, left, stored, dlq>>

Abandoned(c) ==
  /\ IF c.at = "insert" /\ Insertable(c.uplink)
     THEN /\ Store(c.uplink)
          /\ abandoned' = (abandoned \ {c}) \cup {[c EXCEPT !.at = "broadcast"]}
     ELSE /\ abandoned' = abandoned \ {c}
          /\ IF c.at = "broadcast" THEN Broadcast(c.uplink) ELSE UNCHANGED stored
  /\ UNCHANGED <<ready, bound, channel, left, handling, dlq, faults>>

AbandonedFails(c) ==
  /\ c.at = "insert"
  /\ Fault("database")
  /\ UNCHANGED stored \/ (Insertable(c.uplink) /\ Store(c.uplink))
  /\ abandoned' = abandoned \ {c}
  /\ UNCHANGED <<ready, bound, channel, left, handling, dlq>>

(* _dead_letter, confirmed                                                  *)
DeadLetter ==
  /\ handling.at = "dead letter" /\ channel
  /\ dlq' = dlq \cup {handling.uplink}
  /\ Goto("ack")
  /\ UNCHANGED <<ready, bound, channel, left, abandoned, stored, faults>>

(* Refused, or not confirmed: _handle_message returns without ack.          *)
PassOver ==
  /\ left' = left \cup {<<handling.uplink, Cardinality(Left(handling.uplink))>>}
  /\ handling' = Idle

DeadLetterRefused ==
  /\ handling.at = "dead letter" /\ channel
  /\ Fault("dead letter")
  /\ dlq' \in {dlq, dlq \cup {handling.uplink}}
  /\ PassOver
  /\ UNCHANGED <<ready, bound, channel, abandoned, stored>>

Ack ==
  /\ handling.at = "ack" /\ channel
  /\ handling' = Idle
  /\ UNCHANGED <<ready, bound, channel, left, abandoned, stored, dlq, faults>>

(* On a closed channel neither succeeds; the message is ready already.      *)
ChannelClosed ==
  /\ handling.at \in {"dead letter", "ack"} /\ ~channel
  /\ handling' = Idle
  /\ UNCHANGED <<ready, bound, channel, left, abandoned, stored, dlq, faults>>

-----------------------------------------------------------------------------
Consumer ==
  \/ \E u \in Uplinks : Take(u)
  \/ Insert \/ BroadcastEvent \/ Unparsable
  \/ DeadLetter \/ Ack \/ ChannelClosed

Next ==
  \/ Consumer \/ Connect
  \/ InsertFails \/ TimesOut \/ DeadLetterRefused
  \/ \E c \in abandoned : Abandoned(c) \/ AbandonedFails(c)
  \/ LoseConnection \/ Die

(* Type correctness, and what a program counter implies; the copies passed  *)
(* over are numbered, and RabbitMQ has delivered no more than Prefetch.      *)
TypeOK ==
  /\ ready \in [Uplinks -> Nat]
  /\ left \subseteq Uplinks \X Nat
  /\ \A copy \in left : copy[2] < Cardinality(Left(copy[1]))
  /\ bound \in BOOLEAN /\ channel \in BOOLEAN
  /\ \/ handling = Idle
     \/ handling \in [uplink : Uplinks, attempt : 1..Attempts,
                      at : {"insert", "broadcast", "dead letter", "ack"}]
  /\ abandoned \subseteq [uplink : Uplinks, at : {"insert", "broadcast"}]
  /\ rows \subseteq Uplinks \ Poison /\ dlq \subseteq Uplinks
  /\ broadcasts \in [Uplinks -> Nat]
  /\ faults \in 0..MaxFaults
  /\ channel => bound
  /\ ~channel => left = {}
  /\ Cardinality(left) + (IF channel /\ handling # Idle THEN 1 ELSE 0) <= Prefetch
=============================================================================
