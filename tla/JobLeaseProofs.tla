--------------------------- MODULE JobLeaseProofs ---------------------------
(***************************************************************************)
(* The lease as a mutual exclusion.  While no thread outlives the lease it *)
(* took ("overrun" is not among the faults), LeaseInv is inductive on top  *)
(* of the types: deliveries, crashes, lost acks and publish failures may   *)
(* happen any number of times and in any order.                            *)
(***************************************************************************)
EXTENDS JobQueueProofs

-----------------------------------------------------------------------------
(* What the actions put in transit *)

LEMMA RowsInTransit ==
  ASSUME TypeOK, NEW T \in SUBSET OutboxRow,
         outbox' = outbox (+) SetToBag(T), UNCHANGED broker
  PROVE  Transit' = Transit \cup {r.msg : r \in T}
<1>1. Pending(outbox)' = Pending(outbox) \cup T
  BY BagPlus DEF TypeOK, Pending
<1>2. Pending(broker)' = Pending(broker)
  BY DEF Pending
<1>3. QED
  BY <1>1, <1>2 DEF Transit

(* The published row leaves the outbox and its message joins the broker.    *)
LEMMA PublishInTransit ==
  ASSUME TypeOK, NEW r \in Pending(outbox),
         Pending(outbox') \subseteq Pending(outbox),
         broker' = Add(broker, r.msg)
  PROVE  Transit' \subseteq Transit
<1>1. r.msg \in Message
  BY DEF TypeOK, BagOver, OutboxRow
<1>2. Pending(broker') = Pending(broker) \cup {r.msg}
  BY <1>1, BagAdd DEF TypeOK
<1>3. QED
  BY <1>2 DEF Transit, Pending

(* A command that goes back to its queue is no event.                       *)
LEMMA RequeueInTransit ==
  ASSUME TypeOK, NEW j \in Jobs, UNCHANGED outbox,
         broker' = Add(broker, Command(j))
  PROVE  \A m \in Transit' : m.to = "events" => m \in Transit
<1>1. Command(j) \in Message
  BY MessageTypes, ConstantsOK DEF Active, MaybeTime
<1>2. Pending(broker') = Pending(broker) \cup {Command(j)}
  BY <1>1, BagAdd DEF TypeOK
<1>3. QED
  BY <1>2 DEF Transit, Pending, Command

LEMMA TransitTypes ==
  ASSUME TypeOK, NEW m \in Transit
  PROVE  m \in Message /\ m.attempt \in Nat /\ m.job \in Jobs
BY DEF TypeOK, BagOver, OutboxRow, Transit, Message

-----------------------------------------------------------------------------
(* Two shapes of step *)

(* A step that writes no job, starts no work and announces nothing new      *)
(* keeps the exclusion.                                                     *)
LEMMA QuietStep ==
  ASSUME LeaseInv, UNCHANGED job,
         \A w \in Workers : Busy(w)' =>
           /\ Busy(w)
           /\ worker'[w].job = worker[w].job
           /\ worker'[w].attempt = worker[w].attempt
           /\ worker'[w].lease = worker[w].lease,
         \A m \in Transit' : m.to = "events" => m \in Transit
  PROVE  (OneActive /\ WorkIsCurrent /\ HandlerExclusive /\ EventsBehind)'
<1>1. OneActive'
  BY DEF LeaseInv, OneActive
<1>2. WorkIsCurrent'
  BY DEF LeaseInv, WorkIsCurrent
<1>3. HandlerExclusive'
  BY DEF LeaseInv, HandlerExclusive
<1>4. EventsBehind'
  BY DEF LeaseInv, EventsBehind
<1>5. QED
  BY <1>1, <1>2, <1>3, <1>4

(* After a step that leaves nobody at work, the events need only not be     *)
(* ahead of the jobs.                                                       *)
LEMMA RestingStep ==
  ASSUME OneActive',
         \A w \in Workers : ~Busy(w)',
         \A m \in Transit' : m.to = "events" => m.attempt <= job'[m.job].attempts
  PROVE  (OneActive /\ WorkIsCurrent /\ HandlerExclusive /\ EventsBehind)'
BY DEF WorkIsCurrent, HandlerExclusive, EventsBehind

(* Nobody works while the row of the active job is free: its lease would    *)
(* still run.                                                               *)
LEMMA FreeRow ==
  ASSUME TypeOK, LeaseInv, NEW j \in Jobs, job[j].status \in Active,
         job[j].locked # None => job[j].locked <= clock
  PROVE  \A w \in Workers : ~Busy(w)
<1> SUFFICES ASSUME NEW w \in Workers, Busy(w) PROVE FALSE
  OBVIOUS
<1>1. worker[w].job \in Jobs /\ worker[w] \in WorkerState
  BY WorkerTypes DEF Busy
<1>2. worker[w].job = j
  BY <1>1 DEF LeaseInv, WorkIsCurrent, OneActive
<1>3. job[j].locked = worker[w].lease /\ worker[w].lease > clock
  BY <1>2 DEF LeaseInv, WorkIsCurrent, Timely, Busy, Working
<1>4. worker[w].lease \in Nat /\ clock \in Nat
  BY <1>1 DEF TypeOK, WorkerState, Time
<1>5. QED
  BY <1>3, <1>4, ConstantsOK
-----------------------------------------------------------------------------
(* The invariant holds initially and is kept by every step *)

NoOverrun == "overrun" \notin Faults

LEMMA InitLease == Init => LeaseInv
<1> SUFFICES ASSUME Init PROVE LeaseInv
  OBVIOUS
<1>1. \A w \in Workers : ~Working(w) /\ ~Busy(w)
  BY DEF Init, Idle, Working, Busy
<1>2. Transit = {}
  BY BagEmpty DEF Init, Transit
<1>3. OneActive
  BY DEF Init, OneActive, Absent, Active
<1>4. QED
  BY <1>1, <1>2, <1>3
  DEF LeaseInv, Timely, WorkIsCurrent, HandlerExclusive, EventsBehind

(* Time passes only while every lease at work goes on.                      *)
LEMMA StepTimely ==
  ASSUME NoOverrun, TypeInv, TypeInv', LeaseInv, [Next]_vars
  PROVE  Timely'
<1>0. TypeOK /\ Timely /\ clock \in Nat /\ LockSeconds \in Nat \ {0}
  BY ConstantsOK DEF TypeInv, TypeOK, LeaseInv, Time
<1>1. CASE Tick
  <2>0. clock' = clock + 1 /\ worker' = worker
    BY <1>1 DEF Tick
  <2>1. \A w \in Workers : Working(w) => worker[w].lease > clock'
    <3>1. \A w \in Workers : Working(w) => worker[w].lease # clock'
      BY <1>1 DEF Tick, Fault, NoOverrun
    <3>2. \A w \in Workers : Working(w) => worker[w].lease \in Nat /\ worker[w].lease > clock
      BY <1>0 DEF Timely, TypeOK, WorkerState, Time
    <3>3. QED
      BY <1>0, <2>0, <3>1, <3>2
  <2>2. clock' = clock + 1 /\ worker' = worker
    BY <2>0
  <2>3. \A w \in Workers : Working(w) => worker[w].now \in Nat
    BY <1>0 DEF TypeOK, WorkerState, Time
  <2>4. QED
    BY <1>0, <2>1, <2>2, <2>3 DEF Timely, Working
<1>2. ASSUME NEW w \in Workers, NEW j \in Jobs, Receive(w, j) PROVE Timely'
  BY <1>0, <1>2 DEF Timely, Working, Receive, TypeOK
<1>3. ASSUME NEW w \in Workers, Claim(w) \/ LoadJob(w) \/ LoseConnection(w) PROVE Timely'
  <2>1. UNCHANGED clock
    BY <1>3 DEF Claim, LoadJob, LoseConnection
  <2>2. \A v \in Workers : /\ Working(v)' => Working(v)
                           /\ worker'[v].lease = worker[v].lease
                           /\ worker'[v].now = worker[v].now
    <3>1. worker[w] \in WorkerState /\ worker \in [Workers -> WorkerState]
      BY <1>0 DEF TypeOK
    <3>2. CASE Claim(w)
      BY <3>1, <3>2 DEF Claim, Working, WorkerState
    <3>3. CASE LoadJob(w)
      BY <3>1, <3>3 DEF LoadJob, Working, WorkerState
    <3>4. CASE LoseConnection(w)
      BY <3>1, <3>4 DEF LoseConnection, Working, WorkerState
    <3>5. QED
      BY <1>3, <3>2, <3>3, <3>4
  <2>3. QED
    BY <1>0, <2>1, <2>2 DEF Timely
<1>4. ASSUME NEW w \in Workers,
             Exhaust(w) \/ Reschedule(w) \/ Skip(w) \/ Handle(w)
      PROVE  Timely'
  <2>1. UNCHANGED clock /\ Return(w)
    BY <1>4 DEF Exhaust, Reschedule, Skip, Handle, Succeed, RetryLater, Fail
  <2>2. QED
    BY <1>0, <2>1 DEF Timely, Working, Return, Idle, TypeOK
<1>5. ASSUME NEW w \in Workers, Ack(w) \/ Abort(w) PROVE Timely'
  BY <1>0, <1>5 DEF Timely, Working, Ack, Abort, Idle, TypeOK
<1>6. CASE UNCHANGED <<worker, clock>>
  BY <1>0, <1>6 DEF Timely, Working
<1>7. QED
  BY <1>1, <1>2, <1>3, <1>4, <1>5, <1>6
  DEF Next, vars, Consumer, TakeCommand, Relay, Status, Reaper, SomeFault, CreateJob,
      RelayPublish, RelayRepublish, RelayFails, ConsumeEvent, ConsumeEventUnacked, Reap

(* Every step keeps the rest of the invariant.                              *)
LEMMA StepLease ==
  ASSUME TypeInv, TypeInv', LeaseInv, [Next]_vars
  PROVE  (OneActive /\ WorkIsCurrent /\ HandlerExclusive /\ EventsBehind)'
<1> DEFINE Goal == (OneActive /\ WorkIsCurrent /\ HandlerExclusive /\ EventsBehind)'
<1>0. /\ TypeOK /\ Counted /\ NoRowYet /\ TypeOK'
      /\ Timely /\ OneActive /\ WorkIsCurrent /\ HandlerExclusive /\ EventsBehind
      /\ clock \in Nat
  BY DEF TypeInv, LeaseInv, TypeOK, Time
<1>1. ASSUME NEW j \in Jobs, CreateJob(j) PROVE Goal
  <2>1. \A w \in Workers : ~Busy(w)'
    BY <1>0, <1>1 DEF WorkIsCurrent, Counted, CreateJob, Busy
  <2>2. OneActive'
    BY <1>0, <1>1 DEF OneActive, CreateJob, NewJob, TypeOK, Active
  <2>3. /\ Row(Command(j), clock) \in OutboxRow
        /\ Row(Command(j), clock).msg.to # "events"
    BY <1>0, MessageTypes, RowTypes, ConstantsOK DEF Active, MaybeTime, Time, Row, Command
  <2>4. Transit' = Transit \cup {r.msg : r \in {Row(Command(j), clock)}}
    BY <1>0, <1>1, <2>3, RowsInTransit DEF CreateJob, Add
  <2>5. \A k \in Jobs : job'[k].attempts = job[k].attempts
    BY <1>0, <1>1 DEF CreateJob, NewJob, NoRowYet, Absent, TypeOK
  <2>6. \A m \in Transit' : m.to = "events" => m.attempt <= job'[m.job].attempts
    BY <1>0, <2>3, <2>4, <2>5, TransitTypes DEF EventsBehind
  <2>7. QED
    BY <2>1, <2>2, <2>6, RestingStep
<1>2. ASSUME NEW r \in Pending(outbox), RelayPublish(r) \/ RelayRepublish(r) PROVE Goal
  <2>1. Pending(outbox') \subseteq Pending(outbox)
    BY <1>0, <1>2, BagRemove DEF RelayPublish, RelayRepublish, TypeOK
  <2>2. Transit' \subseteq Transit
    BY <1>0, <1>2, <2>1, PublishInTransit DEF RelayPublish, RelayRepublish
  <2>3. UNCHANGED <<job, worker>>
    BY <1>2 DEF RelayPublish, RelayRepublish
  <2>4. QED
    BY <2>2, <2>3, QuietStep DEF Busy
<1>3. ASSUME NEW r \in Pending(outbox), RelayFails(r) PROVE Goal
  <2> DEFINE again == [msg |-> r.msg, tries |-> r.tries + 1,
                       due |-> clock + DelayAt(OutboxBackoff, r.tries + 1)]
  <2>1. /\ BagOver(Remove(outbox, r), OutboxRow)
        /\ Pending(Remove(outbox, r)) \subseteq Pending(outbox)
    BY <1>0, BagRemove DEF TypeOK
  <2>2. again \in OutboxRow
    <3>1. r.msg \in Message /\ r.tries + 1 \in Nat \ {0}
      BY <1>0 DEF TypeOK, BagOver, OutboxRow
    <3>2. DelayAt(OutboxBackoff, r.tries + 1) \in Nat
      BY <3>1, DelayType, ConstantsOK
    <3>3. QED
      BY <1>0, <3>1, <3>2 DEF OutboxRow, Time
  <2>3. Pending(outbox') \subseteq Pending(outbox) \cup {again}
    BY <1>3, <2>1, <2>2, BagAdd DEF RelayFails
  <2>4. Transit' \subseteq Transit
    BY <1>3, <2>3 DEF Transit, RelayFails, Pending
  <2>5. UNCHANGED <<job, worker>>
    BY <1>3 DEF RelayFails
  <2>6. QED
    BY <2>4, <2>5, QuietStep DEF Busy
<1>4. ASSUME NEW w \in Workers, NEW j \in Jobs, Receive(w, j) PROVE Goal
  <2>1. Pending(broker') \subseteq Pending(broker)
    BY <1>0, <1>4, BagRemove DEF Receive, TypeOK
  <2>2. Transit' \subseteq Transit
    BY <1>4, <2>1 DEF Transit, Receive, Pending
  <2>3. \A v \in Workers : Busy(v)' => Busy(v) /\ worker'[v] = worker[v]
    BY <1>0, <1>4 DEF Receive, TypeOK, Busy, Idle
  <2>4. QED
    BY <1>4, <2>2, <2>3, QuietStep DEF Receive
<1>5. ASSUME NEW w \in Workers, Claim(w) PROVE Goal
  <2> DEFINE j == worker[w].job
             n == job[j].attempts + 1
             started == Row(Event(j, "running", n, None), clock)
  <2>1. /\ j \in Jobs /\ job[j] \in JobRow /\ worker[w] \in WorkerState
        /\ n \in Nat /\ job[j].attempts \in Nat
    BY <1>0, <1>5, WorkerTypes DEF Claim, JobRow
  <2>2. job[j].status \in Active /\ (job[j].locked # None => job[j].locked <= clock)
    <3>1. worker[w].now \in Nat /\ worker[w].now <= clock
      BY <1>0, <1>5, <2>1 DEF Timely, Working, Claim, WorkerState, Time
    <3>2. job[j].locked # None => job[j].locked \in Nat /\ job[j].locked <= worker[w].now
      BY <1>5, <2>1 DEF Claim, Claimable, JobRow, MaybeTime, Time
    <3>3. job[j].status \in Active
      BY <1>5 DEF Claim, Claimable
    <3>4. QED
      BY <1>0, <3>1, <3>2, <3>3
  <2>3. \A v \in Workers : ~Busy(v)
    BY <1>0, <2>1, <2>2, FreeRow DEF LeaseInv
  <2>4. /\ worker'[w].job = j /\ worker'[w].attempt = n
        /\ worker'[w].lease = worker[w].lease
        /\ \A v \in Workers \ {w} : worker'[v] = worker[v]
    BY <1>0, <1>5, <2>1 DEF Claim, TypeOK, WorkerState
  <2>5. /\ job'[j].status = job[j].status /\ job'[j].attempts = n
        /\ job'[j].locked = worker[w].lease
        /\ \A k \in Jobs \ {j} : job'[k] = job[k]
    BY <1>0, <1>5, <2>1 DEF Claim, TypeOK, JobRow
  <2>6. OneActive'
    BY <1>0, <2>1, <2>5 DEF OneActive
  <2>7. WorkIsCurrent' /\ HandlerExclusive'
    BY <2>2, <2>3, <2>4, <2>5 DEF WorkIsCurrent, HandlerExclusive, Busy
  <2>8. started \in OutboxRow
    BY <1>0, <2>1, MessageTypes, RowTypes, ConstantsOK DEF Active, MaybeTime, Time
  <2>9. Transit' = Transit \cup {r.msg : r \in {started}}
    BY <1>0, <1>5, <2>8, RowsInTransit DEF Claim, Add
  <2>10. /\ started.msg.job = j /\ started.msg.status = "running"
         /\ started.msg.attempt = n
    BY DEF Row, Event
  <2>11. ASSUME NEW m \in Transit', m.to = "events"
         PROVE  /\ m.attempt <= job'[m.job].attempts
                /\ m.status = "running" \/ m.attempt < job'[m.job].attempts
                   \/ \A v \in Workers : Busy(v)' => worker'[v].job # m.job
    <3>1. CASE m \in Transit
      <4>1. m.attempt \in Nat /\ m.job \in Jobs /\ m.attempt <= job[m.job].attempts
        BY <1>0, <2>11, <3>1, TransitTypes DEF EventsBehind
      <4>2. CASE m.job = j
        BY <2>1, <2>5, <4>1, <4>2
      <4>3. CASE m.job # j
        BY <2>3, <2>4, <2>5, <4>1, <4>3 DEF Busy
      <4>4. QED
        BY <4>2, <4>3
    <3>2. CASE m = started.msg
      BY <2>1, <2>5, <2>10, <3>2
    <3>3. QED
      BY <2>9, <2>11, <3>1, <3>2
  <2>12. EventsBehind'
    BY <2>11 DEF EventsBehind
  <2>13. QED
    BY <2>6, <2>7, <2>12
<1>6. ASSUME NEW w \in Workers, Exhaust(w) PROVE Goal
  <2> DEFINE j == worker[w].job
             n == job[j].attempts + 1
             rows == {Row(Event(j, "failed", n, None), clock), Row(DeadLetter(j), clock)}
  <2>1. /\ j \in Jobs /\ job[j] \in JobRow /\ worker[w] \in WorkerState
        /\ n \in Nat /\ job[j].attempts \in Nat
    BY <1>0, <1>6, WorkerTypes DEF Exhaust, JobRow
  <2>2. job[j].status \in Active /\ (job[j].locked # None => job[j].locked <= clock)
    <3>1. worker[w].now \in Nat /\ worker[w].now <= clock
      BY <1>0, <1>6, <2>1 DEF Timely, Working, Exhaust, WorkerState, Time
    <3>2. job[j].locked # None => job[j].locked \in Nat /\ job[j].locked <= worker[w].now
      BY <1>6, <2>1 DEF Exhaust, Claimable, JobRow, MaybeTime, Time
    <3>3. job[j].status \in Active
      BY <1>6 DEF Exhaust, Claimable
    <3>4. QED
      BY <1>0, <3>1, <3>2, <3>3
  <2>3. \A v \in Workers : ~Busy(v)
    BY <1>0, <2>1, <2>2, FreeRow DEF LeaseInv
  <2>4. \A v \in Workers : ~Busy(v)'
    BY <1>0, <1>6, <2>1, <2>3, ReturnTypes DEF Exhaust, Busy
  <2>5. /\ job'[j].status = job[j].status /\ job'[j].attempts = n
        /\ \A k \in Jobs \ {j} : job'[k] = job[k]
    BY <1>0, <1>6, <2>1 DEF Exhaust, TypeOK, JobRow
  <2>6. OneActive'
    BY <1>0, <2>1, <2>5 DEF OneActive
  <2>7. rows \in SUBSET OutboxRow
    <3>1. Event(j, "failed", n, None) \in Message /\ DeadLetter(j) \in Message
      BY <2>1, MessageTypes DEF Terminal, MaybeTime
    <3>2. /\ Row(Event(j, "failed", n, None), clock) \in OutboxRow
          /\ Row(DeadLetter(j), clock) \in OutboxRow
      BY <1>0, <3>1, RowTypes DEF Time
    <3>3. QED
      BY <3>2
  <2>8. Transit' = Transit \cup {r.msg : r \in rows}
    BY <1>0, <1>6, <2>7, RowsInTransit DEF Exhaust, FailedRows
  <2>9. \A r \in rows : r.msg.to = "events" => r.msg.job = j /\ r.msg.attempt = n
    BY DEF Row, Event, DeadLetter
  <2>10. \A m \in Transit : m.to = "events" => m.attempt <= job'[m.job].attempts
    BY <1>0, <2>1, <2>5, TransitTypes DEF EventsBehind
  <2>11. ASSUME NEW m \in Transit', m.to = "events"
         PROVE  m.attempt <= job'[m.job].attempts
    <3>1. CASE m \in Transit
      BY <2>10, <2>11, <3>1
    <3>2. CASE \E r \in rows : m = r.msg
      <4>1. m.job = j /\ m.attempt = n
        BY <2>9, <2>11, <3>2
      <4>2. QED
        BY <2>1, <2>5, <4>1
    <3>3. QED
      BY <2>8, <3>1, <3>2
  <2>12. QED
    BY <2>4, <2>6, <2>11, RestingStep
<1>7. ASSUME NEW w \in Workers, Reschedule(w) PROVE Goal
  <2> DEFINE j == worker[w].job
             row == Row(Command(j), job[j].next)
  <2>1. j \in Jobs /\ job[j] \in JobRow
    BY <1>0, <1>7, WorkerTypes DEF Reschedule
  <2>2. row \in OutboxRow /\ row.msg.to # "events"
    BY <1>7, <2>1, MessageTypes, RowTypes, ConstantsOK
    DEF Reschedule, NotDue, JobRow, MaybeTime, Active, Row, Command
  <2>3. Transit' = Transit \cup {r.msg : r \in {row}}
    BY <1>0, <1>7, <2>2, RowsInTransit DEF Reschedule, Add
  <2>4. \A v \in Workers : Busy(v)' => Busy(v) /\ worker'[v] = worker[v]
    BY <1>0, <1>7, <2>1, ReturnTypes DEF Reschedule, Busy
  <2>5. QED
    BY <1>7, <2>2, <2>3, <2>4, QuietStep DEF Reschedule
<1>8. ASSUME NEW w \in Workers, Skip(w) \/ Ack(w) PROVE Goal
  <2>1. \A v \in Workers : Busy(v)' => Busy(v) /\ worker'[v] = worker[v]
    BY <1>0, <1>8, WorkerTypes, ReturnTypes DEF Skip, Ack, Busy, Idle, TypeOK
  <2>2. UNCHANGED <<job, Transit>>
    BY <1>8 DEF Skip, Ack, Transit, Pending
  <2>3. QED
    BY <2>1, <2>2, QuietStep
<1>9. ASSUME NEW w \in Workers, LoadJob(w) PROVE Goal
  <2> DEFINE j == worker[w].job
  <2>1. j \in Jobs /\ worker[w] \in WorkerState /\ worker[w].attempt = job[j].attempts
    BY <1>0, <1>9, WorkerTypes DEF LoadJob, WorkIsCurrent, Busy
  <2>2. /\ worker'[w].job = j /\ worker'[w].attempt = worker[w].attempt
        /\ worker'[w].lease = worker[w].lease /\ Busy(w)
        /\ \A v \in Workers \ {w} : worker'[v] = worker[v]
    BY <1>0, <1>9, <2>1 DEF LoadJob, TypeOK, WorkerState, Busy
  <2>3. UNCHANGED <<job, Transit>>
    BY <1>9 DEF LoadJob, Transit, Pending
  <2>4. QED
    BY <2>2, <2>3, QuietStep DEF Busy
<1>10. ASSUME NEW w \in Workers, Handle(w) PROVE Goal
  <2> DEFINE j == worker[w].job
             n == worker[w].attempt
  <2>1. /\ j \in Jobs /\ job[j] \in JobRow /\ n \in Nat \ {0} /\ n = job[j].attempts
        /\ worker[w] \in WorkerState
    BY <1>0, <1>10, WorkerTypes
    DEF Handle, Succeed, RetryLater, Fail, WorkIsCurrent, Counted, Busy, WorkerState
  <2>2. \A v \in Workers \ {w} : ~Busy(v)
    BY <1>0, <1>10 DEF HandlerExclusive, Busy, Handle, Succeed, RetryLater, Fail
  <2>3. Return(w)
    BY <1>10 DEF Handle, Succeed, RetryLater, Fail
  <2>4. \A v \in Workers : ~Busy(v)'
    BY <1>0, <2>1, <2>2, <2>3, ReturnTypes DEF Busy
  <2>5. \A k \in Jobs : job'[k].status = job[k].status /\ job'[k].attempts = job[k].attempts
    <3>1. job \in [Jobs -> JobRow]
      BY <1>0 DEF TypeOK
    <3>2. CASE Succeed(w)
      BY <2>1, <3>1, <3>2 DEF Succeed, JobRow
    <3>3. CASE RetryLater(w)
      BY <2>1, <3>1, <3>3 DEF RetryLater, JobRow
    <3>4. CASE Fail(w)
      BY <2>1, <3>1, <3>4 DEF Fail, JobRow
    <3>5. QED
      BY <1>10, <3>2, <3>3, <3>4 DEF Handle
  <2>6. OneActive'
    BY <1>0, <2>5 DEF OneActive
  <2>7. PICK rows \in SUBSET OutboxRow :
          /\ outbox' = outbox (+) SetToBag(rows)
          /\ \A r \in rows : r.msg.to = "events" => r.msg.job = j /\ r.msg.attempt = n
    <3>1. CASE Succeed(w)
      <4> DEFINE done == Row(Event(j, "succeeded", n, None), clock)
      <4>1. done \in OutboxRow /\ done.msg.job = j /\ done.msg.attempt = n
        BY <1>0, <2>1, MessageTypes, RowTypes, ConstantsOK
        DEF Terminal, MaybeTime, Time, Row, Event
      <4>2. outbox' = outbox (+) SetToBag({done})
        BY <3>1 DEF Succeed, Add
      <4>3. QED
        BY <4>1, <4>2
    <3>2. CASE RetryLater(w)
      <4> DEFINE t == clock + DelayAt(RetryDelays, n)
                 retry == Row(Event(j, "pending", n, t), clock)
                 command == Row(Command(j), t)
      <4>1. t \in Nat
        <5>1. DelayAt(RetryDelays, n) \in Nat
          BY <2>1, DelayType, ConstantsOK
        <5>2. QED
          BY <1>0, <5>1
      <4>2. /\ retry \in OutboxRow /\ retry.msg.job = j /\ retry.msg.attempt = n
            /\ command \in OutboxRow /\ command.msg.to # "events"
        BY <1>0, <2>1, <4>1, MessageTypes, RowTypes
        DEF Active, MaybeTime, Time, Row, Event, Command
      <4>3. outbox' = outbox (+) SetToBag({retry, command})
        BY <3>2 DEF RetryLater
      <4>4. QED
        BY <4>2, <4>3
    <3>3. CASE Fail(w)
      <4> DEFINE failed == Row(Event(j, "failed", n, None), clock)
                 dead == Row(DeadLetter(j), clock)
      <4>1. /\ failed \in OutboxRow /\ failed.msg.job = j /\ failed.msg.attempt = n
            /\ dead \in OutboxRow /\ dead.msg.to # "events"
        BY <1>0, <2>1, MessageTypes, RowTypes, ConstantsOK
        DEF Terminal, MaybeTime, Time, Row, Event, DeadLetter
      <4>2. outbox' = outbox (+) SetToBag({failed, dead})
        BY <3>3 DEF Fail, FailedRows
      <4>3. QED
        BY <4>1, <4>2
    <3>4. QED
      BY <1>10, <3>1, <3>2, <3>3 DEF Handle
  <2>8. Transit' = Transit \cup {r.msg : r \in rows}
    <3>1. UNCHANGED broker
      BY <1>10 DEF Handle, Succeed, RetryLater, Fail
    <3>2. QED
      BY <1>0, <2>7, <3>1, RowsInTransit
  <2>9. ASSUME NEW m \in Transit', m.to = "events"
        PROVE  m.attempt <= job'[m.job].attempts
    <3>1. CASE m \in Transit
      BY <1>0, <2>5, <2>9, <3>1, TransitTypes DEF EventsBehind
    <3>2. CASE \E r \in rows : m = r.msg
      <4>1. m.job = j /\ m.attempt = n
        BY <2>7, <2>9, <3>2
      <4>2. QED
        BY <2>1, <2>5, <4>1
    <3>3. QED
      BY <2>8, <3>1, <3>2
  <2>10. QED
    BY <2>4, <2>6, <2>9, RestingStep
<1>11. ASSUME NEW w \in Workers, Abort(w) \/ LoseConnection(w) PROVE Goal
  <2>1. \A m \in Transit' : m.to = "events" => m \in Transit
    <3>1. CASE broker' = broker
      BY <1>11, <3>1 DEF Abort, LoseConnection, Transit, Pending
    <3>2. CASE worker[w].held /\ broker' = Add(broker, Command(worker[w].job))
      BY <1>0, <1>11, <3>2, WorkerTypes, RequeueInTransit DEF Abort, LoseConnection
    <3>3. QED
      BY <1>11, <3>1, <3>2 DEF Abort, LoseConnection
  <2>2. \A v \in Workers : Busy(v)' =>
          /\ Busy(v)
          /\ worker'[v].job = worker[v].job
          /\ worker'[v].attempt = worker[v].attempt
          /\ worker'[v].lease = worker[v].lease
    BY <1>0, <1>11 DEF Abort, LoseConnection, Busy, Idle, TypeOK, WorkerState
  <2>3. UNCHANGED job
    BY <1>11 DEF Abort, LoseConnection
  <2>4. QED
    BY <2>1, <2>2, <2>3, QuietStep
<1>12. ASSUME NEW e \in Pending(broker), e.to = "events",
              ConsumeEvent(e) \/ ConsumeEventUnacked(e)
       PROVE  Goal
  <2> DEFINE j == e.job
  <2>1. /\ e \in Transit /\ j \in Jobs /\ job[j] \in JobRow
        /\ e.status \in Active \cup Terminal
    BY <1>0 DEF Transit, TypeOK, BagOver, Message
  <2>2. Transit' \subseteq Transit
    <3>1. Pending(broker') \subseteq Pending(broker)
      BY <1>0, <1>12, BagRemove DEF ConsumeEvent, ConsumeEventUnacked, TypeOK
    <3>2. QED
      BY <1>12, <3>1 DEF ConsumeEvent, ConsumeEventUnacked, Transit, Pending
  <2>3. UNCHANGED worker
    BY <1>12 DEF ConsumeEvent, ConsumeEventUnacked
  <2>4. CASE job' = job
    BY <2>2, <2>3, <2>4, QuietStep DEF Busy
  <2>5. CASE Applies(job[j], e) /\ job' = [job EXCEPT ![j] = Applied(job[j], e)]
    <3>1. /\ job'[j].attempts = job[j].attempts
          /\ job[j].status \in Active
          /\ job'[j].status = e.status
          /\ e.status = "running" => job'[j].locked = job[j].locked
          /\ \A k \in Jobs \ {j} : job'[k] = job[k]
          /\ e.attempt = job[j].attempts
      BY <1>0, <2>1, <2>5 DEF Applies, Applied, TypeOK, JobRow
    <3>2. e.status = "running" \/ \A w \in Workers : Busy(w) => worker[w].job # j
      BY <1>0, <1>12, <2>1, <3>1, TransitTypes DEF EventsBehind
    <3>3. OneActive'
      BY <1>0, <2>1, <3>1 DEF OneActive
    <3>4. HandlerExclusive'
      BY <1>0, <2>3 DEF HandlerExclusive, Busy
    <3>5. WorkIsCurrent'
      BY <1>0, <2>3, <3>1, <3>2 DEF WorkIsCurrent, Busy, Counted, Active
    <3>6. EventsBehind'
      BY <1>0, <2>2, <2>3, <3>1, TransitTypes DEF EventsBehind, Busy
    <3>7. QED
      BY <3>3, <3>4, <3>5, <3>6
  <2>6. QED
    BY <1>12, <2>4, <2>5 DEF ConsumeEvent, ConsumeEventUnacked, ApplyStatusEvent
<1>13. ASSUME NEW j \in Jobs, Reap(j) PROVE Goal
  <2> DEFINE n == job[j].attempts
             retry == Row(Event(j, "pending", n, clock), clock)
             command == Row(Command(j), clock)
  <2>1. job[j] \in JobRow /\ n \in Nat
    BY <1>0 DEF TypeOK, JobRow
  <2>2. \A v \in Workers : ~Busy(v)
    BY <1>0, <1>13, <2>1, FreeRow DEF LeaseInv, Reap, JobRow, MaybeTime, Time
  <2>3. \A v \in Workers : ~Busy(v)'
    BY <1>13, <2>2 DEF Reap, Busy
  <2>4. \A k \in Jobs : job'[k].status = job[k].status /\ job'[k].attempts = job[k].attempts
    BY <1>0, <1>13 DEF Reap, TypeOK, JobRow
  <2>5. OneActive'
    BY <1>0, <2>4 DEF OneActive
  <2>6. /\ {retry, command} \in SUBSET OutboxRow
        /\ retry.msg.job = j /\ retry.msg.attempt = n /\ command.msg.to # "events"
    BY <1>0, <2>1, MessageTypes, RowTypes DEF Active, MaybeTime, Time, Row, Event, Command
  <2>7. Transit' = Transit \cup {r.msg : r \in {retry, command}}
    BY <1>0, <1>13, <2>6, RowsInTransit DEF Reap
  <2>8. ASSUME NEW m \in Transit', m.to = "events"
        PROVE  m.attempt <= job'[m.job].attempts
    <3>1. CASE m \in Transit
      BY <1>0, <2>4, <2>8, <3>1, TransitTypes DEF EventsBehind
    <3>2. CASE m = retry.msg
      BY <2>1, <2>4, <2>6, <3>2
    <3>3. QED
      BY <2>6, <2>7, <2>8, <3>1, <3>2
  <2>9. QED
    BY <2>3, <2>5, <2>8, RestingStep
<1>14. CASE UNCHANGED <<job, worker, outbox, broker>>
  <2>1. Transit' = Transit
    BY <1>14 DEF Transit, Pending
  <2>2. QED
    BY <1>14, <2>1, QuietStep DEF Busy
<1>15. QED
  BY <1>1, <1>2, <1>3, <1>4, <1>5, <1>6, <1>7, <1>8, <1>9, <1>10, <1>11, <1>12, <1>13, <1>14
  DEF Next, vars, Consumer, TakeCommand, Relay, Status, Reaper, SomeFault, Tick,
      ConsumeEvent, ConsumeEventUnacked

(* Without overruns, the leases, the active job, the work in execution and  *)
(* the events in transit fit together in every reachable state.             *)
THEOREM LeaseInvariant == ASSUME NoOverrun PROVE Spec => [](TypeInv /\ LeaseInv)
<1>1. Init => TypeInv /\ LeaseInv
  BY InitTypes, InitLease
<1>2. TypeInv /\ LeaseInv /\ [Next]_vars => (TypeInv /\ LeaseInv)'
  BY StepTypes, StepTimely, StepLease, NoOverrun DEF LeaseInv
<1>3. QED
  BY <1>1, <1>2, PTL DEF Spec

(* However often commands are duplicated, redelivered or retried, no two    *)
(* threads execute a handler for the application at once.                   *)
THEOREM HandlersExclude == ASSUME NoOverrun PROVE Spec => []HandlerExclusive
<1>1. TypeInv /\ LeaseInv => HandlerExclusive
  BY DEF LeaseInv
<1>2. QED
  BY <1>1, LeaseInvariant, NoOverrun, PTL

(* The snapshot a thread works on is the current attempt of an active job   *)
(* and its lease is the one in the table, so that the blind write at the    *)
(* end of process() overwrites nobody else's.                               *)
THEOREM WorkStaysCurrent == ASSUME NoOverrun PROVE Spec => []WorkIsCurrent
<1>1. TypeInv /\ LeaseInv => WorkIsCurrent
  BY DEF LeaseInv
<1>2. QED
  BY <1>1, LeaseInvariant, NoOverrun, PTL
-----------------------------------------------------------------------------
(* Finished jobs *)

(* No thread, reaper or event writes any column of a finished job.          *)
LEMMA StepFrozen ==
  ASSUME TypeInv, LeaseInv, [Next]_vars, NEW j \in Jobs, job[j].status \in Terminal
  PROVE  job'[j] = job[j]
<1>0. TypeOK /\ WorkIsCurrent /\ job \in [Jobs -> JobRow] /\ job[j].status \notin Active
  BY DEF TypeInv, TypeOK, LeaseInv, Active, Terminal
<1>1. CASE UNCHANGED job
  BY <1>1
<1>2. ASSUME NEW k \in Jobs, CreateJob(k) \/ Reap(k) PROVE job'[j] = job[j]
  BY <1>0, <1>2 DEF CreateJob, Reap, Terminal
<1>3. ASSUME NEW w \in Workers, Claim(w) \/ Exhaust(w) PROVE job'[j] = job[j]
  BY <1>0, <1>3, WorkerTypes DEF Claim, Exhaust, Claimable
<1>4. ASSUME NEW w \in Workers, Handle(w) PROVE job'[j] = job[j]
  <2>1. worker[w].job \in Jobs /\ worker[w].job # j
    BY <1>0, <1>4, WorkerTypes DEF Handle, Succeed, RetryLater, Fail, WorkIsCurrent, Busy
  <2>2. QED
    BY <1>0, <1>4, <2>1 DEF Handle, Succeed, RetryLater, Fail
<1>5. ASSUME NEW e \in Pending(broker), ConsumeEvent(e) \/ ConsumeEventUnacked(e)
      PROVE  job'[j] = job[j]
  BY <1>0, <1>5 DEF ConsumeEvent, ConsumeEventUnacked, ApplyStatusEvent, Applies
<1>6. QED
  BY <1>1, <1>2, <1>3, <1>4, <1>5
  DEF Next, vars, Consumer, TakeCommand, Relay, Status, Reaper, SomeFault, Tick, Receive,
      Reschedule, Skip, LoadJob, Ack, Abort, LoseConnection, RelayPublish, RelayRepublish,
      RelayFails

(* A finished job is final in every column.                                 *)
THEOREM RowStaysFrozen == ASSUME NoOverrun PROVE Spec => TerminalRowFrozen
<1>1. TypeInv /\ LeaseInv /\ [Next]_vars
        => [\A j \in Jobs : job[j].status \in Terminal => job'[j] = job[j]]_vars
  BY StepFrozen
<1>2. QED
  BY <1>1, LeaseInvariant, NoOverrun, PTL DEF Spec, TerminalRowFrozen
=============================================================================
