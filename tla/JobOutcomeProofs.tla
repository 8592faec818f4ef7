-------------------------- MODULE JobOutcomeProofs --------------------------
(***************************************************************************)
(* What comes of a job while no thread outlives its lease: the application *)
(* shows the verdict, the platform implements JobLifecycle, and no job     *)
(* that is not finished is forgotten.                                      *)
(***************************************************************************)
EXTENDS JobLeaseProofs

-----------------------------------------------------------------------------
(* Events announce attempts that have been made, the start of one puts no   *)
(* due time into the row, and an event that would free the row of the       *)
(* current attempt finds it free already.                                   *)

Announced == \A m \in Transit : m.to = "events" =>
  m.attempt # 0 /\ (m.status = "running" => m.next = None)
LockedCounted == \A j \in Jobs : job[j].locked # None => job[j].attempts # 0
Released == \A m \in Transit :
  m.to = "events" /\ m.status # "running" /\ m.attempt = job[m.job].attempts
    => job[m.job].locked = None
(* A thread that executes has loaded the row with its lease, and will write *)
(* locked_until back as NULL.                                               *)
Snapshot == \A w \in Workers : worker[w].pc = "handling" => worker[w].lockedSet

EventInv == Announced /\ LockedCounted /\ Released /\ Snapshot

(* A job that is active has been told its verdict only together with the    *)
(* application.                                                             *)
Verdict(s) == IF s = "succeeded" THEN "RUNNING" ELSE "ERROR"
VerdictShown == \A m \in Transit :
  /\ m.to = "events" /\ m.status \in Terminal
  /\ m.attempt = job[m.job].attempts /\ job[m.job].status \in Active
  => instance = Verdict(m.status)

-----------------------------------------------------------------------------
(* What job j needs to run again after time t: a command that a thread will *)
(* receive no earlier, or has and would give back if it died.               *)
Reached(t, now) == t # None => t <= now
CommandAfter(j, t) ==
  \/ \E r \in Pending(outbox) : r.msg = Command(j) /\ Reached(t, r.due)
  \/ Command(j) \in Pending(broker) /\ Reached(t, clock)
  \/ \E w \in Workers : /\ worker[w].pc = "received" /\ worker[w].job = j
                        /\ worker[w].held /\ Reached(t, worker[w].now)

(* The times at which the current attempt may be due again: the one in the  *)
(* row, and the one that an event would put there.                          *)
DueTimes(j) == {job[j].next} \cup
  {m.next : m \in {e \in Transit : /\ e.to = "events" /\ e.job = j /\ e.status = "pending"
                                   /\ e.attempt = job[j].attempts}}

Settled(j) ==
  \/ \E s \in Terminal : InTransit(Event(j, s, job[j].attempts, None))
  \/ \E m \in Pending(quarantine) : m.job = j

(* A job whose row is free has its verdict on its way, or a trace of it is  *)
(* in quarantine, or a command comes after each of its due times.           *)
Remembered == \A j \in Jobs :
  job[j].status \in Active /\ job[j].locked = None
    => Settled(j) \/ \A t \in DueTimes(j) : CommandAfter(j, t)

OutcomeInv == EventInv /\ VerdictShown /\ Remembered

-----------------------------------------------------------------------------
(* What each step does to the rows, the threads and the messages in transit *)

LEMMA BagRemoveKeeps ==
  ASSUME NEW S, NEW bag, BagOver(bag, S), NEW m
  PROVE  Pending(bag) \ {m} \subseteq Pending(Remove(bag, m))
BY DEF Remove, BagOver, Pending, IsABag, BagToSet, SetToBag, (-)

LEMMA CreateEffect ==
  ASSUME TypeInv, LeaseInv, NEW j \in Jobs, CreateJob(j)
  PROVE  /\ job[j] = Absent
         /\ \A k \in Jobs : job[k].status \notin Active
         /\ job'[j] = NewJob /\ \A k \in Jobs \ {j} : job'[k] = job[k]
         /\ \A w \in Workers : ~Busy(w)
         /\ Pending(outbox') = Pending(outbox) \cup {Row(Command(j), clock)}
         /\ Transit' = Transit \cup {Command(j)}
<1>0. TypeOK /\ NoRowYet /\ WorkIsCurrent /\ Counted
  BY DEF TypeInv, LeaseInv
<1>1. \A w \in Workers : ~Busy(w)
  BY <1>0 DEF WorkIsCurrent, Counted, CreateJob
<1>2. Row(Command(j), clock) \in OutboxRow
  BY <1>0, MessageTypes, RowTypes, ConstantsOK DEF TypeOK, Active, MaybeTime
<1>3. Pending(outbox') = Pending(outbox) \cup {Row(Command(j), clock)}
  BY <1>0, <1>2, BagAdd DEF CreateJob, TypeOK
<1>4. Row(Command(j), clock).msg = Command(j) /\ broker' = broker
  BY DEF Row, CreateJob
<1>5. Transit' = Transit \cup {Command(j)}
  BY <1>3, <1>4 DEF Transit, Pending
<1>6. job[j] = Absent /\ job'[j] = NewJob /\ \A k \in Jobs \ {j} : job'[k] = job[k]
  BY <1>0 DEF CreateJob, NoRowYet, TypeOK
<1>7. \A k \in Jobs : job[k].status \notin Active
  BY DEF CreateJob
<1>8. QED
  BY <1>1, <1>3, <1>5, <1>6, <1>7

LEMMA PublishEffect ==
  ASSUME TypeInv, NEW r \in Pending(outbox), RelayPublish(r) \/ RelayRepublish(r)
  PROVE  /\ r.due <= clock /\ r.msg \in Pending(broker')
         /\ Pending(broker) \subseteq Pending(broker')
         /\ Pending(outbox) \ {r} \subseteq Pending(outbox')
         /\ Transit' = Transit
         /\ UNCHANGED <<job, instance, quarantine, worker, clock>>
<1>0. TypeOK /\ r.msg \in Message
  BY DEF TypeInv, TypeOK, BagOver, OutboxRow
<1>1. /\ Pending(outbox') \subseteq Pending(outbox)
      /\ Pending(outbox) \ {r} \subseteq Pending(outbox')
  BY <1>0, BagRemove, BagRemoveKeeps DEF RelayPublish, RelayRepublish, TypeOK
<1>2. Pending(broker') = Pending(broker) \cup {r.msg}
  BY <1>0, BagAdd DEF RelayPublish, RelayRepublish, TypeOK
<1>3. Transit' = Transit
  BY <1>1, <1>2 DEF Transit, Pending
<1>4. QED
  BY <1>1, <1>2, <1>3 DEF RelayPublish, RelayRepublish

(* A row that cannot be published is put off, or its message quarantined.   *)
LEMMA FailsEffect ==
  ASSUME TypeInv, NEW r \in Pending(outbox), RelayFails(r)
  PROVE  /\ Pending(outbox) \ {r} \subseteq Pending(outbox')
         /\ Pending(quarantine) \subseteq Pending(quarantine')
         /\ Transit' \subseteq Transit
         /\ \/ r.msg \in Pending(quarantine')
            \/ \E s \in Pending(outbox') : s.msg = r.msg /\ s.due >= r.due
         /\ UNCHANGED <<job, instance, broker, worker, clock>>
<1> DEFINE again == [msg |-> r.msg, tries |-> r.tries + 1,
                     due |-> clock + DelayAt(OutboxBackoff, r.tries + 1)]
<1>0. TypeOK /\ r \in OutboxRow /\ r.msg \in Message /\ clock \in Nat
  BY DEF TypeInv, TypeOK, BagOver, OutboxRow, Time
<1>1. /\ BagOver(Remove(outbox, r), OutboxRow)
      /\ Pending(Remove(outbox, r)) \subseteq Pending(outbox)
      /\ Pending(outbox) \ {r} \subseteq Pending(Remove(outbox, r))
  BY <1>0, BagRemove, BagRemoveKeeps DEF TypeOK
<1>2. DelayAt(OutboxBackoff, r.tries + 1) \in Nat
  <2>1. r.tries + 1 \in Nat \ {0}
    BY <1>0 DEF OutboxRow
  <2>2. QED
    BY <2>1, DelayType, ConstantsOK
<1>3. again \in OutboxRow /\ again.msg = r.msg /\ again.due >= r.due
  <2>1. r.due \in Nat /\ r.due <= clock /\ r.tries + 1 \in Nat
    BY <1>0 DEF RelayFails, OutboxRow, Time
  <2>2. QED
    BY <1>0, <1>2, <2>1 DEF OutboxRow, Time
<1>4. CASE /\ outbox' = Remove(outbox, r)
           /\ quarantine' = Add(quarantine, r.msg)
  <2>1. Pending(quarantine') = Pending(quarantine) \cup {r.msg}
    BY <1>0, <1>4, BagAdd DEF TypeOK
  <2>2. Transit' \subseteq Transit
    BY <1>1, <1>4 DEF RelayFails, Transit, Pending
  <2>3. QED
    BY <1>1, <1>4, <2>1, <2>2 DEF RelayFails
<1>5. CASE /\ outbox' = Add(Remove(outbox, r), again)
           /\ UNCHANGED quarantine
  <2>1. Pending(outbox') = Pending(Remove(outbox, r)) \cup {again}
    BY <1>1, <1>3, <1>5, BagAdd
  <2>2. Transit' \subseteq Transit
    BY <1>1, <1>3, <2>1 DEF RelayFails, Transit, Pending
  <2>3. QED
    BY <1>1, <1>3, <1>5, <2>1, <2>2 DEF RelayFails, Pending
<1>6. QED
  BY <1>4, <1>5 DEF RelayFails

LEMMA ReceiveEffect ==
  ASSUME TypeInv, NEW w \in Workers, NEW j \in Jobs, Receive(w, j)
  PROVE  /\ ~Busy(w) /\ ~Busy(w)' /\ worker[w].pc = "idle"
         /\ worker'[w].pc = "received" /\ worker'[w].job = j /\ worker'[w].now = clock
         /\ worker'[w].held
         /\ \A v \in Workers \ {w} : worker'[v] = worker[v]
         /\ Pending(broker) \ {Command(j)} \subseteq Pending(broker')
         /\ Transit' \subseteq Transit
         /\ Transit \ {Command(j)} \subseteq Transit'
<1>0. TypeOK
  BY DEF TypeInv
<1>1. /\ Pending(broker') \subseteq Pending(broker)
      /\ Pending(broker) \ {Command(j)} \subseteq Pending(broker')
  BY <1>0, BagRemove, BagRemoveKeeps DEF Receive, TypeOK
<1>2. Transit' \subseteq Transit /\ Transit \ {Command(j)} \subseteq Transit'
  BY <1>1 DEF Receive, Transit, Pending
<1>3. /\ worker'[w].pc = "received" /\ worker'[w].job = j /\ worker'[w].now = clock
      /\ worker'[w].held
      /\ \A v \in Workers \ {w} : worker'[v] = worker[v]
  BY <1>0 DEF Receive, TypeOK, Idle
<1>4. QED
  BY <1>1, <1>2, <1>3 DEF Busy, Receive

(* A claim, whether it starts the attempt or finds them exhausted, finds    *)
(* nobody at work and counts the attempt.                                   *)
LEMMA ClaimRow ==
  ASSUME TypeInv, LeaseInv, NEW w \in Workers, Claim(w) \/ Exhaust(w)
  PROVE  LET j == worker[w].job
             n == job[j].attempts + 1 IN
         /\ j \in Jobs /\ n \in Nat /\ n > job[j].attempts /\ n # 0
         /\ job[j].attempts \in Nat
         /\ job[j].status \in Active /\ job'[j].status = job[j].status
         /\ job'[j].attempts = n
         /\ \A k \in Jobs \ {j} : job'[k] = job[k] /\ job[k].status \notin Active
         /\ \A v \in Workers : ~Busy(v)
<1> DEFINE j == worker[w].job
           n == job[j].attempts + 1
<1>0. TypeOK /\ Timely /\ OneActive
  BY DEF TypeInv, LeaseInv
<1>1. /\ j \in Jobs /\ job[j] \in JobRow /\ worker[w] \in WorkerState
      /\ n \in Nat /\ job[j].attempts \in Nat /\ clock \in Nat
  BY <1>0, WorkerTypes DEF Claim, Exhaust, JobRow, TypeOK, Time
<1>2. job[j].status \in Active /\ (job[j].locked # None => job[j].locked <= clock)
  <2>1. worker[w].now \in Nat /\ worker[w].now <= clock
    BY <1>0, <1>1 DEF Timely, Working, Claim, Exhaust, WorkerState, Time
  <2>2. job[j].locked # None => job[j].locked \in Nat /\ job[j].locked <= worker[w].now
    BY <1>1 DEF Claim, Exhaust, Claimable, JobRow, MaybeTime, Time
  <2>3. job[j].status \in Active
    BY DEF Claim, Exhaust, Claimable
  <2>4. QED
    BY <1>1, <2>1, <2>2, <2>3
<1>3. \A v \in Workers : ~Busy(v)
  BY <1>0, <1>1, <1>2, FreeRow
<1>4. job'[j].status = job[j].status /\ job'[j].attempts = n
  BY <1>0, <1>1 DEF Claim, Exhaust, TypeOK, JobRow
<1>5. \A k \in Jobs \ {j} : job'[k] = job[k]
  BY <1>0, <1>1 DEF Claim, Exhaust, TypeOK
<1>6. \A k \in Jobs \ {j} : job[k].status \notin Active
  BY <1>0, <1>1, <1>2 DEF OneActive
<1>7. QED
  BY <1>1, <1>2, <1>3, <1>4, <1>5, <1>6

LEMMA ClaimEffect ==
  ASSUME TypeInv, LeaseInv, NEW w \in Workers, Claim(w)
  PROVE  LET j == worker[w].job
             n == job[j].attempts + 1 IN
         /\ job'[j].locked # None
         /\ worker'[w].pc = "claimed" /\ worker'[w].job = j
         /\ \A v \in Workers \ {w} : worker'[v] = worker[v]
         /\ Pending(outbox) \subseteq Pending(outbox')
         /\ Transit' = Transit \cup {Event(j, "running", n, None)}
<1> DEFINE j == worker[w].job
           n == job[j].attempts + 1
           started == Row(Event(j, "running", n, None), clock)
<1>0. /\ TypeOK /\ j \in Jobs /\ n \in Nat /\ job[j] \in JobRow
      /\ worker[w] \in WorkerState
  BY ClaimRow, WorkerTypes DEF TypeInv, TypeOK
<1>1. job'[j].locked # None
  BY <1>0, ConstantsOK DEF Claim, TypeOK, JobRow, WorkerState, Time
<1>2. /\ worker'[w].pc = "claimed" /\ worker'[w].job = j
      /\ \A v \in Workers \ {w} : worker'[v] = worker[v]
  BY <1>0 DEF Claim, TypeOK, WorkerState
<1>3. started \in OutboxRow
  BY <1>0, MessageTypes, RowTypes, ConstantsOK DEF Active, MaybeTime, TypeOK
<1>4. Pending(outbox') = Pending(outbox) \cup {started}
  BY <1>0, <1>3, BagAdd DEF Claim, TypeOK
<1>5. started.msg = Event(j, "running", n, None) /\ broker' = broker
  BY DEF Claim, Row
<1>6. Transit' = Transit \cup {Event(j, "running", n, None)}
  BY <1>4, <1>5 DEF Transit, Pending
<1>7. QED
  BY <1>1, <1>2, <1>4, <1>6

(* The rows that report a failure                                           *)
LEMMA FailedRowsEffect ==
  ASSUME TypeOK, NEW j \in Jobs, NEW n \in Nat,
         outbox' = outbox (+) FailedRows(j, n), UNCHANGED broker
  PROVE  /\ Pending(outbox) \subseteq Pending(outbox')
         /\ Transit' = Transit \cup {Event(j, "failed", n, None), DeadLetter(j)}
<1> DEFINE failed == Row(Event(j, "failed", n, None), clock)
           dead == Row(DeadLetter(j), clock)
<1>1. failed \in OutboxRow /\ dead \in OutboxRow
  BY MessageTypes, RowTypes DEF Active, Terminal, MaybeTime, TypeOK
<1>2. Pending(outbox') = Pending(outbox) \cup {failed, dead}
  BY <1>1, BagPlus DEF FailedRows, TypeOK
<1>3. failed.msg = Event(j, "failed", n, None) /\ dead.msg = DeadLetter(j)
  BY DEF Row
<1>4. Transit' = Transit \cup {Event(j, "failed", n, None), DeadLetter(j)}
  BY <1>2, <1>3 DEF Transit, Pending
<1>5. QED
  BY <1>2, <1>4

LEMMA ExhaustEffect ==
  ASSUME TypeInv, LeaseInv, NEW w \in Workers, Exhaust(w)
  PROVE  LET j == worker[w].job
             n == job[j].attempts + 1 IN
         /\ job'[j].locked = None
         /\ worker'[w].pc = "acking"
         /\ \A v \in Workers \ {w} : worker'[v] = worker[v]
         /\ Pending(outbox) \subseteq Pending(outbox')
         /\ Transit' = Transit \cup {Event(j, "failed", n, None), DeadLetter(j)}
         /\ instance' = "ERROR"
<1> DEFINE j == worker[w].job
           n == job[j].attempts + 1
<1>0. TypeOK /\ j \in Jobs /\ n \in Nat /\ job[j] \in JobRow
  BY ClaimRow, WorkerTypes DEF TypeInv
<1>1. job'[j].locked = None
  BY <1>0 DEF Exhaust, TypeOK, JobRow
<1>2. worker'[w].pc = "acking" /\ \A v \in Workers \ {w} : worker'[v] = worker[v]
  BY <1>0, ReturnTypes DEF Exhaust
<1>3. outbox' = outbox (+) FailedRows(j, n) /\ UNCHANGED broker /\ instance' = "ERROR"
  BY DEF Exhaust, MarkInstance
<1>4. QED
  BY <1>0, <1>1, <1>2, <1>3, FailedRowsEffect

LEMMA RescheduleEffect ==
  ASSUME TypeInv, NEW w \in Workers, Reschedule(w)
  PROVE  LET j == worker[w].job IN
         /\ j \in Jobs /\ ~Busy(w)
         /\ worker[w].pc = "received" /\ worker'[w].pc = "acking"
         /\ \A v \in Workers \ {w} : worker'[v] = worker[v]
         /\ job[j].next \in Nat
         /\ ~(worker[w].now >= job[j].next)
              \/ job[j].locked # None
         /\ Pending(outbox') = Pending(outbox) \cup {Row(Command(j), job[j].next)}
         /\ Transit' = Transit \cup {Command(j)}
<1> DEFINE j == worker[w].job
           row == Row(Command(j), job[j].next)
<1>0. TypeOK /\ j \in Jobs /\ job[j] \in JobRow /\ worker[w] \in WorkerState
  BY WorkerTypes DEF TypeInv, Reschedule
<1>1. worker'[w].pc = "acking" /\ \A v \in Workers \ {w} : worker'[v] = worker[v]
  BY <1>0, ReturnTypes DEF Reschedule
<1>2. job[j].next \in Nat
  BY <1>0 DEF Reschedule, NotDue, JobRow, MaybeTime, Time
<1>3. job[j].next <= worker[w].now => job[j].locked # None
  BY DEF Reschedule, Claimable, NotDue
<1>4. row \in OutboxRow /\ row.msg = Command(j)
  BY <1>0, <1>2, MessageTypes, RowTypes, ConstantsOK DEF Row, Active, MaybeTime, Time
<1>5. Pending(outbox') = Pending(outbox) \cup {row}
  BY <1>0, <1>4, BagAdd DEF Reschedule, TypeOK
<1>6. Transit' = Transit \cup {Command(j)}
  BY <1>4, <1>5 DEF Reschedule, Transit, Pending
<1>7. worker[w].now \in Nat
  BY <1>0 DEF WorkerState, Time
<1>8. QED
  BY <1>0, <1>1, <1>2, <1>3, <1>5, <1>6, <1>7 DEF Reschedule, Busy

(* A thread that ends its execution frees the row of the attempt it has     *)
(* loaded, and nobody is left at work.                                      *)
LEMMA HandleRow ==
  ASSUME TypeInv, LeaseInv, Snapshot, NEW w \in Workers, Handle(w)
  PROVE  LET j == worker[w].job
             n == worker[w].attempt IN
         /\ j \in Jobs /\ n \in Nat /\ n # 0 /\ n = job[j].attempts
         /\ job[j].status \in Active /\ job[j].locked # None
         /\ job'[j].status = job[j].status /\ job'[j].attempts = n
         /\ job'[j].locked = None
         /\ \A k \in Jobs \ {j} : job'[k] = job[k] /\ job[k].status \notin Active
         /\ worker[w].pc = "handling" /\ worker'[w].pc = "acking"
         /\ \A v \in Workers \ {w} : worker'[v] = worker[v] /\ ~Busy(v)
         /\ UNCHANGED <<quarantine, broker, clock>>
<1> DEFINE j == worker[w].job
           n == worker[w].attempt
<1>0. TypeOK /\ WorkIsCurrent /\ Counted /\ HandlerExclusive /\ OneActive
  BY DEF TypeInv, LeaseInv
<1>1. worker[w].pc = "handling" /\ Busy(w) /\ worker[w].lockedSet
  BY DEF Handle, Succeed, RetryLater, Fail, Busy, Snapshot
<1>2. j \in Jobs /\ job[j] \in JobRow /\ worker[w] \in WorkerState /\ n \in Nat /\ n # 0
  BY <1>0, <1>1, WorkerTypes DEF Counted, WorkerState
<1>3. n = job[j].attempts /\ job[j].status \in Active /\ job[j].locked # None
  BY <1>0, <1>1, <1>2, ConstantsOK DEF WorkIsCurrent, WorkerState, Time
<1>4. /\ job'[j].status = job[j].status /\ job'[j].attempts = n /\ job'[j].locked = None
      /\ \A k \in Jobs \ {j} : job'[k] = job[k]
  <2>1. job \in [Jobs -> JobRow]
    BY <1>0 DEF TypeOK
  <2>2. CASE Succeed(w)
    BY <1>1, <1>2, <1>3, <2>1, <2>2 DEF Succeed, JobRow, Cleared
  <2>3. CASE RetryLater(w)
    BY <1>1, <1>2, <1>3, <2>1, <2>3 DEF RetryLater, JobRow, Cleared
  <2>4. CASE Fail(w)
    BY <1>1, <1>2, <1>3, <2>1, <2>4 DEF Fail, JobRow, Cleared
  <2>5. QED
    BY <2>2, <2>3, <2>4 DEF Handle
<1>5. \A k \in Jobs \ {j} : job[k].status \notin Active
  BY <1>0, <1>2, <1>3 DEF OneActive
<1>6. Return(w) /\ UNCHANGED <<quarantine, broker, clock>>
  BY DEF Handle, Succeed, RetryLater, Fail
<1>7. worker'[w].pc = "acking" /\ \A v \in Workers \ {w} : worker'[v] = worker[v]
  BY <1>0, <1>2, <1>6, ReturnTypes
<1>8. \A v \in Workers \ {w} : ~Busy(v)
  BY <1>0, <1>1 DEF HandlerExclusive
<1>9. QED
  BY <1>1, <1>2, <1>3, <1>4, <1>5, <1>6, <1>7, <1>8

LEMMA SucceedEffect ==
  ASSUME TypeInv, LeaseInv, Snapshot, NEW w \in Workers, Succeed(w)
  PROVE  LET j == worker[w].job
             n == worker[w].attempt IN
         /\ Pending(outbox) \subseteq Pending(outbox')
         /\ Transit' = Transit \cup {Event(j, "succeeded", n, None)}
         /\ instance' = "RUNNING"
<1> DEFINE j == worker[w].job
           n == worker[w].attempt
           done == Row(Event(j, "succeeded", n, None), clock)
<1>0. TypeOK /\ j \in Jobs /\ n \in Nat
  BY HandleRow DEF TypeInv, Handle
<1>1. done \in OutboxRow /\ done.msg = Event(j, "succeeded", n, None)
  BY <1>0, MessageTypes, RowTypes DEF Terminal, MaybeTime, TypeOK, Row
<1>2. Pending(outbox') = Pending(outbox) \cup {done}
  BY <1>0, <1>1, BagAdd DEF Succeed, TypeOK
<1>3. Transit' = Transit \cup {Event(j, "succeeded", n, None)}
  BY <1>1, <1>2 DEF Succeed, Transit, Pending
<1>4. QED
  BY <1>2, <1>3 DEF Succeed, MarkInstance

LEMMA FailEffect ==
  ASSUME TypeInv, LeaseInv, Snapshot, NEW w \in Workers, Fail(w)
  PROVE  LET j == worker[w].job
             n == worker[w].attempt IN
         /\ Pending(outbox) \subseteq Pending(outbox')
         /\ Transit' = Transit \cup {Event(j, "failed", n, None), DeadLetter(j)}
         /\ instance' = "ERROR"
<1>1. /\ TypeOK /\ worker[w].job \in Jobs /\ worker[w].attempt \in Nat
      /\ UNCHANGED broker
  BY HandleRow DEF TypeInv, Handle
<1>2. /\ outbox' = outbox (+) FailedRows(worker[w].job, worker[w].attempt)
      /\ instance' = "ERROR"
  BY DEF Fail, MarkInstance
<1>3. QED
  BY <1>1, <1>2, FailedRowsEffect

(* A command and an event, both of which bring the job back at time t       *)
LEMMA RetryRowsEffect ==
  ASSUME TypeOK, NEW j \in Jobs, NEW n \in Nat, NEW t \in Nat, UNCHANGED broker,
         outbox' = outbox (+) SetToBag({Row(Event(j, "pending", n, t), clock),
                                        Row(Command(j), t)})
  PROVE  /\ Pending(outbox) \subseteq Pending(outbox')
         /\ Row(Command(j), t) \in Pending(outbox')
         /\ Transit' = Transit \cup {Event(j, "pending", n, t), Command(j)}
<1> DEFINE retry == Row(Event(j, "pending", n, t), clock)
           command == Row(Command(j), t)
<1>1. retry \in OutboxRow /\ command \in OutboxRow
  BY MessageTypes, RowTypes DEF Active, MaybeTime, TypeOK, Time
<1>2. Pending(outbox') = Pending(outbox) \cup {retry, command}
  BY <1>1, BagPlus DEF TypeOK
<1>3. retry.msg = Event(j, "pending", n, t) /\ command.msg = Command(j)
  BY DEF Row
<1>4. Transit' = Transit \cup {Event(j, "pending", n, t), Command(j)}
  BY <1>2, <1>3 DEF Transit, Pending
<1>5. QED
  BY <1>2, <1>4

LEMMA RetryEffect ==
  ASSUME TypeInv, LeaseInv, Snapshot, NEW w \in Workers, RetryLater(w)
  PROVE  LET j == worker[w].job
             n == worker[w].attempt
             t == job'[j].next IN
         /\ t \in Nat
         /\ Pending(outbox) \subseteq Pending(outbox')
         /\ Row(Command(j), t) \in Pending(outbox')
         /\ Transit' = Transit \cup {Event(j, "pending", n, t), Command(j)}
         /\ UNCHANGED instance
<1> DEFINE j == worker[w].job
           n == worker[w].attempt
           t == clock + DelayAt(RetryDelays, n)
<1>0. TypeOK /\ j \in Jobs /\ n \in Nat \ {0} /\ clock \in Nat /\ UNCHANGED broker
  BY HandleRow DEF TypeInv, Handle, TypeOK, Time
<1>1. t \in Nat
  <2>1. DelayAt(RetryDelays, n) \in Nat
    BY <1>0, DelayType, ConstantsOK
  <2>2. QED
    BY <1>0, <2>1
<1>2. job'[j].next = t
  BY <1>0 DEF RetryLater, TypeOK, JobRow
<1>3. /\ outbox' = outbox (+) SetToBag({Row(Event(j, "pending", n, t), clock),
                                        Row(Command(j), t)})
      /\ UNCHANGED instance
  BY DEF RetryLater
<1>4. QED
  BY <1>0, <1>1, <1>2, <1>3, RetryRowsEffect

LEMMA ReapEffect ==
  ASSUME TypeInv, LeaseInv, NEW j \in Jobs, Reap(j)
  PROVE  LET n == job[j].attempts
             t == job'[j].next IN
         /\ n \in Nat /\ t \in Nat
         /\ job[j].status \in Active /\ job[j].locked # None
         /\ job'[j].status = job[j].status /\ job'[j].attempts = n
         /\ job'[j].locked = None
         /\ \A k \in Jobs \ {j} : job'[k] = job[k] /\ job[k].status \notin Active
         /\ \A v \in Workers : ~Busy(v)
         /\ Pending(outbox) \subseteq Pending(outbox')
         /\ Row(Command(j), t) \in Pending(outbox')
         /\ Transit' = Transit \cup {Event(j, "pending", n, t), Command(j)}
         /\ UNCHANGED <<instance, quarantine, broker, worker, clock>>
<1>0. TypeOK /\ OneActive /\ job[j] \in JobRow /\ clock \in Nat
  BY DEF TypeInv, LeaseInv, TypeOK, Time
<1>1. job[j].attempts \in Nat /\ job[j].status \in Active /\ job[j].locked # None
  BY <1>0 DEF Reap, JobRow
<1>2. /\ job'[j].status = job[j].status /\ job'[j].attempts = job[j].attempts
      /\ job'[j].locked = None /\ job'[j].next = clock
      /\ \A k \in Jobs \ {j} : job'[k] = job[k]
  BY <1>0 DEF Reap, TypeOK, JobRow
<1>3. \A k \in Jobs \ {j} : job[k].status \notin Active
  BY <1>0, <1>1 DEF OneActive
<1>4. \A v \in Workers : ~Busy(v)
  <2>1. job[j].locked <= clock
    BY <1>0, <1>1 DEF Reap, JobRow, MaybeTime, Time
  <2>2. QED
    BY <1>0, <1>1, <2>1, FreeRow
<1>5. /\ outbox' = outbox (+) SetToBag({Row(Event(j, "pending", job[j].attempts, clock), clock),
                                        Row(Command(j), clock)})
      /\ UNCHANGED <<instance, quarantine, broker, worker, clock>>
  BY DEF Reap
<1>6. /\ Pending(outbox) \subseteq Pending(outbox')
      /\ Row(Command(j), clock) \in Pending(outbox')
      /\ Transit' = Transit \cup {Event(j, "pending", job[j].attempts, clock), Command(j)}
  BY <1>0, <1>1, <1>5, RetryRowsEffect
<1>7. QED
  BY <1>0, <1>1, <1>2, <1>3, <1>4, <1>5, <1>6

(* An event is applied, or ignored, and perhaps delivered again.            *)
LEMMA ConsumeEffect ==
  ASSUME TypeInv, NEW e \in Pending(broker), e.to = "events",
         ConsumeEvent(e) \/ ConsumeEventUnacked(e)
  PROVE  LET j == e.job IN
         /\ e \in Transit /\ j \in Jobs /\ e.status \in Active \cup Terminal
         /\ e.attempt \in Nat
         /\ Transit' \subseteq Transit /\ Transit \ {e} \subseteq Transit'
         /\ \A m \in Pending(broker) : m # e => m \in Pending(broker')
         /\ UNCHANGED <<instance, outbox, quarantine, worker, clock>>
         /\ \/ job' = job /\ ~Applies(job[j], e)
            \/ /\ job[j].status \in Active /\ e.attempt = job[j].attempts
               /\ job'[j].status = e.status /\ job'[j].next = e.next
               /\ job'[j].attempts = job[j].attempts
               /\ job'[j].locked = IF e.status = "running" THEN job[j].locked ELSE None
               /\ \A k \in Jobs \ {j} : job'[k] = job[k]
<1> DEFINE j == e.job
<1>0. TypeOK
  BY DEF TypeInv
<1>1. /\ e \in Transit /\ j \in Jobs /\ job[j] \in JobRow /\ e.attempt \in Nat
      /\ e.status \in Active \cup Terminal
  BY <1>0 DEF Transit, TypeOK, BagOver, Message
<1>2. /\ Pending(broker') \subseteq Pending(broker)
      /\ Pending(broker) \ {e} \subseteq Pending(broker')
  BY <1>0, BagRemove, BagRemoveKeeps DEF ConsumeEvent, ConsumeEventUnacked, TypeOK
<1>3. UNCHANGED <<instance, outbox, quarantine, worker, clock>>
  BY DEF ConsumeEvent, ConsumeEventUnacked
<1>4. Transit' \subseteq Transit /\ Transit \ {e} \subseteq Transit'
  BY <1>2, <1>3 DEF Transit, Pending
<1>5. CASE Applies(job[j], e)
  <2>1. job' = [job EXCEPT ![j] = Applied(job[j], e)] /\ job \in [Jobs -> JobRow]
    BY <1>0, <1>5 DEF ConsumeEvent, ConsumeEventUnacked, ApplyStatusEvent, TypeOK
  <2>2. job[j].status \in Active /\ e.attempt = job[j].attempts
    BY <1>5 DEF Applies
  <2>3. /\ job'[j].status = e.status /\ job'[j].next = e.next
        /\ job'[j].attempts = job[j].attempts
        /\ job'[j].locked = IF e.status = "running" THEN job[j].locked ELSE None
        /\ \A k \in Jobs \ {j} : job'[k] = job[k]
    BY <1>1, <2>1 DEF Applied, JobRow
  <2>4. QED
    BY <1>1, <1>2, <1>3, <1>4, <2>2, <2>3
<1>6. CASE ~Applies(job[j], e)
  <2>1. job' = job
    BY <1>6 DEF ConsumeEvent, ConsumeEventUnacked, ApplyStatusEvent
  <2>2. QED
    BY <1>1, <1>2, <1>3, <1>4, <1>6, <2>1
<1>7. QED
  BY <1>5, <1>6

(* A thread that dies gives its command back; one that loses its connection *)
(* does so too, and goes on.                                                *)
LEMMA GiveBackEffect ==
  ASSUME TypeInv, NEW w \in Workers, Abort(w) \/ LoseConnection(w)
  PROVE  /\ \A v \in Workers \ {w} : worker'[v] = worker[v]
         /\ \/ worker'[w].pc = "idle"
            \/ /\ worker'[w].pc = worker[w].pc /\ worker'[w].job = worker[w].job
               /\ worker'[w].lockedSet = worker[w].lockedSet
         /\ worker[w].held => Command(worker[w].job) \in Pending(broker')
         /\ Pending(broker) \subseteq Pending(broker')
         /\ Transit \subseteq Transit'
         /\ \A m \in Transit' : m.to = "events" => m \in Transit
         /\ UNCHANGED <<job, instance, outbox, quarantine, clock>>
<1>0. TypeOK /\ worker[w] \in WorkerState
  BY DEF TypeInv, TypeOK
<1>1. UNCHANGED <<job, instance, outbox, quarantine, clock>>
  BY DEF Abort, LoseConnection
<1>2. /\ \A v \in Workers \ {w} : worker'[v] = worker[v]
      /\ \/ worker'[w].pc = "idle"
         \/ /\ worker'[w].pc = worker[w].pc /\ worker'[w].job = worker[w].job
            /\ worker'[w].lockedSet = worker[w].lockedSet
  BY <1>0 DEF Abort, LoseConnection, TypeOK, Idle, WorkerState
<1>3. CASE worker[w].held
  <2>1. /\ Command(worker[w].job) \in Message
        /\ broker' = Add(broker, Command(worker[w].job))
    BY <1>0, <1>3, WorkerTypes, MessageTypes, ConstantsOK
    DEF Abort, LoseConnection, Active, MaybeTime
  <2>2. Pending(broker') = Pending(broker) \cup {Command(worker[w].job)}
    BY <1>0, <2>1, BagAdd DEF TypeOK
  <2>3. /\ Transit \subseteq Transit'
        /\ \A m \in Transit' : m.to = "events" => m \in Transit
    BY <1>1, <2>2 DEF Transit, Pending, Command
  <2>4. QED
    BY <1>1, <1>2, <2>2, <2>3
<1>4. CASE ~worker[w].held
  <2>1. broker' = broker
    BY <1>4 DEF Abort, LoseConnection
  <2>2. Transit' = Transit /\ Pending(broker') = Pending(broker)
    BY <1>1, <2>1 DEF Transit, Pending
  <2>3. QED
    BY <1>1, <1>2, <1>4, <2>2
<1>5. QED
  BY <1>3, <1>4

(* The other steps of a thread, and time: no row and no message changes.    *)
LEMMA ThreadEffect ==
  ASSUME TypeInv, NEW w \in Workers, Skip(w) \/ LoadJob(w) \/ Ack(w)
  PROVE  /\ \A v \in Workers \ {w} : worker'[v] = worker[v]
         /\ worker'[w].pc # "received" /\ worker'[w].pc # "claimed"
         /\ worker'[w].pc = "handling" =>
              /\ worker[w].pc = "claimed" /\ worker'[w].job = worker[w].job
              /\ worker'[w].lockedSet = (job[worker[w].job].locked # None)
         /\ Transit' = Transit
         /\ UNCHANGED <<job, instance, outbox, quarantine, broker, clock>>
<1>0. TypeOK /\ worker[w] \in WorkerState
  BY DEF TypeInv, TypeOK
<1>1. UNCHANGED <<job, instance, outbox, quarantine, broker, clock>>
  BY DEF Skip, LoadJob, Ack
<1>2. Transit' = Transit
  BY <1>1 DEF Transit, Pending
<1>3. CASE Skip(w)
  <2>1. worker'[w].pc = "acking" /\ \A v \in Workers \ {w} : worker'[v] = worker[v]
    BY <1>0, <1>3, WorkerTypes, ReturnTypes DEF Skip
  <2>2. QED
    BY <1>1, <1>2, <2>1
<1>4. CASE LoadJob(w)
  BY <1>0, <1>1, <1>2, <1>4 DEF LoadJob, TypeOK, WorkerState
<1>5. CASE Ack(w)
  BY <1>0, <1>1, <1>2, <1>5 DEF Ack, TypeOK, Idle
<1>6. QED
  BY <1>3, <1>4, <1>5

-----------------------------------------------------------------------------
(* The events in transit and the verdict of the instance                    *)

LEMMA InitEvents == Init => EventInv /\ VerdictShown
<1> SUFFICES ASSUME Init PROVE EventInv /\ VerdictShown
  OBVIOUS
<1>1. Transit = {}
  BY BagEmpty DEF Init, Transit
<1>2. \A j \in Jobs : job[j].locked = None
  BY DEF Init, Absent
<1>3. \A w \in Workers : worker[w].pc = "idle"
  BY DEF Init, Idle
<1>4. QED
  BY <1>1, <1>2, <1>3
  DEF EventInv, Announced, LockedCounted, Released, Snapshot, VerdictShown

(* A step that leaves the rows and the instance alone and announces nothing *)
(* new                                                                      *)
LEMMA SilentStep ==
  ASSUME EventInv, VerdictShown, UNCHANGED <<job, instance>>,
         \A m \in Transit' : m.to = "events" => m \in Transit,
         \A w \in Workers : worker'[w].pc = "handling" => worker'[w].lockedSet
  PROVE  (EventInv /\ VerdictShown)'
<1>1. (Announced /\ LockedCounted /\ Released /\ Snapshot)'
  BY DEF EventInv, Announced, LockedCounted, Released, Snapshot
<1>2. VerdictShown'
  BY DEF VerdictShown
<1>3. QED
  BY <1>1, <1>2 DEF EventInv

(* A step that writes the row of the only active job j, of whose new        *)
(* current attempt no verdict is known yet                                  *)
LEMMA RowStep ==
  ASSUME TypeInv, EventInv, VerdictShown, NEW j \in Jobs,
         \A k \in Jobs \ {j} : job'[k] = job[k] /\ job[k].status \notin Active,
         \A m \in Transit : m.to = "events" /\ m.status # "running" /\ m.job = j
           => m.attempt # job'[j].attempts,
         job'[j].locked # None => job'[j].attempts # 0,
         \A m \in Transit' : m.to = "events" =>
           \/ m \in Transit
           \/ /\ m.job = j /\ m.attempt # 0
              /\ m.status = "running" => m.next = None
              /\ m.status # "running" => job'[j].locked = None
              /\ m.status \in Terminal => instance' = Verdict(m.status),
         \A w \in Workers : worker'[w].pc = "handling" => worker'[w].lockedSet
  PROVE  (EventInv /\ VerdictShown)'
<1>1. Announced' /\ LockedCounted' /\ Snapshot'
  BY DEF EventInv, Announced, LockedCounted, Snapshot
<1>2. Released'
  <2> SUFFICES ASSUME NEW m \in Transit', m.to = "events", m.status # "running",
                      m.attempt = job'[m.job].attempts
               PROVE  job'[m.job].locked = None
    BY DEF Released
  <2>1. CASE m \in Transit
    <3>1. m.job \in Jobs
      BY <2>1, TransitTypes DEF TypeInv
    <3>2. m.job # j
      BY <2>1
    <3>3. QED
      BY <2>1, <3>1, <3>2 DEF EventInv, Released
  <2>2. CASE m \notin Transit
    BY <2>2
  <2>3. QED
    BY <2>1, <2>2
<1>3. VerdictShown'
  <2> SUFFICES ASSUME NEW m \in Transit', m.to = "events", m.status \in Terminal,
                      m.attempt = job'[m.job].attempts, job'[m.job].status \in Active
               PROVE  instance' = Verdict(m.status)
    BY DEF VerdictShown
  <2>1. CASE m \in Transit
    <3>1. m.job \in Jobs /\ m.status # "running"
      BY <2>1, TransitTypes DEF TypeInv, Terminal
    <3>2. m.job # j
      BY <2>1, <3>1
    <3>3. QED
      BY <3>1, <3>2
  <2>2. CASE m \notin Transit
    BY <2>2
  <2>3. QED
    BY <2>1, <2>2
<1>4. QED
  BY <1>1, <1>2, <1>3 DEF EventInv

LEMMA ConsumeEvents ==
  ASSUME TypeInv, LeaseInv, EventInv, VerdictShown, NEW e \in Pending(broker),
         e.to = "events", ConsumeEvent(e) \/ ConsumeEventUnacked(e)
  PROVE  (EventInv /\ VerdictShown)'
<1> DEFINE j == e.job
<1>1. /\ Transit' \subseteq Transit /\ UNCHANGED <<instance, worker>>
      /\ j \in Jobs
      /\ \A k \in Jobs : job'[k].attempts = job[k].attempts
      /\ \A k \in Jobs : job'[k].locked # None => job'[k].locked = job[k].locked
      /\ \A k \in Jobs : job'[k].status \in Active => job[k].status \in Active
  BY ConsumeEffect
<1>2. \A m \in Transit' : m \in Transit /\ m.job \in Jobs
  BY <1>1, TransitTypes DEF TypeInv
<1>3. Announced' /\ LockedCounted' /\ Snapshot'
  BY <1>1, <1>2 DEF EventInv, Announced, LockedCounted, Snapshot
<1>4. Released'
  BY <1>1, <1>2 DEF EventInv, Released
<1>5. VerdictShown'
  BY <1>1, <1>2 DEF VerdictShown
<1>6. QED
  BY <1>3, <1>4, <1>5 DEF EventInv

LEMMA StepEvents ==
  ASSUME TypeInv, LeaseInv, EventInv, VerdictShown, [Next]_vars
  PROVE  (EventInv /\ VerdictShown)'
<1> DEFINE Goal == (EventInv /\ VerdictShown)'
<1>0. /\ Announced /\ LockedCounted /\ Released /\ Snapshot /\ EventsBehind
      /\ WorkIsCurrent
      /\ \A m \in Transit : m.job \in Jobs /\ m.attempt \in Nat
  BY TransitTypes DEF EventInv, LeaseInv, TypeInv
<1>1. ASSUME NEW j \in Jobs, CreateJob(j) PROVE Goal
  <2>1. /\ \A k \in Jobs \ {j} : job'[k] = job[k] /\ job[k].status \notin Active
        /\ job'[j].attempts = 0 /\ job'[j].locked = None
        /\ Transit' = Transit \cup {Command(j)}
    BY <1>1, CreateEffect DEF NewJob, Absent
  <2>2. Command(j).to # "events" /\ UNCHANGED worker
    BY <1>1 DEF Command, CreateJob
  <2>3. QED
    BY <1>0, <2>1, <2>2, RowStep DEF Announced, Snapshot
<1>2. ASSUME NEW r \in Pending(outbox), RelayPublish(r) \/ RelayRepublish(r) PROVE Goal
  BY <1>0, <1>2, PublishEffect, SilentStep DEF Snapshot
<1>3. ASSUME NEW r \in Pending(outbox), RelayFails(r) PROVE Goal
  BY <1>0, <1>3, FailsEffect, SilentStep DEF Snapshot
<1>4. ASSUME NEW w \in Workers, NEW j \in Jobs, Receive(w, j) PROVE Goal
  <2>1. UNCHANGED <<job, instance>>
    BY <1>4 DEF Receive
  <2>2. \A v \in Workers : worker'[v].pc = "handling" => worker'[v].lockedSet
    BY <1>0, <1>4, ReceiveEffect DEF Snapshot
  <2>3. QED
    BY <1>4, <2>1, <2>2, ReceiveEffect, SilentStep
<1>5. ASSUME NEW w \in Workers, Claim(w) PROVE Goal
  <2> DEFINE j == worker[w].job
             n == job[j].attempts + 1
             started == Event(j, "running", n, None)
  <2>1. /\ j \in Jobs /\ job[j].attempts \in Nat /\ n # 0 /\ n > job[j].attempts
        /\ job'[j].attempts = n
        /\ \A k \in Jobs \ {j} : job'[k] = job[k] /\ job[k].status \notin Active
    BY <1>5, ClaimRow
  <2>2. /\ worker'[w].pc = "claimed"
        /\ \A v \in Workers \ {w} : worker'[v] = worker[v]
        /\ Transit' = Transit \cup {started}
    BY <1>5, ClaimEffect
  <2>3. \A m \in Transit : m.to = "events" /\ m.job = j => m.attempt # n
    BY <1>0, <2>1 DEF EventsBehind
  <2>4. /\ started.job = j /\ started.attempt = n
        /\ started.status = "running" /\ started.next = None
    BY DEF Event
  <2>5. \A v \in Workers : worker'[v].pc = "handling" => worker'[v].lockedSet
    BY <1>0, <2>2 DEF Snapshot
  <2>6. QED
    BY <2>1, <2>2, <2>3, <2>4, <2>5, RowStep DEF Terminal
<1>6. ASSUME NEW w \in Workers, Exhaust(w) PROVE Goal
  <2> DEFINE j == worker[w].job
             n == job[j].attempts + 1
             failed == Event(j, "failed", n, None)
  <2>1. /\ j \in Jobs /\ job[j].attempts \in Nat /\ n # 0 /\ n > job[j].attempts
        /\ job'[j].attempts = n
        /\ \A k \in Jobs \ {j} : job'[k] = job[k] /\ job[k].status \notin Active
    BY <1>6, ClaimRow
  <2>2. /\ job'[j].locked = None /\ worker'[w].pc = "acking" /\ instance' = "ERROR"
        /\ \A v \in Workers \ {w} : worker'[v] = worker[v]
        /\ Transit' = Transit \cup {failed, DeadLetter(j)}
    BY <1>6, ExhaustEffect
  <2>3. \A m \in Transit : m.to = "events" /\ m.job = j => m.attempt # n
    BY <1>0, <2>1 DEF EventsBehind
  <2>4. /\ failed.job = j /\ failed.attempt = n /\ failed.status = "failed"
        /\ DeadLetter(j).to # "events"
    BY DEF Event, DeadLetter
  <2>5. \A v \in Workers : worker'[v].pc = "handling" => worker'[v].lockedSet
    BY <1>0, <2>2 DEF Snapshot
  <2>6. QED
    BY <2>1, <2>2, <2>3, <2>4, <2>5, RowStep DEF Verdict
<1>7. ASSUME NEW w \in Workers, Reschedule(w) PROVE Goal
  <2>1. UNCHANGED <<job, instance>> /\ Command(worker[w].job).to # "events"
    BY <1>7 DEF Reschedule, Command
  <2>2. \A v \in Workers : worker'[v].pc = "handling" => worker'[v].lockedSet
    BY <1>0, <1>7, RescheduleEffect DEF Snapshot
  <2>3. QED
    BY <1>7, <2>1, <2>2, RescheduleEffect, SilentStep
<1>8. ASSUME NEW w \in Workers, Skip(w) \/ LoadJob(w) \/ Ack(w) PROVE Goal
  <2>1. \A v \in Workers : worker'[v].pc = "handling" => worker'[v].lockedSet
    <3>1. worker[w].pc = "claimed" => job[worker[w].job].locked # None
      BY <1>0, ConstantsOK DEF WorkIsCurrent, Busy, TypeInv, TypeOK, WorkerState, Time
    <3>2. QED
      BY <1>0, <1>8, <3>1, ThreadEffect DEF Snapshot
  <2>2. QED
    BY <1>8, <2>1, ThreadEffect, SilentStep
<1>9. ASSUME NEW w \in Workers, Handle(w) PROVE Goal
  <2> DEFINE j == worker[w].job
             n == worker[w].attempt
  <2>1. /\ j \in Jobs /\ n # 0 /\ n = job[j].attempts /\ job[j].locked # None
        /\ job'[j].attempts = n /\ job'[j].locked = None
        /\ \A k \in Jobs \ {j} : job'[k] = job[k] /\ job[k].status \notin Active
        /\ worker'[w].pc = "acking"
        /\ \A v \in Workers \ {w} : worker'[v] = worker[v]
    BY <1>0, <1>9, HandleRow
  <2>2. \A m \in Transit : m.to = "events" /\ m.status # "running" /\ m.job = j
          => m.attempt # n
    BY <1>0, <2>1 DEF Released
  <2>3. \A v \in Workers : worker'[v].pc = "handling" => worker'[v].lockedSet
    BY <1>0, <2>1 DEF Snapshot
  <2>4. \A m \in Transit' : m.to = "events" =>
          \/ m \in Transit
          \/ /\ m.job = j /\ m.attempt # 0 /\ m.status # "running"
             /\ m.status \in Terminal => instance' = Verdict(m.status)
    <3>1. CASE Succeed(w)
      BY <1>0, <2>1, <3>1, SucceedEffect DEF Event, Verdict
    <3>2. CASE Fail(w)
      BY <1>0, <2>1, <3>2, FailEffect DEF Event, DeadLetter, Verdict
    <3>3. CASE RetryLater(w)
      <4>1. Transit' = Transit \cup {Event(j, "pending", n, job'[j].next), Command(j)}
        BY <1>0, <3>3, RetryEffect
      <4>2. QED
        BY <2>1, <4>1 DEF Event, Command, Terminal
    <3>4. QED
      BY <1>9, <3>1, <3>2, <3>3 DEF Handle
  <2>5. QED
    BY <2>1, <2>2, <2>3, <2>4, RowStep
<1>10. ASSUME NEW w \in Workers, Abort(w) \/ LoseConnection(w) PROVE Goal
  BY <1>0, <1>10, GiveBackEffect, SilentStep DEF Snapshot
<1>11. ASSUME NEW e \in Pending(broker), e.to = "events",
              ConsumeEvent(e) \/ ConsumeEventUnacked(e)
       PROVE  Goal
  BY <1>11, ConsumeEvents
<1>12. ASSUME NEW j \in Jobs, Reap(j) PROVE Goal
  <2> DEFINE n == job[j].attempts
             t == job'[j].next
  <2>1. /\ job[j].locked # None /\ job'[j].attempts = n /\ job'[j].locked = None
        /\ \A k \in Jobs \ {j} : job'[k] = job[k] /\ job[k].status \notin Active
        /\ Transit' = Transit \cup {Event(j, "pending", n, t), Command(j)}
        /\ UNCHANGED worker
    BY <1>12, ReapEffect
  <2>2. n # 0
    BY <1>0, <2>1 DEF LockedCounted
  <2>3. \A m \in Transit : m.to = "events" /\ m.status # "running" /\ m.job = j
          => m.attempt # n
    BY <1>0, <2>1 DEF Released
  <2>4. /\ Event(j, "pending", n, t).job = j /\ Event(j, "pending", n, t).attempt = n
        /\ Event(j, "pending", n, t).status \notin Terminal \cup {"running"}
        /\ Command(j).to # "events"
    BY DEF Event, Command, Terminal
  <2>5. QED
    BY <1>0, <2>1, <2>2, <2>3, <2>4, RowStep DEF Snapshot
<1>13. CASE UNCHANGED <<job, instance, worker, outbox, broker>>
  <2>1. Transit' = Transit
    BY <1>13 DEF Transit, Pending
  <2>2. QED
    BY <1>0, <1>13, <2>1, SilentStep DEF Snapshot
<1>14. QED
  BY <1>1, <1>2, <1>3, <1>4, <1>5, <1>6, <1>7, <1>8, <1>9, <1>10, <1>11, <1>12, <1>13
  DEF Next, vars, Consumer, TakeCommand, Relay, Status, Reaper, SomeFault, Tick,
      ConsumeEvent, ConsumeEventUnacked

LEMMA EventInvariance == ASSUME NoOverrun
                         PROVE  Spec => [](TypeInv /\ LeaseInv /\ EventInv /\ VerdictShown)
<1>1. Init => EventInv /\ VerdictShown
  BY InitEvents
<1>2. TypeInv /\ LeaseInv /\ EventInv /\ VerdictShown /\ [Next]_vars
        => (EventInv /\ VerdictShown)'
  BY StepEvents
<1>3. QED
  BY <1>1, <1>2, LeaseInvariant, NoOverrun, PTL DEF Spec

(* Only the status consumer finishes a job, and only a thread that holds    *)
(* the active job touches the instance.                                     *)
LEMMA StepVerdict ==
  ASSUME TypeInv, LeaseInv, EventInv, VerdictShown, [Next]_vars
  PROVE  /\ \A j \in Jobs :
              job[j].status \in Active /\ job'[j].status \in Terminal =>
                instance' = Verdict(job'[j].status)
         /\ (\A j \in Jobs : job[j].status \notin Active) => instance' = instance
<1> DEFINE Finish == \A j \in Jobs :
             job[j].status \in Active /\ job'[j].status \in Terminal
               => instance' = Verdict(job'[j].status)
           Idling == (\A j \in Jobs : job[j].status \notin Active) => instance' = instance
           Kept == \A j \in Jobs : job[j].status \in Active => job'[j].status = job[j].status
<1>0. Snapshot /\ Active \cap Terminal = {}
  BY DEF EventInv, Active, Terminal
<1>1. ASSUME NEW j \in Jobs, CreateJob(j) PROVE Finish /\ Idling
  BY <1>1, CreateEffect DEF CreateJob
<1>2. ASSUME NEW w \in Workers, Claim(w) \/ Exhaust(w) PROVE Finish /\ Idling
  BY <1>0, <1>2, ClaimRow
<1>3. ASSUME NEW w \in Workers, Handle(w) PROVE Finish /\ Idling
  BY <1>0, <1>3, HandleRow
<1>4. ASSUME NEW j \in Jobs, Reap(j) PROVE Finish /\ Idling
  BY <1>0, <1>4, ReapEffect
<1>5. ASSUME NEW e \in Pending(broker), e.to = "events",
             ConsumeEvent(e) \/ ConsumeEventUnacked(e)
      PROVE  Finish /\ Idling
  <2> DEFINE j == e.job
  <2>1. e \in Transit /\ j \in Jobs /\ instance' = instance
    BY <1>5, ConsumeEffect
  <2>2. CASE job' = job
    BY <1>0, <2>1, <2>2
  <2>3. CASE /\ job[j].status \in Active /\ e.attempt = job[j].attempts
             /\ job'[j].status = e.status /\ \A k \in Jobs \ {j} : job'[k] = job[k]
    <3>1. e.status \in Terminal => instance = Verdict(e.status)
      BY <1>5, <2>1, <2>3 DEF VerdictShown
    <3>2. QED
      BY <1>0, <2>1, <2>3, <3>1
  <2>4. QED
    BY <1>5, <2>2, <2>3, ConsumeEffect
<1>6. CASE UNCHANGED <<job, instance>>
  BY <1>0, <1>6
<1>7. Finish /\ Idling
  BY <1>1, <1>2, <1>3, <1>4, <1>5, <1>6
  DEF Next, vars, Consumer, TakeCommand, Relay, Status, Reaper, SomeFault, Tick, Receive,
      Reschedule, Skip, LoadJob, Ack, Abort, LoseConnection, RelayPublish, RelayRepublish,
      RelayFails, ConsumeEvent, ConsumeEventUnacked
<1>8. QED
  BY <1>7

(* When a job finishes, application_instances already shows its verdict,    *)
(* and nothing changes the instance while no job is active: whatever        *)
(* arrives late or twice, for any number of jobs, threads and attempts.     *)
THEOREM InstanceAgrees == ASSUME NoOverrun PROVE Spec => InstanceShowsVerdict
<1>1. TypeInv /\ LeaseInv /\ EventInv /\ VerdictShown /\ [Next]_vars
        => [/\ \A j \in Jobs :
                 job[j].status \in Active /\ job'[j].status \in Terminal =>
                   instance' = (IF job'[j].status = "succeeded" THEN "RUNNING" ELSE "ERROR")
            /\ (\A j \in Jobs : job[j].status \notin Active) => instance' = instance]_vars
  BY StepVerdict DEF Verdict
<1>2. QED
  BY <1>1, EventInvariance, NoOverrun, PTL DEF Spec, InstanceShowsVerdict

-----------------------------------------------------------------------------
(* Refinement of JobLifecycle                                               *)

Statuses == [j \in Jobs |-> job[j].status]
AttemptCounts == [j \in Jobs |-> job[j].attempts]
WorkedOn == {worker[w].job : w \in {v \in Workers : Busy(v)}}
lifecycle == <<Statuses, AttemptCounts, WorkedOn>>

LEMMA InitRefines == Init => Lifecycle!Init
<1> SUFFICES ASSUME Init PROVE Lifecycle!Init
  OBVIOUS
<1>1. \A w \in Workers : ~Busy(w)
  BY DEF Init, Busy, Idle
<1>2. Statuses = [j \in Jobs |-> "absent"] /\ AttemptCounts = [j \in Jobs |-> 0]
  BY DEF Init, Absent, Statuses, AttemptCounts
<1>3. WorkedOn = {}
  BY <1>1 DEF WorkedOn
<1>4. QED
  BY <1>2, <1>3 DEF Lifecycle!Init, Statuses, AttemptCounts, WorkedOn

(* The lifecycle sees neither an event that says nothing new nor a thread   *)
(* that does not execute.                                                   *)
LEMMA Unseen ==
  ASSUME \A j \in Jobs : job'[j].status = job[j].status /\ job'[j].attempts = job[j].attempts,
         \A w \in Workers : Busy(w)' <=> Busy(w),
         \A w \in Workers : Busy(w) => worker'[w].job = worker[w].job
  PROVE  UNCHANGED lifecycle
<1>1. Statuses' = Statuses /\ AttemptCounts' = AttemptCounts
  BY DEF Statuses, AttemptCounts
<1>2. WorkedOn' = WorkedOn
  BY DEF WorkedOn
<1>3. QED
  BY <1>1, <1>2 DEF lifecycle

LEMMA CreateRefines ==
  ASSUME TypeInv, LeaseInv, NEW j \in Jobs, CreateJob(j)
  PROVE  Lifecycle!Request(j)
<1>0. /\ job[j].status = "absent" /\ job'[j].status = "pending"
      /\ job'[j].attempts = job[j].attempts
      /\ \A k \in Jobs \ {j} : job'[k] = job[k]
      /\ \A k \in Jobs : job[k].status \notin Active
  BY CreateEffect DEF Absent, NewJob
<1>1. /\ Statuses[j] = "absent"
      /\ \A k \in Jobs : Statuses[k] \notin Active
      /\ Statuses' = [Statuses EXCEPT ![j] = "pending"]
      /\ AttemptCounts' = AttemptCounts
  BY <1>0 DEF Statuses, AttemptCounts
<1>2. WorkedOn' = WorkedOn
  BY DEF WorkedOn, CreateJob, Busy
<1>3. QED
  BY <1>1, <1>2
  DEF Lifecycle!Request, Lifecycle!IsActive, Statuses, AttemptCounts, WorkedOn, Active

LEMMA ClaimRefines ==
  ASSUME TypeInv, LeaseInv, NEW w \in Workers, Claim(w) \/ Exhaust(w),
         NEW j \in Jobs, j = worker[w].job
  PROVE  Lifecycle!Attempt(j)
<1> DEFINE n == job[j].attempts + 1
<1>1. /\ j \in Jobs /\ n \in Nat /\ job[j].status \in Active
      /\ job'[j].status = job[j].status /\ job'[j].attempts = n
      /\ \A k \in Jobs \ {j} : job'[k] = job[k]
      /\ \A v \in Workers : ~Busy(v)
  BY ClaimRow
<1>2. /\ Statuses' = Statuses /\ Statuses[j] \in Active
      /\ AttemptCounts' = [AttemptCounts EXCEPT ![j] = AttemptCounts[j] + 1]
      /\ AttemptCounts'[j] = n
  BY <1>1 DEF Statuses, AttemptCounts
<1>3. WorkedOn = {}
  BY <1>1 DEF WorkedOn
<1>4. WorkedOn' = IF n <= MaxAttempts THEN {j} ELSE {}
  <2>1. CASE Claim(w)
    <3>1. \A v \in Workers : Busy(v)' <=> v = w
      BY <1>1, <2>1, ClaimEffect DEF Busy
    <3>2. n <= MaxAttempts /\ worker'[w].job = j
      BY <2>1, ClaimEffect DEF Claim
    <3>3. QED
      BY <3>1, <3>2 DEF WorkedOn
  <2>2. CASE Exhaust(w)
    <3>1. \A v \in Workers : ~Busy(v)'
      BY <1>1, <2>2, ExhaustEffect DEF Busy
    <3>2. ~(n <= MaxAttempts)
      BY <1>1, <2>2, ConstantsOK DEF Exhaust
    <3>3. QED
      BY <3>1, <3>2 DEF WorkedOn
  <2>3. QED
    BY <2>1, <2>2
<1>5. QED
  BY <1>2, <1>3, <1>4
  DEF Lifecycle!Attempt, Lifecycle!IsActive, Statuses, AttemptCounts, WorkedOn, Active

(* An execution ends, and nobody works afterwards.                          *)
LEMMA EndRefines ==
  ASSUME \A j \in Jobs : job'[j].status = job[j].status /\ job'[j].attempts = job[j].attempts,
         NEW w \in Workers, Busy(w), \A v \in Workers : ~Busy(v)'
  PROVE  Lifecycle!Stop
<1>1. Statuses' = Statuses /\ AttemptCounts' = AttemptCounts
  BY DEF Statuses, AttemptCounts
<1>2. WorkedOn # {} /\ WorkedOn' = {}
  BY DEF WorkedOn
<1>3. QED
  BY <1>1, <1>2 DEF Lifecycle!Stop, Statuses, AttemptCounts, WorkedOn

LEMMA EventRefines ==
  ASSUME TypeInv, LeaseInv, EventInv, NEW e \in Pending(broker), e.to = "events",
         ConsumeEvent(e) \/ ConsumeEventUnacked(e)
  PROVE  \/ Lifecycle!Begin(e.job)
         \/ \E s \in {"pending", "succeeded", "failed"} : Lifecycle!Settle(e.job, s)
         \/ UNCHANGED lifecycle
<1> DEFINE j == e.job
<1>1. /\ e \in Transit /\ j \in Jobs /\ e.status \in Active \cup Terminal
      /\ e.attempt \in Nat /\ worker' = worker
  BY ConsumeEffect
<1>2. CASE job' = job
  BY <1>1, <1>2, Unseen DEF Busy
<1>3. CASE /\ job[j].status \in Active /\ e.attempt = job[j].attempts
           /\ job'[j].status = e.status /\ job'[j].attempts = job[j].attempts
           /\ \A k \in Jobs \ {j} : job'[k] = job[k]
  <2>1. job[j].attempts > 0
    BY <1>1, <1>3 DEF EventInv, Announced
  <2>2. /\ Statuses[j] \in Active /\ AttemptCounts[j] > 0
        /\ Statuses' = [Statuses EXCEPT ![j] = e.status]
        /\ AttemptCounts' = AttemptCounts
    BY <1>1, <1>3, <2>1 DEF Statuses, AttemptCounts
  <2>3. WorkedOn' = WorkedOn
    BY <1>1 DEF WorkedOn, Busy
  <2>4. CASE e.status = "running"
    BY <1>1, <2>2, <2>3, <2>4
    DEF Lifecycle!Begin, Lifecycle!IsActive, Statuses, AttemptCounts, WorkedOn, Active
  <2>5. CASE e.status # "running"
    <3>1. job[j].locked = None
      BY <1>1, <1>3, <2>5 DEF EventInv, Released
    <3>2. \A w \in Workers : Busy(w) => job[worker[w].job].locked # None
      BY ConstantsOK DEF LeaseInv, WorkIsCurrent, TypeInv, TypeOK, WorkerState, Time
    <3>3. j \notin WorkedOn
      BY <3>1, <3>2 DEF WorkedOn
    <3>4. e.status \in {"pending", "succeeded", "failed"}
      BY <1>1, <2>5 DEF Active, Terminal
    <3>5. Lifecycle!Settle(j, e.status)
      BY <2>2, <2>3, <3>3
      DEF Lifecycle!Settle, Lifecycle!IsActive, Statuses, AttemptCounts, WorkedOn, Active
    <3>6. QED
      BY <3>4, <3>5
  <2>6. QED
    BY <2>4, <2>5
<1>4. QED
  BY <1>2, <1>3, ConsumeEffect

LEMMA StepRefines ==
  ASSUME TypeInv, LeaseInv, EventInv, [Next]_vars
  PROVE  Lifecycle!Next \/ UNCHANGED lifecycle
<1> DEFINE Goal == Lifecycle!Next \/ UNCHANGED lifecycle
<1>0. Snapshot /\ HandlerExclusive
  BY DEF EventInv, LeaseInv
<1>1. ASSUME NEW j \in Jobs, CreateJob(j) PROVE Goal
  BY <1>1, CreateRefines DEF Lifecycle!Next
<1>2. ASSUME NEW w \in Workers, Claim(w) \/ Exhaust(w) PROVE Goal
  <2>1. PICK j \in Jobs : j = worker[w].job
    BY <1>2, ClaimRow
  <2>2. Lifecycle!Attempt(j)
    BY <1>2, <2>1, ClaimRefines
  <2>3. QED
    BY <2>2 DEF Lifecycle!Next
<1>3. ASSUME NEW w \in Workers, Handle(w) PROVE Goal
  <2>1. /\ \A k \in Jobs : job'[k].status = job[k].status /\ job'[k].attempts = job[k].attempts
        /\ Busy(w) /\ \A v \in Workers : ~Busy(v)'
    BY <1>0, <1>3, HandleRow DEF Busy
  <2>2. QED
    BY <2>1, EndRefines DEF Lifecycle!Next
<1>4. ASSUME NEW w \in Workers, Abort(w) \/ LoseConnection(w) PROVE Goal
  <2>1. /\ UNCHANGED job
        /\ \A v \in Workers \ {w} : worker'[v] = worker[v]
        /\ \/ worker'[w].pc = "idle"
           \/ worker'[w].pc = worker[w].pc /\ worker'[w].job = worker[w].job
    BY <1>4, GiveBackEffect
  <2>2. CASE Busy(w) /\ ~Busy(w)'
    <3>1. \A v \in Workers : ~Busy(v)'
      BY <1>0, <2>1, <2>2 DEF HandlerExclusive, Busy
    <3>2. QED
      BY <2>1, <2>2, <3>1, EndRefines DEF Lifecycle!Next
  <2>3. CASE ~(Busy(w) /\ ~Busy(w)')
    <3>1. \A v \in Workers : /\ Busy(v)' <=> Busy(v)
                             /\ Busy(v) => worker'[v].job = worker[v].job
      BY <2>1, <2>3 DEF Busy
    <3>2. QED
      BY <2>1, <3>1, Unseen
  <2>4. QED
    BY <2>2, <2>3
<1>5. ASSUME NEW e \in Pending(broker), e.to = "events",
             ConsumeEvent(e) \/ ConsumeEventUnacked(e)
      PROVE  Goal
  BY <1>5, EventRefines, ConsumeEffect DEF Lifecycle!Next
<1>6. ASSUME NEW j \in Jobs, Reap(j) PROVE Goal
  <2>1. /\ \A k \in Jobs : job'[k].status = job[k].status /\ job'[k].attempts = job[k].attempts
        /\ UNCHANGED worker
    BY <1>6, ReapEffect
  <2>2. QED
    BY <2>1, Unseen DEF Busy
<1>7. ASSUME NEW w \in Workers, NEW j \in Jobs, Receive(w, j) PROVE Goal
  <2>1. UNCHANGED job /\ \A v \in Workers : (Busy(v)' <=> Busy(v)) /\ (Busy(v) => worker'[v] = worker[v])
    BY <1>7, ReceiveEffect DEF Busy, Receive
  <2>2. QED
    BY <2>1, Unseen
<1>8. ASSUME NEW w \in Workers, Reschedule(w) \/ Skip(w) \/ LoadJob(w) \/ Ack(w) PROVE Goal
  <2>1. UNCHANGED job
    BY <1>8 DEF Reschedule, Skip, LoadJob, Ack
  <2>2. \A v \in Workers : /\ Busy(v)' <=> Busy(v)
                           /\ Busy(v) => worker'[v].job = worker[v].job
    <3>1. CASE Reschedule(w)
      BY <3>1, RescheduleEffect DEF Busy
    <3>2. CASE Skip(w) \/ Ack(w)
      <4>1. ~Busy(w) /\ worker'[w].pc # "handling"
        BY <3>2, ThreadEffect DEF Skip, Ack, Busy
      <4>2. QED
        BY <3>2, <4>1, ThreadEffect DEF Busy
    <3>3. CASE LoadJob(w)
      <4>1. Busy(w) /\ worker'[w].pc = "handling"
        BY <3>3 DEF LoadJob, TypeInv, TypeOK, WorkerState, Busy
      <4>2. QED
        BY <3>3, <4>1, ThreadEffect DEF Busy
    <3>4. QED
      BY <1>8, <3>1, <3>2, <3>3
  <2>3. QED
    BY <2>1, <2>2, Unseen
<1>9. CASE UNCHANGED <<job, worker>>
  BY <1>9, Unseen DEF Busy
<1>10. QED
  BY <1>1, <1>2, <1>3, <1>4, <1>5, <1>6, <1>7, <1>8, <1>9
  DEF Next, vars, Consumer, TakeCommand, Relay, Status, Reaper, SomeFault, Tick,
      RelayPublish, RelayRepublish, RelayFails, ConsumeEvent, ConsumeEventUnacked

(* The jobs platform implements JobLifecycle: with queues that deliver      *)
(* twice and late, threads that crash and leases that run out, every step   *)
(* is a step of a job that is attempted alone and settled between attempts. *)
THEOREM Refinement == ASSUME NoOverrun PROVE Spec => ImplementsLifecycle
<1>1. TypeInv /\ LeaseInv /\ EventInv /\ [Next]_vars => [Lifecycle!Next]_lifecycle
  BY StepRefines
<1>2. QED
  BY <1>1, InitRefines, EventInvariance, NoOverrun, PTL
  DEF Spec, ImplementsLifecycle, Lifecycle!Spec, Lifecycle!lifecycleVars, lifecycle,
      Statuses, AttemptCounts, WorkedOn

-----------------------------------------------------------------------------
(* No job that is not finished is forgotten. *)

LEMMA ReachedLater ==
  ASSUME NEW t \in MaybeTime, NEW a \in Nat, NEW b \in Nat, Reached(t, a), a <= b
  PROVE  Reached(t, b)
BY DEF Reached, MaybeTime, Time

LEMMA DueTypes ==
  ASSUME TypeOK, NEW j \in Jobs
  PROVE  DueTimes(j) \subseteq MaybeTime /\ job[j].next \in DueTimes(j)
<1>1. job[j].next \in MaybeTime
  BY DEF TypeOK, JobRow
<1>2. \A m \in Transit : m.next \in MaybeTime
  BY TransitTypes DEF Message
<1>3. QED
  BY <1>1, <1>2 DEF DueTimes

(* When nothing new is announced about a row, it is not due at new times.   *)
LEMMA DueNoSooner ==
  ASSUME NEW j \in Jobs, job'[j] = job[j],
         \A m \in Transit' : m.to = "events" => m \in Transit
  PROVE  DueTimes(j)' \subseteq DueTimes(j)
BY DEF DueTimes

(* A verdict on its way arrives, unless it is quarantined.                  *)
LEMMA SettledStays ==
  ASSUME NEW j \in Jobs, Settled(j), job'[j].attempts = job[j].attempts,
         Pending(quarantine) \subseteq Pending(quarantine'),
         \A m \in Transit : m.to = "events" /\ m.job = j /\ m.status \in Terminal
           => m \in Transit' \/ m \in Pending(quarantine')
  PROVE  Settled(j)'
<1>1. CASE \E m \in Pending(quarantine) : m.job = j
  BY <1>1 DEF Settled, Pending
<1>2. ASSUME NEW s \in Terminal, InTransit(Event(j, s, job[j].attempts, None))
      PROVE  Settled(j)'
  <2>1. Event(j, s, job[j].attempts, None) = Event(j, s, job'[j].attempts, None)
    OBVIOUS
  <2>2. QED
    BY <1>2, <2>1 DEF Settled, InTransit, Event, Pending
<1>3. QED
  BY <1>1, <1>2 DEF Settled

(* A step that leaves the rows alone forgets nothing when each command that *)
(* was to come still does.                                                  *)
LEMMA RowsKept ==
  ASSUME TypeInv, Remembered, UNCHANGED job,
         \A m \in Transit' : m.to = "events" => m \in Transit,
         \A m \in Transit : m.to = "events" => m \in Transit' \/ m \in Pending(quarantine'),
         Pending(quarantine) \subseteq Pending(quarantine'),
         \A j \in Jobs : \A t \in DueTimes(j) :
           /\ job[j].status \in Active /\ job[j].locked = None
           /\ \A u \in DueTimes(j) : CommandAfter(j, u)
           => CommandAfter(j, t)' \/ Settled(j)'
  PROVE  Remembered'
<1> SUFFICES ASSUME NEW j \in Jobs, job[j].status \in Active, job[j].locked = None
             PROVE  Settled(j)' \/ \A t \in DueTimes(j)' : CommandAfter(j, t)'
  BY DEF Remembered
<1>1. DueTimes(j)' \subseteq DueTimes(j)
  BY DueNoSooner
<1>2. CASE Settled(j)
  BY <1>2, SettledStays
<1>3. CASE \A t \in DueTimes(j) : CommandAfter(j, t)
  BY <1>1, <1>3
<1>4. QED
  BY <1>2, <1>3 DEF Remembered

(* A step that writes the row of the only active job remembers that job.    *)
LEMMA RowWritten ==
  ASSUME NEW j \in Jobs,
         \A k \in Jobs \ {j} : job'[k] = job[k] /\ job[k].status \notin Active,
         job'[j].status \in Active /\ job'[j].locked = None =>
           Settled(j)' \/ \A t \in DueTimes(j)' : CommandAfter(j, t)'
  PROVE  Remembered'
BY DEF Remembered

(* A job that is put off comes back with the command written for it.        *)
LEMMA RetryRemembered ==
  ASSUME TypeInv, Released, NEW j \in Jobs,
         job[j].locked # None, job'[j].attempts = job[j].attempts, job'[j].next \in Nat,
         Row(Command(j), job'[j].next) \in Pending(outbox'),
         Transit' = Transit \cup
           {Event(j, "pending", job[j].attempts, job'[j].next), Command(j)}
  PROVE  \A t \in DueTimes(j)' : CommandAfter(j, t)'
<1> DEFINE u == job'[j].next
<1>1. \A t \in DueTimes(j)' : t = u
  <2>1. ASSUME NEW m \in Transit', m.to = "events", m.job = j, m.status = "pending",
               m.attempt = job'[j].attempts
        PROVE  m.next = u
    <3>1. m \notin Transit
      BY <2>1 DEF Released
    <3>2. m = Event(j, "pending", job[j].attempts, u)
      BY <2>1, <3>1 DEF Command
    <3>3. QED
      BY <3>2 DEF Event
  <2>2. QED
    BY <2>1 DEF DueTimes
<1>2. ASSUME NEW t, t = u PROVE CommandAfter(j, t)'
  <2>1. Row(Command(j), t).msg = Command(j) /\ Reached(t, Row(Command(j), t).due)
    BY <1>2 DEF Row, Reached
  <2>2. Row(Command(j), t) \in Pending(outbox')
    BY <1>2
  <2>3. QED
    BY <2>1, <2>2 DEF CommandAfter, Pending
<1>3. QED
  BY <1>1, <1>2

(* The three places a command may wait in, and what keeps it there          *)
LEMMA ReceivedStays ==
  ASSUME NEW j \in Jobs, NEW t, NEW v \in Workers, worker[v].pc = "received",
         worker[v].job = j, worker[v].held, Reached(t, worker[v].now),
         worker'[v] = worker[v]
  PROVE  CommandAfter(j, t)'
BY DEF CommandAfter, Reached

LEMMA RowStays ==
  ASSUME NEW j \in Jobs, NEW t, NEW r \in Pending(outbox), r.msg = Command(j),
         NEW s \in Pending(outbox'), s.msg = r.msg, Reached(t, s.due)
  PROVE  CommandAfter(j, t)'
BY DEF CommandAfter, Pending

LEMMA ReadyStays ==
  ASSUME TypeInv, NEW j \in Jobs, NEW t \in MaybeTime, NEW now \in Nat,
         Reached(t, now), clock' \in Nat, now <= clock', Command(j) \in Pending(broker')
  PROVE  CommandAfter(j, t)'
<1>1. \A c \in Nat : now <= c => Reached(t, c)
  BY ReachedLater
<1>2. Reached(t, clock')
  BY <1>1
<1>3. QED
  BY <1>2 DEF CommandAfter, Pending, Reached

LEMMA PublishRemembers ==
  ASSUME TypeInv, Remembered, NEW r \in Pending(outbox),
         RelayPublish(r) \/ RelayRepublish(r)
  PROVE  Remembered'
<1>0. /\ TypeOK /\ r.due \in Nat /\ clock \in Nat /\ r.due <= clock
      /\ r.msg \in Pending(broker') /\ Pending(broker) \subseteq Pending(broker')
      /\ Pending(outbox) \ {r} \subseteq Pending(outbox') /\ Transit' = Transit
      /\ UNCHANGED <<job, quarantine, worker, clock>>
  BY PublishEffect DEF TypeInv, TypeOK, BagOver, OutboxRow, Time
<1>1. ASSUME NEW j \in Jobs, NEW t \in DueTimes(j), CommandAfter(j, t)
      PROVE  CommandAfter(j, t)'
  <2>0. t \in MaybeTime
    BY <1>0, DueTypes
  <2>1. CASE \E s \in Pending(outbox) : s.msg = Command(j) /\ Reached(t, s.due)
    <3>1. PICK s \in Pending(outbox) : s.msg = Command(j) /\ Reached(t, s.due)
      BY <2>1
    <3>2. CASE s = r
      BY <1>0, <2>0, <3>1, <3>2, ReadyStays
    <3>3. CASE s # r
      BY <1>0, <3>1, <3>3, RowStays
    <3>4. QED
      BY <3>2, <3>3
  <2>2. CASE Command(j) \in Pending(broker) /\ Reached(t, clock)
    BY <1>0, <2>0, <2>2, ReadyStays
  <2>3. CASE \E v \in Workers : /\ worker[v].pc = "received" /\ worker[v].job = j
                                /\ worker[v].held /\ Reached(t, worker[v].now)
    BY <1>0, <2>3, ReceivedStays
  <2>4. QED
    BY <1>1, <2>1, <2>2, <2>3 DEF CommandAfter
<1>2. QED
  BY <1>0, <1>1, RowsKept

LEMMA FailsRemembers ==
  ASSUME TypeInv, TypeInv', Remembered, NEW r \in Pending(outbox), RelayFails(r)
  PROVE  Remembered'
<1>0. /\ TypeOK /\ clock \in Nat /\ r.due \in Nat
      /\ \A s \in Pending(outbox') : s.due \in Nat
      /\ Pending(outbox) \ {r} \subseteq Pending(outbox')
      /\ Pending(quarantine) \subseteq Pending(quarantine') /\ Transit' \subseteq Transit
      /\ \/ r.msg \in Pending(quarantine')
         \/ \E s \in Pending(outbox') : s.msg = r.msg /\ s.due >= r.due
      /\ UNCHANGED <<job, broker, worker, clock>>
  BY FailsEffect DEF TypeInv, TypeOK, BagOver, OutboxRow, Time, Pending
<1>1. ASSUME NEW j \in Jobs, NEW t \in DueTimes(j), CommandAfter(j, t)
      PROVE  CommandAfter(j, t)' \/ Settled(j)'
  <2>0. t \in MaybeTime
    BY <1>0, DueTypes
  <2>1. CASE \E s \in Pending(outbox) : s.msg = Command(j) /\ Reached(t, s.due)
    <3>1. PICK s \in Pending(outbox) : s.msg = Command(j) /\ Reached(t, s.due)
      BY <2>1
    <3>2. CASE s # r
      BY <1>0, <3>1, <3>2, RowStays
    <3>3. CASE s = r /\ r.msg \in Pending(quarantine')
      BY <3>1, <3>3 DEF Settled, Command, Pending
    <3>4. ASSUME s = r, NEW q \in Pending(outbox'), q.msg = r.msg, q.due >= r.due
          PROVE  CommandAfter(j, t)'
      <4>1. Reached(t, q.due)
        BY <1>0, <2>0, <3>1, <3>4, ReachedLater
      <4>2. QED
        BY <3>1, <3>4, <4>1, RowStays
    <3>5. QED
      BY <1>0, <3>2, <3>3, <3>4
  <2>2. CASE Command(j) \in Pending(broker) /\ Reached(t, clock)
    BY <1>0, <2>0, <2>2, ReadyStays
  <2>3. CASE \E v \in Workers : /\ worker[v].pc = "received" /\ worker[v].job = j
                                /\ worker[v].held /\ Reached(t, worker[v].now)
    BY <1>0, <2>3, ReceivedStays
  <2>4. QED
    BY <1>1, <2>1, <2>2, <2>3 DEF CommandAfter
<1>2. \A m \in Transit : m \in Transit' \/ m \in Pending(quarantine')
  BY <1>0 DEF Transit, Pending
<1>3. QED
  BY <1>0, <1>1, <1>2, RowsKept

(* A command that is received, or given back by a thread that dies, comes   *)
(* no sooner than it would have.                                            *)
LEMMA ReceiveRemembers ==
  ASSUME TypeInv, Remembered, NEW w \in Workers, NEW k \in Jobs, Receive(w, k)
  PROVE  Remembered'
<1>0. /\ TypeOK /\ clock \in Nat /\ worker[w].pc = "idle"
      /\ worker'[w].pc = "received" /\ worker'[w].job = k /\ worker'[w].now = clock
      /\ worker'[w].held
      /\ \A v \in Workers \ {w} : worker'[v] = worker[v]
      /\ Pending(broker) \ {Command(k)} \subseteq Pending(broker')
      /\ Transit' \subseteq Transit /\ Transit \ {Command(k)} \subseteq Transit'
      /\ UNCHANGED <<job, outbox, quarantine, clock>>
  BY ReceiveEffect DEF TypeInv, TypeOK, Time, Receive
<1>1. ASSUME NEW j \in Jobs, NEW t \in DueTimes(j), CommandAfter(j, t)
      PROVE  CommandAfter(j, t)'
  <2>0. t \in MaybeTime /\ (j # k => Command(j) # Command(k))
    BY <1>0, DueTypes DEF Command
  <2>1. CASE \E s \in Pending(outbox) : s.msg = Command(j) /\ Reached(t, s.due)
    BY <1>0, <2>1, RowStays
  <2>2. CASE Command(j) \in Pending(broker) /\ Reached(t, clock) /\ j # k
    BY <1>0, <2>0, <2>2, ReadyStays
  <2>3. CASE Command(j) \in Pending(broker) /\ Reached(t, clock) /\ j = k
    BY <1>0, <2>3 DEF CommandAfter, Reached
  <2>4. CASE \E v \in Workers : /\ worker[v].pc = "received" /\ worker[v].job = j
                                /\ worker[v].held /\ Reached(t, worker[v].now)
    BY <1>0, <2>4, ReceivedStays
  <2>5. QED
    BY <1>1, <2>1, <2>2, <2>3, <2>4 DEF CommandAfter
<1>2. \A m \in Transit : m.to = "events" => m \in Transit'
  BY <1>0 DEF Command
<1>3. QED
  BY <1>0, <1>1, <1>2, RowsKept

LEMMA GiveBackRemembers ==
  ASSUME TypeInv, Timely, Remembered, NEW w \in Workers, Abort(w) \/ LoseConnection(w)
  PROVE  Remembered'
<1>0. /\ TypeOK /\ clock \in Nat /\ worker[w].now \in Nat
      /\ \A v \in Workers \ {w} : worker'[v] = worker[v]
      /\ worker[w].held => Command(worker[w].job) \in Pending(broker')
      /\ Pending(broker) \subseteq Pending(broker') /\ Transit \subseteq Transit'
      /\ \A m \in Transit' : m.to = "events" => m \in Transit
      /\ UNCHANGED <<job, outbox, quarantine, clock>>
  BY GiveBackEffect DEF TypeInv, TypeOK, Time, WorkerState
<1>1. ASSUME NEW j \in Jobs, NEW t \in DueTimes(j), CommandAfter(j, t)
      PROVE  CommandAfter(j, t)'
  <2>0. t \in MaybeTime
    BY <1>0, DueTypes
  <2>1. CASE \E s \in Pending(outbox) : s.msg = Command(j) /\ Reached(t, s.due)
    BY <1>0, <2>1, RowStays
  <2>2. CASE Command(j) \in Pending(broker) /\ Reached(t, clock)
    BY <1>0, <2>0, <2>2, ReadyStays
  <2>3. ASSUME NEW v \in Workers, worker[v].pc = "received", worker[v].job = j,
               worker[v].held, Reached(t, worker[v].now)
        PROVE  CommandAfter(j, t)'
    <3>1. CASE v # w
      BY <1>0, <2>3, <3>1, ReceivedStays
    <3>2. CASE v = w
      <4>1. worker[w].now <= clock
        BY <2>3, <3>2 DEF Timely, Working
      <4>2. QED
        BY <1>0, <2>0, <2>3, <3>2, <4>1, ReadyStays
    <3>3. QED
      BY <3>1, <3>2
  <2>4. QED
    BY <1>1, <2>1, <2>2, <2>3 DEF CommandAfter
<1>2. QED
  BY <1>0, <1>1, RowsKept

(* process() acks and drops the command of a job it cannot claim, but only  *)
(* where the job is leased, a command for its due time is written in the    *)
(* same transaction, or another one is still to come.                       *)
LEMMA DropRemembers ==
  ASSUME TypeInv, Remembered, NEW w \in Workers, Reschedule(w) \/ Skip(w),
         NEW k \in Jobs, k = worker[w].job
  PROVE  Remembered'
<1>0. /\ TypeOK /\ k \in Jobs /\ clock \in Nat /\ worker[w].now \in Nat
      /\ worker[w].pc = "received" /\ job[k].next \in MaybeTime
      /\ \A v \in Workers \ {w} : worker'[v] = worker[v]
      /\ Pending(outbox) \subseteq Pending(outbox') /\ Transit \subseteq Transit'
      /\ \A m \in Transit' : m.to = "events" => m \in Transit
      /\ UNCHANGED <<job, quarantine, broker, clock>>
  <2>1. CASE Reschedule(w)
    <3>0. Command(k).to # "events"
      BY DEF Command
    <3>1. /\ worker[w].pc = "received" /\ \A v \in Workers \ {w} : worker'[v] = worker[v]
          /\ Pending(outbox) \subseteq Pending(outbox') /\ Transit \subseteq Transit'
          /\ \A m \in Transit' : m.to = "events" => m \in Transit
      BY <2>1, <3>0, RescheduleEffect
    <3>2. UNCHANGED <<job, quarantine, broker, clock>>
      BY <2>1 DEF Reschedule
    <3>3. QED
      BY <3>1, <3>2, WorkerTypes DEF TypeInv, TypeOK, Time, WorkerState, JobRow
  <2>2. CASE Skip(w)
    <3>1. worker[w].pc = "received"
      BY <2>2 DEF Skip
    <3>2. /\ \A v \in Workers \ {w} : worker'[v] = worker[v]
          /\ Transit' = Transit /\ UNCHANGED <<job, outbox, quarantine, broker, clock>>
      BY <2>2, ThreadEffect
    <3>3. QED
      BY <3>1, <3>2, WorkerTypes DEF TypeInv, TypeOK, Time, WorkerState, JobRow
  <2>3. QED
    BY <2>1, <2>2
<1>1. ASSUME NEW j \in Jobs, NEW t \in DueTimes(j), CommandAfter(j, t)
      PROVE  \/ CommandAfter(j, t)'
             \/ j = k /\ Reached(t, worker[w].now)
  <2>0. t \in MaybeTime
    BY <1>0, DueTypes
  <2>1. CASE \E s \in Pending(outbox) : s.msg = Command(j) /\ Reached(t, s.due)
    BY <1>0, <2>1, RowStays
  <2>2. CASE Command(j) \in Pending(broker) /\ Reached(t, clock)
    BY <1>0, <2>0, <2>2, ReadyStays
  <2>3. ASSUME NEW v \in Workers, worker[v].pc = "received", worker[v].job = j,
               worker[v].held, Reached(t, worker[v].now), v # w
        PROVE  CommandAfter(j, t)'
    BY <1>0, <2>3, ReceivedStays
  <2>4. QED
    BY <1>1, <2>1, <2>2, <2>3 DEF CommandAfter
<1>2. ASSUME NEW t \in DueTimes(k), Reached(t, worker[w].now), job[k].status \in Active,
             job[k].locked = None, \A u \in DueTimes(k) : CommandAfter(k, u)
      PROVE  CommandAfter(k, t)'
  <2> DEFINE next == job[k].next
  <2>0. t \in MaybeTime /\ next \in DueTimes(k)
    BY <1>0, DueTypes
  <2>1. next \in Nat /\ worker[w].now < next
    BY <1>0, <1>2 DEF Reschedule, Skip, Claimable, MaybeTime, Time
  <2>2. Reached(t, next)
    BY <1>0, <1>2, <2>0, <2>1, ReachedLater
  <2>3. CASE Reschedule(w)
    <3>1. Row(Command(k), next) \in Pending(outbox')
      BY <2>3, RescheduleEffect
    <3>2. Row(Command(k), next).msg = Command(k) /\ Row(Command(k), next).due = next
      BY DEF Row
    <3>3. QED
      BY <2>2, <3>1, <3>2 DEF CommandAfter, Pending, Reached
  <2>4. CASE Skip(w)
    <3>1. next <= clock
      BY <1>0, <1>2, <2>1, <2>4, ConstantsOK DEF Skip, NotDue
    <3>2. CASE \E s \in Pending(outbox) : s.msg = Command(k) /\ Reached(next, s.due)
      <4>1. PICK s \in Pending(outbox) : s.msg = Command(k) /\ Reached(next, s.due)
        BY <3>2
      <4>2. s.due \in Nat /\ next <= s.due
        BY <2>1, <4>1, ConstantsOK DEF TypeInv, TypeOK, BagOver, OutboxRow, Time, Reached
      <4>3. Reached(t, s.due)
        BY <2>0, <2>1, <2>2, <4>2, ReachedLater
      <4>4. QED
        BY <1>0, <4>1, <4>3 DEF CommandAfter, Command, Pending, Reached
    <3>3. CASE Command(k) \in Pending(broker)
      BY <1>0, <2>0, <2>1, <2>2, <3>1, <3>3, ReadyStays
    <3>4. ASSUME NEW v \in Workers, worker[v].pc = "received", worker[v].job = k,
                 worker[v].held, Reached(next, worker[v].now)
          PROVE  CommandAfter(k, t)'
      <4>1. worker[v].now \in Nat /\ next <= worker[v].now
        BY <1>0, <2>1, <3>4, ConstantsOK DEF TypeOK, WorkerState, Time, Reached
      <4>2. v # w
        BY <1>0, <2>1, <4>1
      <4>3. Reached(t, worker[v].now)
        BY <2>0, <2>1, <2>2, <4>1, ReachedLater
      <4>4. QED
        BY <1>0, <3>4, <4>2, <4>3 DEF CommandAfter, Reached
    <3>5. QED
      BY <1>2, <2>0, <3>2, <3>3, <3>4 DEF CommandAfter
  <2>5. QED
    BY <2>3, <2>4
<1>3. QED
  BY <1>0, <1>1, <1>2, RowsKept

(* The consumer of events drops a verdict only when it has become the       *)
(* status, and puts a due time into the row that a command comes after.     *)
LEMMA ConsumeRemembers ==
  ASSUME TypeInv, LeaseInv, EventInv, Remembered, NEW e \in Pending(broker),
         e.to = "events", ConsumeEvent(e) \/ ConsumeEventUnacked(e)
  PROVE  Remembered'
<1> DEFINE i == e.job
<1>0. /\ TypeOK /\ OneActive /\ Announced /\ Released
      /\ e \in Transit /\ i \in Jobs /\ clock \in Nat
      /\ Transit' \subseteq Transit /\ Transit \ {e} \subseteq Transit'
      /\ \A m \in Pending(broker) : m # e => m \in Pending(broker')
      /\ UNCHANGED <<outbox, quarantine, worker, clock>>
  BY ConsumeEffect DEF TypeInv, TypeOK, Time, LeaseInv, EventInv
<1>1. ASSUME NEW j \in Jobs, NEW t \in MaybeTime, CommandAfter(j, t)
      PROVE  CommandAfter(j, t)'
  <2>1. CASE \E s \in Pending(outbox) : s.msg = Command(j) /\ Reached(t, s.due)
    BY <1>0, <2>1, RowStays
  <2>2. CASE Command(j) \in Pending(broker) /\ Reached(t, clock)
    <3>1. Command(j) \in Pending(broker')
      BY <1>0, <2>2 DEF Command
    <3>2. QED
      BY <1>0, <2>2, <3>1, ReadyStays
  <2>3. CASE \E v \in Workers : /\ worker[v].pc = "received" /\ worker[v].job = j
                                /\ worker[v].held /\ Reached(t, worker[v].now)
    BY <1>0, <2>3, ReceivedStays
  <2>4. QED
    BY <1>1, <2>1, <2>2, <2>3 DEF CommandAfter
<1>2. ASSUME NEW j \in Jobs, Settled(j), job'[j].attempts = job[j].attempts,
             e.job = j /\ e.status \in Terminal => e.attempt # job[j].attempts
      PROVE  Settled(j)'
  <2>1. CASE \E m \in Pending(quarantine) : m.job = j
    BY <1>0, <2>1 DEF Settled, Pending
  <2>2. ASSUME NEW s \in Terminal, InTransit(Event(j, s, job[j].attempts, None))
        PROVE  Settled(j)'
    <3>1. Event(j, s, job[j].attempts, None) # e
      BY <1>2, <2>2 DEF Event
    <3>2. Event(j, s, job[j].attempts, None) \in Transit'
      BY <1>0, <2>2, <3>1 DEF InTransit
    <3>3. Event(j, s, job[j].attempts, None) = Event(j, s, job'[j].attempts, None)
      BY <1>2
    <3>4. QED
      BY <2>2, <3>2, <3>3 DEF Settled, InTransit, Event
  <2>3. QED
    BY <1>2, <2>1, <2>2 DEF Settled
<1>3. CASE job' = job /\ ~Applies(job[i], e)
  <2> SUFFICES ASSUME NEW j \in Jobs, job[j].status \in Active, job[j].locked = None
               PROVE  Settled(j)' \/ \A t \in DueTimes(j)' : CommandAfter(j, t)'
    BY <1>3 DEF Remembered
  <2>1. CASE Settled(j)
    <3>1. e.job = j /\ e.status \in Terminal => e.attempt # job[j].attempts
      BY <1>3 DEF Applies, Terminal
    <3>2. QED
      BY <1>2, <1>3, <2>1, <3>1
  <2>2. CASE \A t \in DueTimes(j) : CommandAfter(j, t)
    <3>1. DueTimes(j)' \subseteq DueTimes(j)
      BY <1>0, <1>3, DueNoSooner
    <3>2. QED
      BY <1>0, <1>1, <2>2, <3>1, DueTypes
  <2>3. QED
    BY <2>1, <2>2 DEF Remembered
<1>4. ASSUME job[i].status \in Active, e.attempt = job[i].attempts,
             job'[i].status = e.status, job'[i].next = e.next,
             job'[i].attempts = job[i].attempts,
             job'[i].locked = IF e.status = "running" THEN job[i].locked ELSE None,
             \A k \in Jobs \ {i} : job'[k] = job[k]
      PROVE  Remembered'
  <2> SUFFICES ASSUME NEW j \in Jobs, j = i, job'[j].status \in Active, job'[j].locked = None
               PROVE  Settled(j)' \/ \A t \in DueTimes(j)' : CommandAfter(j, t)'
    BY <1>0, <1>4, RowWritten DEF OneActive
  <2>1. job[j].status \in Active /\ job[j].locked = None
    BY <1>0, <1>4 DEF Released
  <2>2. CASE Settled(j)
    BY <1>2, <1>4, <2>2 DEF Active, Terminal
  <2>3. CASE \A t \in DueTimes(j) : CommandAfter(j, t)
    <3>1. \A t \in DueTimes(j)' : t \in DueTimes(j) \/ t = None
      <4>1. e.status = "running" => e.next = None
        BY <1>0 DEF Announced
      <4>2. e.status = "pending" => e.next \in DueTimes(j)
        BY <1>0, <1>4 DEF DueTimes
      <4>3. job'[j].next \in DueTimes(j) \cup {None}
        BY <1>4, <4>1, <4>2 DEF Active
      <4>4. QED
        BY <1>0, <1>4, <4>3 DEF DueTimes
    <3>2. CommandAfter(j, None)
      <4>1. job[j].next \in DueTimes(j)
        BY <1>0, DueTypes
      <4>2. CommandAfter(j, job[j].next)
        BY <2>3, <4>1
      <4>3. QED
        BY <4>2 DEF CommandAfter, Reached
    <3>3. \A t \in DueTimes(j)' : t \in MaybeTime /\ CommandAfter(j, t)
      BY <1>0, <2>3, <3>1, <3>2, DueTypes DEF MaybeTime
    <3>4. QED
      BY <1>1, <3>3
  <2>4. QED
    BY <2>1, <2>2, <2>3 DEF Remembered
<1>5. QED
  BY <1>3, <1>4, ConsumeEffect

LEMMA WaitRemembers ==
  ASSUME TypeInv, TypeInv', Remembered, UNCHANGED <<job, outbox, quarantine, broker>>,
         clock <= clock',
         \A v \in Workers : worker[v].pc = "received" => worker'[v] = worker[v]
  PROVE  Remembered'
<1>0. TypeOK /\ clock \in Nat /\ clock' \in Nat /\ Transit' = Transit
  BY DEF TypeInv, TypeOK, Time, Transit, Pending
<1>1. ASSUME NEW j \in Jobs, NEW t \in DueTimes(j), CommandAfter(j, t)
      PROVE  CommandAfter(j, t)'
  <2>0. t \in MaybeTime
    BY <1>0, DueTypes
  <2>1. CASE \E s \in Pending(outbox) : s.msg = Command(j) /\ Reached(t, s.due)
    BY <2>1, RowStays DEF Pending
  <2>2. CASE Command(j) \in Pending(broker) /\ Reached(t, clock)
    BY <1>0, <2>0, <2>2, ReadyStays
  <2>3. CASE \E v \in Workers : /\ worker[v].pc = "received" /\ worker[v].job = j
                                /\ worker[v].held /\ Reached(t, worker[v].now)
    BY <2>3, ReceivedStays
  <2>4. QED
    BY <1>1, <2>1, <2>2, <2>3 DEF CommandAfter
<1>2. QED
  BY <1>0, <1>1, RowsKept DEF Pending

LEMMA StepRemembers ==
  ASSUME TypeInv, TypeInv', LeaseInv, EventInv, EventInv', Remembered, [Next]_vars
  PROVE  Remembered'
<1>0. /\ TypeOK /\ Timely /\ Released /\ Snapshot /\ Announced' /\ clock \in Nat
  BY DEF EventInv, LeaseInv, TypeInv, TypeOK, Time
<1>1. ASSUME NEW j \in Jobs, CreateJob(j) PROVE Remembered'
  <2>1. /\ \A k \in Jobs \ {j} : job'[k] = job[k] /\ job[k].status \notin Active
        /\ job'[j].attempts = 0 /\ job'[j].next = None
        /\ Row(Command(j), clock) \in Pending(outbox')
    BY <1>1, CreateEffect DEF NewJob, Absent
  <2>2. \A t \in DueTimes(j)' : t = None
    BY <1>0, <2>1 DEF DueTimes, Announced
  <2>3. Row(Command(j), clock).msg = Command(j)
    BY DEF Row
  <2>4. \A t \in DueTimes(j)' : CommandAfter(j, t)'
    BY <2>1, <2>2, <2>3 DEF CommandAfter, Reached, Pending
  <2>5. QED
    BY <2>1, <2>4, RowWritten
<1>2. ASSUME NEW w \in Workers, Claim(w) PROVE Remembered'
  BY <1>2, ClaimRow, ClaimEffect, RowWritten
<1>3. ASSUME NEW w \in Workers, Exhaust(w) PROVE Remembered'
  <2>1. PICK j \in Jobs : j = worker[w].job
    BY <1>3, ClaimRow
  <2>2. /\ \A k \in Jobs \ {j} : job'[k] = job[k] /\ job[k].status \notin Active
        /\ Event(j, "failed", job'[j].attempts, None) \in Transit'
    BY <1>3, <2>1, ClaimRow, ExhaustEffect
  <2>3. Settled(j)'
    BY <2>2 DEF Settled, InTransit, Terminal, Event
  <2>4. QED
    BY <2>2, <2>3, RowWritten
<1>4. ASSUME NEW w \in Workers, Handle(w) PROVE Remembered'
  <2>1. PICK j \in Jobs : j = worker[w].job
    BY <1>0, <1>4, HandleRow
  <2>2. /\ \A k \in Jobs \ {j} : job'[k] = job[k] /\ job[k].status \notin Active
        /\ job[j].locked # None /\ job'[j].attempts = job[j].attempts
        /\ job'[j].attempts = worker[w].attempt
    BY <1>0, <1>4, <2>1, HandleRow
  <2>3. CASE Succeed(w) \/ Fail(w)
    <3>1. \E s \in Terminal : Event(j, s, job'[j].attempts, None) \in Transit'
      BY <1>0, <2>1, <2>2, <2>3, SucceedEffect, FailEffect DEF Terminal
    <3>2. Settled(j)'
      BY <3>1 DEF Settled, InTransit, Event
    <3>3. QED
      BY <2>2, <3>2, RowWritten
  <2>4. CASE RetryLater(w)
    <3>1. /\ job'[j].next \in Nat /\ Row(Command(j), job'[j].next) \in Pending(outbox')
          /\ Transit' = Transit \cup
               {Event(j, "pending", job[j].attempts, job'[j].next), Command(j)}
      BY <1>0, <2>1, <2>2, <2>4, RetryEffect
    <3>2. \A t \in DueTimes(j)' : CommandAfter(j, t)'
      BY <1>0, <2>2, <3>1, RetryRemembered
    <3>3. QED
      BY <2>2, <3>2, RowWritten
  <2>5. QED
    BY <1>4, <2>3, <2>4 DEF Handle
<1>5. ASSUME NEW j \in Jobs, Reap(j) PROVE Remembered'
  <2>1. /\ \A k \in Jobs \ {j} : job'[k] = job[k] /\ job[k].status \notin Active
        /\ job[j].locked # None /\ job'[j].attempts = job[j].attempts
        /\ job'[j].next \in Nat /\ Row(Command(j), job'[j].next) \in Pending(outbox')
        /\ Transit' = Transit \cup
             {Event(j, "pending", job[j].attempts, job'[j].next), Command(j)}
    BY <1>5, ReapEffect
  <2>2. \A t \in DueTimes(j)' : CommandAfter(j, t)'
    BY <1>0, <2>1, RetryRemembered
  <2>3. QED
    BY <2>1, <2>2, RowWritten
<1>6. ASSUME NEW w \in Workers, LoadJob(w) \/ Ack(w) PROVE Remembered'
  <2>1. /\ UNCHANGED <<job, outbox, quarantine, broker>> /\ clock <= clock'
        /\ \A v \in Workers \ {w} : worker'[v] = worker[v]
    BY <1>0, <1>6, ThreadEffect
  <2>2. worker[w].pc # "received"
    BY <1>6 DEF LoadJob, Ack
  <2>3. QED
    BY <2>1, <2>2, WaitRemembers
<1>7. CASE Tick
  BY <1>0, <1>7, WaitRemembers DEF Tick
<1>8. ASSUME NEW w \in Workers, Reschedule(w) \/ Skip(w) PROVE Remembered'
  <2>1. PICK j \in Jobs : j = worker[w].job
    BY <1>0, <1>8, WorkerTypes DEF Reschedule, Skip
  <2>2. QED
    BY <1>8, <2>1, DropRemembers
<1>9. CASE UNCHANGED vars
  BY <1>0, <1>9, WaitRemembers DEF vars
<1>10. QED
  BY <1>0, <1>1, <1>2, <1>3, <1>4, <1>5, <1>6, <1>7, <1>8, <1>9, PublishRemembers,
     FailsRemembers, ReceiveRemembers, GiveBackRemembers, ConsumeRemembers
  DEF Next, Consumer, TakeCommand, Relay, Status, Reaper, SomeFault,
      ConsumeEvent, ConsumeEventUnacked

LEMMA OutcomeInvariance ==
  ASSUME NoOverrun PROVE Spec => [](TypeInv /\ LeaseInv /\ OutcomeInv)
<1>1. Init => Remembered
  BY DEF Init, Remembered, Absent, Active
<1>2. TypeInv /\ LeaseInv /\ EventInv /\ TypeInv' /\ EventInv' /\ Remembered /\ [Next]_vars
        => Remembered'
  BY StepRemembers
<1>3. QED
  BY <1>1, <1>2, EventInvariance, NoOverrun, PTL DEF Spec, OutcomeInv

(* A job that is not finished is never forgotten, for any number of jobs,   *)
(* threads, attempts, retries and faults: a command of it is on its way or  *)
(* in a thread, its lease is there for the reaper, its verdict is on its    *)
(* way, or the outbox has quarantined a message of it.                      *)
THEOREM NothingForgotten == ASSUME NoOverrun PROVE Spec => []NeverForgotten
<1>1. TypeInv /\ OutcomeInv => NeverForgotten
  <2> SUFFICES ASSUME TypeInv, Remembered, NEW j \in Jobs, job[j].status \in Active
               PROVE  HasFuture(j) \/ \E m \in Pending(quarantine) : m.job = j
    BY DEF OutcomeInv, NeverForgotten
  <2>1. CASE job[j].locked # None
    BY <2>1 DEF HasFuture
  <2>2. CASE Settled(j)
    BY <2>2 DEF Settled, HasFuture
  <2>3. CASE \A t \in DueTimes(j) : CommandAfter(j, t)
    <3>1. CommandAfter(j, job[j].next)
      BY <2>3, DueTypes DEF TypeInv
    <3>2. QED
      BY <3>1 DEF CommandAfter, HasFuture, InTransit, Transit
  <2>4. QED
    BY <2>1, <2>2, <2>3 DEF Remembered
<1>2. QED
  BY <1>1, OutcomeInvariance, NoOverrun, PTL
=============================================================================
