--------------------------- MODULE JobQueueProofs ---------------------------
(***************************************************************************)
(* Theorems about JobQueue, for all jobs, workers, delays and budgets of   *)
(* faults.                                                                 *)
(***************************************************************************)
EXTENDS JobQueue, TLAPS

-----------------------------------------------------------------------------
(* Bags as queues: what adding and removing messages does to their contents *)

(* Rows added to a bag join its contents.                                   *)
LEMMA BagPlus ==
  ASSUME NEW S, NEW bag, BagOver(bag, S), NEW T \in SUBSET S
  PROVE  /\ BagOver(bag (+) SetToBag(T), S)
         /\ Pending(bag (+) SetToBag(T)) = Pending(bag) \cup T
BY DEF BagOver, Pending, IsABag, BagToSet, SetToBag, (+)

LEMMA BagAdd ==
  ASSUME NEW S, NEW bag, BagOver(bag, S), NEW m \in S
  PROVE  /\ BagOver(Add(bag, m), S)
         /\ Pending(Add(bag, m)) = Pending(bag) \cup {m}
BY BagPlus DEF Add

(* Removing a message leaves nothing that was not there.                    *)
LEMMA BagRemove ==
  ASSUME NEW S, NEW bag, BagOver(bag, S), NEW m
  PROVE  /\ BagOver(Remove(bag, m), S)
         /\ Pending(Remove(bag, m)) \subseteq Pending(bag)
BY DEF Remove, BagOver, Pending, IsABag, BagToSet, SetToBag, (-)

LEMMA BagEmpty ==
  ASSUME NEW S
  PROVE  BagOver(EmptyBag, S) /\ Pending(EmptyBag) = {}
BY DEF BagOver, Pending, IsABag, BagToSet, EmptyBag, SetToBag

(* A delay is a natural number of seconds from the first failure on.        *)
LEMMA DelayType ==
  ASSUME NEW delays \in Seq(Nat), NEW n \in Nat \ {0}
  PROVE  DelayAt(delays, n) \in Nat
BY DEF DelayAt

-----------------------------------------------------------------------------
(* Types *)

(* What a thread executes has been claimed: its attempt is at least the     *)
(* first, so RETRY_DELAYS_SECONDS[attempts - 1] exists.                     *)
Counted ==
  \A w \in Workers : Busy(w) =>
    /\ worker[w].job \in Jobs
    /\ worker[w].attempt # 0
    /\ job[worker[w].job].attempts # 0

(* A job that is not requested yet has no row.                              *)
NoRowYet == \A j \in Jobs : job[j].status = "absent" => job[j] = Absent

TypeInv == TypeOK /\ Counted /\ NoRowYet

LEMMA MessageTypes ==
  ASSUME NEW j \in Jobs, NEW s \in Active \cup Terminal, NEW n \in Nat,
         NEW t \in MaybeTime
  PROVE  /\ Command(j) \in Message
         /\ DeadLetter(j) \in Message
         /\ Event(j, s, n, t) \in Message
BY DEF Command, DeadLetter, Event, Message, Active, Terminal, MaybeTime

LEMMA RowTypes ==
  ASSUME NEW m \in Message, NEW t \in Time
  PROVE  Row(m, t) \in OutboxRow
BY DEF Row, OutboxRow, Time

LEMMA InitTypes == Init => TypeInv
<1> SUFFICES ASSUME Init PROVE TypeInv
  OBVIOUS
<1>1. job \in [Jobs -> JobRow]
  BY DEF Init, Absent, JobRow, MaybeTime
<1>2. /\ worker \in [Workers -> WorkerState]
      /\ \A w \in Workers : worker[w] = Idle
  BY DEF Init, Idle, WorkerState, Time
<1>3. faults \in 0..MaxFaults
  BY ConstantsOK DEF Init
<1>4. QED
  BY <1>1, <1>2, <1>3, BagEmpty
  DEF Init, TypeInv, TypeOK, Counted, NoRowYet, Busy, Idle, Absent, InstanceStatus, Time

(* The fields of the thread records that the actions build.                 *)
LEMMA WorkerTypes ==
  ASSUME TypeOK, NEW w \in Workers
  PROVE  /\ worker[w] \in WorkerState
         /\ worker[w].pc # "idle" => worker[w].job \in Jobs
         /\ worker[w].held => worker[w].job \in Jobs
         /\ worker[w].job \in Jobs => job[worker[w].job] \in JobRow
BY DEF TypeOK, Idle

(* Returning from the callback and acking keep the thread well typed and    *)
(* idle of work.                                                            *)
LEMMA ReturnTypes ==
  ASSUME TypeOK, NEW w \in Workers, worker[w].job \in Jobs, Return(w)
  PROVE  /\ worker' \in [Workers -> WorkerState]
         /\ worker'[w].pc = "acking" /\ worker'[w].job \in Jobs
         /\ \A v \in Workers \ {w} : worker'[v] = worker[v]
         /\ \A v \in Workers : worker'[v] = Idle \/ worker'[v].job \in Jobs
BY DEF TypeOK, Return, Idle, WorkerState, Time

(* A claimed job has a row.                                                 *)
LEMMA ActiveRow ==
  ASSUME NoRowYet, NEW j \in Jobs, job[j].attempts # 0
  PROVE  job[j].status # "absent"
BY DEF NoRowYet, Absent

LEMMA FailedRowsTypes ==
  ASSUME TypeOK, NEW j \in Jobs, NEW n \in Nat
  PROVE  BagOver(outbox (+) FailedRows(j, n), OutboxRow)
<1>1. /\ Row(Event(j, "failed", n, None), clock) \in OutboxRow
      /\ Row(DeadLetter(j), clock) \in OutboxRow
  BY MessageTypes, RowTypes, ConstantsOK DEF TypeOK, Active, Terminal, MaybeTime
<1>2. QED
  BY <1>1, BagPlus DEF TypeOK, FailedRows

LEMMA StepTypes == TypeInv /\ [Next]_vars => TypeInv'
<1> SUFFICES ASSUME TypeInv, [Next]_vars PROVE TypeInv'
  OBVIOUS
<1> USE ConstantsOK
<1>0. TypeOK /\ Counted /\ NoRowYet
  BY DEF TypeInv
<1>1. ASSUME NEW j \in Jobs, CreateJob(j) PROVE TypeInv'
  <2>1. Row(Command(j), clock) \in OutboxRow
    BY <1>0, MessageTypes, RowTypes, ConstantsOK DEF TypeOK, Active, Terminal, MaybeTime
  <2>2. BagOver(outbox, OutboxRow)'
    BY <1>0, <1>1, <2>1, BagAdd DEF TypeOK, CreateJob
  <2>3. job' \in [Jobs -> JobRow]
    BY <1>0, <1>1 DEF TypeOK, CreateJob, NewJob, JobRow, Absent, Active, MaybeTime
  <2>4. Counted'
    BY <1>0, <1>1 DEF Counted, NoRowYet, CreateJob, NewJob, Busy, TypeOK, Absent
  <2>5. NoRowYet'
    BY <1>0, <1>1 DEF NoRowYet, CreateJob, NewJob, TypeOK, Absent
  <2>6. QED
    BY <1>0, <1>1, <2>2, <2>3, <2>4, <2>5 DEF TypeInv, TypeOK, CreateJob, BagOver, Pending
<1>2. ASSUME NEW r \in Pending(outbox), RelayPublish(r) PROVE TypeInv'
  <2>1. r.msg \in Message
    BY <1>0 DEF TypeOK, BagOver, OutboxRow
  <2>2. BagOver(outbox, OutboxRow)' /\ BagOver(broker, Message)'
    BY <1>0, <1>2, <2>1, BagAdd, BagRemove DEF TypeOK, RelayPublish
  <2>3. QED
    BY <1>0, <1>2, <2>2 DEF TypeInv, TypeOK, RelayPublish, Counted, NoRowYet, Busy, BagOver, Pending
<1>3. ASSUME NEW r \in Pending(outbox), RelayRepublish(r) PROVE TypeInv'
  <2>1. r.msg \in Message
    BY <1>0 DEF TypeOK, BagOver, OutboxRow
  <2>2. BagOver(broker, Message)' /\ faults' \in 0..MaxFaults
    BY <1>0, <1>3, <2>1, BagAdd DEF TypeOK, RelayRepublish, Fault
  <2>3. QED
    BY <1>0, <1>3, <2>2 DEF TypeInv, TypeOK, RelayRepublish, Counted, NoRowYet, Busy, BagOver, Pending
<1>4. ASSUME NEW r \in Pending(outbox), RelayFails(r) PROVE TypeInv'
  <2>1. r \in OutboxRow /\ r.msg \in Message
    BY <1>0 DEF TypeOK, BagOver, OutboxRow
  <2>2. BagOver(Remove(outbox, r), OutboxRow)
    BY <1>0, BagRemove DEF TypeOK
  <2>3. BagOver(quarantine, Message)'
    BY <1>0, <1>4, <2>1, BagAdd DEF TypeOK, RelayFails
  <2>4. DelayAt(OutboxBackoff, r.tries + 1) \in Nat
    BY <2>1, DelayType DEF OutboxRow
  <2>5. [msg |-> r.msg, tries |-> r.tries + 1,
         due |-> clock + DelayAt(OutboxBackoff, r.tries + 1)] \in OutboxRow
    <3>1. clock \in Nat
      BY <1>0 DEF TypeOK, Time
    <3>2. clock + DelayAt(OutboxBackoff, r.tries + 1) \in Nat
      BY <2>4, <3>1
    <3>3. QED
      BY <2>1, <3>2 DEF OutboxRow, Time
  <2>6. BagOver(outbox, OutboxRow)'
    BY <1>4, <2>2, <2>5, BagAdd DEF RelayFails
  <2>7. faults' \in 0..MaxFaults
    BY <1>0, <1>4 DEF RelayFails, Fault, TypeOK
  <2>8. QED
    BY <1>0, <1>4, <2>3, <2>6, <2>7
    DEF TypeInv, TypeOK, RelayFails, Counted, NoRowYet, Busy, BagOver, Pending
<1>5. ASSUME NEW w \in Workers, NEW j \in Jobs, Receive(w, j) PROVE TypeInv'
  <2>1. BagOver(broker, Message)'
    BY <1>0, <1>5, BagRemove DEF TypeOK, Receive
  <2>2. /\ worker' \in [Workers -> WorkerState]
        /\ worker'[w].pc = "received" /\ worker'[w].job = j
        /\ \A v \in Workers \ {w} : worker'[v] = worker[v]
    <3> DEFINE s == [Idle EXCEPT !.pc = "received", !.job = j, !.held = TRUE,
                                 !.now = clock, !.lease = clock + LockSeconds]
    <3>1. clock \in Nat /\ clock + LockSeconds \in Nat
      BY <1>0 DEF TypeOK, Time
    <3>2. s \in WorkerState /\ s.pc = "received" /\ s.job = j
      BY <3>1 DEF Idle, WorkerState, Time
    <3>3. worker' = [worker EXCEPT ![w] = s]
      BY <1>5 DEF Receive
    <3> HIDE DEF s
    <3>4. QED
      BY <1>0, <3>2, <3>3 DEF TypeOK
  <2>3. QED
    BY <1>0, <1>5, <2>1, <2>2 DEF TypeInv, TypeOK, Receive, Counted, NoRowYet, Busy, BagOver, Pending
<1>6. ASSUME NEW w \in Workers, Claim(w) PROVE TypeInv'
  <2> DEFINE j == worker[w].job
             n == job[j].attempts + 1
  <2>1. j \in Jobs /\ n \in Nat \ {0} /\ worker[w] \in WorkerState /\ job[j] \in JobRow
    BY <1>0, <1>6, WorkerTypes DEF Claim, JobRow
  <2>2. job' \in [Jobs -> JobRow]
    BY <1>0, <1>6, <2>1 DEF TypeOK, Claim, JobRow, WorkerState, Time, MaybeTime
  <2>3. Row(Event(j, "running", n, None), clock) \in OutboxRow
    BY <1>0, <2>1, MessageTypes, RowTypes DEF TypeOK, Active, MaybeTime
  <2>4. BagOver(outbox, OutboxRow)'
    BY <1>0, <1>6, <2>3, BagAdd DEF TypeOK, Claim
  <2>5. /\ worker' \in [Workers -> WorkerState]
        /\ worker'[w].job = j /\ worker'[w].attempt = n
        /\ \A v \in Workers \ {w} : worker'[v] = worker[v]
    BY <1>0, <1>6, <2>1 DEF TypeOK, Claim, WorkerState
  <2>6. /\ job'[j].attempts = n
        /\ job'[j].status = job[j].status /\ job[j].status \in Active
        /\ \A k \in Jobs \ {j} : job'[k] = job[k]
    BY <1>0, <1>6, <2>1 DEF TypeOK, Claim, JobRow, Claimable
  <2>7. Counted'
    BY <1>0, <2>1, <2>5, <2>6 DEF Counted, Busy
  <2>8. NoRowYet'
    BY <1>0, <2>6 DEF NoRowYet, Active
  <2>9. \A v \in Workers : worker'[v] = Idle \/ worker'[v].job \in Jobs
    BY <1>0, <2>1, <2>5 DEF TypeOK
  <2>10. instance' \in InstanceStatus
    BY <1>0, <1>6 DEF TypeOK, Claim, MarkInstance, InstanceStatus
  <2>11. QED
    BY <1>0, <1>6, <2>2, <2>4, <2>5, <2>7, <2>8, <2>9, <2>10
    DEF TypeInv, TypeOK, Claim, MarkInstance, BagOver, Pending
<1>7. ASSUME NEW w \in Workers, Exhaust(w) PROVE TypeInv'
  <2> DEFINE j == worker[w].job
             n == job[j].attempts + 1
  <2>1. j \in Jobs /\ n \in Nat \ {0} /\ worker[w] \in WorkerState /\ job[j] \in JobRow
    BY <1>0, <1>7, WorkerTypes DEF Exhaust, JobRow
  <2>2. job' \in [Jobs -> JobRow]
    BY <1>0, <1>7, <2>1 DEF TypeOK, Exhaust, JobRow, MaybeTime
  <2>3. BagOver(outbox, OutboxRow)'
    BY <1>0, <1>7, <2>1, FailedRowsTypes DEF TypeOK, Exhaust
  <2>4. /\ worker' \in [Workers -> WorkerState]
        /\ worker'[w].pc = "acking" /\ worker'[w].job \in Jobs
        /\ \A v \in Workers \ {w} : worker'[v] = worker[v]
        /\ \A v \in Workers : worker'[v] = Idle \/ worker'[v].job \in Jobs
    BY <1>0, <1>7, <2>1, ReturnTypes DEF Exhaust
  <2>5. /\ job'[j].attempts = n
        /\ job'[j].status = job[j].status /\ job[j].status \in Active
        /\ \A k \in Jobs \ {j} : job'[k] = job[k]
    BY <1>0, <1>7, <2>1 DEF TypeOK, Exhaust, JobRow, Claimable
  <2>6. Counted'
    BY <1>0, <2>1, <2>4, <2>5 DEF Counted, Busy
  <2>7. NoRowYet'
    BY <1>0, <2>5 DEF NoRowYet, Active
  <2>8. QED
    BY <1>0, <1>7, <2>2, <2>3, <2>4, <2>6, <2>7
    DEF TypeInv, TypeOK, Exhaust, MarkInstance, BagOver, Pending, InstanceStatus
<1>8. ASSUME NEW w \in Workers, Reschedule(w) PROVE TypeInv'
  <2> DEFINE j == worker[w].job
  <2>1. j \in Jobs /\ job[j] \in JobRow
    BY <1>0, <1>8, WorkerTypes DEF Reschedule
  <2>2. Row(Command(j), job[j].next) \in OutboxRow
    BY <1>8, <2>1, MessageTypes, RowTypes DEF Reschedule, NotDue, JobRow, MaybeTime, Active
  <2>3. BagOver(outbox, OutboxRow)'
    BY <1>0, <1>8, <2>2, BagAdd DEF TypeOK, Reschedule
  <2>4. QED
    BY <1>0, <1>8, <2>1, <2>3, ReturnTypes
    DEF TypeInv, TypeOK, Reschedule, Counted, NoRowYet, Busy, BagOver, Pending
<1>9. ASSUME NEW w \in Workers, Skip(w) PROVE TypeInv'
  <2>1. worker[w].job \in Jobs
    BY <1>0, <1>9, WorkerTypes DEF Skip
  <2>2. QED
    BY <1>0, <1>9, <2>1, ReturnTypes
    DEF TypeInv, TypeOK, Skip, Counted, NoRowYet, Busy, BagOver, Pending
<1>10. ASSUME NEW w \in Workers, LoadJob(w) PROVE TypeInv'
  <2> DEFINE j == worker[w].job
  <2>1. j \in Jobs /\ job[j] \in JobRow /\ worker[w] \in WorkerState /\ job[j].attempts # 0
    BY <1>0, <1>10, WorkerTypes DEF LoadJob, Counted, Busy
  <2>2. /\ worker' \in [Workers -> WorkerState]
        /\ worker'[w].job = j /\ worker'[w].attempt = job[j].attempts
        /\ \A v \in Workers \ {w} : worker'[v] = worker[v]
    BY <1>0, <1>10, <2>1 DEF TypeOK, LoadJob, WorkerState, JobRow
  <2>3. \A v \in Workers : worker'[v] = Idle \/ worker'[v].job \in Jobs
    BY <1>0, <2>1, <2>2 DEF TypeOK
  <2>4. Counted'
    BY <1>0, <1>10, <2>1, <2>2 DEF Counted, LoadJob, Busy
  <2>5. QED
    BY <1>0, <1>10, <2>2, <2>3, <2>4
    DEF TypeInv, TypeOK, LoadJob, NoRowYet, BagOver, Pending
<1>11. ASSUME NEW w \in Workers, Succeed(w) PROVE TypeInv'
  <2> DEFINE j == worker[w].job
             n == worker[w].attempt
  <2>1. /\ j \in Jobs /\ job[j] \in JobRow /\ worker[w] \in WorkerState
        /\ n \in Nat /\ job[j].attempts # 0
    BY <1>0, <1>11, WorkerTypes DEF Succeed, Counted, Busy, WorkerState
  <2>2. /\ job' \in [Jobs -> JobRow]
        /\ job'[j].status = job[j].status
        /\ \A k \in Jobs : job'[k].attempts = job[k].attempts
        /\ \A k \in Jobs \ {j} : job'[k] = job[k]
    BY <1>0, <1>11, <2>1 DEF TypeOK, Succeed, JobRow, Cleared, MaybeTime
  <2>3. Row(Event(j, "succeeded", n, None), clock) \in OutboxRow
    BY <1>0, <2>1, MessageTypes, RowTypes DEF TypeOK, Terminal, MaybeTime
  <2>4. BagOver(outbox, OutboxRow)'
    BY <1>0, <1>11, <2>3, BagAdd DEF TypeOK, Succeed
  <2>5. /\ worker' \in [Workers -> WorkerState]
        /\ worker'[w].pc = "acking" /\ worker'[w].job \in Jobs
        /\ \A v \in Workers \ {w} : worker'[v] = worker[v]
        /\ \A v \in Workers : worker'[v] = Idle \/ worker'[v].job \in Jobs
    BY <1>0, <1>11, <2>1, ReturnTypes DEF Succeed
  <2>6. Counted'
    BY <1>0, <2>2, <2>5 DEF Counted, Busy
  <2>7. NoRowYet'
    BY <1>0, <2>1, <2>2, ActiveRow DEF NoRowYet
  <2>8. QED
    BY <1>0, <1>11, <2>2, <2>4, <2>5, <2>6, <2>7
    DEF TypeInv, TypeOK, Succeed, MarkInstance, BagOver, Pending, InstanceStatus
<1>12. ASSUME NEW w \in Workers, RetryLater(w) PROVE TypeInv'
  <2> DEFINE j == worker[w].job
             n == worker[w].attempt
             t == clock + DelayAt(RetryDelays, n)
  <2>1. /\ j \in Jobs /\ job[j] \in JobRow /\ worker[w] \in WorkerState
        /\ n \in Nat \ {0} /\ job[j].attempts # 0
    BY <1>0, <1>12, WorkerTypes DEF RetryLater, Counted, Busy, WorkerState
  <2>2. t \in Nat
    <3>1. DelayAt(RetryDelays, n) \in Nat
      BY <2>1, DelayType, ConstantsOK
    <3>2. clock \in Nat
      BY <1>0 DEF TypeOK, Time
    <3>3. QED
      BY <3>1, <3>2
  <2>3. /\ job' \in [Jobs -> JobRow]
        /\ job'[j].status = job[j].status
        /\ \A k \in Jobs : job'[k].attempts = job[k].attempts
        /\ \A k \in Jobs \ {j} : job'[k] = job[k]
    BY <1>0, <1>12, <2>1, <2>2 DEF TypeOK, RetryLater, JobRow, Cleared, MaybeTime, Time
  <2>4. /\ Row(Event(j, "pending", n, t), clock) \in OutboxRow
        /\ Row(Command(j), t) \in OutboxRow
    BY <1>0, <2>1, <2>2, MessageTypes, RowTypes DEF TypeOK, Active, MaybeTime, Time
  <2>5. BagOver(outbox, OutboxRow)'
    BY <1>0, <1>12, <2>4, BagPlus DEF TypeOK, RetryLater
  <2>6. /\ worker' \in [Workers -> WorkerState]
        /\ worker'[w].pc = "acking" /\ worker'[w].job \in Jobs
        /\ \A v \in Workers \ {w} : worker'[v] = worker[v]
        /\ \A v \in Workers : worker'[v] = Idle \/ worker'[v].job \in Jobs
    BY <1>0, <1>12, <2>1, ReturnTypes DEF RetryLater
  <2>7. Counted'
    BY <1>0, <2>3, <2>6 DEF Counted, Busy
  <2>8. NoRowYet'
    BY <1>0, <2>1, <2>3, ActiveRow DEF NoRowYet
  <2>9. QED
    BY <1>0, <1>12, <2>3, <2>5, <2>6, <2>7, <2>8
    DEF TypeInv, TypeOK, RetryLater, BagOver, Pending, InstanceStatus
<1>13. ASSUME NEW w \in Workers, Fail(w) PROVE TypeInv'
  <2> DEFINE j == worker[w].job
             n == worker[w].attempt
  <2>1. /\ j \in Jobs /\ job[j] \in JobRow /\ worker[w] \in WorkerState
        /\ n \in Nat /\ job[j].attempts # 0
    BY <1>0, <1>13, WorkerTypes DEF Fail, Counted, Busy, WorkerState
  <2>2. /\ job' \in [Jobs -> JobRow]
        /\ job'[j].status = job[j].status
        /\ \A k \in Jobs : job'[k].attempts = job[k].attempts
        /\ \A k \in Jobs \ {j} : job'[k] = job[k]
    BY <1>0, <1>13, <2>1 DEF TypeOK, Fail, JobRow, Cleared, MaybeTime
  <2>3. BagOver(outbox, OutboxRow)'
    BY <1>0, <1>13, <2>1, FailedRowsTypes DEF TypeOK, Fail
  <2>4. QED
    BY <1>0, <1>13, <2>1, <2>2, <2>3, ReturnTypes, ActiveRow
    DEF TypeInv, TypeOK, Fail, MarkInstance, Counted, NoRowYet, Busy, BagOver, Pending, InstanceStatus
<1>14. ASSUME NEW w \in Workers, Ack(w) PROVE TypeInv'
  <2>1. worker' \in [Workers -> WorkerState]
    BY <1>0, <1>14 DEF TypeOK, Ack, Idle, WorkerState, Time
  <2>2. QED
    BY <1>0, <1>14, <2>1 DEF TypeInv, TypeOK, Ack, Counted, NoRowYet, Busy, Idle, BagOver, Pending
<1>15. ASSUME NEW w \in Workers, Abort(w) PROVE TypeInv'
  <2>1. worker' \in [Workers -> WorkerState]
    BY <1>0, <1>15 DEF TypeOK, Abort, Idle, WorkerState, Time
  <2>2. BagOver(broker, Message)'
    BY <1>0, <1>15, WorkerTypes, MessageTypes, BagAdd, ConstantsOK
    DEF TypeOK, Abort, Active, MaybeTime
  <2>3. faults' \in 0..MaxFaults
    BY <1>0, <1>15 DEF TypeOK, Abort, Fault
  <2>4. QED
    BY <1>0, <1>15, <2>1, <2>2, <2>3
    DEF TypeInv, TypeOK, Abort, Counted, NoRowYet, Busy, Idle, BagOver, Pending
<1>16. ASSUME NEW w \in Workers, LoseConnection(w) PROVE TypeInv'
  <2>1. /\ worker' \in [Workers -> WorkerState]
        /\ \A v \in Workers : /\ worker'[v].pc = worker[v].pc
                              /\ worker'[v].job = worker[v].job
                              /\ worker'[v].attempt = worker[v].attempt
        /\ \A v \in Workers \ {w} : worker'[v] = worker[v]
    BY <1>0, <1>16 DEF TypeOK, LoseConnection, WorkerState
  <2>2. BagOver(broker, Message)'
    BY <1>0, <1>16, WorkerTypes, MessageTypes, BagAdd, ConstantsOK
    DEF TypeOK, LoseConnection, Active, MaybeTime
  <2>3. faults' \in 0..MaxFaults
    BY <1>0, <1>16 DEF TypeOK, LoseConnection, Fault
  <2>4. \A v \in Workers : worker'[v] = Idle \/ worker'[v].job \in Jobs
    BY <1>0, <1>16, <2>1, WorkerTypes DEF LoseConnection, TypeOK
  <2>5. QED
    BY <1>0, <1>16, <2>1, <2>2, <2>3, <2>4
    DEF TypeInv, TypeOK, LoseConnection, Counted, NoRowYet, Busy, BagOver, Pending
<1>17. ASSUME NEW e \in Pending(broker), e.to = "events",
              ConsumeEvent(e) \/ ConsumeEventUnacked(e)
       PROVE  TypeInv'
  <2>1. e \in Message /\ e.job \in Jobs /\ job[e.job] \in JobRow
    BY <1>0 DEF TypeOK, BagOver, Message
  <2>2. /\ job' \in [Jobs -> JobRow]
        /\ \A k \in Jobs : job'[k].attempts = job[k].attempts
        /\ \A k \in Jobs : job'[k] = job[k] \/ job'[k].status # "absent"
    <3>1. Applied(job[e.job], e) \in JobRow
      BY <2>1 DEF Applied, Message, JobRow, MaybeTime
    <3>2. /\ Applied(job[e.job], e).attempts = job[e.job].attempts
          /\ Applied(job[e.job], e).status # "absent"
      BY <2>1 DEF Applied, Message, JobRow, Active, Terminal
    <3>3. \/ job' = job
          \/ job' = [job EXCEPT ![e.job] = Applied(job[e.job], e)]
      BY <1>17 DEF ConsumeEvent, ConsumeEventUnacked, ApplyStatusEvent
    <3>4. job \in [Jobs -> JobRow]
      BY <1>0 DEF TypeOK
    <3>5. CASE job' = [job EXCEPT ![e.job] = Applied(job[e.job], e)]
      BY <2>1, <3>1, <3>2, <3>4, <3>5
    <3>6. CASE job' = job
      BY <3>4, <3>6
    <3>7. QED
      BY <3>3, <3>5, <3>6, Zenon
  <2>3. BagOver(broker, Message)'
    <3>1. broker' = broker \/ broker' = Remove(broker, e)
      BY <1>17 DEF ConsumeEvent, ConsumeEventUnacked
    <3>2. BagOver(broker, Message)
      BY <1>0 DEF TypeOK
    <3>3. BagOver(Remove(broker, e), Message)
      BY <3>2, BagRemove
    <3>4. CASE broker' = broker
      BY <3>2, <3>4 DEF BagOver, Pending
    <3>5. CASE broker' = Remove(broker, e)
      BY <3>3, <3>5 DEF BagOver, Pending
    <3>6. QED
      BY <3>1, <3>4, <3>5
  <2>4. faults' \in 0..MaxFaults
    BY <1>0, <1>17 DEF TypeOK, ConsumeEvent, ConsumeEventUnacked, Fault
  <2>5. UNCHANGED <<instance, outbox, quarantine, worker, clock>>
    BY <1>17 DEF ConsumeEvent, ConsumeEventUnacked
  <2>6. QED
    BY <1>0, <2>2, <2>3, <2>4, <2>5
    DEF TypeInv, TypeOK, Counted, NoRowYet, Busy, BagOver, Pending
<1>18. ASSUME NEW j \in Jobs, Reap(j) PROVE TypeInv'
  <2>1. job[j] \in JobRow /\ clock \in Nat
    BY <1>0 DEF TypeOK, Time
  <2>2. /\ job' \in [Jobs -> JobRow]
        /\ job'[j].status = job[j].status /\ job[j].status \in Active
        /\ \A k \in Jobs : job'[k].attempts = job[k].attempts
        /\ \A k \in Jobs \ {j} : job'[k] = job[k]
    BY <1>0, <1>18, <2>1 DEF TypeOK, Reap, JobRow, MaybeTime, Time
  <2>3. /\ Row(Event(j, "pending", job[j].attempts, clock), clock) \in OutboxRow
        /\ Row(Command(j), clock) \in OutboxRow
    BY <2>1, MessageTypes, RowTypes DEF JobRow, Active, MaybeTime, Time
  <2>4. BagOver(outbox, OutboxRow)'
    BY <1>0, <1>18, <2>3, BagPlus DEF TypeOK, Reap
  <2>5. QED
    BY <1>0, <1>18, <2>2, <2>4
    DEF TypeInv, TypeOK, Reap, Counted, NoRowYet, Busy, Active, BagOver, Pending
<1>19. CASE Tick
  <2>1. clock' \in Time /\ faults' \in 0..MaxFaults
    BY <1>0, <1>19 DEF TypeOK, Tick, Fault, Time
  <2>2. QED
    BY <1>0, <1>19, <2>1 DEF TypeInv, TypeOK, Tick, Counted, NoRowYet, Busy, BagOver, Pending
<1>20. CASE UNCHANGED vars
  BY <1>0, <1>20 DEF vars, TypeInv, TypeOK, Counted, NoRowYet, Busy, BagOver, Pending
<1>21. QED
  BY <1>1, <1>2, <1>3, <1>4, <1>5, <1>6, <1>7, <1>8, <1>9, <1>10, <1>11, <1>12, <1>13,
     <1>14, <1>15, <1>16, <1>17, <1>18, <1>19, <1>20
  DEF Next, Consumer, TakeCommand, Handle, Relay, Status, Reaper, SomeFault,
      ConsumeEvent, ConsumeEventUnacked

(* The columns, queues and threads have their types in every reachable      *)
(* state, with any number of faults of every kind, overruns included: in    *)
(* particular RETRY_DELAYS_SECONDS is never indexed before its first        *)
(* element, and a thread that holds a command knows its job.                *)
THEOREM TypeCorrect == Spec => []TypeOK
<1>1. Spec => []TypeInv
  BY InitTypes, StepTypes, PTL DEF Spec
<1>2. TypeInv => TypeOK
  BY DEF TypeInv
<1>3. QED
  BY <1>1, <1>2, PTL
=============================================================================
