------------------------------ MODULE JobQueue ------------------------------
(***************************************************************************)
(* The asynchronous jobs platform: the rows of tables jobs, job_outbox and *)
(* application_instances, the RabbitMQ queues between them, and the        *)
(* threads of jobs_worker that move a job forward - consumers of the       *)
(* provisioning queue (JobProcessor), the outbox relay, the consumer of    *)
(* status events (StatusProcessor) and the reaper of expired leases.       *)
(*                                                                         *)
(* All Jobs belong to one application, so they share a deduplication key;  *)
(* jobs of different applications touch no common row.  A database         *)
(* transaction is one action, since every handler takes the row lock of    *)
(* the job.  Times are values of clock, the clock of the database.         *)
(***************************************************************************)
EXTENDS Integers, Sequences, Bags

CONSTANTS
  Jobs,               \* jobs of one application, one POST each
  Workers,            \* threads provisioning-consumer-<i> of all replicas
  MaxAttempts,        \* jobs.max_attempts
  LockSeconds,        \* JOB_LOCK_SECONDS, the length of a lease
  RetryDelays,        \* RETRY_DELAYS_SECONDS
  OutboxBackoff,      \* delays after the 1st, 2nd, ... failed publish of a row
  OutboxMaxAttempts,  \* OUTBOX_MAX_ATTEMPTS
  Faults,             \* kinds of fault that may happen
  MaxFaults,          \* bound: how many faults happen in a behaviour
  None                \* SQL NULL

FaultKinds == {"abort", "connection", "republish", "reapply", "publish", "overrun"}

ASSUME ConstantsOK ==
  /\ MaxAttempts \in Nat \ {0}
  /\ LockSeconds \in Nat \ {0}
  /\ RetryDelays \in Seq(Nat)
  /\ OutboxBackoff \in Seq(Nat)
  /\ OutboxMaxAttempts \in Nat \ {0}
  /\ Faults \subseteq FaultKinds
  /\ MaxFaults \in Nat
  /\ None \notin Nat

VARIABLES
  job,         \* table jobs
  instance,    \* application_instances.status of the application
  outbox,      \* bag of the rows of job_outbox still to publish
  quarantine,  \* bag of the messages of rows with failed_at set
  broker,      \* bag of the messages ready in the queues of RabbitMQ
  worker,      \* what each consumer thread is doing
  clock,       \* clock_timestamp() of the database
  faults       \* number of faults so far

vars == <<job, instance, outbox, quarantine, broker, worker, clock, faults>>

-----------------------------------------------------------------------------
(* Values *)

Active == {"pending", "running"}
Terminal == {"succeeded", "failed"}
Time == Nat
MaybeTime == Time \cup {None}

JobRow == [status: Active \cup Terminal \cup {"absent"}, attempts: Nat,
           next: MaybeTime, locked: MaybeTime]
Absent == [status |-> "absent", attempts |-> 0, next |-> None, locked |-> None]
NewJob == [Absent EXCEPT !.status = "pending"]

(* Messages.  A consumer of a command reads nothing but its job_id. *)
Command(j) == [to |-> "jobs", job |-> j, status |-> "pending", attempt |-> 0, next |-> None]
DeadLetter(j) == [to |-> "dlx", job |-> j, status |-> "failed", attempt |-> 0, next |-> None]
Event(j, s, n, t) == [to |-> "events", job |-> j, status |-> s, attempt |-> n, next |-> t]
Message == [to: {"jobs", "dlx", "events"}, job: Jobs, status: Active \cup Terminal,
            attempt: Nat, next: MaybeTime]

RowDueFromMessage(m, t) == [msg |-> m, due |-> m.next, tries |-> 0]  \* mutant: no default
Row(m, t) == [msg |-> m, due |-> t, tries |-> 0]
OutboxRow == [msg: Message, due: Time, tries: Nat]

(* A consumer thread: the message it holds and the ORM snapshot it works on. *)
WorkerState == [pc: {"idle", "received", "claimed", "handling", "acking"},
                job: Jobs \cup {None}, held: BOOLEAN, now: Time, lease: Time,
                attempt: Nat, nextSet: BOOLEAN, lockedSet: BOOLEAN]
Idle == [pc |-> "idle", job |-> None, held |-> FALSE, now |-> 0, lease |-> 0,
         attempt |-> 0, nextSet |-> FALSE, lockedSet |-> FALSE]

Add(bag, m) == bag (+) SetToBag({m})
Remove(bag, m) == bag (-) SetToBag({m})
Pending(bag) == BagToSet(bag)

DelayAt(delays, n) ==
  IF delays = <<>> THEN 0
  ELSE delays[IF n <= Len(delays) THEN n ELSE Len(delays)]

Fault(kind) ==
  /\ kind \in Faults
  /\ faults < MaxFaults
  /\ faults' = faults + 1

Init ==
  /\ job = [j \in Jobs |-> Absent]
  /\ instance = "PENDING"
  /\ outbox = EmptyBag
  /\ quarantine = EmptyBag
  /\ broker = EmptyBag
  /\ worker = [w \in Workers |-> Idle]
  /\ clock = 0
  /\ faults = 0

-----------------------------------------------------------------------------
(* identity_api: POST .../provision.  While a job of the application is     *)
(* active, get_active_job or the partial unique index returns that job and  *)
(* nothing is written.                                                      *)
CreateJobAnyTime(j) ==  \* mutant: no look-up of the active job and no unique index
  /\ job[j].status = "absent"
  /\ job' = [job EXCEPT ![j] = NewJob]
  /\ outbox' = Add(outbox, Row(Command(j), clock))
  /\ UNCHANGED <<instance, quarantine, broker, worker, clock, faults>>

CreateJob(j) ==
  /\ job[j].status = "absent"
  /\ \A k \in Jobs : job[k].status \notin Active
  /\ job' = [job EXCEPT ![j] = NewJob]
  /\ outbox' = Add(outbox, Row(Command(j), clock))
  /\ UNCHANGED <<instance, quarantine, broker, worker, clock, faults>>

-----------------------------------------------------------------------------
(* The outbox relay *)

RelayPublish(r) ==
  /\ r \in Pending(outbox)
  /\ r.due <= clock
  /\ outbox' = Remove(outbox, r)
  /\ broker' = Add(broker, r.msg)
  /\ UNCHANGED <<job, instance, quarantine, worker, clock, faults>>

(* The message goes out, and published_at is not committed or publish()     *)
(* loses the confirmation and publishes again: the row goes out once more.  *)
RelayRepublish(r) ==
  /\ r \in Pending(outbox)
  /\ r.due <= clock
  /\ Fault("republish")
  /\ broker' = Add(broker, r.msg)
  /\ UNCHANGED <<job, instance, outbox, quarantine, worker, clock>>

RelayFails(r) ==
  LET tries == r.tries + 1 IN
  /\ r \in Pending(outbox)
  /\ r.due <= clock
  /\ Fault("publish")
  /\ \/ /\ tries >= OutboxMaxAttempts
        /\ outbox' = Remove(outbox, r)
        /\ quarantine' = Add(quarantine, r.msg)
     \/ /\ tries < OutboxMaxAttempts
        /\ outbox' = Add(Remove(outbox, r),
                         [msg |-> r.msg, tries |-> tries,
                          due |-> clock + DelayAt(OutboxBackoff, tries)])
        /\ UNCHANGED quarantine
  /\ UNCHANGED <<job, instance, broker, worker, clock>>

-----------------------------------------------------------------------------
(* JobProcessor.process, one consumer thread *)

(* The broker delivers a command; the transaction of claim_job reads the    *)
(* clock, and only then waits for the lock of the row.                      *)
Receive(w, j) ==
  /\ worker[w].pc = "idle"
  /\ Command(j) \in Pending(broker)
  /\ broker' = Remove(broker, Command(j))
  /\ worker' = [worker EXCEPT ![w] =
       [Idle EXCEPT !.pc = "received", !.job = j, !.held = TRUE,
                    !.now = clock, !.lease = clock + LockSeconds]]
  /\ UNCHANGED <<job, instance, outbox, quarantine, clock, faults>>

ClaimableIgnoringLease(row, now) ==  \* mutant: locked_until is not looked at
  /\ row.status \in Active
  /\ row.next # None => row.next <= now

(* The conditions of claim_job, evaluated with the clock value it has read. *)
Claimable(row, now) ==
  /\ row.status \in Active
  /\ row.locked # None => row.locked <= now
  /\ row.next # None => row.next <= now

(* The callback returns; the thread is left with the command to ack.        *)
Return(w) == worker' = [worker EXCEPT ![w] =
  [Idle EXCEPT !.pc = "acking", !.job = worker[w].job, !.held = worker[w].held]]

(* _mark_instance for attempt n: a later attempt does not take a running or *)
(* failed instance back to PROVISIONING.                                    *)
MarkInstance(s, n) ==
  instance' = IF s = "PROVISIONING" /\ n > 1 /\ instance \in {"RUNNING", "ERROR"}
              THEN instance ELSE s

(* claim_job and _add_started, one commit *)
Claim(w) ==
  LET j == worker[w].job
      n == job[j].attempts + 1
  IN
  /\ worker[w].pc = "received"
  /\ Claimable(job[j], worker[w].now)
  /\ n <= MaxAttempts
  /\ job' = [job EXCEPT ![j].attempts = n, ![j].locked = worker[w].lease]
  /\ outbox' = Add(outbox, Row(Event(j, "running", n, None), clock))
  /\ MarkInstance("PROVISIONING", n)
  /\ worker' = [worker EXCEPT ![w].pc = "claimed", ![w].attempt = n]
  /\ UNCHANGED <<quarantine, broker, clock, faults>>

(* The rows written by _add_failed for attempt n *)
FailedRows(j, n) ==
  SetToBag({Row(Event(j, "failed", n, None), clock), Row(DeadLetter(j), clock)})

ExhaustKeepsInstance(w) ==  \* mutant: _add_failed does not mark the instance
  LET j == worker[w].job
      n == job[j].attempts + 1
  IN
  /\ worker[w].pc = "received"
  /\ Claimable(job[j], worker[w].now)
  /\ n > MaxAttempts
  /\ job' = [job EXCEPT ![j].attempts = n, ![j].locked = None]
  /\ outbox' = outbox (+) FailedRows(j, n)
  /\ Return(w)
  /\ UNCHANGED <<instance, quarantine, broker, clock, faults>>

(* claim_job and _add_failed("attempts_exhausted"), one commit *)
Exhaust(w) ==
  LET j == worker[w].job
      n == job[j].attempts + 1
  IN
  /\ worker[w].pc = "received"
  /\ Claimable(job[j], worker[w].now)
  /\ n > MaxAttempts
  /\ job' = [job EXCEPT ![j].attempts = n, ![j].locked = None]
  /\ outbox' = outbox (+) FailedRows(j, n)
  /\ MarkInstance("ERROR", n)
  /\ Return(w)
  /\ UNCHANGED <<quarantine, broker, clock, faults>>

(* reschedule_not_due_job holds the row lock of claim_job and reads the     *)
(* clock again.                                                             *)
NotDue(row) ==
  /\ row.status \in Active
  /\ row.locked # None => row.locked <= clock
  /\ row.next # None /\ row.next > clock

Reschedule(w) ==
  LET j == worker[w].job IN
  /\ worker[w].pc = "received"
  /\ ~Claimable(job[j], worker[w].now)
  /\ NotDue(job[j])
  /\ outbox' = Add(outbox, Row(Command(j), job[j].next))
  /\ Return(w)
  /\ UNCHANGED <<job, instance, quarantine, broker, clock, faults>>

(* Neither claimed nor rescheduled: rollback, and the command is dropped.   *)
Skip(w) ==
  LET j == worker[w].job IN
  /\ worker[w].pc = "received"
  /\ ~Claimable(job[j], worker[w].now)
  /\ ~NotDue(job[j])
  /\ Return(w)
  /\ UNCHANGED <<job, instance, outbox, quarantine, broker, clock, faults>>

(* The commit of the claim expires the ORM object; job.type loads it again, *)
(* and the rest of process() works on that snapshot.                        *)
LoadJob(w) ==
  LET row == job[worker[w].job] IN
  /\ worker[w].pc = "claimed"
  /\ worker' = [worker EXCEPT ![w].pc = "handling",
                              ![w].attempt = row.attempts,
                              ![w].nextSet = (row.next # None),
                              ![w].lockedSet = (row.locked # None)]
  /\ UNCHANGED <<job, instance, outbox, quarantine, broker, clock, faults>>

(* An attribute set to None is written only where the snapshot had a value. *)
Cleared(column, wasSet) == IF wasSet THEN None ELSE column

Succeed(w) ==
  LET s == worker[w] IN
  /\ s.pc = "handling"
  /\ job' = [job EXCEPT ![s.job].locked = Cleared(@, s.lockedSet),
                        ![s.job].next = Cleared(@, s.nextSet)]
  /\ outbox' = Add(outbox, Row(Event(s.job, "succeeded", s.attempt, None), clock))
  /\ MarkInstance("RUNNING", s.attempt)
  /\ Return(w)
  /\ UNCHANGED <<quarantine, broker, clock, faults>>

RetryLaterWithoutCommand(w) ==  \* mutant: _add_transient forgets the new command
  LET s == worker[w]
      t == clock + DelayAt(RetryDelays, s.attempt)
  IN
  /\ s.pc = "handling"
  /\ s.attempt < MaxAttempts
  /\ job' = [job EXCEPT ![s.job].locked = Cleared(@, s.lockedSet),
                        ![s.job].next = t]
  /\ outbox' = Add(outbox, Row(Event(s.job, "pending", s.attempt, t), clock))
  /\ Return(w)
  /\ UNCHANGED <<instance, quarantine, broker, clock, faults>>

(* A transient failure with attempts left *)
RetryLater(w) ==
  LET s == worker[w]
      t == clock + DelayAt(RetryDelays, s.attempt)
  IN
  /\ s.pc = "handling"
  /\ s.attempt < MaxAttempts
  /\ job' = [job EXCEPT ![s.job].locked = Cleared(@, s.lockedSet),
                        ![s.job].next = t]
  /\ outbox' = outbox (+) SetToBag({Row(Event(s.job, "pending", s.attempt, t), clock),
                                    Row(Command(s.job), t)})
  /\ Return(w)
  /\ UNCHANGED <<instance, quarantine, broker, clock, faults>>

(* A permanent failure, or a transient failure of the last attempt          *)
Fail(w) ==
  LET s == worker[w] IN
  /\ s.pc = "handling"
  /\ job' = [job EXCEPT ![s.job].locked = Cleared(@, s.lockedSet)]
  /\ outbox' = outbox (+) FailedRows(s.job, s.attempt)
  /\ MarkInstance("ERROR", s.attempt)
  /\ Return(w)
  /\ UNCHANGED <<quarantine, broker, clock, faults>>

Ack(w) ==
  /\ worker[w].pc = "acking"
  /\ worker' = [worker EXCEPT ![w] = Idle]
  /\ UNCHANGED <<job, instance, outbox, quarantine, broker, clock, faults>>

(* The process dies, or an exception rolls the transaction back and the     *)
(* command is nacked with requeue: what is not committed is gone, and the   *)
(* broker has the command again.                                            *)
Abort(w) ==
  /\ worker[w].pc # "idle"
  /\ Fault("abort")
  /\ broker' = IF worker[w].held THEN Add(broker, Command(worker[w].job)) ELSE broker
  /\ worker' = [worker EXCEPT ![w] = Idle]
  /\ UNCHANGED <<job, instance, outbox, quarantine, clock>>

(* The channel closes under a blocked callback: the broker delivers the     *)
(* command again while this thread goes on, and its ack will not count.     *)
LoseConnection(w) ==
  /\ worker[w].held
  /\ Fault("connection")
  /\ broker' = Add(broker, Command(worker[w].job))
  /\ worker' = [worker EXCEPT ![w].held = FALSE]
  /\ UNCHANGED <<job, instance, outbox, quarantine, clock>>

-----------------------------------------------------------------------------
(* StatusProcessor: apply_status_event *)

AppliesToAnyAttempt(row, e) ==  \* mutant: events of earlier attempts are not ignored
  /\ row.status \in Active
  /\ e.status = "running" => (row.next # None => row.next <= clock)

AppliesToFinished(row, e) ==  \* mutant: a terminal job is not protected
  /\ e.attempt = row.attempts
  /\ e.status = "running" => (row.next # None => row.next <= clock)

Applies(row, e) ==
  /\ e.attempt = row.attempts
  /\ row.status \in Active
  /\ e.status = "running" => (row.next # None => row.next <= clock)

Applied(row, e) ==
  [row EXCEPT !.status = e.status,
              !.next = e.next,
              !.locked = IF e.status = "running" THEN @ ELSE None]

ApplyStatusEvent(e) ==
  job' = IF Applies(job[e.job], e)
         THEN [job EXCEPT ![e.job] = Applied(@, e)] ELSE job

ConsumeEvent(e) ==
  /\ e \in Pending(broker)
  /\ e.to = "events"
  /\ ApplyStatusEvent(e)
  /\ broker' = Remove(broker, e)
  /\ UNCHANGED <<instance, outbox, quarantine, worker, clock, faults>>

(* The event is applied and its ack lost: the broker delivers it again.     *)
ConsumeEventUnacked(e) ==
  /\ e \in Pending(broker)
  /\ e.to = "events"
  /\ Fault("reapply")
  /\ ApplyStatusEvent(e)
  /\ UNCHANGED <<instance, outbox, quarantine, broker, worker, clock>>

-----------------------------------------------------------------------------
(* JobReaper.run_once *)

ReapWithoutCommand(j) ==  \* mutant: the lease is released and nothing runs the job again
  /\ job[j].status \in Active
  /\ job[j].locked # None
  /\ job[j].locked < clock
  /\ job' = [job EXCEPT ![j].next = clock, ![j].locked = None]
  /\ outbox' = Add(outbox, Row(Event(j, "pending", job[j].attempts, clock), clock))
  /\ UNCHANGED <<instance, quarantine, broker, worker, clock, faults>>

ReapLiveLease(j) ==  \* mutant: locked_until is not compared with the clock
  /\ job[j].status \in Active
  /\ job[j].locked # None
  /\ job' = [job EXCEPT ![j].next = clock, ![j].locked = None]
  /\ outbox' = outbox (+) SetToBag({Row(Event(j, "pending", job[j].attempts, clock), clock),
                                    Row(Command(j), clock)})
  /\ UNCHANGED <<instance, quarantine, broker, worker, clock, faults>>

Reap(j) ==
  /\ job[j].status \in Active
  /\ job[j].locked # None
  /\ job[j].locked < clock
  /\ job' = [job EXCEPT ![j].next = clock, ![j].locked = None]
  /\ outbox' = outbox (+) SetToBag({Row(Event(j, "pending", job[j].attempts, clock), clock),
                                    Row(Command(j), clock)})
  /\ UNCHANGED <<instance, quarantine, broker, worker, clock, faults>>

-----------------------------------------------------------------------------
(* Time.  It advances while something waits for it.  A worker that holds a  *)
(* lease, or has read the clock it will take one from, finishes before the  *)
(* lease ends - the gRPC deadline of a handler is a sixth of the lease -    *)
(* unless the fault "overrun" suspends it: one fault as its lease ends, and *)
(* time then passes freely.                                                 *)

Working(w) == worker[w].pc \in {"received", "claimed", "handling"}

SomethingWaits ==
  \/ \E j \in Jobs : \/ job[j].locked # None /\ job[j].locked >= clock
                     \/ job[j].next # None /\ job[j].next > clock
  \/ \E r \in Pending(outbox) : r.due > clock

Tick ==
  /\ SomethingWaits
  /\ clock' = clock + 1
  /\ \/ /\ \A w \in Workers : Working(w) => worker[w].lease # clock'
        /\ UNCHANGED faults
     \/ /\ \E w \in Workers : Working(w) /\ worker[w].lease = clock'
        /\ Fault("overrun")
  /\ UNCHANGED <<job, instance, outbox, quarantine, broker, worker>>

-----------------------------------------------------------------------------
Handle(w) == Succeed(w) \/ RetryLater(w) \/ Fail(w)
TakeCommand(w) == Claim(w) \/ Exhaust(w) \/ Reschedule(w) \/ Skip(w)

Relay == \E r \in Pending(outbox) : RelayPublish(r)
Status == \E e \in Pending(broker) : ConsumeEvent(e)
Reaper == \E j \in Jobs : Reap(j)
Consumer(w) == (\E j \in Jobs : Receive(w, j)) \/ TakeCommand(w) \/ LoadJob(w) \/ Handle(w) \/ Ack(w)

SomeFault ==
  \/ \E r \in Pending(outbox) : RelayRepublish(r) \/ RelayFails(r)
  \/ \E e \in Pending(broker) : ConsumeEventUnacked(e)
  \/ \E w \in Workers : Abort(w) \/ LoseConnection(w)

Next ==
  \/ \E j \in Jobs : CreateJob(j)
  \/ \E w \in Workers : Consumer(w)
  \/ Relay \/ Status \/ Reaper \/ Tick \/ SomeFault

Spec == Init /\ [][Next]_vars

(* Every thread is a loop that polls or blocks on its queue, so none is     *)
(* ever postponed for good; requests and faults need not happen.            *)
Fairness ==
  /\ \A w \in Workers : WF_vars(Consumer(w))
  /\ WF_vars(Relay) /\ WF_vars(Status) /\ WF_vars(Reaper) /\ WF_vars(Tick)

FairSpec == Spec /\ Fairness
-----------------------------------------------------------------------------
(* Properties *)

InstanceStatus == {"PENDING", "PROVISIONING", "RUNNING", "ERROR"}
BagOver(bag, S) == IsABag(bag) /\ Pending(bag) \subseteq S

(* The variables have the types of their columns and queues.                *)
TypeOK ==
  /\ job \in [Jobs -> JobRow]
  /\ instance \in InstanceStatus
  /\ BagOver(outbox, OutboxRow)
  /\ BagOver(quarantine, Message)
  /\ BagOver(broker, Message)
  /\ worker \in [Workers -> WorkerState]
  /\ \A w \in Workers : worker[w] = Idle \/ worker[w].job \in Jobs
  /\ clock \in Time
  /\ faults \in 0..MaxFaults

Busy(w) == worker[w].pc \in {"claimed", "handling"}

(* The lease of claim_job is a mutual exclusion: whatever is delivered      *)
(* twice, no two threads provision for the application at once, whether for *)
(* one job or for a job and its successor.                                  *)
HandlerExclusive ==
  \A v, w \in Workers : Busy(v) /\ Busy(w) => v = w

(* process() writes back a snapshot without checking what the row has       *)
(* become: it must still be the current attempt of a job that is active.    *)
WorkIsCurrent ==
  \A w \in Workers : Busy(w) =>
    LET row == job[worker[w].job] IN
    /\ row.status \in Active
    /\ row.attempts = worker[w].attempt
    /\ row.locked = worker[w].lease

(* The messages that are published or that the relay will publish           *)
Transit == Pending(broker) \cup {r.msg : r \in Pending(outbox)}
InTransit(m) == m \in Transit

(* Why the lease excludes: a thread that works, or is about to, holds a     *)
(* lease that has not ended; one job is active at a time; and no event that *)
(* would clear the lease speaks of the attempt it protects.                 *)
Timely == \A w \in Workers :
  Working(w) => worker[w].now <= clock /\ worker[w].lease > clock
OneActive == \A j, k \in Jobs :
  job[j].status \in Active /\ job[k].status \in Active => j = k
EventsBehind == \A m \in Transit : m.to = "events" =>
  /\ m.attempt <= job[m.job].attempts
  /\ m.status = "running" \/ m.attempt < job[m.job].attempts
     \/ \A w \in Workers : Busy(w) => worker[w].job # m.job
LeaseInv == Timely /\ OneActive /\ WorkIsCurrent /\ HandlerExclusive /\ EventsBehind

(* What can still move job j: a command on its way or in a thread, a lease  *)
(* for the reaper, or the verdict of its latest attempt on its way.         *)
HasFuture(j) ==
  \/ InTransit(Command(j))
  \/ \E w \in Workers : worker[w].pc = "received" /\ worker[w].job = j
  \/ job[j].locked # None
  \/ \E s \in Terminal : InTransit(Event(j, s, job[j].attempts, None))

(* A job that is not finished is never forgotten, even though process()     *)
(* acks and drops every command it cannot claim: only the quarantine of the *)
(* outbox may hold the last trace of it.                                    *)
NeverForgotten ==
  \A j \in Jobs :
    job[j].status \in Active =>
      HasFuture(j) \/ \E m \in Pending(quarantine) : m.job = j

(* A terminal row is final in every column, although workers, the reaper    *)
(* and late events write rows by id alone.                                  *)
TerminalRowFrozen ==
  [][\A j \in Jobs : job[j].status \in Terminal => job'[j] = job[j]]_vars

(* application_instances shows the result of the last cycle: when a job     *)
(* finishes the instance already agrees with it, and nothing changes the    *)
(* instance while no job is active.                                         *)
InstanceShowsVerdict ==
  [][/\ \A j \in Jobs :
          job[j].status \in Active /\ job'[j].status \in Terminal =>
            instance' = (IF job'[j].status = "succeeded" THEN "RUNNING" ELSE "ERROR")
     /\ (\A j \in Jobs : job[j].status \notin Active) => instance' = instance]_vars

(* The platform implements the life cycle it promises.                      *)
Lifecycle == INSTANCE JobLifecycle WITH
  status <- [j \in Jobs |-> job[j].status],
  attempts <- [j \in Jobs |-> job[j].attempts],
  working <- {worker[w].job : w \in {v \in Workers : Busy(v)}}

ImplementsLifecycle == Lifecycle!Spec

(* Every job that is requested is finished, whatever crashes, gets lost or  *)
(* is delivered twice on the way, and although a worker suspended beyond    *)
(* its lease commits over the row, and frees the lease, of the attempt that *)
(* has replaced its own.                                                    *)
EventuallyFinished ==
  \A j \in Jobs : (job[j].status # "absent") ~> (job[j].status \in Terminal)

(* The code names attempts_exhausted "job exceeded max attempts after lease *)
(* recovery": the last attempt must not be one whose success is committed   *)
(* and on its way to the jobs table.                                        *)
ExhaustedAfterRecovery ==
  [][\A w \in Workers :
       LET j == worker[w].job IN
       worker[w].pc = "received" /\ job'[j].attempts > MaxAttempts /\ job'[j] # job[j]
         => ~InTransit(Event(j, "succeeded", job[j].attempts, None))]_vars
=============================================================================
