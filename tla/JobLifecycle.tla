---------------------------- MODULE JobLifecycle ----------------------------
(***************************************************************************)
(* What the jobs platform promises for the jobs of one application, with   *)
(* no queue, outbox, lease or clock: one job is active at a time, each     *)
(* attempt is executed alone, a job changes its published status only      *)
(* between executions (or to "running"), and a finished job is never       *)
(* attempted or changed again.  JobQueue is shown to implement it.         *)
(***************************************************************************)
EXTENDS Naturals

CONSTANTS Jobs, MaxAttempts

VARIABLES
  status,    \* the status column of each job, "absent" before the request
  attempts,  \* how many times each job has been claimed
  working    \* the job that a worker is executing, if any: a set

lifecycleVars == <<status, attempts, working>>

IsActive(j) == status[j] \in {"pending", "running"}

Init ==
  /\ status = [j \in Jobs |-> "absent"]
  /\ attempts = [j \in Jobs |-> 0]
  /\ working = {}

(* A request is accepted when no job of the application is active.          *)
Request(j) ==
  /\ status[j] = "absent"
  /\ \A k \in Jobs : ~IsActive(k)
  /\ status' = [status EXCEPT ![j] = "pending"]
  /\ UNCHANGED <<attempts, working>>

(* An attempt starts; past MaxAttempts it is counted but not executed.      *)
Attempt(j) ==
  /\ IsActive(j)
  /\ working = {}
  /\ attempts' = [attempts EXCEPT ![j] = @ + 1]
  /\ working' = IF attempts'[j] <= MaxAttempts THEN {j} ELSE {}
  /\ UNCHANGED status

(* An execution ends, by its own verdict or by a crash.                     *)
Stop ==
  /\ working # {}
  /\ working' = {}
  /\ UNCHANGED <<status, attempts>>

Begin(j) ==
  /\ IsActive(j)
  /\ attempts[j] > 0
  /\ status' = [status EXCEPT ![j] = "running"]
  /\ UNCHANGED <<attempts, working>>

(* The verdict of the last attempt becomes the status.                      *)
Settle(j, s) ==
  /\ IsActive(j)
  /\ attempts[j] > 0
  /\ j \notin working
  /\ status' = [status EXCEPT ![j] = s]
  /\ UNCHANGED <<attempts, working>>

Next ==
  \/ \E j \in Jobs : Request(j) \/ Attempt(j) \/ Begin(j)
  \/ \E j \in Jobs, s \in {"pending", "succeeded", "failed"} : Settle(j, s)
  \/ Stop

Spec == Init /\ [][Next]_lifecycleVars
=============================================================================
