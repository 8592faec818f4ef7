---------------------------- MODULE Application ----------------------------
(***************************************************************************)
(* The life of one application across the systems that hold a part of it:  *)
(* the row of identity_api with its instance, the application in ChirpStack,*)
(* the user and permissions in RabbitMQ (its namespace), and the Docker    *)
(* container.  The requests that create, provision and delete it update    *)
(* those systems one by one and compensate when one of them refuses, while *)
(* jobs_worker provisions.  The jobs platform is taken from its abstract   *)
(* specification, JobLifecycle, which JobQueue implements.                 *)
(*                                                                         *)
(* ChirpStack gives every application a new identifier, so an application  *)
(* that has been deleted never comes back.                                 *)
(***************************************************************************)
EXTENDS Naturals

CONSTANTS
  Jobs,         \* provisioning jobs of the application
  FirstJob,     \* the one that create_application writes
  MaxAttempts,  \* jobs.max_attempts
  Deletes,      \* DELETE requests for the application
  Faults,       \* kinds of fault that may happen
  MaxFaults     \* bound: how many faults happen in a behaviour

FaultKinds == {"refused", "lost", "database", "commit", "crash", "deadline",
               "provisioner", "redelivery"}

ASSUME ApplicationConstants ==
  /\ FirstJob \in Jobs
  /\ MaxAttempts \in Nat \ {0}
  /\ Faults \subseteq FaultKinds
  /\ MaxFaults \in Nat

VARIABLES
  row,         \* rows application and application_instances
  instance,    \* application_instances.status, "none" without a row
  chirpstack,  \* the application exists in ChirpStack
  namespace,   \* the user of the application in RabbitMQ
  container,   \* its container and network exist
  create,      \* POST /applications: the step it does next
  delete,      \* each DELETE /applications/{id}: the step it does next
  post,        \* each POST /applications/{id}/provision
  status, attempts, working,  \* see JobLifecycle; "pending" stands for running too
  verdict,     \* how the latest attempt of each job ended
  handler,     \* ProvisionApplicationHandler.handle in the worker
  abandoned,   \* calls running in docker_provisioner that nobody waits for
  faults,      \* number of faults so far
  seen         \* and their kinds

held == <<row, instance, chirpstack, namespace, container>>
requests == <<create, delete, post>>
jobs == <<status, attempts, working, verdict, handler>>
vars == <<held, requests, jobs, abandoned, faults, seen>>

Lifecycle == INSTANCE JobLifecycle

Active == {"pending", "running"}
Terminal == {"succeeded", "failed"}
NoCalls == [provision |-> 0, deprovision |-> 0]

Fault(kind) ==
  /\ kind \in Faults
  /\ faults < MaxFaults
  /\ faults' = faults + 1
  /\ seen' = seen \cup {kind}
NoFault == UNCHANGED <<faults, seen>>

(* A remote call is done, is refused, or is done and its reply is lost; a   *)
(* commit likewise.                                                         *)
Remote(o) == \/ o = "done" /\ NoFault
             \/ o \in {"refused", "lost"} /\ Fault(o)
Commit(o) == \/ o = "done" /\ NoFault
             \/ o = "refused" /\ Fault("database")
             \/ o = "lost" /\ Fault("commit")
Outcomes == {"done", "refused", "lost"}

Init ==
  /\ row = "none" /\ instance = "none"
  /\ chirpstack = FALSE /\ namespace = "none" /\ container = FALSE
  /\ create = "chirpstack"
  /\ delete = [d \in Deletes |-> "check"]
  /\ post = [j \in Jobs |-> "check"]
  /\ Lifecycle!Init
  /\ verdict = [j \in Jobs |-> "none"]
  /\ handler = "idle"
  /\ abandoned = NoCalls
  /\ faults = 0 /\ seen = {}

-----------------------------------------------------------------------------
(* POST /applications *)

CreateSwallowingError(o) ==  \* mutant: a refusal of ChirpStack is ignored
  /\ create = "chirpstack"
  /\ Remote(o)
  /\ chirpstack' = (o # "refused")
  /\ create' = "user"
  /\ UNCHANGED <<row, instance, namespace, container, delete, post, jobs, abandoned>>

CreateInChirpStack(o) ==
  /\ create = "chirpstack"
  /\ Remote(o)
  /\ chirpstack' = (o # "refused")
  /\ create' = IF o = "done" THEN "user" ELSE "over"
  /\ UNCHANGED <<row, instance, namespace, container, delete, post, jobs, abandoned>>

PutUserWithoutUndo(o) ==  \* mutant: the application is left in ChirpStack
  /\ create = "user"
  /\ Remote(o)
  /\ namespace' = IF o = "refused" THEN namespace ELSE "user"
  /\ create' = IF o = "done" THEN "permissions" ELSE "over"
  /\ UNCHANGED <<row, instance, chirpstack, container, delete, post, jobs, abandoned>>

PutUser(o) ==
  /\ create = "user"
  /\ Remote(o)
  /\ namespace' = IF o = "refused" THEN namespace ELSE "user"
  /\ create' = IF o = "done" THEN "permissions" ELSE "undo_chirpstack"
  /\ UNCHANGED <<row, instance, chirpstack, container, delete, post, jobs, abandoned>>

PermissionsSwallowingError(o) ==  \* mutant: a refusal of RabbitMQ is ignored
  /\ create = "permissions"
  /\ Remote(o)
  /\ namespace' = IF o = "refused" THEN namespace ELSE "granted"
  /\ create' = "commit"
  /\ UNCHANGED <<row, instance, chirpstack, container, delete, post, jobs, abandoned>>

SetPermissions(o) ==
  /\ create = "permissions"
  /\ Remote(o)
  /\ namespace' = IF o = "refused" THEN namespace ELSE "granted"
  /\ create' = IF o = "done" THEN "commit" ELSE "undo_chirpstack"
  /\ UNCHANGED <<row, instance, chirpstack, container, delete, post, jobs, abandoned>>

(* Application, instance, job and outbox row in one transaction             *)
CommitCreate(o) ==
  /\ create = "commit"
  /\ Commit(o)
  /\ \/ /\ o # "refused"
        /\ row' = "present" /\ instance' = "PENDING"
        /\ Lifecycle!Request(FirstJob)
     \/ /\ o = "refused"
        /\ UNCHANGED <<row, instance, status, attempts, working>>
  /\ create' = IF o = "done" THEN "over" ELSE "undo_user"
  /\ UNCHANGED <<chirpstack, namespace, container, delete, post, verdict, handler, abandoned>>

(* The compensations are best effort.                                       *)
UndoUser(o) ==
  /\ create = "undo_user"
  /\ Remote(o)
  /\ namespace' = IF o = "refused" THEN namespace ELSE "none"
  /\ create' = "undo_chirpstack"
  /\ UNCHANGED <<row, instance, chirpstack, container, delete, post, jobs, abandoned>>

UndoChirpStack(o) ==
  /\ create = "undo_chirpstack"
  /\ Remote(o)
  /\ chirpstack' = (o = "refused" /\ chirpstack)
  /\ create' = "over"
  /\ UNCHANGED <<row, instance, namespace, container, delete, post, jobs, abandoned>>

CreateApplication == \E o \in Outcomes :
  \/ CreateInChirpStack(o) \/ PutUser(o) \/ SetPermissions(o)
  \/ CommitCreate(o) \/ UndoUser(o) \/ UndoChirpStack(o)

-----------------------------------------------------------------------------
(* POST /applications/{id}/provision.  jobs.subject_id is no foreign key:   *)
(* the application may go between the look-up and the insertion.            *)

FindForProvision(j) ==
  /\ j # FirstJob
  /\ post[j] = "check"
  /\ row = "present"
  /\ post' = [post EXCEPT ![j] = "insert"]
  /\ UNCHANGED <<held, create, delete, jobs, abandoned, faults, seen>>

RequestProvision(j) ==
  /\ post[j] = "insert"
  /\ post' = [post EXCEPT ![j] = "over"]
  /\ \/ Lifecycle!Request(j)
     \/ /\ \E k \in Jobs : status[k] \in Active
        /\ UNCHANGED <<status, attempts, working>>
  /\ UNCHANGED <<held, create, delete, verdict, handler, abandoned, faults, seen>>

-----------------------------------------------------------------------------
(* DELETE /applications/{id} *)

DeleteChecksNothing(d) ==  \* mutant: an active provisioning job is no conflict
  /\ delete[d] = "check"
  /\ row = "present"
  /\ delete' = [delete EXCEPT ![d] = "deprovision"]
  /\ UNCHANGED <<held, create, post, jobs, abandoned, faults, seen>>

DeleteChecks(d) ==
  /\ delete[d] = "check"
  /\ row = "present"
  /\ delete' = [delete EXCEPT ![d] =
       IF \E j \in Jobs : status[j] \in Active THEN "conflict" ELSE "deprovision"]
  /\ UNCHANGED <<held, create, post, jobs, abandoned, faults, seen>>

(* The call runs in docker_provisioner, under the lock of the application.  *)
Deprovision(d) ==
  /\ delete[d] = "deprovision"
  /\ \/ /\ container' = FALSE
        /\ delete' = [delete EXCEPT ![d] = "chirpstack"]
        /\ NoFault
     \/ /\ Fault("provisioner")
        /\ container' \in {FALSE, container}
        /\ delete' = [delete EXCEPT ![d] = "over"]
  /\ UNCHANGED <<row, instance, chirpstack, namespace, create, post, jobs, abandoned>>

DeprovisionTimesOut(d) ==
  /\ delete[d] = "deprovision"
  /\ Fault("deadline")
  /\ delete' = [delete EXCEPT ![d] = "over"]
  /\ abandoned' = [abandoned EXCEPT !.deprovision = @ + 1]
  /\ UNCHANGED <<held, create, post, jobs>>

(* ChirpStack answers NOT_FOUND for an application it does not have, and    *)
(* the request fails.                                                       *)
DeleteInChirpStack(d, o) ==
  /\ delete[d] = "chirpstack"
  /\ \/ /\ chirpstack
        /\ Remote(o)
        /\ chirpstack' = (o = "refused")
        /\ delete' = [delete EXCEPT ![d] = IF o = "done" THEN "row" ELSE "over"]
     \/ /\ ~chirpstack
        /\ delete' = [delete EXCEPT ![d] = "over"]
        /\ UNCHANGED chirpstack /\ NoFault
  /\ UNCHANGED <<row, instance, namespace, container, create, post, jobs, abandoned>>

DeleteRowKeepingInstance(d, o) ==  \* mutant: the foreign key does not cascade
  /\ delete[d] = "row"
  /\ Commit(o)
  /\ row' = IF o = "refused" THEN row ELSE "deleted"
  /\ delete' = [delete EXCEPT ![d] = IF o = "done" THEN "user" ELSE "over"]
  /\ UNCHANGED <<instance, chirpstack, namespace, container, create, post, jobs, abandoned>>

DeleteRow(d, o) ==
  /\ delete[d] = "row"
  /\ Commit(o)
  /\ row' = IF o = "refused" THEN row ELSE "deleted"
  /\ instance' = IF o = "refused" THEN instance ELSE "none"
  /\ delete' = [delete EXCEPT ![d] = IF o = "done" THEN "user" ELSE "over"]
  /\ UNCHANGED <<chirpstack, namespace, container, create, post, jobs, abandoned>>

DeleteUser(d, o) ==
  /\ delete[d] = "user"
  /\ Remote(o)
  /\ namespace' = IF o = "refused" THEN namespace ELSE "none"
  /\ delete' = [delete EXCEPT ![d] = "over"]
  /\ UNCHANGED <<row, instance, chirpstack, container, create, post, jobs, abandoned>>

DeleteApplication(d) ==
  \/ DeleteChecks(d) \/ Deprovision(d) \/ DeprovisionTimesOut(d)
  \/ \E o \in Outcomes : DeleteInChirpStack(d, o) \/ DeleteRow(d, o) \/ DeleteUser(d, o)

(* A request dies with its process.                                         *)
CrashRequest ==
  /\ Fault("crash")
  /\ \/ create \notin {"chirpstack", "over"} /\ create' = "over" /\ UNCHANGED <<delete, abandoned>>
     \/ \E d \in Deletes :
          /\ delete[d] \notin {"check", "over", "conflict"}
          /\ delete' = [delete EXCEPT ![d] = "over"]
          /\ \/ UNCHANGED abandoned
             \/ /\ delete[d] = "deprovision"
                /\ abandoned' = [abandoned EXCEPT !.deprovision = @ + 1]
          /\ UNCHANGED create
  /\ UNCHANGED <<held, post, jobs>>

-----------------------------------------------------------------------------
(* jobs_worker *)

(* _mark_instance; nothing to mark once the application is deleted          *)
MarkInstance(s, n) ==
  instance' = IF row # "present" \/ (s = "PROVISIONING" /\ n > 1 /\ instance \in {"RUNNING", "ERROR"})
              THEN instance ELSE s

(* A command of the job is claimed; after a verdict only one that is        *)
(* delivered once more.                                                     *)
StartAttempt(j) ==
  /\ Lifecycle!Attempt(j)
  /\ \/ verdict[j] \in {"none", "pending"} /\ NoFault
     \/ verdict[j] \in Terminal /\ Fault("redelivery")
  /\ IF attempts'[j] <= MaxAttempts
       THEN /\ handler' = "find"
            /\ verdict' = [verdict EXCEPT ![j] = "none"]
            /\ MarkInstance("PROVISIONING", attempts'[j])
       ELSE /\ handler' = "idle"
            /\ verdict' = [verdict EXCEPT ![j] = "failed"]
            /\ MarkInstance("ERROR", attempts'[j])
  /\ UNCHANGED <<row, chirpstack, namespace, container, requests, abandoned>>

(* _application_exists, and the call to docker_provisioner                  *)
FindApplication ==
  /\ handler = "find"
  /\ handler' = IF row = "present" THEN "waiting" ELSE "failed"
  /\ UNCHANGED <<held, requests, status, attempts, working, verdict, abandoned, faults, seen>>

(* The call runs; one that fails may have created the container already.    *)
Provision ==
  /\ handler = "waiting"
  /\ \/ /\ container' = TRUE
        /\ handler' = "succeeded"
        /\ NoFault
     \/ /\ Fault("provisioner")
        /\ container' \in {TRUE, container}
        /\ handler' \in {"pending", "failed"}
  /\ UNCHANGED <<row, instance, chirpstack, namespace, requests, status, attempts, working,
                 verdict, abandoned>>

ProvisionTimesOutAsDone ==  \* mutant: a deadline counts as success
  /\ handler = "waiting"
  /\ Fault("deadline")
  /\ handler' = "succeeded"
  /\ abandoned' = [abandoned EXCEPT !.provision = @ + 1]
  /\ UNCHANGED <<held, requests, status, attempts, working, verdict>>

ProvisionTimesOut ==
  /\ handler = "waiting"
  /\ Fault("deadline")
  /\ handler' = "pending"
  /\ abandoned' = [abandoned EXCEPT !.provision = @ + 1]
  /\ UNCHANGED <<held, requests, status, attempts, working, verdict>>

(* _add_succeeded, _add_transient or _add_failed                            *)
EndAttempt(j) ==
  LET v == IF handler = "pending" /\ attempts[j] >= MaxAttempts THEN "failed" ELSE handler IN
  /\ working = {j}
  /\ handler \in {"succeeded", "pending", "failed"}
  /\ Lifecycle!Stop
  /\ handler' = "idle"
  /\ verdict' = [verdict EXCEPT ![j] = v]
  /\ IF v = "pending" THEN UNCHANGED instance
     ELSE MarkInstance(IF v = "succeeded" THEN "RUNNING" ELSE "ERROR", attempts[j])
  /\ UNCHANGED <<row, chirpstack, namespace, container, requests, abandoned, faults, seen>>

(* The worker dies; the reaper makes the job pending again.                 *)
CrashWorker(j) ==
  /\ working = {j}
  /\ Fault("crash")
  /\ Lifecycle!Stop
  /\ handler' = "idle"
  /\ verdict' = [verdict EXCEPT ![j] = "pending"]
  /\ \/ UNCHANGED abandoned
     \/ /\ handler = "waiting"
        /\ abandoned' = [abandoned EXCEPT !.provision = @ + 1]
  /\ UNCHANGED <<held, requests>>

(* StatusProcessor applies the verdict.                                     *)
Settle(j) ==
  /\ verdict[j] \in Terminal
  /\ Lifecycle!Settle(j, verdict[j])
  /\ UNCHANGED <<held, requests, verdict, handler, abandoned, faults, seen>>

(* A call that nobody waits for gets the lock, and succeeds or fails.       *)
AbandonedProvision ==
  /\ abandoned.provision > 0
  /\ abandoned' = [abandoned EXCEPT !.provision = @ - 1]
  /\ container' \in {TRUE, container}
  /\ UNCHANGED <<row, instance, chirpstack, namespace, requests, jobs, faults, seen>>

AbandonedDeprovision ==
  /\ abandoned.deprovision > 0
  /\ abandoned' = [abandoned EXCEPT !.deprovision = @ - 1]
  /\ container' \in {FALSE, container}
  /\ UNCHANGED <<row, instance, chirpstack, namespace, requests, jobs, faults, seen>>

-----------------------------------------------------------------------------
Worker(j) == StartAttempt(j) \/ EndAttempt(j) \/ CrashWorker(j) \/ Settle(j)

Next ==
  \/ CreateApplication
  \/ \E j \in Jobs : FindForProvision(j) \/ RequestProvision(j) \/ Worker(j)
  \/ \E d \in Deletes : DeleteApplication(d)
  \/ CrashRequest
  \/ FindApplication \/ Provision \/ ProvisionTimesOut
  \/ AbandonedProvision \/ AbandonedDeprovision

Spec == Init /\ [][Next]_vars
-----------------------------------------------------------------------------
(* Properties *)

(* The variables have their types; a handler runs exactly when a job does.  *)
TypeOK ==
  /\ row \in {"none", "present", "deleted"}
  /\ instance \in {"none", "PENDING", "PROVISIONING", "RUNNING", "ERROR"}
  /\ instance = "none" <=> row # "present"
  /\ chirpstack \in BOOLEAN /\ container \in BOOLEAN
  /\ namespace \in {"none", "user", "granted"}
  /\ create \in {"chirpstack", "user", "permissions", "commit", "undo_user",
                 "undo_chirpstack", "over"}
  /\ delete \in [Deletes -> {"check", "deprovision", "chirpstack", "row", "user", "over", "conflict"}]
  /\ post \in [Jobs -> {"check", "insert", "over"}]
  /\ status \in [Jobs -> Active \cup Terminal \cup {"absent"}]
  /\ attempts \in [Jobs -> Nat]
  /\ working \subseteq Jobs
  /\ verdict \in [Jobs -> Terminal \cup {"none", "pending"}]
  /\ handler \in {"idle", "find", "waiting", "succeeded", "pending", "failed"}
  /\ handler = "idle" <=> working = {}
  /\ abandoned \in [provision: Nat, deprovision: Nat]
  /\ faults \in 0..MaxFaults /\ seen \subseteq Faults

(* No request, job or call is left that could still change the application. *)
Quiet ==
  /\ create = "over"
  /\ \A d \in Deletes : delete[d] \in {"check", "over", "conflict"}
  /\ \A j \in Jobs : post[j] # "insert" /\ status[j] \notin Active
  /\ working = {}
  /\ abandoned = NoCalls

Without(kinds) == seen \cap kinds = {}

(* The worker's look-up of the application "closes the TOCTOU window"       *)
(* between a DELETE and a provisioning job: no container is left of an      *)
(* application that is gone.                                                *)
NoOrphanContainer == Quiet /\ row # "present" => ~container

(* Where that is so: the job is the one of the creation, and no call to     *)
(* docker_provisioner outlives its caller.                                  *)
ContainerGoesWithRow ==
  Without({"deadline", "crash"}) /\ (\A j \in Jobs \ {FirstJob} : status[j] = "absent")
    => NoOrphanContainer

(* A creation that fails at any one of its steps removes the application    *)
(* from ChirpStack again, and a DELETE removes the row only after it has.   *)
NoOrphanInChirpStack ==
  Quiet /\ row # "present" /\ faults <= 1 /\ Without({"lost", "crash"}) => ~chirpstack

(* Neither a creation that is compensated nor a DELETE takes the user of    *)
(* RabbitMQ from an application that keeps its row, unless a commit that    *)
(* succeeds is reported as failed.                                          *)
PersistedHasNamespace ==
  row = "present" /\ Without({"commit"}) => namespace = "granted"

(* A DELETE that stopped half-way can be repeated: ChirpStack still has     *)
(* what the row refers to, or the repetition would be refused for ever.     *)
(* Refused calls and calls that run after their deadline leave it so.       *)
DeletionCanBeRepeated ==
  /\ row = "present" /\ Without({"lost", "database", "commit", "crash"})
  /\ \A d \in Deletes : delete[d] # "row"
  => chirpstack

(* application_instances says RUNNING of an application without a container *)
(* only after a DELETE that got past its check and failed or died on its    *)
(* way: whatever fails in the jobs and the creation, they do not lie.       *)
RunningHasContainer ==
  Quiet /\ row = "present" /\ instance = "RUNNING" /\ ~container
    => \E d \in Deletes : delete[d] = "over"
=============================================================================
