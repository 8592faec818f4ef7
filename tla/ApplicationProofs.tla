------------------------- MODULE ApplicationProofs -------------------------
(***************************************************************************)
(* Proofs about Application, for any number of jobs, attempts, DELETE      *)
(* requests and faults.  Each invariant holds until a fault happens of a   *)
(* kind that does break its property.                                      *)
(***************************************************************************)
EXTENDS Application, TLAPS

Steps == {"check", "deprovision", "chirpstack", "row", "user", "over", "conflict"}

(* A request for the deletion is under way only once there has been a row,  *)
(* and the creation has ended by the time there is one.                     *)
RequestsInv ==
  /\ delete \in [Deletes -> Steps]
  /\ create \in {"chirpstack", "user", "permissions", "commit", "undo_user",
                 "undo_chirpstack", "over"}
  /\ create # "over" => row = "none"
  /\ \A d \in Deletes : delete[d] \notin {"check", "over", "conflict"} => row # "none"
  /\ \A d \in Deletes : delete[d] = "user" => row = "deleted"

(* What the row can rely on in RabbitMQ                                     *)
NamespaceInv ==
  /\ RequestsInv
  /\ create = "commit" => namespace = "granted"
  /\ row = "present" => namespace = "granted"

(* What the row can rely on in ChirpStack                                   *)
ChirpStackInv ==
  /\ RequestsInv
  /\ create \in {"user", "permissions", "commit"} => chirpstack
  /\ row = "present" /\ (\A d \in Deletes : delete[d] # "row") => chirpstack

(* The conditions of ContainerGoesWithRow, but the last                     *)
Plain ==
  /\ Without({"deadline", "crash"})
  /\ \A j \in Jobs \ {FirstJob} : status[j] = "absent"

(* Why no container can come up behind a DELETE: a request past its check   *)
(* has seen the only job finished, and a finished job has no handler.       *)
ContainerInv ==
  /\ row \in {"none", "present", "deleted"}
  /\ delete \in [Deletes -> Steps]
  /\ status \in [Jobs -> Active \cup Terminal \cup {"absent"}]
  /\ abandoned = NoCalls
  /\ post[FirstJob] # "insert"
  /\ row = "none" <=> status[FirstJob] = "absent"
  /\ handler # "idle" => working # {}
  /\ working \subseteq {FirstJob}
  /\ working # {} => status[FirstJob] \in Active
  /\ row = "deleted" \/ (\E d \in Deletes : delete[d] \notin {"check", "over", "conflict"})
       => status[FirstJob] \in Terminal
  /\ row # "present" \/ (\E d \in Deletes : delete[d] \in {"chirpstack", "row", "user"})
       => ~container
-----------------------------------------------------------------------------
LEMMA RequestsInit == Init => RequestsInv
  BY DEF Init, RequestsInv, Steps

(* No step is blind to the faults that have happened.                       *)
LEMMA SeenGrows == [Next]_vars => seen \subseteq seen'
  BY DEF Next, vars, CreateApplication, CreateInChirpStack, PutUser, SetPermissions,
         CommitCreate, UndoUser, UndoChirpStack, FindForProvision, RequestProvision, Worker,
         StartAttempt, EndAttempt, CrashWorker, Settle, DeleteApplication, DeleteChecks,
         Deprovision, DeprovisionTimesOut, DeleteInChirpStack, DeleteRow, DeleteUser,
         CrashRequest, FindApplication, Provision, ProvisionTimesOut, AbandonedProvision,
         AbandonedDeprovision, Remote, Commit, Fault, NoFault

(* No step of any actor breaks RequestsInv, unless it is a commit whose     *)
(* success is reported as a failure.                                        *)
LEMMA RequestsNext ==
  ASSUME "commit" \notin seen', RequestsInv, [Next]_vars
  PROVE  RequestsInv'
<1> USE DEF RequestsInv, Steps
<1>1. CASE CreateApplication
  <2> PICK o \in Outcomes : \/ CreateInChirpStack(o) \/ PutUser(o) \/ SetPermissions(o)
                            \/ CommitCreate(o) \/ UndoUser(o) \/ UndoChirpStack(o)
    BY <1>1 DEF CreateApplication
  <2>1. CASE CreateInChirpStack(o)
    BY <2>1 DEF CreateInChirpStack
  <2>2. CASE PutUser(o)
    BY <2>2 DEF PutUser
  <2>3. CASE SetPermissions(o)
    BY <2>3 DEF SetPermissions
  <2>4. CASE CommitCreate(o)
    BY <2>4 DEF CommitCreate, Commit, Fault, Outcomes
  <2>5. CASE UndoUser(o)
    BY <2>5 DEF UndoUser
  <2>6. CASE UndoChirpStack(o)
    BY <2>6 DEF UndoChirpStack
  <2> QED BY <2>1, <2>2, <2>3, <2>4, <2>5, <2>6
<1>2. ASSUME NEW d \in Deletes, DeleteApplication(d) PROVE RequestsInv'
  <2>1. CASE DeleteChecks(d)
    BY <2>1 DEF DeleteChecks, held
  <2>2. CASE Deprovision(d)
    BY <2>2 DEF Deprovision
  <2>3. CASE DeprovisionTimesOut(d)
    BY <2>3 DEF DeprovisionTimesOut, held
  <2>4. ASSUME NEW o \in Outcomes, DeleteInChirpStack(d, o) PROVE RequestsInv'
    BY <2>4 DEF DeleteInChirpStack
  <2>5. ASSUME NEW o \in Outcomes, DeleteRow(d, o) PROVE RequestsInv'
    BY <2>5 DEF DeleteRow, Commit, Fault
  <2>6. ASSUME NEW o \in Outcomes, DeleteUser(d, o) PROVE RequestsInv'
    BY <2>6 DEF DeleteUser
  <2> QED BY <1>2, <2>1, <2>2, <2>3, <2>4, <2>5, <2>6 DEF DeleteApplication
<1>3. CASE CrashRequest
  BY <1>3 DEF CrashRequest, held
<1>4. ASSUME NEW j \in Jobs, FindForProvision(j) \/ RequestProvision(j) \/ Worker(j)
      PROVE  UNCHANGED <<row, create, delete>>
  BY <1>4 DEF FindForProvision, RequestProvision, Worker, StartAttempt, EndAttempt,
              CrashWorker, Settle, held, requests
<1>5. CASE FindApplication \/ Provision \/ ProvisionTimesOut \/ AbandonedProvision
           \/ AbandonedDeprovision \/ UNCHANGED vars
  BY <1>5 DEF FindApplication, Provision, ProvisionTimesOut, AbandonedProvision,
              AbandonedDeprovision, held, requests, vars
<1> QED BY <1>1, <1>2, <1>3, <1>4, <1>5 DEF Next
-----------------------------------------------------------------------------
(* "Under no circumstances is an application persisted without a namespace  *)
(* in the broker": whatever is refused, lost or dies, unless a commit that  *)
(* succeeds is reported as failed, a row of create_application has its      *)
(* RabbitMQ user with permissions until the row is deleted.                 *)
THEOREM NamespaceOfRow == Spec => []PersistedHasNamespace
<1> DEFINE Inv == "commit" \notin seen => NamespaceInv
<1>1. Init => Inv
  BY RequestsInit DEF Init, NamespaceInv
<1>2. Inv /\ [Next]_vars => Inv'
  <2> SUFFICES ASSUME NamespaceInv, [Next]_vars, "commit" \notin seen' PROVE NamespaceInv'
    BY SeenGrows
  <2> DEFINE Granted == /\ create = "commit" => namespace = "granted"
                        /\ row = "present" => namespace = "granted"
  <2>0. RequestsInv /\ RequestsInv' /\ Granted
    BY RequestsNext DEF NamespaceInv
  <2>1. ASSUME CreateApplication PROVE Granted'
    <3> PICK o \in Outcomes : \/ CreateInChirpStack(o) \/ PutUser(o) \/ SetPermissions(o)
                              \/ CommitCreate(o) \/ UndoUser(o) \/ UndoChirpStack(o)
      BY <2>1 DEF CreateApplication
    <3>1. CASE CreateInChirpStack(o) \/ PutUser(o) \/ UndoUser(o) \/ UndoChirpStack(o)
      BY <2>0, <3>1 DEF CreateInChirpStack, PutUser, UndoUser, UndoChirpStack, RequestsInv
    <3>2. CASE SetPermissions(o)
      BY <2>0, <3>2 DEF SetPermissions, RequestsInv
    <3>3. CASE CommitCreate(o)
      BY <2>0, <3>3 DEF CommitCreate, Commit, Fault, RequestsInv
    <3> QED BY <3>1, <3>2, <3>3
  <2>2. ASSUME NEW d \in Deletes, DeleteApplication(d) PROVE Granted'
    <3>1. ASSUME NEW o \in Outcomes, DeleteInChirpStack(d, o) \/ DeleteRow(d, o) PROVE Granted'
      BY <2>0, <3>1 DEF DeleteInChirpStack, DeleteRow
    <3>2. ASSUME NEW o \in Outcomes, DeleteUser(d, o) PROVE Granted'
      BY <2>0, <3>2 DEF DeleteUser, RequestsInv
    <3>3. CASE DeleteChecks(d) \/ Deprovision(d) \/ DeprovisionTimesOut(d)
      BY <2>0, <3>3 DEF DeleteChecks, Deprovision, DeprovisionTimesOut, held
    <3> QED BY <2>2, <3>1, <3>2, <3>3 DEF DeleteApplication
  <2>3. ASSUME CrashRequest PROVE Granted'
    BY <2>0, <2>3 DEF CrashRequest, held
  <2>4. ASSUME NEW j \in Jobs, FindForProvision(j) \/ RequestProvision(j) \/ Worker(j)
        PROVE  UNCHANGED <<row, create, namespace>>
    BY <2>4 DEF FindForProvision, RequestProvision, Worker, StartAttempt, EndAttempt,
                CrashWorker, Settle, held, requests
  <2>5. ASSUME FindApplication \/ Provision \/ ProvisionTimesOut \/ AbandonedProvision
               \/ AbandonedDeprovision \/ UNCHANGED vars
        PROVE  UNCHANGED <<row, create, namespace>>
    BY <2>5 DEF FindApplication, Provision, ProvisionTimesOut, AbandonedProvision,
                AbandonedDeprovision, held, requests, vars
  <2>6. Granted'
    BY <2>0, <2>1, <2>2, <2>3, <2>4, <2>5 DEF Next
  <2> QED BY <2>0, <2>6 DEF NamespaceInv
<1>3. Inv => PersistedHasNamespace
  BY DEF NamespaceInv, PersistedHasNamespace, Without
<1> QED BY <1>1, <1>2, <1>3, PTL DEF Spec
-----------------------------------------------------------------------------
(* With calls that may be refused, or time out while they still run, but no *)
(* lost reply, failing database or dying process, a DELETE that stopped     *)
(* half-way finds the application in ChirpStack when it is repeated.        *)
THEOREM DeletionRepeats == Spec => []DeletionCanBeRepeated
<1> DEFINE Harmful == {"lost", "database", "commit", "crash"}
           Inv == Without(Harmful) => ChirpStackInv
<1>1. Init => Inv
  BY RequestsInit DEF Init, ChirpStackInv
<1>2. Inv /\ [Next]_vars => Inv'
  <2> SUFFICES ASSUME ChirpStackInv, [Next]_vars, Without(Harmful)' PROVE ChirpStackInv'
    BY SeenGrows DEF Without
  <2> USE DEF Without
  <2> DEFINE Kept == /\ create \in {"user", "permissions", "commit"} => chirpstack
                     /\ row = "present" /\ (\A d \in Deletes : delete[d] # "row") => chirpstack
  <2>0. RequestsInv /\ RequestsInv' /\ Kept
    BY RequestsNext DEF ChirpStackInv
  <2>1. ASSUME CreateApplication PROVE Kept'
    <3> PICK o \in Outcomes : \/ CreateInChirpStack(o) \/ PutUser(o) \/ SetPermissions(o)
                              \/ CommitCreate(o) \/ UndoUser(o) \/ UndoChirpStack(o)
      BY <2>1 DEF CreateApplication
    <3>1. CASE CreateInChirpStack(o) \/ PutUser(o) \/ SetPermissions(o) \/ UndoUser(o)
      BY <2>0, <3>1 DEF CreateInChirpStack, PutUser, SetPermissions, UndoUser, RequestsInv, Outcomes
    <3>2. CASE CommitCreate(o)
      BY <2>0, <3>2 DEF CommitCreate, Commit, Fault, RequestsInv
    <3>3. CASE UndoChirpStack(o)
      BY <2>0, <3>3 DEF UndoChirpStack, RequestsInv
    <3> QED BY <3>1, <3>2, <3>3
  <2>2. ASSUME NEW d \in Deletes, DeleteApplication(d) PROVE Kept'
    <3>1. ASSUME NEW o \in Outcomes, DeleteInChirpStack(d, o) PROVE Kept'
      BY <2>0, <3>1 DEF DeleteInChirpStack, Remote, Fault, RequestsInv, Outcomes
    <3>2. ASSUME NEW o \in Outcomes, DeleteRow(d, o) PROVE Kept'
      BY <2>0, <3>2 DEF DeleteRow, Commit, Fault, RequestsInv
    <3>3. ASSUME NEW o \in Outcomes, DeleteUser(d, o) PROVE Kept'
      BY <2>0, <3>3 DEF DeleteUser, RequestsInv
    <3>4. CASE DeleteChecks(d)
      BY <2>0, <3>4 DEF DeleteChecks, held, RequestsInv
    <3>5. CASE Deprovision(d)
      BY <2>0, <3>5 DEF Deprovision, RequestsInv
    <3>6. CASE DeprovisionTimesOut(d)
      BY <2>0, <3>6 DEF DeprovisionTimesOut, held, RequestsInv
    <3> QED BY <2>2, <3>1, <3>2, <3>3, <3>4, <3>5, <3>6 DEF DeleteApplication
  <2>3. ~CrashRequest
    BY DEF CrashRequest, Fault
  <2>4. ASSUME NEW j \in Jobs, FindForProvision(j) \/ RequestProvision(j) \/ Worker(j)
        PROVE  UNCHANGED <<row, create, delete, chirpstack>>
    BY <2>4 DEF FindForProvision, RequestProvision, Worker, StartAttempt, EndAttempt,
                CrashWorker, Settle, held, requests
  <2>5. ASSUME FindApplication \/ Provision \/ ProvisionTimesOut \/ AbandonedProvision
               \/ AbandonedDeprovision \/ UNCHANGED vars
        PROVE  UNCHANGED <<row, create, delete, chirpstack>>
    BY <2>5 DEF FindApplication, Provision, ProvisionTimesOut, AbandonedProvision,
                AbandonedDeprovision, held, requests, vars
  <2>6. Kept'
    BY <2>0, <2>1, <2>2, <2>3, <2>4, <2>5 DEF Next
  <2> QED BY <2>0, <2>6 DEF ChirpStackInv
<1>3. Inv => DeletionCanBeRepeated
  BY DEF ChirpStackInv, DeletionCanBeRepeated, Without
<1> QED BY <1>1, <1>2, <1>3, PTL DEF Spec
-----------------------------------------------------------------------------
LEMMA ContainerInit == Init => ContainerInv
  BY ApplicationConstants
     DEF Init, ContainerInv, Steps, Active, Terminal, NoCalls, Lifecycle!Init

(* A job that has been requested is never absent again.                     *)
LEMMA StaysRequested ==
  ASSUME [Next]_vars, NEW j \in Jobs, status'[j] = "absent"
  PROVE  status[j] = "absent"
<1>1. ASSUME NEW k \in Jobs, Settle(k) PROVE status[j] = "absent"
  BY <1>1 DEF Settle, Lifecycle!Settle, Terminal
<1>2. ASSUME NEW k \in Jobs, Lifecycle!Request(k) PROVE status[j] = "absent"
  BY <1>2 DEF Lifecycle!Request
<1> QED
  BY <1>1, <1>2, ApplicationConstants
     DEF Next, vars, CreateApplication, CreateInChirpStack, PutUser, SetPermissions,
         CommitCreate, UndoUser, UndoChirpStack, FindForProvision, RequestProvision, Worker,
         StartAttempt, EndAttempt, CrashWorker, DeleteApplication, DeleteChecks,
         Deprovision, DeprovisionTimesOut, DeleteInChirpStack, DeleteRow, DeleteUser,
         CrashRequest, FindApplication, Provision, ProvisionTimesOut, AbandonedProvision,
         AbandonedDeprovision, Lifecycle!Attempt, Lifecycle!Stop, jobs

(* The worker and the status consumer                                       *)
LEMMA ContainerWorker ==
  ASSUME Plain, Plain', ContainerInv, NEW j \in Jobs, Worker(j)
  PROVE  ContainerInv'
<1> USE ApplicationConstants DEF ContainerInv, held, requests, Plain, Without
<1>1. CASE StartAttempt(j)
  BY <1>1 DEF StartAttempt, Lifecycle!Attempt, Lifecycle!IsActive, Active, Terminal, MarkInstance
<1>2. CASE EndAttempt(j)
  BY <1>2 DEF EndAttempt, Lifecycle!Stop
<1>3. ~CrashWorker(j)
  BY DEF CrashWorker, Fault
<1>4. CASE Settle(j)
  <2>1. status' = [status EXCEPT ![j] = verdict[j]] /\ verdict[j] \in Terminal
    BY <1>4 DEF Settle, Lifecycle!Settle
  <2>2. status[j] # "absent" /\ j \notin working /\ UNCHANGED <<working, held, requests, handler, abandoned>>
    BY <1>4 DEF Settle, Lifecycle!Settle, Lifecycle!IsActive
  <2> QED BY <2>1, <2>2 DEF Active, Terminal
<1> QED BY <1>1, <1>2, <1>3, <1>4 DEF Worker

(* The creation and POST /provision, which can write the first job only     *)
(* while there is no row                                                    *)
LEMMA ContainerRequest ==
  ASSUME Plain, Plain', ContainerInv,
         CreateApplication \/ \E j \in Jobs : FindForProvision(j) \/ RequestProvision(j)
  PROVE  ContainerInv'
<1> USE DEF ContainerInv, held, jobs
<1>1. ASSUME NEW j \in Jobs, FindForProvision(j) \/ RequestProvision(j) PROVE ContainerInv'
  <2>1. CASE FindForProvision(j)
    BY <2>1 DEF FindForProvision
  <2>2. CASE RequestProvision(j)
    <3>1. j # FirstJob => ~Lifecycle!Request(j)
      BY ApplicationConstants DEF Lifecycle!Request, Plain
    <3> QED BY <2>2, <3>1 DEF RequestProvision
  <2> QED BY <1>1, <2>1, <2>2
<1> SUFFICES ASSUME CreateApplication PROVE ContainerInv'
  BY <1>1
<1>2. PICK o \in Outcomes : \/ CreateInChirpStack(o) \/ PutUser(o) \/ SetPermissions(o)
                            \/ CommitCreate(o) \/ UndoUser(o) \/ UndoChirpStack(o)
  BY DEF CreateApplication
<1>3. CASE CreateInChirpStack(o) \/ PutUser(o) \/ SetPermissions(o) \/ UndoUser(o)
           \/ UndoChirpStack(o)
  BY <1>3 DEF CreateInChirpStack, PutUser, SetPermissions, UndoUser, UndoChirpStack
<1>4. CASE CommitCreate(o) /\ o # "refused"
  <2>1. /\ status[FirstJob] = "absent"
        /\ status' = [status EXCEPT ![FirstJob] = "pending"]
        /\ row' = "present"
        /\ UNCHANGED <<delete, post, working, handler, abandoned, container>>
    BY <1>4 DEF CommitCreate, Lifecycle!Request
  <2>2. ~container /\ \A d \in Deletes : delete[d] \in {"check", "over", "conflict"}
    BY <2>1 DEF Terminal
  <2> QED BY <2>1, <2>2, ApplicationConstants DEF Active, Terminal
<1>5. CASE CommitCreate(o) /\ o = "refused"
  BY <1>5 DEF CommitCreate
<1> QED BY <1>2, <1>3, <1>4, <1>5

(* The steps of a DELETE                                                    *)
LEMMA ContainerDelete ==
  ASSUME Plain', ContainerInv, NEW d \in Deletes, DeleteApplication(d)
  PROVE  ContainerInv'
<1> USE DEF ContainerInv, held, jobs, Steps
<1>1. CASE DeleteChecks(d)
  <2>1. row = "present" /\ UNCHANGED <<held, status, working, post, handler, abandoned>>
    BY <1>1 DEF DeleteChecks
  <2>2. CASE \E j \in Jobs : status[j] \in Active
    BY <1>1, <2>1, <2>2 DEF DeleteChecks
  <2>3. CASE \A j \in Jobs : status[j] \notin Active
    <3>1. status[FirstJob] \in Terminal
      BY <2>1, <2>3, ApplicationConstants
    <3> QED BY <1>1, <2>1, <2>3, <3>1 DEF DeleteChecks
  <2> QED BY <2>2, <2>3
<1>2. CASE Deprovision(d)
  <2>1. ~container => ~container'
    BY <1>2, Zenon DEF Deprovision
  <2>2. \/ delete' = [delete EXCEPT ![d] = "chirpstack"] /\ ~container'
        \/ delete' = [delete EXCEPT ![d] = "over"]
    BY <1>2 DEF Deprovision
  <2>3. status[FirstJob] \in Terminal /\ UNCHANGED <<row, status, working, post, handler, abandoned>>
    BY <1>2 DEF Deprovision
  <2> QED BY <2>1, <2>2, <2>3
<1>3. ~DeprovisionTimesOut(d)
  BY DEF DeprovisionTimesOut, Fault, Plain, Without
<1>4. ASSUME NEW o \in Outcomes, DeleteInChirpStack(d, o) PROVE ContainerInv'
  BY <1>4 DEF DeleteInChirpStack
<1>5. ASSUME NEW o \in Outcomes, DeleteRow(d, o) PROVE ContainerInv'
  BY <1>5 DEF DeleteRow, Terminal
<1>6. ASSUME NEW o \in Outcomes, DeleteUser(d, o) PROVE ContainerInv'
  BY <1>6 DEF DeleteUser
<1> QED BY <1>1, <1>2, <1>3, <1>4, <1>5, <1>6 DEF DeleteApplication

(* While the job of the creation is the only one and no call outlives its   *)
(* caller, the container is gone with the application, whatever else is     *)
(* refused, lost or redelivered: the check of DELETE and the worker's       *)
(* look-up leave no room for a container behind it.                         *)
THEOREM NoContainerBehindDelete == Spec => []ContainerGoesWithRow
<1> DEFINE Inv == Plain => ContainerInv
<1>1. Init => Inv
  BY ContainerInit
<1>2. Inv /\ [Next]_vars => Inv'
  <2> SUFFICES ASSUME Inv, [Next]_vars, Plain' PROVE ContainerInv'
    OBVIOUS
  <2>1. Plain
    BY SeenGrows, StaysRequested DEF Plain, Without
  <2>2. ContainerInv
    BY <2>1
  <2>3. CASE CreateApplication \/ \E j \in Jobs : FindForProvision(j) \/ RequestProvision(j)
    BY <2>1, <2>2, <2>3, ContainerRequest
  <2>4. ASSUME NEW d \in Deletes, DeleteApplication(d) PROVE ContainerInv'
    BY <2>2, <2>4, ContainerDelete
  <2>5. ASSUME NEW j \in Jobs, Worker(j) PROVE ContainerInv'
    BY <2>1, <2>2, <2>5, ContainerWorker
  <2>6. CASE Provision
    <3>1. row = "present" /\ \A d \in Deletes : delete[d] \in {"check", "over", "conflict"}
      BY <2>2, <2>6 DEF Provision, ContainerInv, Active, Terminal
    <3> QED BY <2>2, <2>6, <3>1 DEF Provision, ContainerInv, requests
  <2>7. CASE FindApplication \/ UNCHANGED vars
    BY <2>2, <2>7 DEF FindApplication, ContainerInv, vars, held, requests, jobs
  <2>8. ~(CrashRequest \/ ProvisionTimesOut \/ AbandonedProvision \/ AbandonedDeprovision)
    BY <2>2 DEF CrashRequest, ProvisionTimesOut, AbandonedProvision, AbandonedDeprovision,
                Fault, ContainerInv, NoCalls, Plain, Without
  <2> QED BY <2>3, <2>4, <2>5, <2>6, <2>7, <2>8 DEF Next
<1>3. Inv => ContainerGoesWithRow
  BY DEF ContainerInv, ContainerGoesWithRow, NoOrphanContainer, Plain
<1> QED BY <1>1, <1>2, <1>3, PTL DEF Spec

-----------------------------------------------------------------------------
(* Until a DELETE gets past its check nothing takes the container away, and *)
(* a handler that succeeded has seen it come up.                            *)
Untouched == \A d \in Deletes : delete[d] \in {"check", "conflict"}

HonestInv == Untouched =>
  /\ abandoned.deprovision = 0
  /\ instance = "RUNNING" => container
  /\ handler = "succeeded" => container

LEMMA DeleteHonest ==
  ASSUME delete \in [Deletes -> Steps], HonestInv, NEW d \in Deletes, DeleteApplication(d)
  PROVE  HonestInv'
<1> USE DEF HonestInv, Untouched, Steps
<1>1. CASE DeleteChecks(d)
  BY <1>1 DEF DeleteChecks, held, jobs
<1>2. CASE Deprovision(d) \/ DeprovisionTimesOut(d)
           \/ \E o \in Outcomes : DeleteInChirpStack(d, o) \/ DeleteRow(d, o) \/ DeleteUser(d, o)
  <2>1. ~Untouched'
    BY <1>2 DEF Deprovision, DeprovisionTimesOut, DeleteInChirpStack, DeleteRow, DeleteUser
  <2> QED BY <2>1
<1> QED BY <1>1, <1>2 DEF DeleteApplication

LEMMA WorkerHonest ==
  ASSUME HonestInv, NEW j \in Jobs, Worker(j)
  PROVE  HonestInv'
<1> USE DEF HonestInv, Untouched, held, requests
<1>1. CASE StartAttempt(j)
  <2>1. UNCHANGED <<container, delete, abandoned>> /\ handler' # "succeeded"
        /\ (instance' = "RUNNING" => instance = "RUNNING")
    BY <1>1 DEF StartAttempt, MarkInstance, requests
  <2> QED BY <2>1
<1>2. CASE EndAttempt(j)
  <2>1. UNCHANGED <<container, delete, abandoned>> /\ handler' = "idle"
        /\ (instance' = "RUNNING" => instance = "RUNNING" \/ handler = "succeeded")
    BY <1>2 DEF EndAttempt, MarkInstance, requests
  <2> QED BY <2>1
<1>3. CASE CrashWorker(j)
  <2>1. UNCHANGED <<container, instance, delete>> /\ handler' = "idle"
        /\ (abandoned' = abandoned \/ abandoned' = [abandoned EXCEPT !.provision = @ + 1])
    BY <1>3 DEF CrashWorker
  <2>2. CASE abandoned' = abandoned
    BY <2>1, <2>2
  <2>3. CASE abandoned' = [abandoned EXCEPT !.provision = @ + 1]
    BY <2>1, <2>3
  <2> QED BY <2>1, <2>2, <2>3
<1>4. CASE Settle(j)
  BY <1>4 DEF Settle
<1> QED BY <1>1, <1>2, <1>3, <1>4 DEF Worker

LEMMA CallsHonest ==
  ASSUME HonestInv,
         Provision \/ ProvisionTimesOut \/ AbandonedProvision \/ AbandonedDeprovision
  PROVE  HonestInv'
<1> USE DEF HonestInv, Untouched, held, requests
<1>1. CASE Provision
  <2>1. UNCHANGED <<instance, delete, abandoned>>
    BY <1>1 DEF Provision
  <2>2. CASE container' = TRUE
    BY <2>1, <2>2
  <2>3. CASE container' \in {TRUE, container} /\ handler' \in {"pending", "failed"}
    <3>1. container => container'
      BY <2>3, Zenon
    <3>2. handler' # "succeeded"
      BY <2>3
    <3> QED BY <2>1, <3>1, <3>2
  <2> QED BY <1>1, <2>2, <2>3, Zenon DEF Provision
<1>2. CASE ProvisionTimesOut
  BY <1>2 DEF ProvisionTimesOut
<1>3. CASE AbandonedProvision
  <2>1. container => container'
    BY <1>3, Zenon DEF AbandonedProvision
  <2>2. UNCHANGED <<instance, delete, handler>> /\ abandoned'.deprovision = abandoned.deprovision
    BY <1>3 DEF AbandonedProvision, jobs
  <2> QED BY <2>1, <2>2
<1>4. CASE AbandonedDeprovision
  <2>1. ~Untouched /\ delete' = delete
    BY <1>4 DEF AbandonedDeprovision
  <2> QED BY <2>1
<1> QED BY <1>1, <1>2, <1>3, <1>4

(* application_instances does not say RUNNING of an application that lost   *)
(* its container, unless a DELETE got past its check: no crash, deadline or *)
(* repetition in the worker makes it lie.                                   *)
THEOREM RunningIsHonest == Spec => []RunningHasContainer
<1> DEFINE Inv == delete \in [Deletes -> Steps] /\ HonestInv
<1>1. Init => Inv
  BY DEF Init, HonestInv, NoCalls, Steps
<1>2. Inv /\ [Next]_vars => Inv'
  <2> SUFFICES ASSUME Inv, [Next]_vars PROVE Inv'
    OBVIOUS
  <2>1. delete' \in [Deletes -> Steps]
    BY DEF Next, vars, CreateApplication, CreateInChirpStack, PutUser, SetPermissions,
           CommitCreate, UndoUser, UndoChirpStack, FindForProvision, RequestProvision, Worker,
           StartAttempt, EndAttempt, CrashWorker, Settle, DeleteApplication, DeleteChecks,
           Deprovision, DeprovisionTimesOut, DeleteInChirpStack, DeleteRow, DeleteUser,
           CrashRequest, FindApplication, Provision, ProvisionTimesOut, AbandonedProvision,
           AbandonedDeprovision, Steps, requests
  <2>2. CASE CreateApplication
    <3>1. UNCHANGED <<delete, container, handler, abandoned>> /\ instance' \in {instance, "PENDING"}
      BY <2>2 DEF CreateApplication, CreateInChirpStack, PutUser, SetPermissions, CommitCreate,
                  UndoUser, UndoChirpStack, jobs
    <3> QED BY <2>1, <3>1 DEF HonestInv, Untouched
  <2>3. ASSUME NEW j \in Jobs, FindForProvision(j) \/ RequestProvision(j) PROVE Inv'
    BY <2>1, <2>3 DEF FindForProvision, RequestProvision, HonestInv, Untouched, held, jobs
  <2>4. CASE CrashRequest
    <3>1. CASE delete' = delete /\ abandoned' = abandoned
      BY <2>1, <2>4, <3>1 DEF CrashRequest, HonestInv, Untouched, held, jobs
    <3>2. CASE \E d \in Deletes : delete' = [delete EXCEPT ![d] = "over"]
      BY <2>1, <3>2 DEF HonestInv, Untouched
    <3> QED BY <2>4, <3>1, <3>2 DEF CrashRequest
  <2>5. CASE FindApplication \/ UNCHANGED vars
    BY <2>1, <2>5 DEF FindApplication, HonestInv, Untouched, vars, held, requests, jobs
  <2> QED
    BY <2>1, <2>2, <2>3, <2>4, <2>5, DeleteHonest, WorkerHonest, CallsHonest DEF Next
<1>3. Inv => RunningHasContainer
  BY DEF HonestInv, Untouched, RunningHasContainer, Quiet
<1> QED BY <1>1, <1>2, <1>3, PTL DEF Spec

-----------------------------------------------------------------------------
(* The types, request by request and then the worker                        *)
LEMMA FaultTypes ==
  ASSUME faults \in 0..MaxFaults, seen \subseteq Faults,
         NoFault \/ (\E k : Fault(k)) \/ UNCHANGED <<faults, seen>>
  PROVE  faults' \in 0..MaxFaults /\ seen' \subseteq Faults
BY ApplicationConstants DEF NoFault, Fault

LEMMA CallTypes ==
  ASSUME faults \in 0..MaxFaults, seen \subseteq Faults, NEW o, Remote(o) \/ Commit(o)
  PROVE  faults' \in 0..MaxFaults /\ seen' \subseteq Faults
<1>1. NoFault \/ \E k : Fault(k)
  BY DEF Remote, Commit
<1> QED BY <1>1, FaultTypes

LEMMA CreateTypes ==
  ASSUME TypeOK, CreateApplication PROVE TypeOK'
<1> USE DEF TypeOK, jobs
<1> PICK o \in Outcomes : \/ CreateInChirpStack(o) \/ PutUser(o) \/ SetPermissions(o)
                          \/ CommitCreate(o) \/ UndoUser(o) \/ UndoChirpStack(o)
  BY DEF CreateApplication
<1>0. faults' \in 0..MaxFaults /\ seen' \subseteq Faults
  BY CallTypes DEF CreateInChirpStack, PutUser, SetPermissions, CommitCreate, UndoUser, UndoChirpStack
<1>1. CASE CreateInChirpStack(o)
  BY <1>0, <1>1 DEF CreateInChirpStack
<1>2. CASE PutUser(o)
  BY <1>0, <1>2 DEF PutUser
<1>3. CASE SetPermissions(o)
  BY <1>0, <1>3 DEF SetPermissions
<1>4. CASE CommitCreate(o)
  <2>1. status' \in [Jobs -> Active \cup Terminal \cup {"absent"}] /\ UNCHANGED <<attempts, working>>
    BY <1>4, ApplicationConstants DEF CommitCreate, Lifecycle!Request, Active
  <2>2. /\ row' \in {"none", "present", "deleted"}
        /\ instance' \in {"none", "PENDING", "PROVISIONING", "RUNNING", "ERROR"}
        /\ instance' = "none" <=> row' # "present"
    BY <1>4 DEF CommitCreate
  <2> QED BY <1>0, <1>4, <2>1, <2>2 DEF CommitCreate
<1>5. CASE UndoUser(o)
  BY <1>0, <1>5 DEF UndoUser
<1>6. CASE UndoChirpStack(o)
  BY <1>0, <1>6 DEF UndoChirpStack
<1> QED BY <1>1, <1>2, <1>3, <1>4, <1>5, <1>6

LEMMA DeleteTypes ==
  ASSUME TypeOK, NEW d \in Deletes, DeleteApplication(d) PROVE TypeOK'
<1> USE DEF TypeOK, held, jobs
<1>1. CASE DeleteChecks(d)
  BY <1>1 DEF DeleteChecks
<1>2. CASE Deprovision(d)
  <2>1. faults' \in 0..MaxFaults /\ seen' \subseteq Faults
    BY <1>2, FaultTypes DEF Deprovision
  <2>2. container' \in BOOLEAN
    BY <1>2, Zenon DEF Deprovision
  <2>3. delete' \in [Deletes -> Steps]
    BY <1>2 DEF Deprovision, Steps
  <2>4. /\ UNCHANGED <<row, instance, chirpstack, namespace, create, post, abandoned>>
        /\ UNCHANGED <<status, attempts, working, verdict, handler>>
    BY <1>2 DEF Deprovision
  <2> QED BY <2>1, <2>2, <2>3, <2>4 DEF Steps
<1>3. CASE DeprovisionTimesOut(d)
  <2>1. faults' \in 0..MaxFaults /\ seen' \subseteq Faults
    BY <1>3, FaultTypes DEF DeprovisionTimesOut
  <2> QED BY <1>3, <2>1 DEF DeprovisionTimesOut
<1>4. ASSUME NEW o \in Outcomes, DeleteInChirpStack(d, o) PROVE TypeOK'
  <2>1. faults' \in 0..MaxFaults /\ seen' \subseteq Faults
    BY <1>4, CallTypes, FaultTypes DEF DeleteInChirpStack
  <2>2. chirpstack' \in BOOLEAN
    BY <1>4, Zenon DEF DeleteInChirpStack
  <2>3. delete' \in [Deletes -> Steps]
    BY <1>4 DEF DeleteInChirpStack, Steps
  <2> QED BY <1>4, <2>1, <2>2, <2>3 DEF DeleteInChirpStack, Steps
<1>5. ASSUME NEW o \in Outcomes, DeleteRow(d, o) PROVE TypeOK'
  <2>1. faults' \in 0..MaxFaults /\ seen' \subseteq Faults
    BY <1>5, CallTypes DEF DeleteRow
  <2> QED BY <1>5, <2>1 DEF DeleteRow
<1>6. ASSUME NEW o \in Outcomes, DeleteUser(d, o) PROVE TypeOK'
  <2>1. faults' \in 0..MaxFaults /\ seen' \subseteq Faults
    BY <1>6, CallTypes DEF DeleteUser
  <2> QED BY <1>6, <2>1 DEF DeleteUser
<1> QED BY <1>1, <1>2, <1>3, <1>4, <1>5, <1>6 DEF DeleteApplication

LEMMA WorkerTypes ==
  ASSUME TypeOK, NEW j \in Jobs, Worker(j) PROVE TypeOK'
<1> USE DEF TypeOK, held, requests
<1>m. ASSUME NEW s \in {"PROVISIONING", "RUNNING", "ERROR"}, NEW n, MarkInstance(s, n), row' = row
      PROVE  /\ instance' \in {"none", "PENDING", "PROVISIONING", "RUNNING", "ERROR"}
             /\ instance' = "none" <=> row' # "present"
  BY <1>m DEF MarkInstance
<1>1. CASE StartAttempt(j)
  <2>1. faults' \in 0..MaxFaults /\ seen' \subseteq Faults
    BY <1>1, FaultTypes DEF StartAttempt
  <2>2. /\ instance' \in {"none", "PENDING", "PROVISIONING", "RUNNING", "ERROR"}
        /\ instance' = "none" <=> row' # "present"
    BY <1>1, <1>m DEF StartAttempt
  <2>3. attempts' \in [Jobs -> Nat] /\ status' = status
    BY <1>1 DEF StartAttempt, Lifecycle!Attempt
  <2>4. /\ working' \subseteq Jobs /\ handler' \in {"idle", "find"}
        /\ handler' = "idle" <=> working' = {}
        /\ verdict' \in [Jobs -> Terminal \cup {"none", "pending"}]
    BY <1>1 DEF StartAttempt, Lifecycle!Attempt, Terminal
  <2> QED BY <1>1, <2>1, <2>2, <2>3, <2>4 DEF StartAttempt
<1>2. CASE EndAttempt(j)
  <2>1. PICK v \in Terminal \cup {"pending"} :
          /\ verdict' = [verdict EXCEPT ![j] = v]
          /\ IF v = "pending" THEN UNCHANGED instance
             ELSE MarkInstance(IF v = "succeeded" THEN "RUNNING" ELSE "ERROR", attempts[j])
    BY <1>2 DEF EndAttempt, Terminal
  <2>2. /\ instance' \in {"none", "PENDING", "PROVISIONING", "RUNNING", "ERROR"}
        /\ instance' = "none" <=> row' # "present"
    BY <1>2, <1>m, <2>1 DEF EndAttempt
  <2>3. working' = {} /\ handler' = "idle" /\ UNCHANGED <<status, attempts>>
    BY <1>2 DEF EndAttempt, Lifecycle!Stop
  <2> QED BY <1>2, <2>1, <2>2, <2>3 DEF EndAttempt
<1>3. CASE CrashWorker(j)
  <2>1. faults' \in 0..MaxFaults /\ seen' \subseteq Faults
    BY <1>3, FaultTypes DEF CrashWorker
  <2>2. working' = {} /\ handler' = "idle" /\ UNCHANGED <<status, attempts>>
    BY <1>3 DEF CrashWorker, Lifecycle!Stop
  <2>3. abandoned' \in [provision: Nat, deprovision: Nat]
    BY <1>3 DEF CrashWorker
  <2> QED BY <1>3, <2>1, <2>2, <2>3 DEF CrashWorker
<1>4. CASE Settle(j)
  <2>1. status' \in [Jobs -> Active \cup Terminal \cup {"absent"}] /\ UNCHANGED <<attempts, working>>
    BY <1>4 DEF Settle, Lifecycle!Settle
  <2> QED BY <1>4, <2>1 DEF Settle
<1> QED BY <1>1, <1>2, <1>3, <1>4 DEF Worker

(* The variables of Application have their types, and a handler runs        *)
(* exactly when a job is being worked on.                                   *)
THEOREM ApplicationTypes == Spec => []TypeOK
<1>1. Init => TypeOK
  <2> SUFFICES ASSUME Init PROVE TypeOK
    OBVIOUS
  <2>1. status \in [Jobs -> Active \cup Terminal \cup {"absent"}] /\ attempts \in [Jobs -> Nat]
        /\ working = {}
    BY DEF Init, Lifecycle!Init
  <2>2. faults \in 0..MaxFaults /\ seen \subseteq Faults
    BY ApplicationConstants DEF Init
  <2> QED BY <2>1, <2>2 DEF Init, TypeOK, NoCalls
<1>2. TypeOK /\ [Next]_vars => TypeOK'
  <2> SUFFICES ASSUME TypeOK, [Next]_vars PROVE TypeOK'
    OBVIOUS
  <2> USE DEF TypeOK, held, requests, jobs
  <2>1. ASSUME NEW j \in Jobs, FindForProvision(j) PROVE TypeOK'
    BY <2>1 DEF FindForProvision
  <2>2. ASSUME NEW j \in Jobs, RequestProvision(j) PROVE TypeOK'
    <3>1. status' \in [Jobs -> Active \cup Terminal \cup {"absent"}] /\ UNCHANGED <<attempts, working>>
      BY <2>2 DEF RequestProvision, Lifecycle!Request, Active
    <3> QED BY <2>2, <3>1 DEF RequestProvision
  <2>3. CASE CrashRequest
    <3>1. faults' \in 0..MaxFaults /\ seen' \subseteq Faults
      BY <2>3, FaultTypes DEF CrashRequest
    <3> QED BY <2>3, <3>1 DEF CrashRequest
  <2>4. CASE FindApplication
    BY <2>4 DEF FindApplication
  <2>5. CASE Provision
    <3>1. faults' \in 0..MaxFaults /\ seen' \subseteq Faults
      BY <2>5, FaultTypes DEF Provision
    <3>2. container' \in BOOLEAN
      BY <2>5, Zenon DEF Provision
    <3> QED BY <2>5, <3>1, <3>2 DEF Provision
  <2>6. CASE ProvisionTimesOut
    <3>1. faults' \in 0..MaxFaults /\ seen' \subseteq Faults
      BY <2>6, FaultTypes DEF ProvisionTimesOut
    <3> QED BY <2>6, <3>1 DEF ProvisionTimesOut
  <2>7. CASE AbandonedProvision
    <3>1. container' \in BOOLEAN
      BY <2>7, Zenon DEF AbandonedProvision
    <3>2. abandoned.provision - 1 \in Nat /\ abandoned' = [abandoned EXCEPT !.provision = @ - 1]
      BY <2>7 DEF AbandonedProvision
    <3>3. abandoned' \in [provision: Nat, deprovision: Nat]
      BY <3>2
    <3>4. /\ UNCHANGED <<row, instance, chirpstack, namespace, create, delete, post>>
          /\ UNCHANGED <<status, attempts, working, verdict, handler, faults, seen>>
      BY <2>7 DEF AbandonedProvision
    <3> QED BY <3>1, <3>3, <3>4
  <2>8. CASE AbandonedDeprovision
    <3>1. container' \in BOOLEAN
      BY <2>8, Zenon DEF AbandonedDeprovision
    <3>2. abandoned.deprovision - 1 \in Nat /\ abandoned' = [abandoned EXCEPT !.deprovision = @ - 1]
      BY <2>8 DEF AbandonedDeprovision
    <3>3. abandoned' \in [provision: Nat, deprovision: Nat]
      BY <3>2
    <3>4. /\ UNCHANGED <<row, instance, chirpstack, namespace, create, delete, post>>
          /\ UNCHANGED <<status, attempts, working, verdict, handler, faults, seen>>
      BY <2>8 DEF AbandonedDeprovision
    <3> QED BY <3>1, <3>3, <3>4
  <2>9. CASE UNCHANGED vars
    BY <2>9 DEF vars
  <2> QED
    BY <2>1, <2>2, <2>3, <2>4, <2>5, <2>6, <2>7, <2>8, <2>9, CreateTypes, DeleteTypes, WorkerTypes DEF Next
<1> QED BY <1>1, <1>2, PTL DEF Spec

-----------------------------------------------------------------------------
(* After at most one fault, a compensation that follows it is not refused:  *)
(* what ChirpStack has without a row is still in the hands of the creation. *)
OneFault == faults <= 1 /\ Without({"lost", "crash"})
Undoing == {"undo_user", "undo_chirpstack"}

OrphanInv ==
  /\ create \in {"chirpstack", "user", "permissions", "commit"} => row = "none"
  /\ create = "chirpstack" => ~chirpstack
  /\ create \in Undoing => faults >= 1
  /\ row = "none" => \A d \in Deletes : delete[d] = "check"
  /\ \A d \in Deletes : delete[d] = "row" => ~chirpstack
  /\ chirpstack /\ row # "present" => create \in {"user", "permissions", "commit"} \cup Undoing

LEMMA FaultsGrow == TypeOK /\ [Next]_vars => faults <= faults'
<1> SUFFICES ASSUME TypeOK, [Next]_vars PROVE faults <= faults'
  OBVIOUS
<1>1. faults \in Nat
  BY ApplicationConstants DEF TypeOK
<1>2. UNCHANGED faults \/ faults' = faults + 1
  BY DEF Next, vars, CreateApplication, CreateInChirpStack, PutUser, SetPermissions,
         CommitCreate, UndoUser, UndoChirpStack, FindForProvision, RequestProvision, Worker,
         StartAttempt, EndAttempt, CrashWorker, Settle, DeleteApplication, DeleteChecks,
         Deprovision, DeprovisionTimesOut, DeleteInChirpStack, DeleteRow, DeleteUser,
         CrashRequest, FindApplication, Provision, ProvisionTimesOut, AbandonedProvision,
         AbandonedDeprovision, Remote, Commit, Fault, NoFault
<1> QED BY <1>1, <1>2

LEMMA OrphanByCreation ==
  ASSUME TypeOK, OrphanInv, OneFault', CreateApplication PROVE OrphanInv'
<1> PICK o \in Outcomes : \/ CreateInChirpStack(o) \/ PutUser(o) \/ SetPermissions(o)
                          \/ CommitCreate(o) \/ UndoUser(o) \/ UndoChirpStack(o)
  BY DEF CreateApplication
<1> USE DEF OrphanInv, Undoing
<1>0. /\ ~Fault("lost") /\ faults \in Nat
      /\ \A k : Fault(k) => faults' >= 1
      /\ faults >= 1 => \A k : ~Fault(k)
  BY ApplicationConstants DEF OneFault, Without, Fault, TypeOK
<1>1. CASE CreateInChirpStack(o)
  <2>1. o \in {"done", "refused"} /\ UNCHANGED <<row, delete>>
    BY <1>0, <1>1 DEF CreateInChirpStack, Remote
  <2>2. create' \in {"user", "over"} /\ (create' = "over" => ~chirpstack')
    BY <1>1, <2>1 DEF CreateInChirpStack
  <2> QED BY <1>1, <2>1, <2>2 DEF CreateInChirpStack
<1>2. CASE PutUser(o) \/ SetPermissions(o)
  <2>1. o = "done" \/ faults' >= 1
    BY <1>0, <1>2 DEF PutUser, SetPermissions, Remote
  <2>2. /\ UNCHANGED <<row, chirpstack, delete>> /\ create \in {"user", "permissions"}
        /\ create' \in {"permissions", "commit"} \/ (create' = "undo_chirpstack" /\ o # "done")
    BY <1>2 DEF PutUser, SetPermissions
  <2> QED BY <2>1, <2>2
<1>3. CASE CommitCreate(o)
  <2>1. o = "done" \/ faults' >= 1
    BY <1>0, <1>3 DEF CommitCreate, Commit
  <2>2. /\ UNCHANGED <<chirpstack, delete>> /\ create = "commit"
        /\ row' = "present" \/ (o = "refused" /\ row' = row)
        /\ (o = "done" /\ create' = "over") \/ (o # "done" /\ create' = "undo_user")
    BY <1>3 DEF CommitCreate
  <2> QED BY <2>1, <2>2
<1>4. CASE UndoUser(o)
  <2>1. /\ UNCHANGED <<row, chirpstack, delete>> /\ create = "undo_user"
        /\ create' = "undo_chirpstack" /\ faults' >= 1
    BY <1>0, <1>4 DEF UndoUser, Remote, NoFault
  <2> QED BY <2>1
<1>5. CASE UndoChirpStack(o)
  <2>1. o = "done"
    BY <1>0, <1>5 DEF UndoChirpStack, Remote
  <2>2. chirpstack' = FALSE /\ create' = "over" /\ UNCHANGED <<row, delete>>
    BY <1>5, <2>1 DEF UndoChirpStack
  <2> QED BY <2>2
<1> QED BY <1>1, <1>2, <1>3, <1>4, <1>5

LEMMA OrphanByDeletion ==
  ASSUME TypeOK, OrphanInv, OneFault', NEW d \in Deletes, DeleteApplication(d) PROVE OrphanInv'
<1> USE DEF OrphanInv, held
<1>0. /\ ~Fault("lost") /\ delete \in [Deletes -> Steps] /\ chirpstack \in BOOLEAN
      /\ UNCHANGED create /\ (create \in Undoing /\ faults >= 1 => faults' >= 1)
  <2>1. ~Fault("lost") /\ delete \in [Deletes -> Steps] /\ chirpstack \in BOOLEAN
    BY DEF OneFault, Without, Fault, TypeOK, Steps
  <2>2. UNCHANGED create
    BY DEF DeleteApplication, DeleteChecks, Deprovision, DeprovisionTimesOut, DeleteInChirpStack,
           DeleteRow, DeleteUser
  <2>3. faults <= faults' /\ faults \in Nat /\ faults' \in Nat
    <3>1. [Next]_vars
      BY DEF Next
    <3>2. faults' \in 0..MaxFaults
      BY DeleteTypes DEF TypeOK
    <3> QED BY <3>1, <3>2, FaultsGrow, ApplicationConstants DEF TypeOK
  <2> QED BY <2>1, <2>2, <2>3
<1>1. row # "none"
  BY DEF DeleteApplication, DeleteChecks, Deprovision, DeprovisionTimesOut, DeleteInChirpStack,
         DeleteRow, DeleteUser
<1>2. CASE DeleteChecks(d) \/ Deprovision(d) \/ DeprovisionTimesOut(d)
           \/ \E o \in Outcomes : DeleteUser(d, o)
  <2>1. /\ UNCHANGED <<row, chirpstack>>
        /\ \E s \in Steps \ {"row"} : delete' = [delete EXCEPT ![d] = s]
    BY <1>2 DEF DeleteChecks, Deprovision, DeprovisionTimesOut, DeleteUser, Steps
  <2> QED BY <1>0, <1>1, <2>1
<1>3. ASSUME NEW o \in Outcomes, DeleteInChirpStack(d, o) PROVE OrphanInv'
  <2>1. UNCHANGED row /\ (chirpstack' => chirpstack) /\ (delete'[d] = "row" => ~chirpstack')
    <3>1. CASE o \in {"done", "refused"} /\ chirpstack
      BY <1>0, <1>3, <3>1 DEF DeleteInChirpStack
    <3>2. CASE ~chirpstack
      BY <1>0, <1>3, <3>2 DEF DeleteInChirpStack
    <3> QED BY <1>0, <1>3, <3>1, <3>2 DEF DeleteInChirpStack, Remote
  <2>2. \A e \in Deletes \ {d} : delete'[e] = delete[e]
    BY <1>0, <1>3 DEF DeleteInChirpStack
  <2> QED BY <1>0, <1>1, <2>1, <2>2
<1>4. ASSUME NEW o \in Outcomes, DeleteRow(d, o) PROVE OrphanInv'
  <2>1. /\ ~chirpstack /\ UNCHANGED chirpstack /\ row' \in {row, "deleted"}
        /\ \E s \in Steps \ {"row"} : delete' = [delete EXCEPT ![d] = s]
    BY <1>4 DEF DeleteRow, Steps
  <2>2. create \notin {"chirpstack", "user", "permissions", "commit"}
    BY <1>1
  <2> QED BY <1>0, <1>1, <2>1, <2>2
<1> QED BY <1>2, <1>3, <1>4 DEF DeleteApplication

(* Whichever one of its steps is refused, a creation removes the            *)
(* application from ChirpStack again, and whichever one of its steps is     *)
(* refused, a DELETE does not remove the row of one that ChirpStack keeps.  *)
THEOREM NothingOrphanedInChirpStack == Spec => []NoOrphanInChirpStack
<1> DEFINE Inv == OneFault => OrphanInv
<1>1. Init => Inv
  BY DEF Init, OrphanInv, Undoing
<1>2. TypeOK /\ TypeOK' /\ Inv /\ [Next]_vars => Inv'
  <2> SUFFICES ASSUME TypeOK, TypeOK', Inv, [Next]_vars, OneFault' PROVE OrphanInv'
    OBVIOUS
  <2>1. faults <= faults' /\ faults \in Nat /\ faults' \in Nat
    BY FaultsGrow, ApplicationConstants DEF TypeOK
  <2>2. OneFault /\ OrphanInv
    BY <2>1, SeenGrows DEF OneFault, Without
  <2>3. ASSUME UNCHANGED <<row, chirpstack, create, delete>> PROVE OrphanInv'
    BY <2>1, <2>2, <2>3 DEF OrphanInv
  <2>4. ~CrashRequest
    BY DEF CrashRequest, Fault, OneFault, Without
  <2>5. ASSUME NEW j \in Jobs, FindForProvision(j) \/ RequestProvision(j) \/ Worker(j)
        PROVE  OrphanInv'
    BY <2>3, <2>5 DEF FindForProvision, RequestProvision, Worker, StartAttempt, EndAttempt,
                CrashWorker, Settle, held, requests
  <2>6. ASSUME FindApplication \/ Provision \/ ProvisionTimesOut \/ AbandonedProvision
               \/ AbandonedDeprovision \/ UNCHANGED vars
        PROVE  OrphanInv'
    BY <2>3, <2>6 DEF FindApplication, Provision, ProvisionTimesOut, AbandonedProvision,
                AbandonedDeprovision, held, requests, vars
  <2> QED BY <2>2, <2>4, <2>5, <2>6, OrphanByCreation, OrphanByDeletion DEF Next
<1>3. Inv => NoOrphanInChirpStack
  BY DEF OrphanInv, NoOrphanInChirpStack, OneFault, Quiet, Undoing
<1> QED BY <1>1, <1>2, <1>3, ApplicationTypes, PTL DEF Spec
=============================================================================
