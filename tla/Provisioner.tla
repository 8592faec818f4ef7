----------------------------- MODULE Provisioner -----------------------------
(***************************************************************************)
(* docker_provisioner: concurrent calls that provision and deprovision     *)
(* applications, step by step with every request they make to the Docker   *)
(* daemon.  A daemon refuses a second container of the same name, creates  *)
(* a container before it starts it, and refuses to start one whose port is *)
(* in use.                                                                 *)
(*                                                                         *)
(* The containers and the network of an application carry its identifier   *)
(* both in their name and in their label, so one of each stands for both.  *)
(***************************************************************************)
EXTENDS Integers, FiniteSets

CONSTANTS
  Apps,              \* applications
  Calls,             \* calls of the gRPC service, each made once
  PortMin, PortMax,  \* settings.provision_port_min, provision_port_max
  MaxPortAttempts,   \* MAX_PORT_ATTEMPTS
  Faults,            \* kinds of fault that may happen
  MaxFaults,         \* bound: how many faults happen in a behaviour
  None

FaultKinds == {"daemon", "outsider", "stop", "restart"}

ASSUME ProvisionerConstants ==
  /\ PortMin \in Nat /\ PortMax \in Nat /\ PortMin <= PortMax
  /\ MaxPortAttempts \in Nat \ {0}
  /\ Faults \subseteq FaultKinds
  /\ MaxFaults \in Nat
  /\ None \notin Calls \cup Apps \cup Nat

VARIABLES
  container,  \* of each application: its state and the port it publishes
  network,    \* the applications that have their network
  taken,      \* ports bound by other processes of the host
  lock,       \* _APP_LOCKS: the call that holds the lock of an application
  call,       \* each call: what it is for, where it is, what it keeps
  settled,    \* history: the applications with a container when their lock was last free
  faults      \* number of faults so far

docker == <<container, network, taken>>
vars == <<docker, lock, call, settled, faults>>

Ports == PortMin..PortMax
NoContainer == [state |-> "none", port |-> None]
Unused == [op |-> "none", app |-> None, at |-> "unused", tried |-> {}, port |-> None]

Exists(a) == container[a].state # "none"
Runs(a) == container[a].state = "running"
PortFree(p) == p \notin taken /\ \A a \in Apps : Runs(a) => container[a].port # p

Fault(kind) == kind \in Faults /\ faults < MaxFaults /\ faults' = faults + 1

Init ==
  /\ container = [a \in Apps |-> NoContainer]
  /\ network = {}
  /\ taken = {}
  /\ lock = [a \in Apps |-> None]
  /\ call = [c \in Calls |-> Unused]
  /\ settled = {}
  /\ faults = 0

-----------------------------------------------------------------------------
(* Steps of a call *)

At(c, pc) == call[c].at = pc
Goto(c, pc) == call' = [call EXCEPT ![c].at = pc]

Existing == {a \in Apps : container'[a].state # "none"}

(* The call ends, and the `with` block with it.                             *)
AnswerKeepingLock(c, answer) ==  \* mutant: an error does not release the lock
  /\ Goto(c, answer)
  /\ lock' = IF answer = "ok" THEN [lock EXCEPT ![call[c].app] = None] ELSE lock
  /\ settled' = (settled \ {call[c].app}) \cup (Existing \cap {call[c].app})

Answer(c, answer) ==
  /\ Goto(c, answer)
  /\ lock' = [lock EXCEPT ![call[c].app] = None]
  /\ settled' = (settled \ {call[c].app}) \cup (Existing \cap {call[c].app})

Proceed(c, pc) == Goto(c, pc) /\ UNCHANGED <<lock, settled>>

Request(c) ==
  /\ At(c, "unused")
  /\ \E op \in {"provision", "deprovision"}, a \in Apps :
       call' = [call EXCEPT ![c] = [Unused EXCEPT !.op = op, !.app = a, !.at = "lock"]]
  /\ UNCHANGED <<docker, lock, settled, faults>>

AcquireAny(c) ==  \* mutant: no lock
  /\ At(c, "lock")
  /\ lock' = [lock EXCEPT ![call[c].app] = c]
  /\ Goto(c, IF call[c].op = "provision" THEN "find" ELSE "remove")
  /\ UNCHANGED <<docker, settled, faults>>

Acquire(c) ==
  /\ At(c, "lock")
  /\ lock[call[c].app] = None
  /\ lock' = [lock EXCEPT ![call[c].app] = c]
  /\ Goto(c, IF call[c].op = "provision" THEN "find" ELSE "remove")
  /\ UNCHANGED <<docker, settled, faults>>

(* _find_containers; a container that runs is the answer                    *)
Find(c) ==
  LET a == call[c].app IN
  /\ At(c, "find")
  /\ UNCHANGED docker
  /\ \/ Runs(a) /\ Answer(c, "ok") /\ UNCHANGED faults
     \/ ~Runs(a) /\ Proceed(c, IF Exists(a) THEN "restart" ELSE "network") /\ UNCHANGED faults
     \/ Fault("daemon") /\ Answer(c, "failed")

(* _result_from_existing                                                    *)
StartExisting(c) ==
  LET a == call[c].app
      started == [container EXCEPT ![a].state = "running"] IN
  /\ At(c, "restart")
  /\ \/ PortFree(container[a].port) /\ container' = started /\ Answer(c, "ok") /\ UNCHANGED faults
     \/ ~PortFree(container[a].port) /\ UNCHANGED <<container, faults>> /\ Answer(c, "failed")
     \/ /\ Fault("daemon")
        /\ container' \in {container} \cup (IF PortFree(container[a].port) THEN {started} ELSE {})
        /\ Answer(c, "failed")
  /\ UNCHANGED <<network, taken>>

EnsureNetwork(c) ==
  LET ensured == network \cup {call[c].app} IN
  /\ At(c, "network")
  /\ UNCHANGED <<container, taken>>
  /\ \/ network' = ensured /\ Proceed(c, "allocate") /\ UNCHANGED faults
     \/ Fault("daemon") /\ network' \in {network, ensured} /\ Answer(c, "failed")

CandidatesOnePast(c, listed) ==  \* mutant: the range is one too long
  (PortMin..(PortMax + 1)) \ (call[c].tried \cup {container[a].port : a \in listed})

(* allocate_port: the ports that Docker publishes are those of containers   *)
(* that run, and perhaps of others; where the provisioner runs in a         *)
(* container itself, its bind does not see the ports of the host.           *)
Candidates(c, listed) == Ports \ (call[c].tried \cup {container[a].port : a \in listed})

AllocatePort(c) ==
  /\ At(c, "allocate")
  /\ UNCHANGED docker
  /\ \/ /\ \E listed \in SUBSET {a \in Apps : Exists(a)} :
             /\ {a \in Apps : Runs(a)} \subseteq listed
             /\ \/ \E p \in Candidates(c, listed) :
                     /\ call' = [call EXCEPT ![c] =
                          [call[c] EXCEPT !.at = "create", !.port = p, !.tried = @ \cup {p}]]
                     /\ UNCHANGED <<lock, settled>>
                \/ Candidates(c, listed) \subseteq taken /\ Answer(c, "failed")
        /\ UNCHANGED faults
     \/ Fault("daemon") /\ Answer(c, "failed")

(* containers.run: the container is created under the application's name,   *)
(* then started; a port in use stops it from starting.                      *)
CreateContainer(c) ==
  LET a == call[c].app
      created == [container EXCEPT ![a] = [state |-> "created", port |-> call[c].port]] IN
  /\ At(c, "create")
  /\ \/ ~Exists(a) /\ container' = created /\ Proceed(c, "start") /\ UNCHANGED faults
     \/ Exists(a) /\ UNCHANGED <<container, faults>> /\ Answer(c, "conflict")
     \/ /\ Fault("daemon")
        /\ container' \in {container} \cup (IF Exists(a) THEN {} ELSE {created})
        /\ Answer(c, "failed")
  /\ UNCHANGED <<network, taken>>

StartContainer(c) ==
  LET a == call[c].app
      started == [container EXCEPT ![a].state = "running"] IN
  /\ At(c, "start")
  /\ \/ PortFree(call[c].port) /\ container' = started /\ Proceed(c, "reload") /\ UNCHANGED faults
     \/ /\ ~PortFree(call[c].port)
        /\ UNCHANGED <<container, faults>>
        /\ IF Cardinality(call[c].tried) < MaxPortAttempts
             THEN Proceed(c, "allocate")
             ELSE Answer(c, "failed")
     \/ /\ Fault("daemon")
        /\ container' \in {container} \cup (IF PortFree(call[c].port) THEN {started} ELSE {})
        /\ Answer(c, "failed")
  /\ UNCHANGED <<network, taken>>

Reload(c) ==
  /\ At(c, "reload")
  /\ UNCHANGED docker
  /\ \/ Answer(c, "ok") /\ UNCHANGED faults
     \/ Fault("daemon") /\ Answer(c, "failed")

(* _remove_application_containers, _remove_application_network              *)
RemoveContainerIgnoringErrors(c) ==  \* mutant: an error of the daemon is passed over
  LET removed == [container EXCEPT ![call[c].app] = NoContainer] IN
  /\ At(c, "remove")
  /\ UNCHANGED <<network, taken>>
  /\ \/ container' = removed /\ UNCHANGED faults
     \/ Fault("daemon") /\ container' \in {container, removed}
  /\ Proceed(c, "remove_network")

RemoveContainer(c) ==
  LET removed == [container EXCEPT ![call[c].app] = NoContainer] IN
  /\ At(c, "remove")
  /\ UNCHANGED <<network, taken>>
  /\ \/ container' = removed /\ Proceed(c, "remove_network") /\ UNCHANGED faults
     \/ Fault("daemon") /\ container' \in {container, removed} /\ Answer(c, "failed")

RemoveNetwork(c) ==
  LET a == call[c].app IN
  /\ At(c, "remove_network")
  /\ UNCHANGED <<container, taken>>
  /\ \/ ~Runs(a) /\ network' = network \ {a} /\ Answer(c, "ok") /\ UNCHANGED faults
     \/ Runs(a) /\ UNCHANGED <<network, faults>> /\ Answer(c, "failed")
     \/ Fault("daemon") /\ network' \in {network, network \ {a}} /\ Answer(c, "failed")

Step(c) ==
  \/ Acquire(c) \/ Find(c) \/ StartExisting(c)
  \/ EnsureNetwork(c) \/ AllocatePort(c) \/ CreateContainer(c) \/ StartContainer(c) \/ Reload(c)
  \/ RemoveContainer(c) \/ RemoveNetwork(c)

-----------------------------------------------------------------------------
(* The surroundings *)

Ended == {"ok", "failed", "conflict", "dead"}
InProgress(c) == call[c].at \notin Ended \cup {"unused"}

(* Another process of the host binds a port or lets go of it.               *)
Outsider ==
  /\ Fault("outsider")
  /\ \/ \E p \in Ports : PortFree(p) /\ taken' = taken \cup {p}
     \/ \E p \in taken : taken' = taken \ {p}
  /\ UNCHANGED <<container, network, lock, call, settled>>

ContainerStops(a) ==
  /\ Runs(a)
  /\ Fault("stop")
  /\ container' = [container EXCEPT ![a].state = "stopped"]
  /\ UNCHANGED <<network, taken, lock, call, settled>>

(* The process dies and is started again; the locks were in its memory.     *)
Restart ==
  /\ \E c \in Calls : InProgress(c)
  /\ Fault("restart")
  /\ call' = [c \in Calls |-> IF InProgress(c) THEN [call[c] EXCEPT !.at = "dead"] ELSE call[c]]
  /\ lock' = [a \in Apps |-> None]
  /\ settled' = {a \in Apps : Exists(a)}
  /\ UNCHANGED docker

Next ==
  \/ \E c \in Calls : Request(c) \/ Step(c)
  \/ \E a \in Apps : ContainerStops(a)
  \/ Outsider \/ Restart

Spec == Init /\ [][Next]_vars

(* Each call has a thread of the gRPC server; a finite number of calls      *)
(* takes turns at a lock.                                                   *)
FairSpec == Spec /\ \A c \in Calls : WF_vars(Step(c))
-----------------------------------------------------------------------------
(* Properties *)

(* The variables have their types, ports stay in the range, and a call is   *)
(* inside its `with` block exactly when it holds the lock.                  *)
TypeOK ==
  /\ \A a \in Apps :
       \/ container[a] = NoContainer
       \/ /\ container[a].state \in {"created", "running", "stopped"}
          /\ container[a].port \in Ports
  /\ network \subseteq Apps /\ settled \subseteq Apps
  /\ taken \subseteq Ports
  /\ \A c \in Calls :
       /\ call[c].tried \subseteq Ports
       /\ Cardinality(call[c].tried) <= MaxPortAttempts
  /\ \A a \in Apps, c \in Calls :
       lock[a] = c <=> InProgress(c) /\ call[c].at # "lock" /\ call[c].app = a
  /\ faults \in 0..MaxFaults

(* A container that has been created, started or stopped keeps the network  *)
(* it was created in: no deprovisioning removes it between two steps of a   *)
(* provisioning.                                                            *)
ContainerHasNetwork == \A a \in Apps : Exists(a) => a \in network

(* "Two concurrent calls for the same app must not pass the check-then-act  *)
(* together and try to create two containers with the same name": a call    *)
(* meets a container of its name only after a port collision of its own.    *)
NoForeignConflict ==
  \A c \in Calls : call[c].at = "conflict" => Cardinality(call[c].tried) > 1

(* Calls for an application take effect one after the other: a call is      *)
(* pending until it ends, and its effect shows when it gives the lock back. *)
Shown(r) ==
  [op  |-> r.op,
   app |-> IF r.op = "none" THEN "none" ELSE r.app,
   at  |-> IF r.at \in {"unused", "ok", "dead"} THEN r.at
           ELSE IF r.at \in {"failed", "conflict"} THEN "failed"
           ELSE "pending"]
ShownCalls == [c \in Calls |-> Shown(call[c])]
Service == INSTANCE ContainerService WITH present <- settled, call <- ShownCalls
ImplementsService == Service!Spec

(* Every call is answered, unless the process dies under it.                *)
EveryCallEnds == \A c \in Calls : InProgress(c) ~> call[c].at \in Ended

(* "In that case it is worth trying the next port": a port taken between    *)
(* its choice and the start of the container does not fail the call.        *)
CollisionTriesNextPort == \A c \in Calls : call[c].at # "conflict"
=============================================================================
