-------------------------- MODULE ProvisionerProofs --------------------------
(***************************************************************************)
(* Proofs about Provisioner, for any number of applications, calls, ports  *)
(* and faults: the lock of an application makes the steps of a call, with  *)
(* all its requests to the Docker daemon, one step of ContainerService.    *)
(***************************************************************************)
EXTENDS Provisioner, TLAPS, FiniteSetTheorems

States == {"none", "created", "running", "stopped"}
Inside(c) == InProgress(c) /\ ~At(c, "lock")

Steps == {"unused", "lock", "find", "restart", "network", "allocate", "create", "start", "reload",
          "remove", "remove_network"} \cup Ended

CallRecord == [op: {"none", "provision", "deprovision"}, app: Apps \cup {None}, at: Steps,
               tried: SUBSET Ports, port: Ports \cup {None}]

Types ==
  /\ container \in [Apps -> [state: States, port: Ports \cup {None}]]
  /\ lock \in [Apps -> Calls \cup {None}]
  /\ call \in [Calls -> CallRecord]
  /\ \A c \in Calls : ~At(c, "unused") => call[c].app \in Apps /\ call[c].op # "none"
  /\ \A c \in Calls : At(c, "unused") => call[c] = Unused

(* A call is inside the `with` block exactly while it holds the lock.       *)
Locked == \A a \in Apps, c \in Calls : lock[a] = c <=> Inside(c) /\ call[c].app = a

(* What a call inside knows of its application, from what it has done since *)
(* it got the lock                                                          *)
Knows(c) ==
  LET a == call[c].app IN
  /\ call[c].at \in {"remove", "remove_network"} => call[c].op = "deprovision"
  /\ call[c].at \in {"find", "restart", "network", "allocate", "create", "start", "reload"}
       => call[c].op = "provision"
  /\ At(c, "restart") => Exists(a)
  /\ At(c, "network") => ~Exists(a)
  /\ At(c, "allocate") /\ Exists(a) => call[c].tried # {}
  /\ At(c, "create") => \/ ~Exists(a)
                        \/ \E p, q \in call[c].tried : p # q
  /\ call[c].at \in {"allocate", "create", "start", "reload"} => a \in network
  /\ call[c].at \in {"start", "reload"} => Exists(a)
  /\ call[c].at \in {"create", "start"} => call[c].tried # {}
  /\ At(c, "remove_network") => ~Exists(a)
  /\ At(c, "conflict") => \E p, q \in call[c].tried : p # q

(* What has changed since the lock was last free                            *)
Settled ==
  \A a \in Apps :
    /\ lock[a] = None => (a \in settled <=> Exists(a))
    /\ \A c \in Calls : lock[a] = c =>
         /\ call[c].op = "provision" /\ a \in settled => Exists(a)
         /\ call[c].op = "deprovision" /\ Exists(a) => a \in settled

IInv ==
  /\ Types
  /\ Locked
  /\ \A c \in Calls : Knows(c)
  /\ Settled
  /\ settled \subseteq Apps
  /\ ContainerHasNetwork
-----------------------------------------------------------------------------
LEMMA InitIInv == Init => IInv
<1> SUFFICES ASSUME Init PROVE IInv
  OBVIOUS
<1> USE ProvisionerConstants
        DEF Init, NoContainer, Unused, Inside, InProgress, At, Ended, Exists
<1>1. Types
  BY DEF Types, States, CallRecord, Steps
<1>2. Locked
  BY DEF Locked
<1>3. \A c \in Calls : Knows(c)
  BY DEF Knows
<1> QED BY <1>1, <1>2, <1>3 DEF IInv, Settled, ContainerHasNetwork

(* What every step inside keeps to: it changes the record of its own call   *)
(* and the container and network of its own application, and either goes on *)
(* inside or gives the lock back and settles.                               *)
Record == [state: States, port: Ports \cup {None}]

Frame(c) ==
  LET a == call[c].app IN
  /\ Inside(c)
  /\ call' = [call EXCEPT ![c] = call'[c]]
  /\ call'[c] \in CallRecord
  /\ call'[c].op = call[c].op /\ call'[c].app = a
  /\ container' = [container EXCEPT ![a] = container'[a]]
  /\ container'[a] \in Record
  /\ network \ {a} = network' \ {a}
  /\ \/ /\ call'[c].at \notin Ended \cup {"unused", "lock"}
        /\ UNCHANGED <<lock, settled>>
     \/ /\ call'[c].at \in Ended
        /\ lock' = [lock EXCEPT ![a] = None]
        /\ settled' = (settled \ {a}) \cup {b \in {a} : Exists(b)'}

LEMMA FrameKeeps ==
  ASSUME IInv, NEW c \in Calls, Frame(c), Knows(c)',
         Exists(call[c].app)' => call[c].app \in network',
         call[c].op = "provision" /\ Exists(call[c].app) => Exists(call[c].app)',
         call[c].op = "deprovision" /\ Exists(call[c].app)' => Exists(call[c].app)
  PROVE  IInv'
<1> DEFINE a == call[c].app
<1>1. /\ a \in Apps /\ lock[a] = c /\ c # None
      /\ call[c].op \in {"provision", "deprovision"}
  BY ProvisionerConstants DEF IInv, Types, Locked, Frame, Inside, InProgress, At, Steps, CallRecord
<1>2. /\ \A d \in Calls \ {c} : call'[d] = call[d]
      /\ \A b \in Apps \ {a} : container'[b] = container[b] /\ (b \in network' <=> b \in network)
  BY <1>1 DEF Frame, IInv, Types
<1>3. Types'
  BY <1>1, <1>2, ProvisionerConstants DEF Frame, IInv, Types, At, Record, Ended, Unused
<1>4. Locked'
  <2> SUFFICES ASSUME NEW b \in Apps, NEW d \in Calls
               PROVE  lock'[b] = d <=> Inside(d)' /\ call'[d].app = b
    BY DEF Locked
  <2>1. lock[b] = d <=> Inside(d) /\ call[d].app = b
    BY DEF IInv, Locked
  <2>2. CASE d # c
    <3>1. Inside(d)' <=> Inside(d)
      BY <1>2, <2>2 DEF Inside, InProgress, At
    <3>2. lock'[b] = d <=> lock[b] = d
      BY <1>1, <2>2, ProvisionerConstants DEF Frame, IInv, Types
    <3> QED BY <1>2, <2>1, <2>2, <3>1, <3>2
  <2>3. CASE d = c
    <3>1. CASE call'[c].at \in Ended
      BY <1>1, <2>1, <2>3, <3>1, ProvisionerConstants DEF Frame, Inside, InProgress, IInv, Types, Ended
    <3>2. CASE call'[c].at \notin Ended
      BY <1>1, <2>1, <2>3, <3>2 DEF Frame, Inside, InProgress, At, Ended
    <3> QED BY <3>1, <3>2
  <2> QED BY <2>2, <2>3
<1>5. ASSUME NEW d \in Calls PROVE Knows(d)'
  <2>1. CASE d = c
    BY <2>1
  <2>2. CASE d # c
    <3>1. call'[d] = call[d] /\ Knows(d)
      BY <1>2, <2>2 DEF IInv
    <3>2. CASE Inside(d)
      <4>1. PICK b \in Apps \ {a} : b = call[d].app
        BY <1>1, <2>2, <3>2 DEF IInv, Locked, Types, Inside, InProgress, At
      <4>2. container'[b] = container[b] /\ (b \in network' <=> b \in network)
        BY <1>2, <4>1
      <4>3. Exists(b)' <=> Exists(b)
        BY <4>2 DEF Exists
      <4>4. call'[d].app = b /\ call'[d] = call[d]
        BY <3>1, <4>1
      <4> HIDE DEF a
      <4> QED BY <3>1, <4>1, <4>2, <4>3, <4>4 DEF Knows, At, Exists
    <3>3. CASE ~Inside(d)
      <4>1. call[d].at \in {"unused", "lock"} \cup Ended
        BY <3>3 DEF Inside, InProgress, At
      <4> QED BY <3>1, <4>1 DEF Knows, At, Ended
    <3> QED BY <3>2, <3>3
  <2> QED BY <2>1, <2>2
<1>6. Settled'
  <2> SUFFICES ASSUME NEW b \in Apps
      PROVE /\ lock'[b] = None => (b \in settled' <=> Exists(b)')
            /\ \A d \in Calls : lock'[b] = d =>
                 /\ call'[d].op = "provision" /\ b \in settled' => Exists(b)'
                 /\ call'[d].op = "deprovision" /\ Exists(b)' => b \in settled'
    BY DEF Settled
  <2>1. CASE b # a
    <3>1. lock'[b] = lock[b] /\ (b \in settled' <=> b \in settled) /\ (Exists(b)' <=> Exists(b))
      BY <1>1, <1>2, <2>1 DEF Frame, Exists, IInv, Types
    <3>2. \A d \in Calls : lock[b] = d => d # c
      BY <1>1, <2>1 DEF IInv, Locked
    <3> QED BY <1>2, <2>1, <3>1, <3>2 DEF IInv, Settled
  <2>2. CASE b = a /\ call'[c].at \in Ended
    BY <1>1, <2>2, ProvisionerConstants DEF Frame, IInv, Types, Ended
  <2>3. CASE b = a /\ call'[c].at \notin Ended
    <3>1. lock' = lock /\ settled' = settled /\ call'[c].op = call[c].op
      BY <2>3 DEF Frame
    <3>2. \A d \in Calls : lock[b] = d => d = c
      BY <1>1, <2>3
    <3>3. /\ call[c].op = "provision" /\ Exists(b) => Exists(b)'
          /\ call[c].op = "deprovision" /\ Exists(b)' => Exists(b)
      BY <2>3 DEF Frame, Exists
    <3>4. /\ call[c].op = "provision" /\ b \in settled => Exists(b)
          /\ call[c].op = "deprovision" /\ Exists(b) => b \in settled
      BY <1>1, <2>3 DEF IInv, Settled
    <3>5. lock'[b] = c /\ c # None
      BY <1>1, <2>3, <3>1
    <3> HIDE DEF a
    <3> QED BY <3>1, <3>2, <3>3, <3>4, <3>5
  <2> QED BY <2>1, <2>2, <2>3
<1>7. settled' \subseteq Apps
  BY <1>1 DEF Frame, IInv
<1>8. ContainerHasNetwork'
  <2> SUFFICES ASSUME NEW b \in Apps, Exists(b)' PROVE b \in network'
    BY DEF ContainerHasNetwork
  <2>1. CASE b = a
    BY <2>1 DEF Frame, Exists
  <2>2. CASE b # a
    BY <1>2, <2>2 DEF IInv, ContainerHasNetwork, Exists
  <2> QED BY <2>1, <2>2
<1> QED BY <1>3, <1>4, <1>5, <1>6, <1>7, <1>8 DEF IInv
-----------------------------------------------------------------------------
(* What a step may do to Docker: to the container and the network of its    *)
(* own application, with an effect that its operation is for, if any        *)
Scope(c) ==
  LET a == call[c].app IN
  /\ Inside(c)
  /\ container' = [container EXCEPT ![a] = container'[a]]
  /\ container'[a] \in Record
  /\ network \ {a} = network' \ {a}
  /\ container'[a].state # "none" => a \in network'
  /\ call[c].op = "provision" /\ container[a].state # "none" => container'[a].state # "none"
  /\ call[c].op = "deprovision" /\ container'[a].state # "none" => container[a].state # "none"

LEMMA InsideFacts ==
  ASSUME IInv, NEW c \in Calls, Inside(c)
  PROVE  /\ call[c].app \in Apps /\ lock[call[c].app] = c /\ c # None
         /\ call[c] \in CallRecord /\ call[c].op \in {"provision", "deprovision"}
         /\ container[call[c].app] \in Record
         /\ Knows(c)
         /\ Exists(call[c].app) => call[c].app \in network
BY ProvisionerConstants
   DEF IInv, Types, Locked, Inside, InProgress, At, CallRecord, Record, ContainerHasNetwork

LEMMA Answered ==
  ASSUME IInv, NEW c \in Calls, Scope(c), NEW answer \in Ended, Answer(c, answer),
         answer = "conflict" => \E p, q \in call[c].tried : p # q
  PROVE  IInv'
<1> DEFINE a == call[c].app
<1>1. Inside(c)
  BY DEF Scope
<1>2. /\ a \in Apps /\ call[c] \in CallRecord /\ call[c].op \in {"provision", "deprovision"}
      /\ call \in [Calls -> CallRecord]
  BY <1>1, InsideFacts DEF IInv, Types
<1>3. call' = [call EXCEPT ![c].at = answer]
  BY DEF Answer, Goto
<1>4. /\ call'[c] = [call[c] EXCEPT !.at = answer]
      /\ call' = [call EXCEPT ![c] = call'[c]]
  BY <1>2, <1>3
<1>5. /\ call'[c] \in CallRecord /\ call'[c].at = answer
      /\ call'[c].op = call[c].op /\ call'[c].app = a /\ call'[c].tried = call[c].tried
  BY <1>2, <1>4 DEF CallRecord, Steps
<1>6. settled' = (settled \ {a}) \cup {b \in {a} : Exists(b)'}
  BY <1>2 DEF Answer, Existing, Exists
<1>7. Frame(c)
  BY <1>1, <1>4, <1>5, <1>6 DEF Frame, Scope, Answer, Ended
<1>8. Knows(c)'
  BY <1>5 DEF Knows, At, Ended
<1>9. /\ Exists(call[c].app)' => call[c].app \in network'
      /\ call[c].op = "provision" /\ Exists(call[c].app) => Exists(call[c].app)'
      /\ call[c].op = "deprovision" /\ Exists(call[c].app)' => Exists(call[c].app)
  BY <1>5 DEF Scope, Exists
<1> QED BY <1>7, <1>8, <1>9, FrameKeeps

LEMMA Proceeded ==
  ASSUME IInv, NEW c \in Calls, Scope(c), Knows(c)', UNCHANGED <<lock, settled>>,
         call' = [call EXCEPT ![c] = call'[c]], call'[c] \in CallRecord,
         call'[c].op = call[c].op, call'[c].app = call[c].app,
         call'[c].at \notin Ended \cup {"unused", "lock"}
  PROVE  IInv'
<1>1. Frame(c)
  BY DEF Frame, Scope
<1>2. /\ Exists(call[c].app)' => call[c].app \in network'
      /\ call[c].op = "provision" /\ Exists(call[c].app) => Exists(call[c].app)'
      /\ call[c].op = "deprovision" /\ Exists(call[c].app)' => Exists(call[c].app)
  BY DEF Scope, Exists
<1> QED BY <1>1, <1>2, FrameKeeps

(* A step of a call inside its `with` block answers or goes on; an answer   *)
(* "ok" comes with the effect of its operation.                             *)
Answers(c) ==
  \E answer \in {"ok", "failed", "conflict"} :
    /\ Answer(c, answer)
    /\ answer = "ok" => (container'[call[c].app].state # "none" <=> call[c].op = "provision")
    /\ answer = "conflict" => \E p, q \in call[c].tried : p # q

GoesOn(c) ==
  /\ Knows(c)' /\ UNCHANGED <<lock, settled>>
  /\ call' = [call EXCEPT ![c] = call'[c]]
  /\ call'[c] \in CallRecord /\ call'[c].op = call[c].op /\ call'[c].app = call[c].app
  /\ call'[c].at \notin Ended \cup {"unused", "lock"}

Outcome(c) == Scope(c) /\ (Answers(c) \/ GoesOn(c))

LEMMA OutcomeKeeps == ASSUME IInv, NEW c \in Calls, Outcome(c) PROVE IInv'
BY Answered, Proceeded DEF Outcome, Answers, GoesOn, Ended

LEMMA Gone ==
  ASSUME IInv, NEW c \in Calls, Inside(c), NEW pc \in Steps, Goto(c, pc)
  PROVE  /\ call' = [call EXCEPT ![c] = call'[c]]
         /\ call'[c] \in CallRecord /\ call'[c].at = pc
         /\ call'[c].op = call[c].op /\ call'[c].app = call[c].app
         /\ call'[c].tried = call[c].tried
<1>1. call[c] \in CallRecord /\ call \in [Calls -> CallRecord]
  BY InsideFacts DEF IInv, Types
<1>2. call'[c] = [call[c] EXCEPT !.at = pc] /\ call' = [call EXCEPT ![c] = call'[c]]
  BY <1>1 DEF Goto
<1> QED BY <1>1, <1>2 DEF CallRecord

LEMMA ScopeStill ==
  ASSUME IInv, NEW c \in Calls, Inside(c), UNCHANGED <<container, network>>
  PROVE  Scope(c)
<1>1. container = [container EXCEPT ![call[c].app] = container[call[c].app]]
  BY InsideFacts DEF IInv, Types
<1> QED BY <1>1, InsideFacts DEF Scope, Exists

LEMMA ScopeContainer ==
  ASSUME IInv, NEW c \in Calls, Inside(c), NEW r \in Record,
         container' = [container EXCEPT ![call[c].app] = r], UNCHANGED network,
         r.state # "none" => call[c].app \in network,
         call[c].op = "provision" => r.state # "none",
         call[c].op = "deprovision" => r.state = "none"
  PROVE  Scope(c) /\ container'[call[c].app] = r
<1>1. container'[call[c].app] = r
  BY InsideFacts DEF IInv, Types
<1> QED BY <1>1, InsideFacts DEF Scope

LEMMA ScopeNetwork ==
  ASSUME IInv, NEW c \in Calls, Inside(c), UNCHANGED container,
         network \ {call[c].app} = network' \ {call[c].app},
         Exists(call[c].app) => call[c].app \in network'
  PROVE  Scope(c)
<1>1. container = [container EXCEPT ![call[c].app] = container[call[c].app]]
  BY InsideFacts DEF IInv, Types
<1> QED BY <1>1, InsideFacts DEF Scope, Exists
-----------------------------------------------------------------------------
(* The steps of a provisioning                                              *)

LEMMA FindOutcome == ASSUME IInv, NEW c \in Calls, Find(c) PROVE Outcome(c)
<1>1. Inside(c)
  BY DEF Find, Inside, InProgress, At, Ended
<1>2. Scope(c)
  BY <1>1, ScopeStill DEF Find, docker
<1>3. CASE Answer(c, "failed")
  BY <1>2, <1>3 DEF Outcome, Answers
<1>4. CASE Runs(call[c].app) /\ Answer(c, "ok")
  <2>1. container'[call[c].app].state # "none" /\ call[c].op = "provision"
    BY <1>1, <1>4, InsideFacts DEF Find, docker, Runs, Knows, At
  <2> QED BY <1>2, <1>4, <2>1 DEF Outcome, Answers
<1>5. CASE ~Runs(call[c].app) /\ Proceed(c, IF Exists(call[c].app) THEN "restart" ELSE "network")
  <2>1. PICK pc \in {"restart", "network"} :
          Proceed(c, pc) /\ (pc = "restart" <=> Exists(call[c].app))
    BY <1>5
  <2>2. Knows(c)'
    BY <1>1, <2>1, Gone, InsideFacts DEF Proceed, Find, docker, Knows, At, Steps, Exists
  <2> QED BY <1>1, <1>2, <2>1, <2>2, Gone DEF Outcome, GoesOn, Proceed, Steps, Ended
<1> QED BY <1>3, <1>4, <1>5 DEF Find

LEMMA StartExistingOutcome == ASSUME IInv, NEW c \in Calls, StartExisting(c) PROVE Outcome(c)
<1> DEFINE a == call[c].app
           r == [container[a] EXCEPT !.state = "running"]
<1>1. Inside(c)
  BY DEF StartExisting, Inside, InProgress, At, Ended
<1>2. /\ Exists(a) /\ a \in network /\ call[c].op = "provision"
  BY <1>1, InsideFacts DEF StartExisting, Knows, At
<1>3. PICK answer \in {"ok", "failed"} : Answer(c, answer)
  BY DEF StartExisting
<1>4. Scope(c) /\ container'[a].state # "none"
  <2>1. CASE UNCHANGED container
    BY <1>1, <1>2, <2>1, ScopeStill DEF StartExisting, Exists
  <2>2. CASE container' = [container EXCEPT ![a].state = "running"]
    <3>1. r \in Record /\ r.state = "running" /\ container' = [container EXCEPT ![a] = r]
      BY <1>1, <2>2, InsideFacts DEF Record, States
    <3> QED BY <1>1, <1>2, <3>1, ScopeContainer DEF StartExisting
  <2> QED BY <2>1, <2>2 DEF StartExisting
<1> QED BY <1>2, <1>3, <1>4 DEF Outcome, Answers

LEMMA EnsureNetworkOutcome == ASSUME IInv, NEW c \in Calls, EnsureNetwork(c) PROVE Outcome(c)
<1> DEFINE a == call[c].app
<1>1. Inside(c)
  BY DEF EnsureNetwork, Inside, InProgress, At, Ended
<1>2. call[c].op = "provision" /\ ~Exists(a)
  BY <1>1, InsideFacts DEF EnsureNetwork, Knows, At
<1>3. Scope(c)
  BY <1>1, <1>2, ScopeNetwork DEF EnsureNetwork
<1>4. CASE Answer(c, "failed")
  BY <1>3, <1>4 DEF Outcome, Answers
<1>5. CASE network' = network \cup {a} /\ Proceed(c, "allocate")
  <2>1. Knows(c)'
    BY <1>1, <1>2, <1>5, Gone, InsideFacts DEF Proceed, EnsureNetwork, Knows, At, Steps, Exists
  <2> QED BY <1>1, <1>3, <1>5, <2>1, Gone DEF Outcome, GoesOn, Proceed, Steps, Ended
<1> QED BY <1>4, <1>5 DEF EnsureNetwork

LEMMA AllocatePortOutcome == ASSUME IInv, NEW c \in Calls, AllocatePort(c) PROVE Outcome(c)
<1>1. Inside(c)
  BY DEF AllocatePort, Inside, InProgress, At, Ended
<1>2. Scope(c)
  BY <1>1, ScopeStill DEF AllocatePort, docker
<1>3. CASE Answer(c, "failed")
  BY <1>2, <1>3 DEF Outcome, Answers
<1>4. CASE /\ UNCHANGED <<lock, settled>>
           /\ \E p \in Ports \ call[c].tried :
                call' = [call EXCEPT ![c] =
                  [call[c] EXCEPT !.at = "create", !.port = p, !.tried = @ \cup {p}]]
  <2>1. PICK p \in Ports \ call[c].tried :
          call' = [call EXCEPT ![c] =
            [call[c] EXCEPT !.at = "create", !.port = p, !.tried = @ \cup {p}]]
    BY <1>4
  <2> DEFINE r == [call[c] EXCEPT !.at = "create", !.port = p, !.tried = call[c].tried \cup {p}]
  <2>2. call[c] \in CallRecord /\ call \in [Calls -> CallRecord]
    BY <1>1, InsideFacts DEF IInv, Types
  <2>3. /\ r \in CallRecord /\ r.at = "create"
        /\ r.op = call[c].op /\ r.app = call[c].app /\ r.tried = call[c].tried \cup {p}
    BY <2>2 DEF CallRecord, Steps
  <2>a. call' = [call EXCEPT ![c] = r]
    BY <2>1
  <2>b. call'[c] = r
    <3> HIDE DEF r
    <3> QED BY <2>2, <2>a
  <2>4. /\ call' = [call EXCEPT ![c] = call'[c]]
        /\ call'[c] \in CallRecord /\ call'[c].at = "create"
        /\ call'[c].op = call[c].op /\ call'[c].app = call[c].app
        /\ call'[c].tried = call[c].tried \cup {p}
    <3> HIDE DEF r
    <3> QED BY <2>3, <2>a, <2>b
  <2>5. /\ Exists(call[c].app) => call[c].tried # {}
        /\ call[c].op = "provision" /\ call[c].app \in network
    BY <1>1, InsideFacts DEF AllocatePort, Knows, At
  <2>6. Exists(call[c].app) => \E q, s \in call'[c].tried : q # s
    BY <2>4, <2>5
  <2>7. Knows(c)'
    BY <2>4, <2>5, <2>6 DEF AllocatePort, docker, Knows, At, Exists
  <2> QED BY <1>2, <1>4, <2>3, <2>4, <2>7 DEF Outcome, GoesOn, Ended
<1> QED BY <1>3, <1>4 DEF AllocatePort, Candidates

LEMMA CreateContainerOutcome == ASSUME IInv, NEW c \in Calls, CreateContainer(c) PROVE Outcome(c)
<1> DEFINE a == call[c].app
           r == [state |-> "created", port |-> call[c].port]
<1>1. Inside(c)
  BY DEF CreateContainer, Inside, InProgress, At, Ended
<1>2. /\ a \in network /\ call[c].op = "provision" /\ r \in Record /\ r.state = "created"
      /\ Exists(a) => \E p, q \in call[c].tried : p # q
  BY <1>1, InsideFacts DEF CreateContainer, Knows, At, Record, States, CallRecord
<1>3. Scope(c) /\ (UNCHANGED container \/ container'[a] = r)
  <2>1. CASE UNCHANGED container
    BY <1>1, <2>1, ScopeStill DEF CreateContainer
  <2>2. CASE container' = [container EXCEPT ![a] = r]
    BY <1>1, <1>2, <2>2, ScopeContainer DEF CreateContainer
  <2> QED BY <2>1, <2>2 DEF CreateContainer
<1>4. CASE \E answer \in {"failed", "conflict"} :
             Answer(c, answer) /\ (answer = "conflict" => Exists(a))
  BY <1>2, <1>3, <1>4 DEF Outcome, Answers
<1>5. CASE container' = [container EXCEPT ![a] = r] /\ Proceed(c, "start")
  <2>1. container'[a] = r
    BY <1>1, <1>5, InsideFacts DEF IInv, Types
  <2>2. CASE call[c].tried # {}
    <3>1. Knows(c)'
      BY <1>1, <1>2, <1>5, <2>1, <2>2, Gone
         DEF Proceed, CreateContainer, Knows, At, Steps, Exists
    <3> QED BY <1>1, <1>3, <1>5, <3>1, Gone DEF Outcome, GoesOn, Proceed, Steps, Ended
  <2>3. call[c].tried # {}
    BY <1>1, InsideFacts DEF CreateContainer, Knows, At
  <2> QED BY <2>2, <2>3
<1> QED BY <1>4, <1>5 DEF CreateContainer

LEMMA StartContainerOutcome == ASSUME IInv, NEW c \in Calls, StartContainer(c) PROVE Outcome(c)
<1> DEFINE a == call[c].app
           r == [container[a] EXCEPT !.state = "running"]
<1>1. Inside(c)
  BY DEF StartContainer, Inside, InProgress, At, Ended
<1>2. /\ Exists(a) /\ a \in network /\ call[c].op = "provision" /\ call[c].tried # {}
  BY <1>1, InsideFacts DEF StartContainer, Knows, At
<1>3. Scope(c) /\ container'[a].state # "none"
  <2>1. CASE UNCHANGED container
    BY <1>1, <1>2, <2>1, ScopeStill DEF StartContainer, Exists
  <2>2. CASE container' = [container EXCEPT ![a].state = "running"]
    <3>1. r \in Record /\ r.state = "running" /\ container' = [container EXCEPT ![a] = r]
      BY <1>1, <2>2, InsideFacts DEF Record, States
    <3> QED BY <1>1, <1>2, <3>1, ScopeContainer DEF StartContainer
  <2> QED BY <2>1, <2>2 DEF StartContainer
<1>4. CASE Answer(c, "failed")
  BY <1>3, <1>4 DEF Outcome, Answers
<1>5. CASE \E pc \in {"reload", "allocate"} : Proceed(c, pc)
  <2>1. PICK pc \in {"reload", "allocate"} : Proceed(c, pc)
    BY <1>5
  <2>2. Knows(c)'
    BY <1>1, <1>2, <1>3, <2>1, Gone DEF Proceed, StartContainer, Knows, At, Steps, Exists
  <2> QED BY <1>1, <1>3, <2>1, <2>2, Gone DEF Outcome, GoesOn, Proceed, Steps, Ended
<1> QED BY <1>4, <1>5 DEF StartContainer

LEMMA ReloadOutcome == ASSUME IInv, NEW c \in Calls, Reload(c) PROVE Outcome(c)
<1>1. Inside(c)
  BY DEF Reload, Inside, InProgress, At, Ended
<1>2. Scope(c)
  BY <1>1, ScopeStill DEF Reload, docker
<1>3. container'[call[c].app].state # "none" /\ call[c].op = "provision"
  BY <1>1, InsideFacts DEF Reload, docker, Knows, At, Exists
<1> QED BY <1>2, <1>3 DEF Outcome, Answers, Reload

(* The steps of a deprovisioning                                            *)

LEMMA RemoveContainerOutcome == ASSUME IInv, NEW c \in Calls, RemoveContainer(c) PROVE Outcome(c)
<1> DEFINE a == call[c].app
<1>1. Inside(c)
  BY DEF RemoveContainer, Inside, InProgress, At, Ended
<1>2. call[c].op = "deprovision" /\ NoContainer \in Record /\ NoContainer.state = "none"
  BY <1>1, InsideFacts DEF RemoveContainer, Knows, At, NoContainer, Record, States
<1>3. Scope(c)
  <2>1. CASE UNCHANGED container
    BY <1>1, <2>1, ScopeStill DEF RemoveContainer
  <2>2. CASE container' = [container EXCEPT ![a] = NoContainer]
    BY <1>1, <1>2, <2>2, ScopeContainer DEF RemoveContainer
  <2> QED BY <2>1, <2>2 DEF RemoveContainer
<1>4. CASE Answer(c, "failed")
  BY <1>3, <1>4 DEF Outcome, Answers
<1>5. CASE container' = [container EXCEPT ![a] = NoContainer] /\ Proceed(c, "remove_network")
  <2>1. container'[a].state = "none"
    BY <1>1, <1>2, <1>5, InsideFacts DEF IInv, Types
  <2>2. Knows(c)'
    BY <1>1, <1>2, <1>5, <2>1, Gone DEF Proceed, Knows, At, Steps, Exists
  <2> QED BY <1>1, <1>3, <1>5, <2>2, Gone DEF Outcome, GoesOn, Proceed, Steps, Ended
<1> QED BY <1>4, <1>5 DEF RemoveContainer

LEMMA RemoveNetworkOutcome == ASSUME IInv, NEW c \in Calls, RemoveNetwork(c) PROVE Outcome(c)
<1>1. Inside(c)
  BY DEF RemoveNetwork, Inside, InProgress, At, Ended
<1>2. ~Exists(call[c].app)
  BY <1>1, InsideFacts DEF RemoveNetwork, Knows, At
<1>3. Scope(c)
  BY <1>1, <1>2, ScopeNetwork DEF RemoveNetwork
<1>4. container'[call[c].app].state = "none" /\ call[c].op = "deprovision"
  BY <1>1, <1>2, InsideFacts DEF RemoveNetwork, Knows, At, Exists
<1> QED BY <1>3, <1>4 DEF Outcome, Answers, RemoveNetwork
-----------------------------------------------------------------------------
(* The other steps                                                          *)

LEMMA RequestKeeps == ASSUME IInv, NEW c \in Calls, Request(c) PROVE IInv'
<1>1. PICK op \in {"provision", "deprovision"}, a \in Apps :
        call' = [call EXCEPT ![c] = [Unused EXCEPT !.op = op, !.app = a, !.at = "lock"]]
  BY DEF Request
<1>2. /\ call'[c] = [Unused EXCEPT !.op = op, !.app = a, !.at = "lock"]
      /\ \A d \in Calls \ {c} : call'[d] = call[d]
      /\ UNCHANGED <<container, network, taken, lock, settled>>
      /\ call \in [Calls -> CallRecord]
  BY <1>1 DEF Request, docker, IInv, Types
<1>3. /\ call'[c].at = "lock" /\ call'[c].op = op /\ call'[c].app = a
      /\ call'[c] \in CallRecord
  BY <1>2 DEF Unused, CallRecord, Steps
<1>4. ~Inside(c)
  BY DEF Request, Inside, InProgress, At
<1>5. Types'
  <2>1. call' \in [Calls -> CallRecord]
    BY <1>1, <1>2, <1>3
  <2> QED BY <1>2, <1>3, <2>1 DEF IInv, Types, At
<1>6. Locked'
  <2> SUFFICES ASSUME NEW b \in Apps, NEW d \in Calls
               PROVE  lock'[b] = d <=> Inside(d)' /\ call'[d].app = b
    BY DEF Locked
  <2>1. lock'[b] = d <=> Inside(d) /\ call[d].app = b
    BY <1>2 DEF IInv, Locked
  <2>2. CASE d = c
    BY <1>3, <1>4, <2>1, <2>2 DEF Inside, At
  <2>3. CASE d # c
    BY <1>2, <2>1, <2>3 DEF Inside, InProgress, At
  <2> QED BY <2>2, <2>3
<1>7. ASSUME NEW d \in Calls PROVE Knows(d)'
  <2>1. CASE d = c
    BY <1>3, <2>1 DEF Knows, At
  <2>2. CASE d # c
    BY <1>2, <2>2 DEF IInv, Knows, At, Exists
  <2> QED BY <2>1, <2>2
<1>8. Settled'
  <2>1. \A b \in Apps : lock[b] # c
    BY <1>4 DEF IInv, Locked
  <2> QED BY <1>2, <2>1 DEF IInv, Settled, Exists
<1> QED BY <1>2, <1>5, <1>6, <1>7, <1>8 DEF IInv, ContainerHasNetwork, Exists

LEMMA AcquireKeeps == ASSUME IInv, NEW c \in Calls, Acquire(c) PROVE IInv'
<1>1. PICK pc \in {"find", "remove"} :
        Goto(c, pc) /\ (pc = "find" <=> call[c].op = "provision")
  BY DEF Acquire
<1>2. /\ call[c] \in CallRecord /\ call \in [Calls -> CallRecord]
      /\ call[c].app \in Apps /\ call[c].op \in {"provision", "deprovision"}
      /\ lock \in [Apps -> Calls \cup {None}] /\ c # None
  BY ProvisionerConstants DEF IInv, Types, Acquire, At, CallRecord
<1>3. /\ call'[c] = [call[c] EXCEPT !.at = pc]
      /\ \A d \in Calls \ {c} : call'[d] = call[d]
      /\ UNCHANGED <<container, network, taken, settled>>
  BY <1>1, <1>2 DEF Goto, Acquire, docker
<1>4. /\ call'[c].at = pc /\ call'[c].op = call[c].op /\ call'[c].app = call[c].app
      /\ call'[c] \in CallRecord
  BY <1>2, <1>3 DEF CallRecord, Steps
<1>5. /\ lock[call[c].app] = None /\ lock'[call[c].app] = c
      /\ \A b \in Apps \ {call[c].app} : lock'[b] = lock[b]
      /\ lock' \in [Apps -> Calls \cup {None}]
  BY <1>2 DEF Acquire
<1>6. Types'
  <2>1. call' \in [Calls -> CallRecord]
    BY <1>1, <1>2, <1>4 DEF Goto
  <2> QED BY <1>2, <1>3, <1>4, <1>5, <2>1 DEF IInv, Types, At
<1>7. Locked'
  <2> SUFFICES ASSUME NEW b \in Apps, NEW d \in Calls
               PROVE  lock'[b] = d <=> Inside(d)' /\ call'[d].app = b
    BY DEF Locked
  <2>1. lock[b] = d <=> Inside(d) /\ call[d].app = b
    BY DEF IInv, Locked
  <2>2. CASE d = c
    <3>1. Inside(c)' /\ ~Inside(c)
      BY <1>4 DEF Inside, InProgress, At, Acquire, Ended
    <3> QED BY <1>4, <1>5, <2>1, <2>2, <3>1
  <2>3. CASE d # c
    <3>1. Inside(d)' <=> Inside(d)
      BY <1>3, <2>3 DEF Inside, InProgress, At
    <3>2. d # None
      BY ProvisionerConstants
    <3> QED BY <1>3, <1>5, <2>1, <2>3, <3>1, <3>2
  <2> QED BY <2>2, <2>3
<1>8. ASSUME NEW d \in Calls PROVE Knows(d)'
  <2>1. CASE d = c
    BY <1>1, <1>2, <1>4, <2>1 DEF Knows, At
  <2>2. CASE d # c
    BY <1>3, <2>2 DEF IInv, Knows, At, Exists
  <2> QED BY <2>1, <2>2
<1>9. Settled'
  <2> SUFFICES ASSUME NEW b \in Apps
      PROVE /\ lock'[b] = None => (b \in settled <=> Exists(b))
            /\ \A d \in Calls : lock'[b] = d =>
                 /\ call'[d].op = "provision" /\ b \in settled => Exists(b)
                 /\ call'[d].op = "deprovision" /\ Exists(b) => b \in settled
    BY <1>3 DEF Settled, Exists
  <2>1. CASE b = call[c].app
    BY <1>2, <1>5, <2>1 DEF IInv, Settled
  <2>2. CASE b # call[c].app
    <3>1. \A d \in Calls : lock[b] = d => d # c
      BY <2>2 DEF IInv, Locked
    <3> QED BY <1>3, <1>5, <2>2, <3>1 DEF IInv, Settled
  <2> QED BY <2>1, <2>2
<1> QED BY <1>3, <1>6, <1>7, <1>8, <1>9 DEF IInv, ContainerHasNetwork, Exists

LEMMA OutsiderKeeps == ASSUME IInv, Outsider PROVE IInv'
BY DEF Outsider, IInv, Types, Locked, Knows, Settled, ContainerHasNetwork,
       Inside, InProgress, At, Exists

LEMMA ContainerStopsKeeps == ASSUME IInv, NEW a \in Apps, ContainerStops(a) PROVE IInv'
<1>1. /\ container' \in [Apps -> Record]
      /\ \A b \in Apps : container'[b].state # "none" <=> container[b].state # "none"
      /\ UNCHANGED <<network, taken, lock, call, settled>>
  BY DEF ContainerStops, Runs, IInv, Types, Record, States
<1>2. Types' /\ Locked'
  BY <1>1 DEF IInv, Types, Locked, Record, Inside, InProgress, At
<1>3. ASSUME NEW c \in Calls PROVE Knows(c)'
  <2>1. CASE Inside(c)
    <3>1. call[c].app \in Apps
      BY <2>1, InsideFacts
    <3> QED BY <1>1, <3>1 DEF IInv, Knows, At, Exists
  <2>2. CASE ~Inside(c)
    <3>1. call[c].at \in {"unused", "lock"} \cup Ended
      BY <2>2 DEF Inside, InProgress, At
    <3> QED BY <1>1, <3>1 DEF IInv, Knows, At, Ended
  <2> QED BY <2>1, <2>2
<1>4. Settled' /\ ContainerHasNetwork' /\ settled' \subseteq Apps
  BY <1>1 DEF IInv, Settled, ContainerHasNetwork, Exists
<1> QED BY <1>2, <1>3, <1>4 DEF IInv

LEMMA RestartKeeps == ASSUME IInv, Restart PROVE IInv'
<1>1. ASSUME NEW c \in Calls
      PROVE  /\ call'[c] \in CallRecord
             /\ ~InProgress(c)'
             /\ call'[c].op = call[c].op /\ call'[c].app = call[c].app
             /\ call'[c].tried = call[c].tried
             /\ call'[c].at = IF InProgress(c) THEN "dead" ELSE call[c].at
             /\ ~InProgress(c) => call'[c] = call[c]
  <2>1. call[c] \in CallRecord
    BY DEF IInv, Types
  <2>2. CASE InProgress(c)
    <3>1. call'[c] = [call[c] EXCEPT !.at = "dead"]
      BY <2>2 DEF Restart
    <3> QED BY <2>1, <2>2, <3>1 DEF CallRecord, Steps, InProgress, Ended
  <2>3. CASE ~InProgress(c)
    <3>1. call'[c] = call[c]
      BY <2>3 DEF Restart
    <3> QED BY <2>1, <2>3, <3>1 DEF InProgress
  <2> QED BY <2>2, <2>3
<1>2. call' \in [Calls -> CallRecord]
  BY <1>1 DEF Restart
<1>3. /\ UNCHANGED <<container, network>>
      /\ \A a \in Apps : lock'[a] = None /\ (a \in settled' <=> Exists(a))
      /\ lock' \in [Apps -> Calls \cup {None}]
      /\ settled' \subseteq Apps
  BY DEF Restart, docker
<1>4. Types'
  <2>1. ASSUME NEW c \in Calls
        PROVE  /\ ~At(c, "unused")' => call'[c].app \in Apps /\ call'[c].op # "none"
               /\ At(c, "unused")' => call'[c] = Unused
    BY <1>1 DEF IInv, Types, At, InProgress
  <2> QED BY <1>2, <1>3, <2>1 DEF IInv, Types, At
<1>5. Locked'
  BY <1>1, <1>3, ProvisionerConstants DEF Locked, Inside
<1>6. ASSUME NEW c \in Calls PROVE Knows(c)'
  <2>1. CASE InProgress(c)
    BY <1>1, <2>1 DEF Knows, At
  <2>2. CASE ~InProgress(c)
    <3>1. call[c].at \in {"unused"} \cup Ended /\ call'[c] = call[c]
      BY <1>1, <2>2 DEF InProgress
    <3> QED BY <3>1 DEF IInv, Knows, At, Ended
  <2> QED BY <2>1, <2>2
<1>7. Settled' /\ ContainerHasNetwork'
  BY <1>3, ProvisionerConstants DEF IInv, Settled, ContainerHasNetwork, Exists
<1> QED BY <1>3, <1>4, <1>5, <1>6, <1>7 DEF IInv

LEMMA StepOutcome ==
  ASSUME IInv, NEW c \in Calls, Step(c)
  PROVE  Acquire(c) \/ Outcome(c)
BY FindOutcome, StartExistingOutcome, EnsureNetworkOutcome, AllocatePortOutcome,
   CreateContainerOutcome, StartContainerOutcome, ReloadOutcome, RemoveContainerOutcome,
   RemoveNetworkOutcome DEF Step

LEMMA NextKeepsIInv == IInv /\ [Next]_vars => IInv'
<1> SUFFICES ASSUME IInv, [Next]_vars PROVE IInv'
  OBVIOUS
<1>1. ASSUME NEW c \in Calls, Request(c) PROVE IInv'
  BY <1>1, RequestKeeps
<1>2. ASSUME NEW c \in Calls, Step(c) PROVE IInv'
  BY <1>2, StepOutcome, AcquireKeeps, OutcomeKeeps
<1>3. ASSUME NEW a \in Apps, ContainerStops(a) PROVE IInv'
  BY <1>3, ContainerStopsKeeps
<1>4. CASE Outsider
  BY <1>4, OutsiderKeeps
<1>5. CASE Restart
  BY <1>5, RestartKeeps
<1>6. CASE UNCHANGED vars
  BY <1>6 DEF vars, docker, IInv, Types, Locked, Knows, Settled, ContainerHasNetwork,
              Inside, InProgress, At, Exists
<1> QED BY <1>1, <1>2, <1>3, <1>4, <1>5, <1>6 DEF Next

(* IInv is an invariant of every behaviour of the provisioner.              *)
THEOREM Invariance == Spec => []IInv
BY InitIInv, NextKeepsIInv, PTL DEF Spec

(* A container that exists has its network, in every state: also between    *)
(* two requests of a call to Docker.                                        *)
THEOREM NetworkOutlivesContainer == Spec => []ContainerHasNetwork
BY Invariance, PTL DEF IInv

LEMMA TwoElements ==
  ASSUME NEW S \in SUBSET Ports, NEW p \in S, NEW q \in S, p # q
  PROVE  Cardinality(S) > 1
<1>1. IsFiniteSet(S)
  <2>1. PortMin \in Int /\ PortMax \in Int
    BY ProvisionerConstants
  <2>2. IsFiniteSet(Ports)
    BY <2>1, FS_Interval DEF Ports
  <2> QED BY <2>2, FS_Subset
<1>2. Cardinality({p}) = 1 /\ IsFiniteSet({p})
  BY FS_Singleton
<1>3. Cardinality({p} \cup {q}) = 2
  BY <1>2, FS_AddElement
<1>4. Cardinality({p} \cup {q}) <= Cardinality(S)
  BY <1>1, FS_Subset
<1>5. Cardinality(S) \in Nat
  BY <1>1, FS_CardinalityType
<1> QED BY <1>3, <1>4, <1>5

(* Two calls for one application never create its container together: a     *)
(* name is in use only after a port collision of the call's own.            *)
THEOREM ConflictIsOwn == Spec => []NoForeignConflict
<1>1. IInv => NoForeignConflict
  <2> SUFFICES ASSUME IInv, NEW c \in Calls, call[c].at = "conflict"
               PROVE  Cardinality(call[c].tried) > 1
    BY DEF NoForeignConflict
  <2>1. PICK p, q \in call[c].tried : p # q
    BY DEF IInv, Knows, At
  <2>2. call[c].tried \in SUBSET Ports
    BY DEF IInv, Types, CallRecord
  <2> QED BY <2>1, <2>2, TwoElements
<1> QED BY <1>1, Invariance, PTL
-----------------------------------------------------------------------------
(* The ports of the containers, and how often a call has tried one: never   *)
(* more than MAX_PORT_ATTEMPTS, because a call chooses another port only    *)
(* while it has an attempt left.                                            *)
Published(r) ==
  r = NoContainer \/ (r.state \in {"created", "running", "stopped"} /\ r.port \in Ports)

Tried(r) ==
  /\ Cardinality(r.tried) <= MaxPortAttempts
  /\ r.at \in {"lock", "find", "network"} => r.tried = {}
  /\ r.at = "allocate" => Cardinality(r.tried) < MaxPortAttempts
  /\ r.at \in {"create", "start"} => r.port \in Ports

PortInv ==
  /\ \A a \in Apps : Published(container[a])
  /\ network \subseteq Apps /\ taken \subseteq Ports
  /\ \A c \in Calls : Tried(call[c])
  /\ faults \in 0..MaxFaults

LEMMA FaultsBounded ==
  ASSUME faults \in 0..MaxFaults, UNCHANGED faults \/ \E kind : Fault(kind)
  PROVE  faults' \in 0..MaxFaults
BY ProvisionerConstants DEF Fault

LEMMA OneMore ==
  ASSUME NEW S \in SUBSET Ports, NEW p \in Ports, Cardinality(S) < MaxPortAttempts
  PROVE  Cardinality(S \cup {p}) <= MaxPortAttempts
<1>1. IsFiniteSet(S)
  <2>1. PortMin \in Int /\ PortMax \in Int
    BY ProvisionerConstants
  <2>2. IsFiniteSet(Ports)
    BY <2>1, FS_Interval DEF Ports
  <2> QED BY <2>2, FS_Subset
<1>2. Cardinality(S) \in Nat
  BY <1>1, FS_CardinalityType
<1>3. CASE p \in S
  <2>1. S \cup {p} = S
    BY <1>3
  <2> QED BY <1>2, <2>1, ProvisionerConstants
<1>4. CASE p \notin S
  <2>1. Cardinality(S \cup {p}) = Cardinality(S) + 1
    BY <1>1, <1>4, FS_AddElement
  <2> QED BY <1>2, <2>1, ProvisionerConstants
<1> QED BY <1>3, <1>4

LEMMA CallTried ==
  ASSUME IInv, PortInv, NEW c \in Calls, NEW r, call' = [call EXCEPT ![c] = r], Tried(r)
  PROVE  \A d \in Calls : Tried(call'[d])
BY DEF IInv, Types, PortInv

LEMMA GotoTried ==
  ASSUME IInv, PortInv, NEW c \in Calls, NEW pc, Goto(c, pc),
         \/ pc \in Ended \cup {"restart", "remove", "remove_network", "reload"}
         \/ At(c, "lock") /\ pc = "find"
         \/ At(c, "find") /\ pc = "network"
         \/ At(c, "network") /\ pc = "allocate"
         \/ At(c, "create") /\ pc = "start"
         \/ pc = "allocate" /\ Cardinality(call[c].tried) < MaxPortAttempts
  PROVE  \A d \in Calls : Tried(call'[d])
<1>1. call[c] \in CallRecord /\ Tried(call[c]) /\ call \in [Calls -> CallRecord]
  BY DEF IInv, Types, PortInv
<1> DEFINE r == [call[c] EXCEPT !.at = pc]
<1>2. call' = [call EXCEPT ![c] = r]
  BY <1>1 DEF Goto
<1>3. r.at = pc /\ r.tried = call[c].tried /\ r.port = call[c].port
  BY <1>1 DEF CallRecord
<1>4. 0 < MaxPortAttempts /\ Cardinality({}) = 0
  BY ProvisionerConstants, FS_EmptySet
<1> HIDE DEF r
<1>5. Tried(r)
  BY <1>1, <1>3, <1>4 DEF Tried, At, Ended
<1> QED BY <1>2, <1>5, CallTried

LEMMA ContainerPublished ==
  ASSUME IInv, PortInv, NEW a \in Apps, NEW r, Published(r),
         container' = [container EXCEPT ![a] = r]
  PROVE  \A b \in Apps : Published(container'[b])
BY DEF IInv, Types, PortInv

LEMMA StartedPublished ==
  ASSUME IInv, PortInv, NEW a \in Apps, Exists(a), NEW s \in {"running", "stopped"},
         container' = [container EXCEPT ![a].state = s]
  PROVE  \A b \in Apps : Published(container'[b])
<1>1. container[a].port \in Ports /\ container[a] \in Record /\ container \in [Apps -> Record]
  BY DEF IInv, Types, Record, PortInv, Published, Exists, NoContainer
<1> DEFINE r == [container[a] EXCEPT !.state = s]
<1>2. container' = [container EXCEPT ![a] = r]
  BY <1>1
<1>3. r.state = s /\ r.port \in Ports
  BY <1>1 DEF Record
<1> HIDE DEF r
<1>4. Published(r)
  BY <1>3 DEF Published
<1> QED BY <1>2, <1>4, ContainerPublished

LEMMA PortsOfStep ==
  ASSUME IInv, PortInv, NEW c \in Calls, Step(c)
  PROVE  /\ \A b \in Apps : Published(container'[b])
         /\ network' \subseteq Apps /\ taken' \subseteq Ports
<1> DEFINE a == call[c].app
<1>1. a \in Apps
  BY DEF Step, Acquire, Find, StartExisting, EnsureNetwork, AllocatePort, CreateContainer,
         StartContainer, Reload, RemoveContainer, RemoveNetwork, IInv, Types, At
<1>2. network' \subseteq Apps /\ taken' \subseteq Ports
  BY <1>1 DEF Step, Acquire, Find, StartExisting, EnsureNetwork, AllocatePort, CreateContainer,
         StartContainer, Reload, RemoveContainer, RemoveNetwork, PortInv, docker
<1> SUFFICES \A b \in Apps : Published(container'[b])
  BY <1>2
<1>3. CASE UNCHANGED container
  BY <1>3 DEF PortInv
<1>4. CASE StartExisting(c) \/ StartContainer(c)
  <2>1. Inside(c)
    BY <1>4 DEF StartExisting, StartContainer, Inside, InProgress, At, Ended
  <2>2. Exists(a)
    BY <1>4, <2>1, InsideFacts DEF StartExisting, StartContainer, Knows, At
  <2>3. container' \in {container, [container EXCEPT ![a].state = "running"]}
    BY <1>4 DEF StartExisting, StartContainer
  <2> QED BY <1>1, <1>3, <2>2, <2>3, StartedPublished
<1>5. CASE CreateContainer(c)
  <2> DEFINE r == [state |-> "created", port |-> call[c].port]
  <2>1. Published(r)
    BY <1>5 DEF CreateContainer, PortInv, Tried, At, Published
  <2>2. container' \in {container, [container EXCEPT ![a] = r]}
    BY <1>5 DEF CreateContainer
  <2> HIDE DEF r
  <2> QED BY <1>1, <1>3, <2>1, <2>2, ContainerPublished
<1>6. CASE RemoveContainer(c)
  <2>1. Published(NoContainer)
    BY DEF Published
  <2>2. container' \in {container, [container EXCEPT ![a] = NoContainer]}
    BY <1>6 DEF RemoveContainer
  <2> QED BY <1>1, <1>3, <2>1, <2>2, ContainerPublished
<1>7. UNCHANGED container \/ StartExisting(c) \/ StartContainer(c) \/ CreateContainer(c)
        \/ RemoveContainer(c)
  BY DEF Step, Acquire, Find, EnsureNetwork, AllocatePort, Reload, RemoveNetwork, docker
<1> QED BY <1>3, <1>4, <1>5, <1>6, <1>7

LEMMA TriesOfStep ==
  ASSUME IInv, PortInv, NEW c \in Calls, Step(c)
  PROVE  \A d \in Calls : Tried(call'[d])
<1>1. ASSUME NEW answer \in Ended, Answer(c, answer) PROVE \A d \in Calls : Tried(call'[d])
  BY <1>1, GotoTried DEF Answer
<1>2. CASE Acquire(c)
  BY <1>2, GotoTried DEF Acquire
<1>3. CASE Find(c)
  BY <1>1, <1>3, GotoTried DEF Find, Proceed, Ended
<1>4. CASE StartExisting(c) \/ Reload(c) \/ RemoveNetwork(c)
  BY <1>1, <1>4 DEF StartExisting, Reload, RemoveNetwork, Ended
<1>5. CASE EnsureNetwork(c)
  BY <1>1, <1>5, GotoTried DEF EnsureNetwork, Proceed, Ended
<1>6. CASE AllocatePort(c)
  <2>1. ASSUME NEW listed \in SUBSET {a \in Apps : Exists(a)}, NEW p \in Candidates(c, listed),
               call' = [call EXCEPT ![c] =
                          [call[c] EXCEPT !.at = "create", !.port = p, !.tried = @ \cup {p}]]
        PROVE  \A d \in Calls : Tried(call'[d])
    <3> DEFINE r == [call[c] EXCEPT !.at = "create", !.port = p, !.tried = @ \cup {p}]
    <3>1. call[c] \in CallRecord /\ p \in Ports
      BY <2>1 DEF IInv, Types, Candidates
    <3>2. r.at = "create" /\ r.port = p /\ r.tried = call[c].tried \cup {p}
      BY <3>1 DEF CallRecord
    <3>3. Cardinality(call[c].tried) < MaxPortAttempts /\ call[c].tried \in SUBSET Ports
      BY <1>6, <3>1 DEF AllocatePort, PortInv, Tried, At, CallRecord
    <3>4. Cardinality(call[c].tried \cup {p}) <= MaxPortAttempts
      BY <3>1, <3>3, OneMore
    <3>5. call' = [call EXCEPT ![c] = r]
      BY <2>1
    <3> HIDE DEF r
    <3>6. Tried(r)
      BY <3>1, <3>2, <3>4 DEF Tried
    <3> QED BY <3>5, <3>6, CallTried
  <2> QED BY <1>1, <1>6, <2>1 DEF AllocatePort, Ended
<1>7. CASE CreateContainer(c)
  BY <1>1, <1>7, GotoTried DEF CreateContainer, Proceed, Ended
<1>8. CASE StartContainer(c)
  BY <1>1, <1>8, GotoTried DEF StartContainer, Proceed, Ended
<1>9. CASE RemoveContainer(c)
  BY <1>1, <1>9, GotoTried DEF RemoveContainer, Proceed, Ended
<1> QED BY <1>2, <1>3, <1>4, <1>5, <1>6, <1>7, <1>8, <1>9 DEF Step

LEMMA FaultsOfStep ==
  ASSUME NEW c \in Calls, Step(c) PROVE UNCHANGED faults \/ \E kind : Fault(kind)
BY DEF Step, Acquire, Find, StartExisting, EnsureNetwork, AllocatePort, CreateContainer,
       StartContainer, Reload, RemoveContainer, RemoveNetwork

LEMMA NextKeepsPortInv == IInv /\ PortInv /\ [Next]_vars => PortInv'
<1> SUFFICES ASSUME IInv, PortInv, [Next]_vars PROVE PortInv'
  OBVIOUS
<1>0. faults \in 0..MaxFaults
  BY DEF PortInv
<1>1. ASSUME NEW c \in Calls, Request(c) PROVE PortInv'
  <2>1. PICK op \in {"provision", "deprovision"}, a \in Apps :
          call' = [call EXCEPT ![c] = [Unused EXCEPT !.op = op, !.app = a, !.at = "lock"]]
    BY <1>1 DEF Request
  <2> DEFINE r == [Unused EXCEPT !.op = op, !.app = a, !.at = "lock"]
  <2>2. Cardinality({}) = 0 /\ 0 <= MaxPortAttempts
    BY FS_EmptySet, ProvisionerConstants
  <2>3. r.at = "lock" /\ r.tried = {}
    BY DEF Unused
  <2>4. call' = [call EXCEPT ![c] = r]
    BY <2>1
  <2> HIDE DEF r
  <2>5. Tried(r)
    BY <2>2, <2>3 DEF Tried
  <2>6. \A d \in Calls : Tried(call'[d])
    BY <2>4, <2>5, CallTried
  <2> QED BY <1>1, <2>6 DEF Request, PortInv, docker
<1>2. ASSUME NEW c \in Calls, Step(c) PROVE PortInv'
  BY <1>0, <1>2, PortsOfStep, TriesOfStep, FaultsOfStep, FaultsBounded DEF PortInv
<1>3. ASSUME NEW a \in Apps, ContainerStops(a) PROVE PortInv'
  <2>1. \A b \in Apps : Published(container'[b])
    BY <1>3, StartedPublished DEF ContainerStops, Runs, Exists
  <2>2. faults' \in 0..MaxFaults
    BY <1>0, <1>3, FaultsBounded DEF ContainerStops
  <2> QED BY <1>3, <2>1, <2>2 DEF ContainerStops, PortInv
<1>4. CASE Outsider
  <2>1. faults' \in 0..MaxFaults
    BY <1>0, <1>4, FaultsBounded DEF Outsider
  <2> QED BY <1>4, <2>1 DEF Outsider, PortInv
<1>5. CASE Restart
  <2>1. ASSUME NEW c \in Calls PROVE Tried(call'[c])
    <3>1. call[c] \in CallRecord /\ Tried(call[c])
      BY DEF IInv, Types, PortInv
    <3>2. call'[c] \in {call[c], [call[c] EXCEPT !.at = "dead"]}
      BY <1>5 DEF Restart
    <3> QED BY <3>1, <3>2 DEF Tried, CallRecord
  <2>2. faults' \in 0..MaxFaults
    BY <1>0, <1>5, FaultsBounded DEF Restart
  <2> QED BY <1>5, <2>1, <2>2 DEF Restart, docker, PortInv
<1>6. CASE UNCHANGED vars
  BY <1>6 DEF vars, docker, PortInv
<1> QED BY <1>1, <1>2, <1>3, <1>4, <1>5, <1>6 DEF Next

(* The ports that containers publish and calls try stay in the range, a     *)
(* call tries at most MAX_PORT_ATTEMPTS of them, and it is inside its       *)
(* `with` block exactly while it holds the lock of its application.         *)
THEOREM ProvisionerTypes == Spec => []TypeOK
<1>1. Init => PortInv
  <2>1. Cardinality({}) = 0 /\ 0 <= MaxPortAttempts /\ 0 \in 0..MaxFaults
    BY FS_EmptySet, ProvisionerConstants
  <2> QED BY <2>1 DEF Init, PortInv, Published, Tried, Unused
<1>2. IInv /\ PortInv => TypeOK
  <2> SUFFICES ASSUME IInv, PortInv PROVE TypeOK
    OBVIOUS
  <2>1. \A c \in Calls : call[c].tried \subseteq Ports /\ Cardinality(call[c].tried) <= MaxPortAttempts
    BY DEF IInv, Types, CallRecord, PortInv, Tried
  <2>2. \A a \in Apps, c \in Calls :
          lock[a] = c <=> InProgress(c) /\ call[c].at # "lock" /\ call[c].app = a
    BY DEF IInv, Locked, Inside, At
  <2>3. network \subseteq Apps /\ settled \subseteq Apps /\ taken \subseteq Ports
    BY DEF IInv, PortInv
  <2> QED BY <2>1, <2>2, <2>3 DEF TypeOK, PortInv, Published
<1> QED BY <1>1, <1>2, InitIInv, NextKeepsIInv, NextKeepsPortInv, PTL DEF Spec
-----------------------------------------------------------------------------
(* Refinement of ContainerService                                           *)

LEMMA InitRefines == Init => Service!Init
<1> SUFFICES ASSUME Init PROVE Service!Init
  OBVIOUS
<1>1. Shown(Unused) = Service!Unused
  BY DEF Shown, Unused, Service!Unused
<1>2. ShownCalls = [c \in Calls |-> Service!Unused]
  BY <1>1 DEF Init, ShownCalls
<1> QED BY <1>2 DEF Init, Service!Init

LEMMA ShownExcept ==
  ASSUME NEW c \in Calls, call \in [Calls -> CallRecord], NEW r \in CallRecord,
         call' = [call EXCEPT ![c] = r]
  PROVE  /\ call'[c] = r
         /\ ShownCalls' = [ShownCalls EXCEPT ![c] = Shown(r)]
BY DEF ShownCalls, Shown

LEMMA AnswersRefines ==
  ASSUME IInv, NEW c \in Calls, Scope(c), Answers(c)
  PROVE  Service!Succeed(c) \/ Service!Fail(c)
<1> DEFINE a == call[c].app
<1>1. PICK answer \in {"ok", "failed", "conflict"} :
        /\ Answer(c, answer)
        /\ answer = "ok" => (container'[a].state # "none" <=> call[c].op = "provision")
  BY DEF Answers
<1>2. /\ Inside(c) /\ a \in Apps /\ call[c] \in CallRecord /\ lock[a] = c
      /\ call[c].op \in {"provision", "deprovision"}
      /\ call \in [Calls -> CallRecord]
  BY InsideFacts DEF Scope, IInv, Types
<1> DEFINE r == [call[c] EXCEPT !.at = answer]
           shown == IF answer = "ok" THEN "ok" ELSE "failed"
<1>3. r \in CallRecord /\ call' = [call EXCEPT ![c] = r]
  BY <1>1, <1>2 DEF Answer, Goto, CallRecord, Steps, Ended
<1>4. /\ ShownCalls[c] = Shown(call[c])
      /\ ShownCalls[c].at = "pending" /\ ShownCalls[c].app = a
      /\ ShownCalls[c].op = call[c].op
  BY <1>2 DEF ShownCalls, Shown, Inside, InProgress, At, Ended
<1>5. Shown(r) = [ShownCalls[c] EXCEPT !.at = shown]
  BY <1>1, <1>2, <1>4 DEF Shown, CallRecord
<1>6. ShownCalls' = [ShownCalls EXCEPT ![c].at = shown]
  BY <1>2, <1>3, <1>5, ShownExcept
<1> DEFINE now == container'[a].state # "none"
<1>7. settled' = IF now THEN settled \cup {a} ELSE settled \ {a}
  BY <1>1, <1>2 DEF Answer, Existing
<1>8. /\ Service!IsPending(c)
      /\ Service!After(c) = IF call[c].op = "provision" THEN settled \cup {a} ELSE settled \ {a}
  BY <1>4 DEF Service!IsPending, Service!After
<1>9. CASE answer = "ok"
  BY <1>1, <1>6, <1>7, <1>8, <1>9 DEF Service!Succeed
<1>10. CASE answer # "ok"
  <2>1. /\ call[c].op = "provision" /\ a \in settled => now
        /\ call[c].op = "deprovision" /\ now => a \in settled
    BY <1>2 DEF IInv, Settled, Scope, Exists
  <2>2. settled' \in {settled, Service!After(c)}
    BY <1>2, <1>7, <1>8, <2>1
  <2> QED BY <1>6, <1>8, <1>10, <2>2 DEF Service!Fail
<1> QED BY <1>9, <1>10

LEMMA StaysPending ==
  ASSUME NEW c \in Calls, call \in [Calls -> CallRecord], NEW r \in CallRecord,
         call' = [call EXCEPT ![c] = r], r.op = call[c].op, r.app = call[c].app,
         InProgress(c), r.at \notin Ended \cup {"unused"}
  PROVE  UNCHANGED ShownCalls
<1>1. Shown(r) = Shown(call[c])
  BY DEF Shown, InProgress, Ended
<1>2. ShownCalls' = [ShownCalls EXCEPT ![c] = Shown(call[c])]
  BY <1>1, ShownExcept
<1> QED BY <1>2 DEF ShownCalls

LEMMA StepRefines ==
  ASSUME IInv, NEW c \in Calls, Step(c)
  PROVE  Service!Succeed(c) \/ Service!Fail(c) \/ UNCHANGED <<settled, ShownCalls>>
<1>1. call \in [Calls -> CallRecord] /\ call[c] \in CallRecord
  BY DEF IInv, Types
<1>2. CASE Acquire(c)
  <2>1. PICK pc \in {"find", "remove"} : Goto(c, pc)
    BY <1>2 DEF Acquire
  <2> DEFINE r == [call[c] EXCEPT !.at = pc]
  <2>2. /\ call' = [call EXCEPT ![c] = r] /\ r \in CallRecord
        /\ r.op = call[c].op /\ r.app = call[c].app /\ r.at = pc
    BY <1>1, <2>1 DEF Goto, CallRecord, Steps
  <2>3. InProgress(c)
    BY <1>2 DEF Acquire, At, InProgress, Ended
  <2>4. pc \notin Ended \cup {"unused"}
    BY DEF Ended
  <2>5. UNCHANGED ShownCalls
    <3> HIDE DEF r
    <3> QED BY <1>1, <2>2, <2>3, <2>4, StaysPending
  <2> QED BY <1>2, <2>5 DEF Acquire
<1>3. CASE Scope(c) /\ Answers(c)
  BY <1>3, AnswersRefines
<1>4. CASE Scope(c) /\ GoesOn(c)
  <2>1. InProgress(c)
    BY <1>4 DEF Scope, Inside
  <2>2. UNCHANGED ShownCalls
    BY <1>1, <1>4, <2>1, StaysPending DEF GoesOn
  <2> QED BY <1>4, <2>2 DEF GoesOn
<1> QED BY <1>2, <1>3, <1>4, StepOutcome DEF Outcome

LEMMA RequestRefines ==
  ASSUME IInv, NEW c \in Calls, Request(c)
  PROVE  \E op \in Service!Operations, a \in Apps : Service!Request(c, op, a)
<1>1. PICK op \in {"provision", "deprovision"}, a \in Apps :
        call' = [call EXCEPT ![c] = [Unused EXCEPT !.op = op, !.app = a, !.at = "lock"]]
  BY DEF Request
<1> DEFINE r == [Unused EXCEPT !.op = op, !.app = a, !.at = "lock"]
<1>2. r \in CallRecord /\ Shown(r) = [op |-> op, app |-> a, at |-> "pending"]
  BY DEF Unused, CallRecord, Steps, Shown
<1>3. ShownCalls' = [ShownCalls EXCEPT ![c] = [op |-> op, app |-> a, at |-> "pending"]]
  <2> HIDE DEF r
  <2> QED BY <1>1, <1>2, ShownExcept DEF IInv, Types, r
<1>4. ShownCalls[c] = Service!Unused
  BY DEF Request, IInv, Types, At, ShownCalls, Shown, Unused, Service!Unused
<1>5. Service!Request(c, op, a)
  BY <1>3, <1>4 DEF Service!Request, Request
<1> QED BY <1>5 DEF Service!Operations

LEMMA RestartRefines == ASSUME IInv, Restart PROVE Service!Die
<1>1. ASSUME NEW c \in Calls
      PROVE  /\ Service!IsPending(c) <=> InProgress(c)
             /\ ShownCalls[c].op = call[c].op
             /\ InProgress(c) => ShownCalls[c].app = call[c].app
  BY DEF Service!IsPending, ShownCalls, Shown, InProgress, Ended, IInv, Types, At,
         CallRecord, Steps
<1>2. \E c \in Calls : Service!IsPending(c)
  BY <1>1 DEF Restart
<1>3. ASSUME NEW a \in Apps
      PROVE  \/ a \in settled' <=> a \in settled
             \/ \E c \in Calls : /\ Service!IsPending(c) /\ ShownCalls[c].app = a
                                 /\ a \in settled' <=> a \in Service!After(c)
  <2>1. a \in settled' <=> Exists(a)
    BY DEF Restart
  <2>2. CASE lock[a] = None
    BY <2>1, <2>2 DEF IInv, Settled
  <2>3. CASE lock[a] # None
    <3>1. PICK c \in Calls : lock[a] = c
      BY <2>3 DEF IInv, Types
    <3>2. /\ Inside(c) /\ InProgress(c) /\ call[c].app = a
          /\ call[c].op \in {"provision", "deprovision"}
      BY <3>1, InsideFacts DEF IInv, Locked, Inside
    <3>3. a \in Service!After(c) <=> call[c].op = "provision"
      BY <1>1, <3>2 DEF Service!After
    <3>4. /\ call[c].op = "provision" /\ a \in settled => Exists(a)
          /\ call[c].op = "deprovision" /\ Exists(a) => a \in settled
      BY <3>1 DEF IInv, Settled
    <3>5. Service!IsPending(c) /\ ShownCalls[c].app = a
      BY <1>1, <3>2
    <3>6. \/ a \in settled' <=> a \in settled
          \/ a \in settled' <=> a \in Service!After(c)
      BY <2>1, <3>2, <3>3, <3>4
    <3> QED BY <3>5, <3>6
  <2> QED BY <2>2, <2>3
<1>4. ShownCalls' = [c \in Calls |->
        IF Service!IsPending(c) THEN [ShownCalls[c] EXCEPT !.at = "dead"] ELSE ShownCalls[c]]
  <2> SUFFICES ASSUME NEW c \in Calls
      PROVE Shown(call'[c]) =
        IF Service!IsPending(c) THEN [ShownCalls[c] EXCEPT !.at = "dead"] ELSE ShownCalls[c]
    BY DEF ShownCalls
  <2>1. ShownCalls[c] = Shown(call[c])
    BY DEF ShownCalls
  <2>2. CASE InProgress(c)
    <3>1. call'[c] = [call[c] EXCEPT !.at = "dead"]
      BY <2>2 DEF Restart
    <3>2. call[c] \in CallRecord
      BY DEF IInv, Types
    <3>3. Shown(call'[c]) = [Shown(call[c]) EXCEPT !.at = "dead"]
      BY <3>1, <3>2 DEF Shown, CallRecord
    <3> QED BY <1>1, <2>1, <2>2, <3>3
  <2>3. CASE ~InProgress(c)
    <3>1. call'[c] = call[c]
      BY <2>3 DEF Restart
    <3> QED BY <1>1, <2>1, <2>3, <3>1
  <2> QED BY <2>2, <2>3
<1>5. settled' \subseteq Apps
  BY DEF Restart
<1> QED BY <1>2, <1>3, <1>4, <1>5 DEF Service!Die

(* The calls for one application take effect one after the other, for any   *)
(* number of calls, applications, ports and faults.                         *)
THEOREM Refinement == Spec => ImplementsService
<1>1. IInv /\ [Next]_vars => [Service!Next]_<<settled, ShownCalls>>
  <2> SUFFICES ASSUME IInv, Next \/ UNCHANGED vars
               PROVE  Service!Next \/ UNCHANGED <<settled, ShownCalls>>
    OBVIOUS
  <2>1. ASSUME NEW c \in Calls, Request(c) PROVE Service!Next
    BY <2>1, RequestRefines DEF Service!Next
  <2>2. ASSUME NEW c \in Calls, Step(c)
        PROVE  Service!Next \/ UNCHANGED <<settled, ShownCalls>>
    BY <2>2, StepRefines DEF Service!Next
  <2>3. CASE UNCHANGED <<call, settled>>
    BY <2>3 DEF ShownCalls
  <2>4. CASE Restart
    BY <2>4, RestartRefines DEF Service!Next
  <2> QED BY <2>1, <2>2, <2>3, <2>4 DEF Next, ContainerStops, Outsider, vars
<1> QED BY <1>1, InitRefines, Invariance, PTL
        DEF Spec, ImplementsService, Service!Spec, Service!serviceVars
=============================================================================
