-------------------------- MODULE ContainerService --------------------------
(***************************************************************************)
(* What docker_provisioner promises: the calls for one application take    *)
(* effect one after the other.  A call that succeeds has its effect, a     *)
(* call that fails has it or not, and when the process dies at most one    *)
(* call per application has an effect without an answer.                   *)
(***************************************************************************)
CONSTANTS Apps, Calls

VARIABLES
  present,  \* the applications that have a container
  call      \* each call: its operation, its application, where it is

serviceVars == <<present, call>>

Operations == {"provision", "deprovision"}
Unused == [op |-> "none", app |-> "none", at |-> "unused"]

IsPending(c) == call[c].at = "pending"

(* present, with the effect of a call                                       *)
After(c) ==
  IF call[c].op = "provision" THEN present \cup {call[c].app} ELSE present \ {call[c].app}

Init ==
  /\ present = {}
  /\ call = [c \in Calls |-> Unused]

Request(c, op, a) ==
  /\ call[c] = Unused
  /\ call' = [call EXCEPT ![c] = [op |-> op, app |-> a, at |-> "pending"]]
  /\ UNCHANGED present

Succeed(c) ==
  /\ IsPending(c)
  /\ present' = After(c)
  /\ call' = [call EXCEPT ![c].at = "ok"]

Fail(c) ==
  /\ IsPending(c)
  /\ present' \in {present, After(c)}
  /\ call' = [call EXCEPT ![c].at = "failed"]

(* The process dies with all its calls.                                     *)
Die ==
  /\ \E c \in Calls : IsPending(c)
  /\ present' \subseteq Apps
  /\ \A a \in Apps :
       \/ a \in present' <=> a \in present
       \/ \E c \in Calls : IsPending(c) /\ call[c].app = a /\ (a \in present' <=> a \in After(c))
  /\ call' = [c \in Calls |-> IF IsPending(c) THEN [call[c] EXCEPT !.at = "dead"] ELSE call[c]]

Next ==
  \/ \E c \in Calls, op \in Operations, a \in Apps : Request(c, op, a)
  \/ \E c \in Calls : Succeed(c) \/ Fail(c)
  \/ Die

Spec == Init /\ [][Next]_serviceVars
=============================================================================
