------------------------ MODULE RegistryCleanupProofs ------------------------
(***************************************************************************)
(* What the requests of Registry leave behind when they are over: nothing  *)
(* in ChirpStack without its row, no user without its application, and the *)
(* same names on both sides, as far as each kind of fault allows it.       *)
(***************************************************************************)
EXTENDS RegistryProofs

-----------------------------------------------------------------------------
(* Invariants that hold whatever fails *)

SubjectInChirpStack(s) == IF s = "tenant" THEN csTenant ELSE csApp[s]

(* A deletion reaches the row only after ChirpStack has none of it, and     *)
(* what a row or a PATCH speaks of has been created there.                  *)
Ordered ==
  /\ \A r \in Requests : req[r].step = "tenant_row" => csTenant = "gone"
  /\ \A r \in Requests : req[r].step = "app_row" => csApp[req[r].app] = "gone"
  /\ csTenant = "gone" => \A a \in Apps : csApp[a] # "present"
  /\ \A r \in Requests : req[r].step = "tenant_commit" => csTenant # "none"
  /\ tenant = "present" => csTenant # "none"
  /\ \A r \in Requests, s \in Subjects :
       req[r].step \in LabelSteps /\ req[r].app = s => SubjectInChirpStack(s) # "none"

(* A device is in an application that ChirpStack has.                       *)
Placed == \A e \in Euis : device[e] # None => csApp[device[e].app] = "present"

-----------------------------------------------------------------------------
(* Invariants under some kinds of fault *)

(* Without failing compensations, lost replies and crashes: what ChirpStack *)
(* has is in the database, or the request that created it will see to it.   *)
TenantKept == csTenant = "present" =>
  tenant = "present" \/ \E r \in Requests : req[r].step \in {"tenant_commit", "tenant_undo"}

Creates(r, a) ==
  req[r].app = a /\ req[r].step \in {"app_user", "app_commit", "app_undo_user", "app_undo"}
Creating(a) == \E r \in Requests : Creates(r, a)
AppsKept == \A a \in Apps : csApp[a] = "present" => app[a] = "present" \/ Creating(a)

(* Without any fault but a failing database                                 *)
UserSteps == {"app_commit", "app_undo_user", "app_drop_user"}
Answers(r, a) == req[r].app = a /\ req[r].step \in UserSteps
UsersKept == \A a \in users :
  app[a] = "present" \/ a \in cascaded \/ \E r \in Requests : Answers(r, a)

(* Without any fault but refusals: the POST that created a device goes on,  *)
(* or its row is there in the same application, or a DELETE will drop it.   *)
Posts(r, e) == /\ req[r].step \in {"device_keys", "device_commit", "device_undo"}
               /\ req[r].eui = e /\ req[r].app = device[e].app
DevicesKept == \A e \in Euis \ conflicts : device[e] # None =>
  \/ Posts(device[e].by, e)
  \/ row[e] # None /\ row[e].app = device[e].app
  \/ \E r \in Requests : req[r].step = "device_drop" /\ req[r].eui = e

(* Without refusals, lost commits and crashes: of a subject that no two     *)
(* PATCHes changed at once, ChirpStack has the names of the database, but   *)
(* for those that the one PATCH in progress has committed and will send.    *)
Mirrors(s) ==
  /\ \A r, q \in Patching(s) : r = q
  /\ (\A r \in Patching(s) : req[r].step = "label_commit") => csLabel[s] = label[s]
  /\ \A r \in Patching(s) : req[r].step = "label_commit" =>
       \A f \in Fields : req[r].label[f] \in {r, label[s][f]}
  /\ \A r \in Patching(s) : req[r].step = "label_send" => req[r].label = label[s]
LabelsKept == \A s \in Subjects \ overlapped : SubjectInChirpStack(s) # "gone" => Mirrors(s)

OrphanFaults == {"cleanup", "lost", "crash"}
UserFaults == {"refused", "cleanup", "lost", "commit", "crash"}
DeviceFaults == {"cleanup", "lost", "database", "commit", "crash"}
LabelFaults == {"refused", "commit", "crash"}

CleanupInv ==
  /\ Ordered /\ Placed
  /\ Without(OrphanFaults) => TenantKept /\ AppsKept
  /\ Without(UserFaults) => UsersKept
  /\ Without(DeviceFaults) => DevicesKept
  /\ Without(LabelFaults) => LabelsKept

-----------------------------------------------------------------------------
(* What a step of request r does to the requests: the others wait, and r    *)
(* goes on with what it remembers, or is over.                              *)
LEMMA StepTaken ==
  ASSUME TypeInv, NEW r \in Requests
  PROVE  /\ \A s : Goto(r, s) =>
              /\ req'[r].step = s /\ req'[r].app = req[r].app /\ req'[r].eui = req[r].eui
              /\ req'[r].label = req[r].label
              /\ \A q \in Requests \ {r} : req'[q] = req[q]
         /\ \A x : Begin(r, x) => /\ req[r].step = "new" /\ req'[r] = x
                                  /\ \A q \in Requests \ {r} : req'[q] = req[q]
         /\ End(r) => /\ req'[r].step = "over"
                      /\ \A q \in Requests \ {r} : req'[q] = req[q]
<1>1. req[r] \in Records /\ ReqOK
  BY DEF TypeInv, ReqOK
<1>2. ASSUME NEW s, Goto(r, s)
      PROVE  /\ req'[r].app = req[r].app /\ req'[r].eui = req[r].eui
             /\ req'[r].label = req[r].label
  <2>1. req'[r] = [req[r] EXCEPT !.step = s]
    BY <1>1, <1>2 DEF Goto, ReqOK
  <2> QED BY <1>1, <2>1 DEF Records
<1> QED BY <1>1, <1>2, StepAfter

-----------------------------------------------------------------------------
(* Ordered and Placed *)

(* ChirpStack forgets nothing it has had, and its tenant takes the          *)
(* applications along.                                                      *)
Forward ==
  /\ csTenant = "gone" => csTenant' = "gone"
  /\ csTenant # "none" => csTenant' # "none"
  /\ \A a \in Apps : /\ csApp[a] = "gone" => csApp'[a] = "gone"
                     /\ csApp[a] # "none" => csApp'[a] # "none"
  /\ csTenant' = "gone" => \A a \in Apps : csApp'[a] # "present"

LEMMA OrderedStep ==
  ASSUME TypeInv, Ordered, Forward, NEW r \in Requests,
         \A q \in Requests \ {r} : req'[q] = req[q],
         req'[r].step = "tenant_row" => csTenant' = "gone",
         req'[r].step = "app_row" => csApp'[req'[r].app] = "gone",
         req'[r].step = "tenant_commit" => csTenant' # "none",
         \A s \in Subjects : req'[r].step \in LabelSteps /\ req'[r].app = s
           => SubjectInChirpStack(s)' # "none",
         tenant' = "present" => tenant = "present" \/ csTenant' # "none"
  PROVE  Ordered'
<1>1. \A q \in Requests : req[q].step = "app_row" => req[q].app \in Apps
  BY DEF TypeInv, ReqOK, Remembers, AppSteps
<1>2. \A s \in Subjects : SubjectInChirpStack(s) # "none" => SubjectInChirpStack(s)' # "none"
  BY DEF SubjectInChirpStack, Forward, Subjects
<1>3. ASSUME NEW q \in Requests \ {r}
      PROVE  /\ req'[q].step = "tenant_row" => csTenant' = "gone"
             /\ req'[q].step = "app_row" => csApp'[req'[q].app] = "gone"
             /\ req'[q].step = "tenant_commit" => csTenant' # "none"
             /\ \A s \in Subjects : req'[q].step \in LabelSteps /\ req'[q].app = s
                  => SubjectInChirpStack(s)' # "none"
  BY <1>1, <1>2 DEF Ordered, Forward
<1>4. /\ csTenant' = "gone" => \A a \in Apps : csApp'[a] # "present"
      /\ tenant' = "present" => csTenant' # "none"
  BY DEF Ordered, Forward
<1> QED BY <1>3, <1>4 DEF Ordered

LEMMA DevicePlace ==
  ASSUME TypeInv, NEW e \in Euis, device[e] # None
  PROVE  device[e].app \in Apps /\ device[e].by \in Requests
BY DEF TypeInv, StoreOK

LEMMA Dropped ==
  ASSUME TypeInv, Placed, NEW as \in SUBSET Apps, DropFromChirpStack(as)
  PROVE  /\ \A a \in Apps : csApp'[a] = IF a \in as /\ csApp[a] = "present"
                                        THEN "gone" ELSE csApp[a]
         /\ \A a \in as : csApp'[a] # "present"
         /\ \A e \in Euis : device'[e] \in {None, device[e]}
         /\ Placed'
<1>1. /\ \A a \in Apps : csApp'[a] = IF a \in as /\ csApp[a] = "present"
                                     THEN "gone" ELSE csApp[a]
      /\ \A e \in Euis : device'[e] = IF device[e] # None /\ device[e].app \in as
                                      THEN None ELSE device[e]
  BY DEF DropFromChirpStack
<1>2. \A a \in as : csApp'[a] # "present"
  BY <1>1 DEF TypeInv, StoreOK
<1>3. ASSUME NEW e \in Euis, device'[e] # None PROVE csApp'[device'[e].app] = "present"
  <2>1. device'[e] = device[e] /\ device[e].app \notin as
    BY <1>1, <1>3
  <2>2. device[e].app \in Apps /\ csApp[device[e].app] = "present"
    BY <1>3, <2>1, DevicePlace DEF Placed
  <2> QED BY <1>1, <2>1, <2>2
<1> QED BY <1>1, <1>2, <1>3 DEF Placed

LEMMA StandStill ==
  ASSUME Ordered, UNCHANGED <<csTenant, csApp>> PROVE Forward
BY DEF Ordered, Forward

(* The tenant goes from ChirpStack with all its applications.               *)
LEMMA TenantGone ==
  ASSUME TypeInv, Ordered, Placed, csTenant' = "gone", DropFromChirpStack(Apps)
  PROVE  Forward /\ Placed'
<1>1. /\ \A a \in Apps : csApp'[a] = IF csApp[a] = "present" THEN "gone" ELSE csApp[a]
      /\ \A a \in Apps : csApp'[a] # "present"
      /\ Placed'
  BY Dropped
<1>2. \A a \in Apps : /\ csApp[a] = "gone" => csApp'[a] = "gone"
                      /\ csApp[a] # "none" => csApp'[a] # "none"
  BY <1>1
<1> QED BY <1>1, <1>2 DEF Forward

LEMMA TenantOrdered ==
  ASSUME TypeInv, Ordered, Placed, NEW r \in Requests, NEW o \in Outcomes,
         \/ CreateTenant(r, o) \/ CommitTenant(r, o) \/ UndoTenant(r, o)
         \/ DeleteTenant(r, o) \/ CommitTenantDeletion(r, o)
  PROVE  Ordered' /\ Placed'
<1> USE StepTaken DEF chirpstack, LabelSteps
<1>1. CASE CreateTenant(r, o)
  <2>1. /\ csTenant = "none" /\ UNCHANGED <<tenant, csApp, device>>
        /\ \/ req'[r].step = "over"
           \/ req'[r].step = "tenant_commit" /\ csTenant' = "present"
        /\ csTenant' \in {"none", "present"}
        /\ \A q \in Requests \ {r} : req'[q] = req[q]
    <3>1. PICK x \in {Over, [Over EXCEPT !.step = "tenant_commit"]} :
            Begin(r, x) /\ (x = Over \/ csTenant' = "present")
      BY <1>1 DEF CreateTenant
    <3>2. x.step = "over" \/ (x.step = "tenant_commit" /\ x # Over)
      BY DEF Over
    <3>3. req'[r] = x /\ \A q \in Requests \ {r} : req'[q] = req[q]
      BY <3>1
    <3>4. csTenant = "none" /\ UNCHANGED <<tenant, csApp, device>> /\ csTenant' \in {"none", "present"}
      BY <1>1 DEF CreateTenant, database
    <3> QED BY <3>1, <3>2, <3>3, <3>4
  <2>2. Forward
    BY <2>1 DEF Forward
  <2> QED BY <2>1, <2>2, OrderedStep DEF Placed
<1>2. CASE CommitTenant(r, o)
  <2>1. /\ UNCHANGED <<csTenant, csApp, device>> /\ csTenant # "none"
        /\ req'[r].step \in {"over", "tenant_undo"}
        /\ \A q \in Requests \ {r} : req'[q] = req[q]
    BY <1>2 DEF CommitTenant, Ordered
  <2> QED BY <2>1, StandStill, OrderedStep DEF Placed
<1>3. CASE UndoTenant(r, o)
  <2>1. /\ UNCHANGED tenant /\ req'[r].step = "over"
        /\ \A q \in Requests \ {r} : req'[q] = req[q]
        /\ \/ csTenant' = "gone" /\ DropFromChirpStack(Apps)
           \/ UNCHANGED <<csTenant, csApp, device>>
    BY <1>3 DEF UndoTenant, database
  <2>2. Forward /\ Placed'
    BY <2>1, StandStill, TenantGone DEF Placed
  <2> QED BY <2>1, <2>2, OrderedStep
<1>4. CASE DeleteTenant(r, o)
  <2>1. /\ UNCHANGED tenant
        /\ \A q \in Requests \ {r} : req'[q] = req[q]
        /\ \/ csTenant' = "gone" /\ DropFromChirpStack(Apps)
              /\ req'[r].step \in {"tenant_row", "over"}
           \/ UNCHANGED <<csTenant, csApp, device>> /\ req'[r].step = "over"
    <3>1. PICK x \in {Over, [Over EXCEPT !.step = "tenant_row"]} :
            /\ Begin(r, x)
            /\ \/ csTenant' = "gone" /\ DropFromChirpStack(Apps)
               \/ UNCHANGED <<csTenant, csApp, device>> /\ x = Over
      BY <1>4 DEF DeleteTenant
    <3>2. x.step \in {"tenant_row", "over"} /\ (x = Over => x.step = "over")
      BY DEF Over
    <3>3. req'[r] = x /\ (\A q \in Requests \ {r} : req'[q] = req[q]) /\ UNCHANGED tenant
      BY <1>4, <3>1 DEF DeleteTenant, database
    <3> QED BY <3>1, <3>2, <3>3
  <2>2. Forward /\ Placed'
    BY <2>1, StandStill, TenantGone DEF Placed
  <2> QED BY <2>1, <2>2, OrderedStep
<1>5. CASE CommitTenantDeletion(r, o)
  <2>1. /\ UNCHANGED <<csTenant, csApp, device>> /\ tenant' \in {tenant, "gone"}
        /\ req'[r].step = "over" /\ \A q \in Requests \ {r} : req'[q] = req[q]
    BY <1>5 DEF CommitTenantDeletion
  <2> QED BY <2>1, StandStill, OrderedStep DEF Placed
<1> QED BY <1>1, <1>2, <1>3, <1>4, <1>5

(* A step after which r remembers nothing that Ordered speaks of            *)
LEMMA Aside ==
  ASSUME TypeInv, Ordered, Forward, NEW r \in Requests, UNCHANGED tenant,
         \A q \in Requests \ {r} : req'[q] = req[q],
         req'[r].step \notin {"tenant_row", "app_row", "tenant_commit"} \cup LabelSteps
  PROVE  Ordered'
BY OrderedStep

LEMMA UpdateOrdered ==
  ASSUME TypeInv, Known, Ordered, Placed, NEW r \in Requests,
         \/ \E fields \in Payloads : \/ UpdateTenant(r, fields)
                                     \/ \E a \in Apps : UpdateApplication(r, a, fields)
         \/ \E o \in Outcomes : CommitUpdate(r, o) \/ SendUpdate(r, o)
  PROVE  Ordered' /\ Placed'
<1>1. UNCHANGED <<tenant, csTenant, csApp, device>>
  BY DEF UpdateTenant, UpdateApplication, BeginUpdate, CommitUpdate, SendUpdate, database, chirpstack
<1>2. Forward /\ Placed'
  BY <1>1, StandStill DEF Placed
<1>3. ASSUME NEW s \in Subjects, NEW fields, BeginUpdate(r, s, fields),
             SubjectInChirpStack(s) # "none"
      PROVE  Ordered'
  <2>1. req'[r].step = "label_commit" /\ req'[r].app = s /\ \A q \in Requests \ {r} : req'[q] = req[q]
    <3>1. PICK l : Begin(r, [Over EXCEPT !.step = "label_commit", !.app = s, !.label = l])
      BY <1>3 DEF BeginUpdate
    <3> DEFINE x == [Over EXCEPT !.step = "label_commit", !.app = s, !.label = l]
    <3>2. x.step = "label_commit" /\ x.app = s
      BY DEF Over
    <3>3. req'[r] = x /\ \A q \in Requests \ {r} : req'[q] = req[q]
      BY <3>1, StepTaken
    <3> QED BY <3>2, <3>3
  <2>2. SubjectInChirpStack(s)' # "none"
    BY <1>1, <1>3 DEF SubjectInChirpStack
  <2> QED BY <1>1, <1>2, <2>1, <2>2, OrderedStep
<1>4. ASSUME NEW fields \in Payloads, UpdateTenant(r, fields) PROVE Ordered'
  BY <1>3, <1>4 DEF UpdateTenant, Ordered, SubjectInChirpStack, Subjects
<1>5. ASSUME NEW fields \in Payloads, NEW a \in Apps, UpdateApplication(r, a, fields) PROVE Ordered'
  <2>1. a \in Subjects /\ SubjectInChirpStack(a) # "none" /\ BeginUpdate(r, a, fields)
    BY <1>5, RegistryConstants DEF UpdateApplication, Known, SubjectInChirpStack, Subjects
  <2> QED BY <1>3, <2>1
<1>6. ASSUME NEW o \in Outcomes, CommitUpdate(r, o) \/ SendUpdate(r, o) PROVE Ordered'
  <2>1. /\ \/ req'[r].step = "over"
           \/ req'[r].step = "label_send" /\ req[r].step = "label_commit" /\ req'[r].app = req[r].app
        /\ \A q \in Requests \ {r} : req'[q] = req[q]
    BY <1>6, StepTaken DEF CommitUpdate, SendUpdate
  <2>2. \A s \in Subjects : req'[r].step \in LabelSteps /\ req'[r].app = s
          => SubjectInChirpStack(s)' # "none"
    BY <1>1, <2>1 DEF Ordered, LabelSteps, SubjectInChirpStack
  <2> QED BY <1>1, <1>2, <2>1, <2>2, OrderedStep
<1> QED BY <1>2, <1>3, <1>4, <1>5, <1>6

LEMMA RemoveApplicationOrdered ==
  ASSUME TypeInv, Ordered, Placed, NEW a \in Apps, NEW o \in Outcomes, RemoveApplication(a, o),
         UNCHANGED csTenant
  PROVE  Forward /\ Placed' /\ (o = "done" => csApp'[a] = "gone")
<1>1. CASE UNCHANGED <<csApp, device>> /\ o # "done"
  BY <1>1, StandStill DEF Placed
<1>2. CASE DropFromChirpStack({a}) /\ csApp[a] = "present"
  <2>1. /\ \A b \in Apps : csApp'[b] = IF b \in {a} /\ csApp[b] = "present" THEN "gone" ELSE csApp[b]
        /\ Placed'
    BY <1>2, Dropped
  <2>2. Forward /\ csApp'[a] = "gone"
    BY <1>2, <2>1 DEF Forward, Ordered
  <2> QED BY <2>1, <2>2
<1> QED BY <1>1, <1>2 DEF RemoveApplication

LEMMA ApplicationOrdered ==
  ASSUME TypeInv, Ordered, Placed, NEW r \in Requests, ApplicationRequest(r)
  PROVE  Ordered' /\ Placed'
<1> USE StepTaken DEF LabelSteps
<1>0. req[r].step \in AppSteps => req[r].app \in Apps
  BY DEF TypeInv, ReqOK, Remembers
<1>1. ASSUME NEW a \in Apps, NEW o \in Outcomes, CreateApplication(r, a, o) PROVE Ordered' /\ Placed'
  <2>1. PICK x \in {Over, [Over EXCEPT !.step = "app_user", !.app = a]} : Begin(r, x)
    BY <1>1 DEF CreateApplication
  <2>2. req'[r].step \in {"over", "app_user"} /\ \A q \in Requests \ {r} : req'[q] = req[q]
    <3>1. Over.step = "over" /\ (x = Over \/ x.step = "app_user")
      BY DEF Over
    <3> QED BY <2>1, <3>1
  <2>3. /\ UNCHANGED <<tenant, csTenant, device>>
        /\ csApp' = csApp \/ (csTenant = "present" /\ csApp' = [csApp EXCEPT ![a] = "present"])
        /\ csApp[a] = "none"
    BY <1>1 DEF CreateApplication, database
  <2>4. \A b \in Apps : csApp'[b] = csApp[b] \/ (b = a /\ csApp'[b] = "present")
    BY <2>3 DEF TypeInv, StoreOK
  <2>5. Forward
    BY <2>3, <2>4, StandStill DEF Forward, Ordered
  <2>6. Placed'
    BY <2>3, <2>4, DevicePlace DEF Placed
  <2> QED BY <2>2, <2>3, <2>5, <2>6, Aside
<1>2. ASSUME NEW a \in Apps, NEW o \in Outcomes, DeleteApplication(r, a, o) PROVE Ordered' /\ Placed'
  <2>1. PICK x \in {Over, [Over EXCEPT !.step = "app_row", !.app = a]} :
          Begin(r, x) /\ (x = Over \/ o = "done")
    BY <1>2 DEF DeleteApplication
  <2>2. x.step = "over" \/ (x.step = "app_row" /\ x.app = a /\ o = "done")
    <3>1. Over.step = "over" /\ (x = Over \/ (x.step = "app_row" /\ x.app = a))
      BY DEF Over
    <3> QED BY <2>1, <3>1
  <2>3. Forward /\ Placed' /\ (o = "done" => csApp'[a] = "gone") /\ UNCHANGED tenant
    BY <1>2, RemoveApplicationOrdered DEF DeleteApplication, database
  <2>4. req'[r] = x /\ \A q \in Requests \ {r} : req'[q] = req[q]
    BY <2>1
  <2> QED BY <2>2, <2>3, <2>4, OrderedStep
<1>3. ASSUME NEW o \in Outcomes, UndoApplication(r, o) PROVE Ordered' /\ Placed'
  <2>1. /\ req'[r].step = "over" /\ (\A q \in Requests \ {r} : req'[q] = req[q])
        /\ UNCHANGED tenant /\ Forward /\ Placed'
    BY <1>0, <1>3, RemoveApplicationOrdered DEF UndoApplication, AppSteps, database
  <2> QED BY <2>1, Aside
<1>4. ASSUME NEW o \in Outcomes,
             \/ ProvisionUser(r, o) \/ CommitApplication(r, o) \/ UndoUser(r, o)
             \/ CommitApplicationDeletion(r, o) \/ DropUser(r, o)
      PROVE  Ordered' /\ Placed'
  <2>1. UNCHANGED <<tenant, csTenant, csApp, device>>
    BY <1>4 DEF ProvisionUser, CommitApplication, UndoUser, CommitApplicationDeletion, DropUser,
         database, chirpstack
  <2>2. /\ req'[r].step \in {"app_commit", "app_undo", "over", "app_undo_user", "app_drop_user"}
        /\ \A q \in Requests \ {r} : req'[q] = req[q]
    BY <1>4 DEF ProvisionUser, CommitApplication, UndoUser, CommitApplicationDeletion, DropUser
  <2> QED BY <2>1, <2>2, StandStill, Aside DEF Placed
<1> QED BY <1>1, <1>2, <1>3, <1>4 DEF ApplicationRequest

(* What the steps about devices do to the device of their EUI               *)
LEMMA CreatedDevice ==
  ASSUME TypeInv, NEW r \in Requests, NEW o \in Outcomes, CreateDevice(r, o)
  PROVE  LET e == req[r].eui IN
         /\ e \in Euis /\ req[r].app \in Apps
         /\ \A d \in Euis \ {e} : device'[d] = device[d]
         /\ \/ device'[e] = device[e]
            \/ /\ device'[e] # None /\ device'[e].app = req[r].app /\ device'[e].by = r
               /\ csApp[req[r].app] = "present" /\ device[e] = None
<1>1. req[r].eui \in Euis /\ req[r].app \in Apps
  BY DEF CreateDevice, TypeInv, ReqOK, Remembers, PostSteps
<1>2. CASE device' = device
  BY <1>1, <1>2
<1>3. CASE /\ device' = [device EXCEPT ![req[r].eui] = [app |-> req[r].app, by |-> r, keys |-> None]]
           /\ csApp[req[r].app] = "present" /\ device[req[r].eui] = None
  <2>1. device'[req[r].eui] = [app |-> req[r].app, by |-> r, keys |-> None]
    BY <1>1, <1>3 DEF TypeInv, StoreOK
  <2> QED BY <1>1, <1>3, <2>1, DeviceRecord
<1> QED BY <1>2, <1>3 DEF CreateDevice

LEMMA KeyedDevice ==
  ASSUME TypeInv, NEW r \in Requests, NEW o, CreateKeys(r, o)
  PROVE  \A e \in Euis : \/ device'[e] = device[e]
                         \/ /\ device[e] # None /\ device'[e] # None
                            /\ device'[e].app = device[e].app /\ device'[e].by = device[e].by
<1>1. req[r].eui \in Euis
  BY DEF CreateKeys, TypeInv, ReqOK, Remembers, PostSteps
<1>2. CASE device' = device
  BY <1>2
<1>3. CASE device' = [device EXCEPT ![req[r].eui].keys = r] /\ device[req[r].eui] # None
  <2>1. PICK a \in Apps, p \in Requests, k \in Requests \cup {None} :
          device[req[r].eui] = [app |-> a, by |-> p, keys |-> k]
    BY <1>1, <1>3 DEF TypeInv, StoreOK
  <2>2. device'[req[r].eui] = [app |-> a, by |-> p, keys |-> r]
    BY <1>1, <1>3, <2>1 DEF TypeInv, StoreOK
  <2>3. \A e \in Euis : e # req[r].eui => device'[e] = device[e]
    BY <1>1, <1>3 DEF TypeInv, StoreOK
  <2> QED BY <2>1, <2>2, <2>3, DeviceRecord
<1> QED BY <1>2, <1>3 DEF CreateKeys, Keyless

LEMMA RemovedDevice ==
  ASSUME TypeInv, NEW e \in Euis, NEW p, NEW o, RemoveDevice(e, p, o)
  PROVE  /\ \A d \in Euis \ {e} : device'[d] = device[d]
         /\ device'[e] \in {None, device[e]} /\ (o # "refused" => device'[e] = None)
BY DEF RemoveDevice, TypeInv, StoreOK

LEMMA DeviceOrdered ==
  ASSUME TypeInv, Ordered, Placed, NEW r \in Requests, DeviceRequest(r)
  PROVE  Ordered' /\ Placed'
<1> USE StepTaken DEF LabelSteps, database, chirpstack
<1>1. UNCHANGED <<tenant, csTenant, csApp>> /\ Forward
  <2>1. UNCHANGED <<tenant, csTenant, csApp>>
    BY DEF DeviceRequest, FindDevice, CheckDevice, CreateDevice, CreateKeys, UndoDevice,
         CommitDevice, CommitDeviceDeletion, DropDevice
  <2> QED BY <2>1, StandStill
<1>2. Ordered'
  <2>1. ASSUME NEW a \in Apps, NEW e \in Euis, CheckDevice(r, a, e) PROVE Ordered'
    <3>1. [Over EXCEPT !.step = "device_create", !.app = a, !.eui = e].step = "device_create"
      BY DEF Over
    <3>2. req'[r].step = "device_create" /\ \A q \in Requests \ {r} : req'[q] = req[q]
      BY <2>1, <3>1 DEF CheckDevice
    <3> QED BY <1>1, <3>2, Aside
  <2>2. ASSUME NEW e \in Euis, FindDevice(r, e) PROVE Ordered'
    <3>1. [Over EXCEPT !.step = "device_row", !.eui = e, !.by = row[e].by].step = "device_row"
      BY DEF Over
    <3>2. req'[r].step = "device_row" /\ \A q \in Requests \ {r} : req'[q] = req[q]
      BY <2>2, <3>1 DEF FindDevice
    <3> QED BY <1>1, <3>2, Aside
  <2>3. ASSUME NEW o \in Outcomes, CreateDevice(r, o) \/ CreateKeys(r, o) \/ UndoDevice(r, o)
               \/ CommitDevice(r, o) \/ CommitDeviceDeletion(r, o) \/ DropDevice(r, o)
        PROVE  Ordered'
    <3>1. /\ req'[r].step \in {"over", "device_keys", "device_commit", "device_undo", "device_drop"}
          /\ \A q \in Requests \ {r} : req'[q] = req[q]
      BY <2>3 DEF CreateDevice, CreateKeys, UndoDevice, CommitDevice, CommitDeviceDeletion, DropDevice
    <3> QED BY <1>1, <3>1, Aside
  <2> QED BY <2>1, <2>2, <2>3 DEF DeviceRequest
<1>3. \A e \in Euis :
        \/ device'[e] \in {None, device[e]}
        \/ device'[e] # None /\ csApp[device'[e].app] = "present"
  <2>1. ASSUME NEW o \in Outcomes, CreateDevice(r, o)
        PROVE  \A e \in Euis : \/ device'[e] = device[e]
                               \/ device'[e] # None /\ csApp[device'[e].app] = "present"
    BY <2>1, CreatedDevice
  <2>2. ASSUME NEW o \in Outcomes, CreateKeys(r, o)
        PROVE  \A e \in Euis : \/ device'[e] = device[e]
                               \/ device'[e] # None /\ csApp[device'[e].app] = "present"
    BY <2>2, KeyedDevice DEF Placed
  <2>3. ASSUME NEW o \in Outcomes, UndoDevice(r, o) \/ DropDevice(r, o)
        PROVE  \A e \in Euis : device'[e] \in {None, device[e]}
    <3>1. req[r].eui \in Euis
      BY <2>3 DEF UndoDevice, DropDevice, TypeInv, ReqOK, Remembers, PostSteps, DeleteSteps
    <3> QED BY <2>3, <3>1, RemovedDevice DEF UndoDevice, DropDevice
  <2> QED BY <2>1, <2>2, <2>3 DEF DeviceRequest, FindDevice, CheckDevice, CommitDevice,
       CommitDeviceDeletion
<1>4. Placed'
  BY <1>1, <1>3 DEF Placed
<1> QED BY <1>2, <1>4

LEMMA OrderedInductive ==
  ASSUME TypeInv, Known, Ordered, Placed, [Next]_vars
  PROVE  Ordered' /\ Placed'
<1>1. CASE UNCHANGED vars
  BY <1>1 DEF vars, database, chirpstack, Ordered, Placed, SubjectInChirpStack
<1>2. ASSUME NEW r \in Requests, TenantRequest(r) PROVE Ordered' /\ Placed'
  BY <1>2, TenantOrdered, UpdateOrdered DEF TenantRequest
<1>3. ASSUME NEW r \in Requests, Crash(r) PROVE Ordered' /\ Placed'
  <2>1. /\ UNCHANGED <<tenant, csTenant, csApp, device>> /\ req'[r].step = "over"
        /\ \A q \in Requests \ {r} : req'[q] = req[q]
    BY <1>3, StepTaken DEF Crash, database, chirpstack
  <2> QED BY <2>1, StandStill, Aside DEF Placed, LabelSteps
<1> QED BY <1>1, <1>2, <1>3, ApplicationOrdered, DeviceOrdered DEF Next

-----------------------------------------------------------------------------
(* Nothing is left in ChirpStack *)

LEMMA Excluded ==
  ASSUME NEW kinds, Without(kinds)'
  PROVE  \A k \in kinds : ~Fault(k)
BY DEF Fault, Without

LEMMA TenantKeptElsewhere ==
  ASSUME TenantKept, NEW r \in Requests, Elsewhere(r) PROVE TenantKept'
BY DEF TenantKept, Elsewhere, TenantSteps

LEMMA TenantKeptStep ==
  ASSUME TypeInv, Ordered, TenantKept, Without(OrphanFaults)', [Next]_vars
  PROVE  TenantKept'
<1> USE StepTaken DEF chirpstack
<1>0. \A k \in OrphanFaults : ~Fault(k)
  BY Excluded
<1>1. ASSUME NEW r \in Requests, NEW o \in Outcomes, CreateTenant(r, o) PROVE TenantKept'
  <2>1. (o = "refused" /\ csTenant' = "none") \/ o = "done"
    BY <1>0, <1>1 DEF CreateTenant, Call, Attempt, OrphanFaults
  <2>2. o = "done" => req'[r].step = "tenant_commit"
    BY <1>1 DEF CreateTenant, Over
  <2> QED BY <2>1, <2>2 DEF TenantKept
<1>2. ASSUME NEW r \in Requests, NEW o \in Outcomes, CommitTenant(r, o) PROVE TenantKept'
  BY <1>2 DEF CommitTenant, TenantKept, Outcomes
<1>3. ASSUME NEW r \in Requests, NEW o \in Outcomes, UndoTenant(r, o) PROVE TenantKept'
  <2>1. csTenant' # "present"
    BY <1>0, <1>3 DEF UndoTenant, Cleanup, Attempt, OrphanFaults
  <2> QED BY <2>1 DEF TenantKept
<1>4. ASSUME NEW r \in Requests, NEW o \in Outcomes, DeleteTenant(r, o) PROVE TenantKept'
  BY <1>4 DEF DeleteTenant, TenantKept, database
<1>5. ASSUME NEW r \in Requests, NEW o \in Outcomes, CommitTenantDeletion(r, o) PROVE TenantKept'
  BY <1>5 DEF CommitTenantDeletion, TenantKept, Ordered
<1>6. ASSUME NEW r \in Requests, TenantRequest(r) PROVE TenantKept'
  <2>1. CASE \E o \in Outcomes : CreateTenant(r, o) \/ CommitTenant(r, o) \/ UndoTenant(r, o)
                                 \/ DeleteTenant(r, o) \/ CommitTenantDeletion(r, o)
    BY <1>1, <1>2, <1>3, <1>4, <1>5, <2>1
  <2>2. CASE \/ \E s, fields : BeginUpdate(r, s, fields)
             \/ \E o \in Outcomes : CommitUpdate(r, o) \/ SendUpdate(r, o)
    BY <2>2, UpdateElsewhere, TenantKeptElsewhere DEF TypeInv
  <2> QED BY <1>6, <2>1, <2>2 DEF TenantRequest, UpdateTenant, UpdateApplication
<1>7. ASSUME NEW r \in Requests, ApplicationRequest(r) \/ DeviceRequest(r) PROVE TenantKept'
  BY <1>7, ApplicationElsewhere, DeviceElsewhere, TenantKeptElsewhere DEF TypeInv
<1>8. \A r \in Requests : ~Crash(r)
  BY <1>0 DEF Crash, OrphanFaults
<1>9. CASE UNCHANGED vars
  BY <1>9 DEF vars, database, TenantKept
<1> QED BY <1>6, <1>7, <1>8, <1>9 DEF Next

(* r may change who creates which application.                              *)
LEMMA AppsStep ==
  ASSUME AppsKept, NEW r \in Requests, \A q \in Requests \ {r} : req'[q] = req[q],
         \A a \in Apps : csApp'[a] = "present" =>
           \/ app'[a] = "present"
           \/ Creates(r, a)'
           \/ /\ csApp[a] = "present" /\ ~Creates(r, a)
              /\ app[a] = "present" => app'[a] = "present"
  PROVE  AppsKept'
<1> SUFFICES ASSUME NEW a \in Apps, csApp'[a] = "present"
             PROVE  app'[a] = "present" \/ \E q \in Requests : Creates(q, a)'
  BY DEF AppsKept, Creating
<1>1. \A q \in Requests \ {r} : Creates(q, a) => Creates(q, a)'
  BY DEF Creates
<1> QED BY <1>1 DEF AppsKept, Creating

LEMMA AppsKeptByApplication ==
  ASSUME TypeInv, Ordered, Placed, AppsKept, Without(OrphanFaults)',
         NEW r \in Requests, ApplicationRequest(r)
  PROVE  AppsKept'
<1> USE StepTaken
<1>0. /\ \A k \in OrphanFaults : ~Fault(k)
      /\ req[r].step \in AppSteps => req[r].app \in Apps
      /\ app \in [Apps -> Existence] /\ csApp \in [Apps -> Existence]
  BY Excluded DEF TypeInv, ReqOK, Remembers, StoreOK
<1>1. ASSUME NEW a \in Apps, NEW o \in Outcomes, CreateApplication(r, a, o) PROVE AppsKept'
  <2>1. UNCHANGED app /\ req[r].step = "new" /\ \A q \in Requests \ {r} : req'[q] = req[q]
    BY <1>1 DEF CreateApplication, database
  <2>2. UNCHANGED csApp \/ (csApp' = [csApp EXCEPT ![a] = "present"] /\ o # "refused")
    BY <1>1 DEF CreateApplication
  <2>3. o = "done" \/ UNCHANGED csApp
    BY <1>0, <1>1 DEF CreateApplication, Call, Attempt, OrphanFaults
  <2>4. CASE UNCHANGED csApp
    BY <2>1, <2>4, AppsStep DEF Creates
  <2>5. CASE csApp' = [csApp EXCEPT ![a] = "present"] /\ o = "done" /\ csApp' # csApp
    <3>1. Begin(r, [Over EXCEPT !.step = "app_user", !.app = a])
      BY <1>1, <2>5 DEF CreateApplication
    <3>2. [Over EXCEPT !.step = "app_user", !.app = a].step = "app_user"
          /\ [Over EXCEPT !.step = "app_user", !.app = a].app = a
      BY DEF Over
    <3>3. req'[r].step = "app_user" /\ req'[r].app = a
      BY <3>1, <3>2
    <3>4. Creates(r, a)' /\ \A b \in Apps : b # a => csApp'[b] = csApp[b]
      BY <1>0, <2>5, <3>3 DEF Creates
    <3> QED BY <2>1, <3>4, AppsStep DEF Creates
  <2> QED BY <2>2, <2>3, <2>4, <2>5
<1>2. ASSUME NEW o \in Outcomes, ProvisionUser(r, o) PROVE AppsKept'
  <2>1. /\ UNCHANGED <<app, csApp>> /\ req'[r].step \in {"app_commit", "app_undo"}
        /\ req'[r].app = req[r].app /\ \A q \in Requests \ {r} : req'[q] = req[q]
    BY <1>2 DEF ProvisionUser, database, chirpstack
  <2> QED BY <2>1, AppsStep DEF Creates
<1>3. ASSUME NEW o \in Outcomes, CommitApplication(r, o) PROVE AppsKept'
  <2>1. /\ UNCHANGED csApp /\ \A b \in Apps : app[b] = "present" => app'[b] = "present"
        /\ \A q \in Requests \ {r} : req'[q] = req[q]
        /\ req[r].step = "app_commit"
        /\ \/ req'[r].step = "app_undo_user" /\ req'[r].app = req[r].app
           \/ app'[req[r].app] = "present"
    BY <1>0, <1>3 DEF CommitApplication, chirpstack, AppSteps, Outcomes
  <2> QED BY <2>1, AppsStep DEF Creates
<1>4. ASSUME NEW o \in Outcomes, UndoUser(r, o) PROVE AppsKept'
  <2>1. /\ UNCHANGED <<app, csApp>> /\ req'[r].step = "app_undo"
        /\ req'[r].app = req[r].app /\ \A q \in Requests \ {r} : req'[q] = req[q]
    BY <1>4 DEF UndoUser, database, chirpstack
  <2> QED BY <2>1, AppsStep DEF Creates
<1>5. ASSUME NEW a \in Apps, NEW o \in Outcomes, RemoveApplication(a, o)
      PROVE  /\ csApp'[a] # "present"
             /\ \A b \in Apps : csApp'[b] = "present" => csApp[b] = "present"
  <2>1. CASE UNCHANGED csApp /\ csApp[a] # "present"
    BY <2>1
  <2>2. CASE DropFromChirpStack({a})
    <3>1. \A b \in Apps : csApp'[b] = IF b \in {a} /\ csApp[b] = "present" THEN "gone" ELSE csApp[b]
      BY <2>2, Dropped
    <3> QED BY <3>1
  <2> QED BY <1>0, <1>5, <2>1, <2>2 DEF RemoveApplication, Cleanup, Attempt, OrphanFaults
<1>6. ASSUME NEW o \in Outcomes, UndoApplication(r, o) PROVE AppsKept'
  <2>1. /\ req[r].app \in Apps /\ UNCHANGED app /\ csApp'[req[r].app] # "present"
        /\ \A b \in Apps : csApp'[b] = "present" => csApp[b] = "present"
        /\ \A q \in Requests \ {r} : req'[q] = req[q]
    BY <1>0, <1>5, <1>6 DEF UndoApplication, AppSteps, database
  <2> QED BY <2>1, AppsStep DEF Creates
<1>7. ASSUME NEW a \in Apps, NEW o \in Outcomes, DeleteApplication(r, a, o) PROVE AppsKept'
  <2>1. /\ req[r].step = "new" /\ UNCHANGED app
        /\ \A b \in Apps : csApp'[b] = "present" => csApp[b] = "present"
        /\ \A q \in Requests \ {r} : req'[q] = req[q]
    BY <1>5, <1>7 DEF DeleteApplication, database
  <2> QED BY <2>1, AppsStep DEF Creates
<1>8. ASSUME NEW o \in Outcomes, CommitApplicationDeletion(r, o) PROVE AppsKept'
  <2>1. /\ req[r].step = "app_row" /\ req[r].app \in Apps /\ csApp[req[r].app] = "gone"
        /\ UNCHANGED csApp /\ \A q \in Requests \ {r} : req'[q] = req[q]
    BY <1>0, <1>8 DEF CommitApplicationDeletion, chirpstack, Ordered, AppSteps
  <2>2. \A b \in Apps : b # req[r].app => app'[b] = app[b]
    BY <1>8 DEF CommitApplicationDeletion, DropRows
  <2> QED BY <2>1, <2>2, AppsStep DEF Creates
<1>9. ASSUME NEW o \in Outcomes, DropUser(r, o) PROVE AppsKept'
  <2>1. /\ UNCHANGED <<app, csApp>> /\ req[r].step = "app_drop_user"
        /\ \A q \in Requests \ {r} : req'[q] = req[q]
    BY <1>9 DEF DropUser, database, chirpstack
  <2> QED BY <2>1, AppsStep DEF Creates
<1> QED BY <1>1, <1>2, <1>3, <1>4, <1>6, <1>7, <1>8, <1>9 DEF ApplicationRequest

LEMMA AppsKeptStep ==
  ASSUME TypeInv, Ordered, Placed, AppsKept, Without(OrphanFaults)', [Next]_vars
  PROVE  AppsKept'
<1> USE StepTaken DEF chirpstack, database
<1>0. \A k \in OrphanFaults : ~Fault(k)
  BY Excluded
<1>1. ASSUME NEW r \in Requests, \A q \in Requests \ {r} : req'[q] = req[q],
             req[r].step \notin AppSteps, UNCHANGED app,
             \A a \in Apps : csApp'[a] = "present" => csApp[a] = "present"
      PROVE  AppsKept'
  BY <1>1, AppsStep DEF Creates, AppSteps
<1>2. ASSUME NEW r \in Requests, NEW o \in Outcomes,
             CreateTenant(r, o) \/ CommitTenant(r, o) \/ UndoTenant(r, o) \/ DeleteTenant(r, o)
      PROVE  AppsKept'
  <2>1. UNCHANGED csApp \/ DropFromChirpStack(Apps)
    BY <1>2 DEF CreateTenant, CommitTenant, UndoTenant, DeleteTenant
  <2>2. \A a \in Apps : csApp'[a] = "present" => csApp[a] = "present"
    BY <2>1, Dropped
  <2>3. /\ UNCHANGED app /\ req[r].step \in {"new", "tenant_commit", "tenant_undo"}
        /\ \A q \in Requests \ {r} : req'[q] = req[q]
    BY <1>2 DEF CreateTenant, CommitTenant, UndoTenant, DeleteTenant
  <2> QED BY <1>1, <2>2, <2>3 DEF AppSteps
<1>3. ASSUME NEW r \in Requests, NEW o \in Outcomes, CommitTenantDeletion(r, o) PROVE AppsKept'
  <2>1. \A a \in Apps : csApp'[a] # "present"
    BY <1>3 DEF CommitTenantDeletion, Ordered
  <2> QED BY <2>1 DEF AppsKept
<1>4. ASSUME NEW r \in Requests, TenantRequest(r) PROVE AppsKept'
  <2>1. CASE \E o \in Outcomes : CreateTenant(r, o) \/ CommitTenant(r, o) \/ UndoTenant(r, o)
                                 \/ DeleteTenant(r, o) \/ CommitTenantDeletion(r, o)
    BY <1>2, <1>3, <2>1
  <2>2. CASE \/ \E s, fields : BeginUpdate(r, s, fields)
             \/ \E o \in Outcomes : CommitUpdate(r, o) \/ SendUpdate(r, o)
    <3>1. /\ req[r].step \in {"new", "label_commit", "label_send"} /\ UNCHANGED <<app, csApp>>
          /\ \A q \in Requests \ {r} : req'[q] = req[q]
      BY <2>2 DEF BeginUpdate, CommitUpdate, SendUpdate
    <3> QED BY <1>1, <3>1 DEF AppSteps
  <2> QED BY <1>4, <2>1, <2>2 DEF TenantRequest, UpdateTenant, UpdateApplication
<1>5. ASSUME NEW r \in Requests, DeviceRequest(r) PROVE AppsKept'
  <2>1. req[r].step \in {"new"} \cup PostSteps \cup DeleteSteps /\ UNCHANGED <<app, csApp>>
        /\ \A q \in Requests \ {r} : req'[q] = req[q]
    BY <1>5 DEF DeviceRequest, FindDevice, CheckDevice, CreateDevice, CreateKeys, UndoDevice,
         CommitDevice, CommitDeviceDeletion, DropDevice, PostSteps, DeleteSteps
  <2> QED BY <1>1, <2>1 DEF AppSteps, PostSteps, DeleteSteps
<1>6. \A r \in Requests : ~Crash(r)
  BY <1>0 DEF Crash, OrphanFaults
<1>7. CASE UNCHANGED vars
  BY <1>7 DEF vars, AppsKept, Creating, Creates
<1> QED BY <1>4, <1>5, <1>6, <1>7, AppsKeptByApplication DEF Next

-----------------------------------------------------------------------------
(* No user is left in RabbitMQ but by the deletion of a tenant. *)

LEMMA UsersStep ==
  ASSUME UsersKept, NEW r \in Requests, \A q \in Requests \ {r} : req'[q] = req[q],
         cascaded \subseteq cascaded',
         \A a \in users' :
           \/ app'[a] = "present" \/ a \in cascaded' \/ Answers(r, a)'
           \/ /\ a \in users /\ ~Answers(r, a)
              /\ app[a] = "present" => app'[a] = "present"
  PROVE  UsersKept'
<1> SUFFICES ASSUME NEW a \in users'
             PROVE  app'[a] = "present" \/ a \in cascaded' \/ \E q \in Requests : Answers(q, a)'
  BY DEF UsersKept
<1>1. \A q \in Requests \ {r} : Answers(q, a) => Answers(q, a)'
  BY DEF Answers
<1> QED BY <1>1 DEF UsersKept

LEMMA UsersKeptStep ==
  ASSUME TypeInv, UsersKept, Without(UserFaults)', [Next]_vars
  PROVE  UsersKept'
<1> USE StepTaken DEF chirpstack, database, history
<1>0. /\ \A k \in UserFaults : ~Fault(k)
      /\ \A r \in Requests : req[r].step \in AppSteps => req[r].app \in Apps
      /\ app \in [Apps -> Existence] /\ users \subseteq Apps
  BY Excluded DEF TypeInv, ReqOK, Remembers, StoreOK
<1>1. ASSUME NEW r \in Requests, \A q \in Requests \ {r} : req'[q] = req[q],
             req[r].step \notin UserSteps, UNCHANGED <<app, users, cascaded>>
      PROVE  UsersKept'
  BY <1>1, UsersStep DEF Answers
<1>2. ASSUME NEW r \in Requests, NEW o \in Outcomes, CommitTenantDeletion(r, o) PROVE UsersKept'
  <2>1. /\ UNCHANGED users /\ req[r].step = "tenant_row" /\ cascaded \subseteq cascaded'
        /\ \A q \in Requests \ {r} : req'[q] = req[q]
        /\ \A a \in Apps : app[a] = "present" => app'[a] = "present" \/ a \in cascaded'
    BY <1>2 DEF CommitTenantDeletion
  <2>2. \A a \in users : a \in Apps /\ ~Answers(r, a)
    BY <1>0, <2>1 DEF Answers, UserSteps
  <2> QED BY <2>1, <2>2, UsersStep
<1>3. ASSUME NEW r \in Requests, TenantRequest(r) PROVE UsersKept'
  <2>1. CASE \E o \in Outcomes : CommitTenantDeletion(r, o)
    BY <1>2, <2>1
  <2>2. CASE \/ \E o \in Outcomes : CreateTenant(r, o) \/ CommitTenant(r, o) \/ UndoTenant(r, o)
                                    \/ DeleteTenant(r, o)
             \/ \E s, fields : BeginUpdate(r, s, fields)
             \/ \E o \in Outcomes : CommitUpdate(r, o) \/ SendUpdate(r, o)
    <3>1. /\ req[r].step \in {"new", "tenant_commit", "tenant_undo", "label_commit", "label_send"}
          /\ UNCHANGED <<app, users, cascaded>>
          /\ \A q \in Requests \ {r} : req'[q] = req[q]
      BY <2>2 DEF CreateTenant, CommitTenant, UndoTenant, DeleteTenant, BeginUpdate, CommitUpdate,
           SendUpdate
    <3> QED BY <1>1, <3>1 DEF UserSteps
  <2> QED BY <1>3, <2>1, <2>2 DEF TenantRequest, UpdateTenant, UpdateApplication
<1>4. ASSUME NEW r \in Requests, NEW o \in Outcomes, ProvisionUser(r, o) PROVE UsersKept'
  <2>1. o = "done"
    BY <1>0, <1>4 DEF ProvisionUser, Call, Attempt, UserFaults
  <2>2. /\ UNCHANGED <<app, cascaded>> /\ users' = users \cup {req[r].app}
        /\ req[r].step = "app_user" /\ req'[r].step = "app_commit" /\ req'[r].app = req[r].app
        /\ \A q \in Requests \ {r} : req'[q] = req[q]
    BY <1>4, <2>1 DEF ProvisionUser
  <2> QED BY <2>2, UsersStep DEF Answers, UserSteps
<1>5. ASSUME NEW r \in Requests, NEW o \in Outcomes, CommitApplication(r, o) PROVE UsersKept'
  <2>1. /\ UNCHANGED <<users, cascaded>> /\ req[r].step = "app_commit" /\ req[r].app \in Apps
        /\ \A b \in Apps : app[b] = "present" => app'[b] = "present"
        /\ \A q \in Requests \ {r} : req'[q] = req[q]
        /\ \/ req'[r].step = "app_undo_user" /\ req'[r].app = req[r].app
           \/ app'[req[r].app] = "present"
    BY <1>0, <1>5 DEF CommitApplication, AppSteps, Outcomes
  <2> QED BY <1>0, <2>1, UsersStep DEF Answers, UserSteps
<1>6. ASSUME NEW r \in Requests, NEW o \in Outcomes, UndoUser(r, o) \/ DropUser(r, o)
      PROVE  UsersKept'
  <2>1. o # "refused"
    BY <1>0, <1>6 DEF UndoUser, DropUser, Cleanup, Attempt, UserFaults
  <2>2. /\ UNCHANGED <<app, cascaded>> /\ users' = users \ {req[r].app}
        /\ \A q \in Requests \ {r} : req'[q] = req[q]
    BY <1>6, <2>1 DEF UndoUser, DropUser
  <2> QED BY <2>2, UsersStep DEF Answers
<1>7. ASSUME NEW r \in Requests, NEW o \in Outcomes, CommitApplicationDeletion(r, o)
      PROVE  UsersKept'
  <2>1. /\ UNCHANGED <<users, cascaded>> /\ req[r].step = "app_row" /\ req[r].app \in Apps
        /\ \A q \in Requests \ {r} : req'[q] = req[q]
    BY <1>0, <1>7 DEF CommitApplicationDeletion, AppSteps
  <2>2. o \in {"done", "refused"}
    BY <1>0, <1>7 DEF CommitApplicationDeletion, Commit, Attempt, UserFaults
  <2>3. CASE o = "refused"
    BY <1>7, <2>1, <2>3, UsersStep DEF CommitApplicationDeletion, Answers, UserSteps
  <2>4. CASE o = "done"
    <3>1. /\ req'[r].step = "app_drop_user" /\ req'[r].app = req[r].app
          /\ \A b \in Apps : b # req[r].app => app'[b] = app[b]
      BY <1>7, <2>4 DEF CommitApplicationDeletion, DropRows
    <3> QED BY <1>0, <2>1, <3>1, UsersStep DEF Answers, UserSteps
  <2> QED BY <2>2, <2>3, <2>4
<1>8. ASSUME NEW r \in Requests, ApplicationRequest(r) PROVE UsersKept'
  <2>1. ASSUME NEW o \in Outcomes,
               \/ \E a \in Apps : CreateApplication(r, a, o) \/ DeleteApplication(r, a, o)
               \/ UndoApplication(r, o)
        PROVE  UsersKept'
    <3>1. /\ req[r].step \in {"new", "app_undo"} /\ UNCHANGED <<app, users, cascaded>>
          /\ \A q \in Requests \ {r} : req'[q] = req[q]
      BY <2>1 DEF CreateApplication, DeleteApplication, UndoApplication
    <3> QED BY <1>1, <3>1 DEF UserSteps
  <2> QED BY <1>4, <1>5, <1>6, <1>7, <1>8, <2>1 DEF ApplicationRequest
<1>9. ASSUME NEW r \in Requests, DeviceRequest(r) PROVE UsersKept'
  <2>1. /\ req[r].step \in {"new"} \cup PostSteps \cup DeleteSteps /\ UNCHANGED <<app, users, cascaded>>
        /\ \A q \in Requests \ {r} : req'[q] = req[q]
    BY <1>9 DEF DeviceRequest, FindDevice, CheckDevice, CreateDevice, CreateKeys, UndoDevice,
         CommitDevice, CommitDeviceDeletion, DropDevice, PostSteps, DeleteSteps
  <2> QED BY <1>1, <2>1 DEF UserSteps, PostSteps, DeleteSteps
<1>10. \A r \in Requests : ~Crash(r)
  BY <1>0 DEF Crash, UserFaults
<1>11. CASE UNCHANGED vars
  BY <1>11 DEF vars, UsersKept, Answers
<1> QED BY <1>3, <1>8, <1>9, <1>10, <1>11 DEF Next

-----------------------------------------------------------------------------
(* No device is left without its row. *)

Drops(r, e) == req[r].step = "device_drop" /\ req[r].eui = e

LEMMA DevicesStep ==
  ASSUME TypeInv, DevicesKept, NEW r \in Requests, \A q \in Requests \ {r} : req'[q] = req[q],
         conflicts \subseteq conflicts',
         \A e \in Euis \ conflicts' : device'[e] # None =>
           \/ device'[e].by = r /\ Posts(r, e)'
           \/ row'[e] # None /\ row'[e].app = device'[e].app
           \/ Drops(r, e)'
           \/ /\ device[e] # None /\ ~(device[e].by = r /\ Posts(r, e)) /\ ~Drops(r, e)
              /\ device'[e].app = device[e].app /\ device'[e].by = device[e].by
              /\ row[e] # None /\ row[e].app = device[e].app => row'[e] = row[e]
  PROVE  DevicesKept'
<1> SUFFICES ASSUME NEW e \in Euis \ conflicts', device'[e] # None
             PROVE  \/ Posts(device[e].by, e)'
                    \/ row'[e] # None /\ row'[e].app = device'[e].app
                    \/ \E q \in Requests : Drops(q, e)'
  BY DEF DevicesKept, Drops
<1>1. CASE device'[e].by = r /\ Posts(r, e)'
  BY <1>1 DEF Posts
<1>2. CASE /\ device[e] # None /\ ~(device[e].by = r /\ Posts(r, e)) /\ ~Drops(r, e)
           /\ device'[e].app = device[e].app /\ device'[e].by = device[e].by
           /\ row[e] # None /\ row[e].app = device[e].app => row'[e] = row[e]
  <2>1. CASE Posts(device[e].by, e)
    <3>1. device[e].by \in Requests \ {r}
      BY <1>2, <2>1, DevicePlace
    <3> QED BY <1>2, <2>1, <3>1 DEF Posts
  <2>2. CASE row[e] # None /\ row[e].app = device[e].app
    BY <1>2, <2>2
  <2>3. ASSUME NEW q \in Requests, Drops(q, e) PROVE Drops(q, e)'
    BY <1>2, <2>3 DEF Drops
  <2> QED BY <1>2, <2>1, <2>2, <2>3 DEF DevicesKept, Drops
<1> QED BY <1>1, <1>2

(* Steps of requests that are not about devices *)
LEMMA DevicesAside ==
  ASSUME TypeInv, DevicesKept, NEW r \in Requests, \A q \in Requests \ {r} : req'[q] = req[q],
         conflicts' = conflicts, req[r].step \notin PostSteps \cup DeleteSteps,
         \A e \in Euis : device'[e] \in {None, device[e]},
         \A e \in Euis : device'[e] # None /\ row[e] # None /\ row[e].app = device[e].app
           => row'[e] = row[e]
  PROVE  DevicesKept'
BY DevicesStep DEF Posts, Drops, PostSteps, DeleteSteps

LEMMA DevicesKeptByTenant ==
  ASSUME TypeInv, Ordered, Placed, DevicesKept, Without(DeviceFaults)',
         NEW r \in Requests, TenantRequest(r)
  PROVE  DevicesKept'
<1> USE StepTaken DEF chirpstack, database, history, PostSteps, DeleteSteps
<1>1. ASSUME NEW o \in Outcomes,
             CreateTenant(r, o) \/ CommitTenant(r, o) \/ UndoTenant(r, o) \/ DeleteTenant(r, o)
      PROVE  DevicesKept'
  <2>1. UNCHANGED device \/ DropFromChirpStack(Apps)
    BY <1>1 DEF CreateTenant, CommitTenant, UndoTenant, DeleteTenant
  <2>2. \A e \in Euis : device'[e] \in {None, device[e]}
    BY <2>1, Dropped
  <2>3. /\ UNCHANGED <<row, conflicts>> /\ req[r].step \in {"new", "tenant_commit", "tenant_undo"}
        /\ \A q \in Requests \ {r} : req'[q] = req[q]
    BY <1>1 DEF CreateTenant, CommitTenant, UndoTenant, DeleteTenant
  <2> QED BY <2>2, <2>3, DevicesAside
<1>2. ASSUME NEW o \in Outcomes, CommitTenantDeletion(r, o) PROVE DevicesKept'
  <2>1. UNCHANGED device /\ \A a \in Apps : csApp[a] # "present"
    BY <1>2 DEF CommitTenantDeletion, Ordered
  <2>2. \A e \in Euis : device'[e] = None
    BY <2>1, DevicePlace DEF Placed
  <2> QED BY <2>2 DEF DevicesKept
<1>3. CASE \/ \E s, fields : BeginUpdate(r, s, fields)
           \/ \E o \in Outcomes : CommitUpdate(r, o) \/ SendUpdate(r, o)
  <2>1. /\ req[r].step \in {"new", "label_commit", "label_send"}
        /\ UNCHANGED <<row, device, conflicts>> /\ \A q \in Requests \ {r} : req'[q] = req[q]
    BY <1>3 DEF BeginUpdate, CommitUpdate, SendUpdate
  <2> QED BY <2>1, DevicesAside
<1> QED BY <1>1, <1>2, <1>3 DEF TenantRequest, UpdateTenant, UpdateApplication

LEMMA DevicesKeptByApplication ==
  ASSUME TypeInv, Ordered, Placed, DevicesKept, NEW r \in Requests, ApplicationRequest(r)
  PROVE  DevicesKept'
<1> USE StepTaken DEF chirpstack, database, history, PostSteps, DeleteSteps
<1>0. req[r].step \in AppSteps => req[r].app \in Apps
  BY DEF TypeInv, ReqOK, Remembers
<1>1. ASSUME NEW a \in Apps, NEW o \in Outcomes, RemoveApplication(a, o)
      PROVE  \A e \in Euis : device'[e] \in {None, device[e]}
  BY <1>1, Dropped DEF RemoveApplication
<1>2. ASSUME NEW o \in Outcomes,
             UndoApplication(r, o) \/ \E a \in Apps : DeleteApplication(r, a, o)
      PROVE  DevicesKept'
  <2>1. \A e \in Euis : device'[e] \in {None, device[e]}
    BY <1>0, <1>1, <1>2 DEF UndoApplication, DeleteApplication, AppSteps
  <2>2. /\ req[r].step \in {"new", "app_undo"} /\ UNCHANGED <<row, conflicts>>
        /\ \A q \in Requests \ {r} : req'[q] = req[q]
    BY <1>2 DEF UndoApplication, DeleteApplication
  <2> QED BY <2>1, <2>2, DevicesAside
<1>3. ASSUME NEW o \in Outcomes, CommitApplicationDeletion(r, o) PROVE DevicesKept'
  <2> DEFINE a == req[r].app
  <2>1. /\ req[r].step = "app_row" /\ a \in Apps /\ csApp[a] = "gone"
        /\ UNCHANGED <<device, conflicts>> /\ \A q \in Requests \ {r} : req'[q] = req[q]
        /\ \A e \in Euis : row'[e] # row[e] => row[e].app = a
    BY <1>0, <1>3 DEF CommitApplicationDeletion, DropRows, Ordered, AppSteps
  <2>2. \A e \in Euis : device[e] # None => device[e].app # a
    BY <2>1 DEF Placed
  <2> QED BY <2>1, <2>2, DevicesAside
<1>4. ASSUME NEW o \in Outcomes,
             \/ \E a \in Apps : CreateApplication(r, a, o)
             \/ ProvisionUser(r, o) \/ CommitApplication(r, o) \/ UndoUser(r, o) \/ DropUser(r, o)
      PROVE  DevicesKept'
  <2>1. /\ req[r].step \in {"new"} \cup AppSteps /\ UNCHANGED <<row, device, conflicts>>
        /\ \A q \in Requests \ {r} : req'[q] = req[q]
    BY <1>4 DEF CreateApplication, ProvisionUser, CommitApplication, UndoUser, DropUser, AppSteps
  <2> QED BY <2>1, DevicesAside DEF AppSteps
<1> QED BY <1>2, <1>3, <1>4 DEF ApplicationRequest

LEMMA DevicesKeptByDevice ==
  ASSUME TypeInv, DevicesKept, Without(DeviceFaults)', NEW r \in Requests, DeviceRequest(r)
  PROVE  DevicesKept'
<1> USE StepTaken DEF chirpstack, database, history
<1>0. /\ \A k \in DeviceFaults : ~Fault(k)
      /\ req[r].step \in PostSteps \cup DeleteSteps => req[r].eui \in Euis
  BY Excluded DEF TypeInv, ReqOK, Remembers
<1>1. ASSUME NEW e \in Euis, FindDevice(r, e) \/ \E a \in Apps : CheckDevice(r, a, e)
      PROVE  DevicesKept'
  <2>1. /\ req[r].step = "new" /\ UNCHANGED <<row, device, conflicts>>
        /\ \A q \in Requests \ {r} : req'[q] = req[q]
    BY <1>1 DEF FindDevice, CheckDevice
  <2> QED BY <2>1, DevicesAside DEF PostSteps, DeleteSteps
<1>2. ASSUME NEW o \in Outcomes, CreateDevice(r, o) PROVE DevicesKept'
  <2> DEFINE e == req[r].eui
  <2>1. /\ req[r].step = "device_create" /\ UNCHANGED <<row, conflicts>>
        /\ \A q \in Requests \ {r} : req'[q] = req[q]
    BY <1>2 DEF CreateDevice
  <2>2. /\ e \in Euis
        /\ \A d \in Euis \ {e} : device'[d] = device[d]
        /\ \/ device'[e] = device[e]
           \/ /\ device'[e] # None /\ device'[e].app = req[r].app /\ device'[e].by = r
              /\ device[e] = None
    BY <1>2, CreatedDevice
  <2>3. UNCHANGED device \/ Goto(r, "device_keys")
    BY <1>0, <1>2 DEF CreateDevice, Call, Attempt, DeviceFaults
  <2>4. Goto(r, "device_keys") =>
          req'[r].step = "device_keys" /\ req'[r].eui = e /\ req'[r].app = req[r].app
    OBVIOUS
  <2>5. \A d \in Euis : device'[d] = device[d] \/ (device'[d].by = r /\ Posts(r, d)')
    BY <2>2, <2>3, <2>4 DEF Posts
  <2> QED BY <2>1, <2>5, DevicesStep DEF Posts, Drops
<1>3. ASSUME NEW o \in Outcomes, CreateKeys(r, o) PROVE DevicesKept'
  <2>1. /\ req[r].step = "device_keys" /\ UNCHANGED <<row, conflicts>>
        /\ req'[r].step \in {"device_commit", "device_undo"}
        /\ req'[r].eui = req[r].eui /\ req'[r].app = req[r].app
        /\ \A q \in Requests \ {r} : req'[q] = req[q]
    BY <1>3 DEF CreateKeys
  <2>2. \A e \in Euis : \/ device'[e] = device[e]
                        \/ /\ device[e] # None /\ device'[e] # None
                           /\ device'[e].app = device[e].app /\ device'[e].by = device[e].by
    BY <1>3, KeyedDevice
  <2>3. \A e \in Euis : device[e] # None /\ device[e].by = r /\ Posts(r, e)
          => device'[e].by = r /\ Posts(r, e)'
    BY <2>1, <2>2 DEF Posts
  <2> QED BY <2>1, <2>2, <2>3, DevicesStep DEF Drops
<1>4. ASSUME NEW o \in Outcomes, UndoDevice(r, o) \/ DropDevice(r, o) PROVE DevicesKept'
  <2>1. /\ req[r].eui \in Euis /\ UNCHANGED <<row, conflicts>>
        /\ \A q \in Requests \ {r} : req'[q] = req[q]
        /\ \E p : RemoveDevice(req[r].eui, p, o)
    BY <1>0, <1>4 DEF UndoDevice, DropDevice, PostSteps, DeleteSteps
  <2>2. device[req[r].eui] = None \/ o # "refused"
    BY <1>0, <2>1 DEF RemoveDevice, Cleanup, Attempt, DeviceFaults
  <2>3. /\ \A d \in Euis \ {req[r].eui} : device'[d] = device[d]
        /\ device'[req[r].eui] = None
    BY <2>1, <2>2, RemovedDevice
  <2> QED BY <2>1, <2>3, DevicesStep DEF Posts, Drops
<1>5. ASSUME NEW o \in Outcomes, CommitDevice(r, o) PROVE DevicesKept'
  <2> DEFINE e == req[r].eui
  <2>1. /\ req[r].step = "device_commit" /\ e \in Euis /\ UNCHANGED device
        /\ \A q \in Requests \ {r} : req'[q] = req[q]
    BY <1>0, <1>5 DEF CommitDevice, PostSteps
  <2>2. CASE e \in conflicts' /\ conflicts \subseteq conflicts' /\ UNCHANGED row
    BY <2>1, <2>2, DevicesStep DEF Posts, Drops
  <2>3. CASE /\ row[e] = None /\ row' = [row EXCEPT ![e] = [app |-> req[r].app, by |-> r]]
             /\ UNCHANGED conflicts
    <3>1. /\ row'[e] = [app |-> req[r].app, by |-> r]
          /\ \A d \in Euis \ {e} : row'[d] = row[d]
      BY <2>1, <2>3 DEF TypeInv, StoreOK
    <3>2. row'[e] # None /\ row'[e].app = req[r].app
      <4>1. row'[e] \in [app : Apps, by : Requests]
        BY <2>1, <3>1 DEF TypeInv, ReqOK, Remembers, PostSteps
      <4> QED BY <3>1, <4>1, RegistryConstants
    <3> QED BY <2>1, <2>3, <3>1, <3>2, DevicesStep DEF Posts, Drops
  <2> QED BY <1>0, <1>5, <2>2, <2>3 DEF CommitDevice, Commit, Attempt, DeviceFaults
<1>6. ASSUME NEW o \in Outcomes, CommitDeviceDeletion(r, o) PROVE DevicesKept'
  <2> DEFINE e == req[r].eui
  <2>1. /\ req[r].step = "device_row" /\ e \in Euis /\ UNCHANGED <<device, conflicts>>
        /\ req'[r].step = "device_drop" /\ req'[r].eui = e
        /\ \A q \in Requests \ {r} : req'[q] = req[q]
    BY <1>0, <1>6 DEF CommitDeviceDeletion, Commit, Attempt, DeviceFaults, DeleteSteps
  <2>2. \A d \in Euis \ {e} : row'[d] = row[d]
    BY <1>6 DEF CommitDeviceDeletion, TypeInv, StoreOK
  <2> QED BY <2>1, <2>2, DevicesStep DEF Posts, Drops
<1> QED BY <1>1, <1>2, <1>3, <1>4, <1>5, <1>6 DEF DeviceRequest

LEMMA DevicesKeptStep ==
  ASSUME TypeInv, Ordered, Placed, DevicesKept, Without(DeviceFaults)', [Next]_vars
  PROVE  DevicesKept'
<1>1. \A r \in Requests : ~Crash(r)
  BY Excluded DEF Crash, DeviceFaults
<1>2. CASE UNCHANGED vars
  BY <1>2 DEF vars, database, chirpstack, history, DevicesKept, Posts
<1> QED
  BY <1>1, <1>2, DevicesKeptByTenant, DevicesKeptByApplication, DevicesKeptByDevice DEF Next

-----------------------------------------------------------------------------
(* The names agree. *)

(* What has gone from ChirpStack stays gone.                                *)
LEMMA GoneStays ==
  ASSUME TypeInv, [Next]_vars, NEW s \in Subjects, SubjectInChirpStack(s) = "gone"
  PROVE  SubjectInChirpStack(s)' = "gone"
<1> USE DEF chirpstack, database
<1> SUFFICES /\ csTenant = "gone" => csTenant' = "gone"
             /\ \A a \in Apps : csApp[a] = "gone" => csApp'[a] = "gone"
  BY DEF SubjectInChirpStack, Subjects
<1>1. csApp \in [Apps -> Existence] /\ csTenant \in Existence
  BY DEF TypeInv, StoreOK
<1>2. ASSUME NEW as, DropFromChirpStack(as)
      PROVE  \A a \in Apps : csApp[a] = "gone" => csApp'[a] = "gone"
  BY <1>2 DEF DropFromChirpStack
<1>3. ASSUME NEW r \in Requests, TenantRequest(r)
      PROVE  /\ csTenant = "gone" => csTenant' = "gone"
             /\ csApp' = csApp \/ DropFromChirpStack(Apps)
  BY <1>3 DEF TenantRequest, CreateTenant, CommitTenant, UndoTenant, DeleteTenant,
       CommitTenantDeletion, UpdateTenant, UpdateApplication, BeginUpdate, CommitUpdate, SendUpdate
<1>4. ASSUME NEW r \in Requests, ApplicationRequest(r)
      PROVE  /\ csTenant' = csTenant
             /\ \/ csApp' = csApp
                \/ \E a \in Apps : csApp[a] = "none" /\ csApp' = [csApp EXCEPT ![a] = "present"]
                \/ \E as : DropFromChirpStack(as)
  BY <1>4 DEF ApplicationRequest, CreateApplication, DeleteApplication, ProvisionUser,
       CommitApplication, UndoUser, UndoApplication, CommitApplicationDeletion, DropUser,
       RemoveApplication
<1>5. ASSUME NEW r \in Requests, DeviceRequest(r) \/ Crash(r) PROVE UNCHANGED <<csTenant, csApp>>
  BY <1>5 DEF DeviceRequest, FindDevice, CheckDevice, CreateDevice, CreateKeys, UndoDevice,
       CommitDevice, CommitDeviceDeletion, DropDevice, Crash
<1>6. CASE UNCHANGED vars
  BY <1>6 DEF vars
<1> QED BY <1>1, <1>2, <1>3, <1>4, <1>5, <1>6 DEF Next

LEMMA MirrorsStays ==
  ASSUME NEW r \in Requests, \A q \in Requests \ {r} : req'[q] = req[q],
         NEW s, r \notin Patching(s), r \notin Patching(s)',
         label'[s] = label[s], csLabel'[s] = csLabel[s], Mirrors(s)
  PROVE  Mirrors(s)'
<1>1. /\ Patching(s)' = Patching(s)
      /\ \A q \in Patching(s) : req'[q] = req[q]
  BY DEF Patching
<1> QED BY <1>1 DEF Mirrors

(* Steps of requests that are not about names                               *)
LEMMA LabelsAside ==
  ASSUME TypeInv, LabelsKept, [Next]_vars, NEW r \in Requests,
         \A q \in Requests \ {r} : req'[q] = req[q],
         req[r].step \notin LabelSteps, req'[r].step \notin LabelSteps,
         UNCHANGED <<label, csLabel, overlapped>>
  PROVE  LabelsKept'
<1> SUFFICES ASSUME NEW s \in Subjects \ overlapped, SubjectInChirpStack(s)' # "gone"
             PROVE  Mirrors(s)'
  BY DEF LabelsKept
<1>1. Mirrors(s)
  BY GoneStays DEF LabelsKept
<1>2. r \notin Patching(s) /\ r \notin Patching(s)'
  BY DEF Patching, LabelSteps
<1> QED BY <1>1, <1>2, MirrorsStays

(* The steps of a PATCH of subject s                                        *)
LEMMA LabelsStep ==
  ASSUME TypeInv, LabelsKept, [Next]_vars, NEW r \in Requests,
         \A q \in Requests \ {r} : req'[q] = req[q], NEW s \in Subjects,
         req[r].step \in LabelSteps => req[r].app = s,
         req'[r].step \in LabelSteps => req'[r].app = s,
         \A t \in Subjects \ {s} : label'[t] = label[t] /\ csLabel'[t] = csLabel[t],
         overlapped \subseteq overlapped',
         s \notin overlapped' /\ SubjectInChirpStack(s)' # "gone" /\ Mirrors(s) => Mirrors(s)'
  PROVE  LabelsKept'
<1> SUFFICES ASSUME NEW t \in Subjects \ overlapped', SubjectInChirpStack(t)' # "gone"
             PROVE  Mirrors(t)'
  BY DEF LabelsKept
<1>1. Mirrors(t)
  BY GoneStays DEF LabelsKept
<1>2. CASE t # s
  <2>1. r \notin Patching(t) /\ r \notin Patching(t)'
    BY <1>2 DEF Patching, LabelSteps
  <2> QED BY <1>1, <1>2, <2>1, MirrorsStays
<1> QED BY <1>1, <1>2

LEMMA LabelsKeptByUpdate ==
  ASSUME TypeInv, Ordered, LabelsKept, Without(LabelFaults)', [Next]_vars, NEW r \in Requests,
         \/ \E s \in Subjects : \E fields : BeginUpdate(r, s, fields)
         \/ \E o \in Outcomes : CommitUpdate(r, o) \/ SendUpdate(r, o)
  PROVE  LabelsKept'
<1> USE StepTaken DEF chirpstack, database, history
<1>0. /\ \A k \in LabelFaults : ~Fault(k)
      /\ req[r].step \in LabelSteps => req[r].app \in Subjects /\ req[r].label \in Labels
      /\ label \in [Subjects -> Labels] /\ csLabel \in [Subjects -> Labels]
  BY Excluded DEF TypeInv, ReqOK, Remembers, StoreOK
<1>1. ASSUME NEW s \in Subjects, NEW fields, BeginUpdate(r, s, fields) PROVE LabelsKept'
  <2> DEFINE l == [f \in Fields |-> IF f \in fields THEN r ELSE label[s][f]]
             x == [Over EXCEPT !.step = "label_commit", !.app = s, !.label = l]
  <2>1. /\ req[r].step = "new" /\ UNCHANGED <<label, csLabel>>
        /\ overlapped \subseteq overlapped' /\ (s \notin overlapped' => Patching(s) = {})
        /\ req'[r] = x /\ \A q \in Requests \ {r} : req'[q] = req[q]
    BY <1>1 DEF BeginUpdate
  <2>2. x.step = "label_commit" /\ x.app = s /\ x.label = l
    BY DEF Over
  <2>3. ASSUME s \notin overlapped', Mirrors(s) PROVE Mirrors(s)'
    <3> HIDE DEF x, l
    <3>1. Patching(s)' = {r}
      BY <2>1, <2>2, <2>3 DEF Patching
    <3>2. csLabel[s] = label[s]
      BY <2>1, <2>3 DEF Mirrors
    <3>3. req'[r].step = "label_commit" /\ \A f \in Fields : req'[r].label[f] \in {r, label[s][f]}
      BY <2>1, <2>2 DEF l
    <3> QED BY <2>1, <3>1, <3>2, <3>3 DEF Mirrors
  <2> HIDE DEF x, l
  <2> QED BY <2>1, <2>2, <2>3, LabelsStep DEF LabelSteps
<1>2. ASSUME NEW o \in Outcomes, CommitUpdate(r, o) PROVE LabelsKept'
  <2>1. PICK s \in Subjects : s = req[r].app
    BY <1>0, <1>2 DEF CommitUpdate, LabelSteps
  <2>2. /\ req[r].step = "label_commit" /\ UNCHANGED <<csLabel, overlapped>>
        /\ \A q \in Requests \ {r} : req'[q] = req[q]
        /\ \/ UNCHANGED label /\ req'[r].step = "over"
           \/ /\ req'[r].step = "label_send" /\ req'[r].app = s /\ req'[r].label = req[r].label
              /\ label' = [label EXCEPT ![s] =
                            [f \in Fields |-> IF req[r].label[f] = r THEN r ELSE @[f]]]
    BY <1>0, <1>2, <2>1 DEF CommitUpdate, Commit, Attempt, LabelFaults
  <2>3. \A t \in Subjects \ {s} : label'[t] = label[t] /\ csLabel'[t] = csLabel[t]
    BY <1>0, <2>2
  <2>4. ASSUME Mirrors(s) PROVE Mirrors(s)'
    <3>1. /\ Patching(s) = {r} /\ csLabel[s] = label[s]
          /\ \A f \in Fields : req[r].label[f] \in {r, label[s][f]}
      <4>1. r \in Patching(s)
        BY <2>1, <2>2 DEF Patching
      <4>2. \A q \in Patching(s) : q = r
        BY <2>4, <4>1 DEF Mirrors
      <4> QED BY <2>2, <2>4, <4>1, <4>2 DEF Mirrors
    <3>2. CASE UNCHANGED label /\ req'[r].step = "over"
      <4>1. Patching(s)' = {}
        BY <2>2, <3>1, <3>2 DEF Patching
      <4> QED BY <2>2, <3>1, <3>2, <4>1 DEF Mirrors
    <3>3. CASE /\ req'[r].step = "label_send" /\ req'[r].app = s /\ req'[r].label = req[r].label
               /\ label' = [label EXCEPT ![s] =
                             [f \in Fields |-> IF req[r].label[f] = r THEN r ELSE @[f]]]
      <4>1. Patching(s)' = {r}
        BY <2>2, <3>1, <3>3 DEF Patching
      <4>2. label'[s] = [f \in Fields |-> IF req[r].label[f] = r THEN r ELSE label[s][f]]
        BY <1>0, <3>3
      <4>3. req[r].label \in Labels
        BY <1>0, <2>2 DEF LabelSteps
      <4>4. req[r].label = label'[s]
        BY <3>1, <4>2, <4>3 DEF Labels
      <4> QED BY <3>3, <4>1, <4>4 DEF Mirrors
    <3> QED BY <2>2, <3>2, <3>3
  <2> QED BY <2>1, <2>2, <2>3, <2>4, LabelsStep DEF LabelSteps
<1>3. ASSUME NEW o \in Outcomes, SendUpdate(r, o) PROVE LabelsKept'
  <2>1. PICK s \in Subjects : s = req[r].app
    BY <1>0, <1>3 DEF SendUpdate, LabelSteps
  <2>2. /\ req[r].step = "label_send" /\ req'[r].step = "over"
        /\ UNCHANGED <<label, overlapped, csTenant, csApp>>
        /\ \A q \in Requests \ {r} : req'[q] = req[q]
        /\ \A t \in Subjects \ {s} : csLabel'[t] = csLabel[t]
    BY <1>0, <1>3, <2>1 DEF SendUpdate
  <2>3. ASSUME SubjectInChirpStack(s)' # "gone", Mirrors(s) PROVE Mirrors(s)'
    <3>1. SubjectInChirpStack(s) = "present"
      <4>1. SubjectInChirpStack(s) \in Existence /\ SubjectInChirpStack(s) # "none"
        BY <2>1, <2>2 DEF SubjectInChirpStack, Subjects, Ordered, LabelSteps, TypeInv, StoreOK
      <4>2. SubjectInChirpStack(s) # "gone"
        BY <2>2, <2>3 DEF SubjectInChirpStack
      <4> QED BY <4>1, <4>2 DEF Existence
    <3>2. csLabel'[s] = req[r].label
      BY <1>0, <1>3, <2>1, <3>1
      DEF SendUpdate, SubjectInChirpStack, Call, Attempt, LabelFaults
    <3>3. r \in Patching(s)
      BY <2>1, <2>2 DEF Patching
    <3>4. req[r].label = label[s] /\ \A q \in Patching(s) : q = r
      BY <2>2, <2>3, <3>3 DEF Mirrors
    <3>5. Patching(s)' = {}
      BY <2>2, <3>4 DEF Patching
    <3> QED BY <2>2, <3>2, <3>4, <3>5 DEF Mirrors
  <2> QED BY <2>1, <2>2, <2>3, LabelsStep DEF LabelSteps
<1> QED BY <1>1, <1>2, <1>3

LEMMA LabelsKeptStep ==
  ASSUME TypeInv, Ordered, LabelsKept, Without(LabelFaults)', [Next]_vars
  PROVE  LabelsKept'
<1> USE DEF chirpstack, database, history
<1>1. ASSUME NEW r \in Requests, NEW x, Begin(r, x), x.step \notin LabelSteps,
             UNCHANGED <<label, csLabel, overlapped>>
      PROVE  LabelsKept'
  BY <1>1, StepTaken, LabelsAside DEF LabelSteps
<1>2. ASSUME NEW r \in Requests, NEW s, Goto(r, s) \/ End(r), s \notin LabelSteps,
             req[r].step \notin LabelSteps, UNCHANGED <<label, csLabel, overlapped>>
      PROVE  LabelsKept'
  BY <1>2, StepTaken, LabelsAside DEF LabelSteps
<1>3. /\ Over.step \notin LabelSteps
      /\ [Over EXCEPT !.step = "tenant_commit"].step \notin LabelSteps
      /\ [Over EXCEPT !.step = "tenant_row"].step \notin LabelSteps
      /\ \A a : [Over EXCEPT !.step = "app_user", !.app = a].step \notin LabelSteps
      /\ \A a : [Over EXCEPT !.step = "app_row", !.app = a].step \notin LabelSteps
      /\ \A a, e : [Over EXCEPT !.step = "device_create", !.app = a, !.eui = e].step \notin LabelSteps
      /\ \A e, p : [Over EXCEPT !.step = "device_row", !.eui = e, !.by = p].step \notin LabelSteps
  BY DEF Over, LabelSteps
<1>4. ASSUME NEW r \in Requests, NEW o \in Outcomes, CreateTenant(r, o) \/ DeleteTenant(r, o)
      PROVE  LabelsKept'
  <2>1. PICK x \in {Over, [Over EXCEPT !.step = "tenant_commit"], [Over EXCEPT !.step = "tenant_row"]} :
          Begin(r, x)
    BY <1>4 DEF CreateTenant, DeleteTenant
  <2>2. x.step \notin LabelSteps
    BY <1>3
  <2>3. UNCHANGED <<label, csLabel, overlapped>>
    BY <1>4 DEF CreateTenant, DeleteTenant
  <2> QED BY <1>1, <2>1, <2>2, <2>3
<1>5. ASSUME NEW r \in Requests, NEW o \in Outcomes,
             CommitTenant(r, o) \/ UndoTenant(r, o) \/ CommitTenantDeletion(r, o)
      PROVE  LabelsKept'
  <2>1. /\ UNCHANGED <<label, csLabel, overlapped>> /\ (Goto(r, "tenant_undo") \/ End(r))
        /\ req[r].step \notin LabelSteps
    BY <1>5 DEF CommitTenant, UndoTenant, CommitTenantDeletion, LabelSteps
  <2> QED BY <1>2, <2>1 DEF LabelSteps
<1>6. ASSUME NEW r \in Requests, TenantRequest(r) PROVE LabelsKept'
  BY <1>4, <1>5, <1>6, LabelsKeptByUpdate DEF TenantRequest, UpdateTenant, UpdateApplication, Subjects
<1>7. ASSUME NEW r \in Requests, NEW a \in Apps, NEW o \in Outcomes,
             CreateApplication(r, a, o) \/ DeleteApplication(r, a, o)
      PROVE  LabelsKept'
  <2>1. PICK x \in {Over, [Over EXCEPT !.step = "app_user", !.app = a],
                    [Over EXCEPT !.step = "app_row", !.app = a]} : Begin(r, x)
    BY <1>7 DEF CreateApplication, DeleteApplication
  <2>2. x.step \notin LabelSteps
    BY <1>3
  <2>3. UNCHANGED <<label, csLabel, overlapped>>
    BY <1>7 DEF CreateApplication, DeleteApplication
  <2> QED BY <1>1, <2>1, <2>2, <2>3
<1>8. ASSUME NEW r \in Requests, NEW o \in Outcomes,
             \/ ProvisionUser(r, o) \/ CommitApplication(r, o) \/ UndoUser(r, o)
             \/ UndoApplication(r, o) \/ CommitApplicationDeletion(r, o) \/ DropUser(r, o)
      PROVE  LabelsKept'
  <2>1. UNCHANGED <<label, csLabel, overlapped>> /\ req[r].step \notin LabelSteps
    BY <1>8 DEF ProvisionUser, CommitApplication, UndoUser, UndoApplication,
         CommitApplicationDeletion, DropUser, LabelSteps
  <2>2. End(r) \/ \E s \in {"app_commit", "app_undo", "app_undo_user", "app_drop_user"} : Goto(r, s)
    BY <1>8 DEF ProvisionUser, CommitApplication, UndoUser, UndoApplication,
         CommitApplicationDeletion, DropUser
  <2> QED BY <1>2, <2>1, <2>2 DEF LabelSteps
<1>9. ASSUME NEW r \in Requests, NEW e \in Euis,
             FindDevice(r, e) \/ \E a \in Apps : CheckDevice(r, a, e)
      PROVE  LabelsKept'
  <2>1. \E x : Begin(r, x) /\ x.step \notin LabelSteps
    BY <1>3, <1>9 DEF FindDevice, CheckDevice
  <2>2. UNCHANGED <<label, csLabel, overlapped>>
    BY <1>9 DEF FindDevice, CheckDevice
  <2> QED BY <1>1, <2>1, <2>2
<1>10. ASSUME NEW r \in Requests, NEW o \in Outcomes,
              \/ CreateDevice(r, o) \/ CreateKeys(r, o) \/ UndoDevice(r, o) \/ CommitDevice(r, o)
              \/ CommitDeviceDeletion(r, o) \/ DropDevice(r, o)
       PROVE  LabelsKept'
  <2>1. UNCHANGED <<label, csLabel, overlapped>> /\ req[r].step \notin LabelSteps
    BY <1>10 DEF CreateDevice, CreateKeys, UndoDevice, CommitDevice, CommitDeviceDeletion,
         DropDevice, LabelSteps
  <2>2. End(r) \/ \E s \in {"device_keys", "device_commit", "device_undo", "device_drop"} : Goto(r, s)
    BY <1>10 DEF CreateDevice, CreateKeys, UndoDevice, CommitDevice, CommitDeviceDeletion, DropDevice
  <2> QED BY <1>2, <2>1, <2>2 DEF LabelSteps
<1>11. \A r \in Requests : ~Crash(r)
  BY Excluded DEF Crash, LabelFaults
<1>12. CASE UNCHANGED vars
  BY <1>12 DEF vars, LabelsKept, Mirrors, Patching, SubjectInChirpStack
<1> QED
  BY <1>6, <1>7, <1>8, <1>9, <1>10, <1>11, <1>12 DEF Next, ApplicationRequest, DeviceRequest

-----------------------------------------------------------------------------
(* CleanupInv is inductive, beside what RegistryProofs shows.               *)

LEMMA CleanupInit == Init => CleanupInv
<1> SUFFICES ASSUME Init PROVE CleanupInv
  OBVIOUS
<1>1. \A r \in Requests : req[r].step = "new"
  BY DEF Init, New, Over
<1>2. /\ tenant \in {"none", "present"} /\ csTenant = tenant
      /\ \A a \in Apps : csApp[a] = tenant /\ app[a] = tenant
      /\ \A e \in Euis : device[e] = None
      /\ \A a \in users : app[a] = "present"
      /\ csLabel = label
  BY DEF Init
<1>3. Ordered /\ Placed
  BY <1>1, <1>2 DEF Ordered, Placed, LabelSteps
<1>4. TenantKept /\ AppsKept /\ UsersKept /\ DevicesKept
  BY <1>2 DEF TenantKept, AppsKept, UsersKept, DevicesKept
<1>5. LabelsKept
  BY <1>1, <1>2 DEF LabelsKept, Mirrors, Patching
<1> QED BY <1>3, <1>4, <1>5 DEF CleanupInv

LEMMA CleanupInductive ==
  TypeInv /\ Known /\ CleanupInv /\ [Next]_vars => CleanupInv'
<1> SUFFICES ASSUME TypeInv, Known, CleanupInv, [Next]_vars PROVE CleanupInv'
  OBVIOUS
<1>1. Ordered /\ Placed /\ Ordered' /\ Placed'
  BY OrderedInductive DEF CleanupInv
<1>2. \A kinds : Without(kinds)' => Without(kinds)
  BY SeenStays DEF Without
<1>3. Without(OrphanFaults)' => TenantKept' /\ AppsKept'
  BY <1>1, <1>2, TenantKeptStep, AppsKeptStep DEF CleanupInv
<1>4. Without(UserFaults)' => UsersKept'
  BY <1>2, UsersKeptStep DEF CleanupInv
<1>5. Without(DeviceFaults)' => DevicesKept'
  BY <1>1, <1>2, DevicesKeptStep DEF CleanupInv
<1>6. Without(LabelFaults)' => LabelsKept'
  BY <1>1, <1>2, LabelsKeptStep DEF CleanupInv
<1> QED BY <1>1, <1>3, <1>4, <1>5, <1>6 DEF CleanupInv

(* In every reachable state, what a request has half done is remembered by  *)
(* it or by another, as far as the faults so far allow it.                  *)
THEOREM CleanupHolds == Spec => [](TypeInv /\ CleanupInv)
<1>1. Init => TypeInv /\ RowInv /\ CleanupInv
  BY InitOK, RowInvInit, CleanupInit
<1>2. TypeInv /\ RowInv /\ CleanupInv /\ [Next]_vars => (TypeInv /\ RowInv /\ CleanupInv)'
  BY NextOK, RowInvInductive, CleanupInductive DEF RowInv
<1> QED BY <1>1, <1>2, PTL DEF Spec

-----------------------------------------------------------------------------
(* Once every request is over, with no compensation failing, no reply lost  *)
(* and no crash, every tenant and application of ChirpStack has its row: a  *)
(* creation that the database or ChirpStack refuses has been undone, and a  *)
(* deletion never removes the row of what ChirpStack keeps.                 *)
THEOREM NoTenantOrphaned == Spec => []NoOrphanTenant
<1>1. TypeInv /\ CleanupInv => NoOrphanTenant
  <2> SUFFICES ASSUME TypeInv, CleanupInv, Quiet, Without(OrphanFaults)
               PROVE  /\ csTenant = "present" => tenant = "present"
                      /\ \A a \in Apps : csApp[a] = "present" => app[a] = "present"
    BY DEF NoOrphanTenant, OrphanFaults
  <2>1. TenantKept /\ AppsKept /\ \A r \in Requests : req[r].step \in {"new", "over"}
    BY DEF CleanupInv, Quiet
  <2> QED BY <2>1 DEF TenantKept, AppsKept, Creating, Creates
<1> QED BY <1>1, CleanupHolds, PTL

(* Once every request is over and nothing but refusals of ChirpStack has    *)
(* happened, every device of ChirpStack has its row, except an EUI whose    *)
(* row was refused as a conflict, where the POST leaves the device behind.  *)
THEOREM NoDeviceOrphaned == Spec => []NoOrphanDevice
<1>1. TypeInv /\ CleanupInv => NoOrphanDevice
  <2> SUFFICES ASSUME TypeInv, CleanupInv, Quiet, Without(DeviceFaults),
                      NEW e \in Euis \ conflicts, device[e] # None
               PROVE  row[e] # None
    BY DEF NoOrphanDevice, DeviceFaults
  <2>1. DevicesKept /\ device[e].by \in Requests
    BY DevicePlace DEF CleanupInv
  <2>2. ~Posts(device[e].by, e) /\ \A r \in Requests : req[r].step # "device_drop"
    BY <2>1 DEF Quiet, Posts
  <2> QED BY <2>1, <2>2 DEF DevicesKept
<1> QED BY <1>1, CleanupHolds, PTL

(* Once every request is over, with no refusal, lost commit or crash, the   *)
(* database and ChirpStack have the same name and description of each       *)
(* tenant and application they both have, unless two PATCHes of it          *)
(* overlapped.                                                              *)
THEOREM NamesAgree == Spec => []LabelsAgree
<1>1. TypeInv /\ CleanupInv => LabelsAgree
  <2> SUFFICES ASSUME TypeInv, CleanupInv, Quiet, Without(LabelFaults)
               PROVE  /\ tenant = "present" /\ csTenant = "present" /\ "tenant" \notin overlapped
                           => csLabel["tenant"] = label["tenant"]
                      /\ \A a \in Apps \ overlapped :
                           app[a] = "present" /\ csApp[a] = "present" => csLabel[a] = label[a]
    BY DEF LabelsAgree, LabelFaults
  <2>1. \A s \in Subjects \ overlapped : SubjectInChirpStack(s) = "present" => csLabel[s] = label[s]
    <3>1. \A s : Patching(s) = {}
      BY DEF Quiet, Patching
    <3> QED BY <3>1 DEF CleanupInv, LabelsKept, Mirrors
  <2>2. "tenant" \in Subjects /\ SubjectInChirpStack("tenant") = csTenant
    BY DEF Subjects, SubjectInChirpStack
  <2>3. \A a \in Apps : a \in Subjects /\ SubjectInChirpStack(a) = csApp[a]
    BY RegistryConstants DEF Subjects, SubjectInChirpStack
  <2> QED BY <2>1, <2>2, <2>3
<1> QED BY <1>1, CleanupHolds, PTL

(* Once every request is over and nothing but failures of the database has  *)
(* happened, the user of an application in RabbitMQ is there without the    *)
(* application only where the deletion of the tenant took the row along.    *)
THEOREM UsersGoWithApplications == Spec => []UsersLeftByTenant
<1>1. TypeInv /\ CleanupInv => UsersLeftByTenant
  <2> SUFFICES ASSUME TypeInv, CleanupInv, Quiet, Without(UserFaults), NEW a \in users
               PROVE  app[a] = "present" \/ a \in cascaded
    BY DEF UsersLeftByTenant, UserFaults
  <2>1. UsersKept /\ \A r \in Requests : req[r].step \in {"new", "over"}
    BY DEF CleanupInv, Quiet
  <2> QED BY <2>1 DEF UsersKept, Answers, UserSteps
<1> QED BY <1>1, CleanupHolds, PTL
=============================================================================
