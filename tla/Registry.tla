------------------------------ MODULE Registry ------------------------------
(***************************************************************************)
(* The registry of identity_api: a tenant, its applications and their      *)
(* devices, each a row of the database and an object of ChirpStack.  No    *)
(* transaction spans the two: every request reads and writes them one step *)
(* at a time, compensates some of its failures and ignores others, and     *)
(* requests overlap.  The steps of one application that touch RabbitMQ,    *)
(* its jobs and its container are detailed in Application.                 *)
(*                                                                         *)
(* ChirpStack gives out the identifiers of tenants and applications, and   *)
(* none comes back; a device is known by its EUI, which does.              *)
(***************************************************************************)
EXTENDS Naturals

CONSTANTS
  Requests,   \* bound: the requests of a behaviour, each of any kind
  Apps,       \* identifiers of applications
  Euis,       \* devices
  Payloads,   \* the fields a PATCH may set
  None,
  Faults,     \* kinds of fault that may happen
  MaxFaults   \* bound: how many faults happen in a behaviour

Fields == {"name", "description"}
FaultKinds == {"refused", "cleanup", "lost", "database", "commit", "crash"}

ASSUME RegistryConstants ==
  /\ None \notin Apps \cup Euis \cup Requests
  /\ None \notin [app : Apps, by : Requests]
  /\ None \notin [app : Apps, by : Requests, keys : Requests \cup {None}]
  /\ "tenant" \notin Apps
  /\ Payloads \subseteq SUBSET Fields
  /\ Faults \subseteq FaultKinds
  /\ MaxFaults \in Nat

VARIABLES
  tenant, app,      \* the rows tenant and application: "none", "present", "gone"
  row,              \* devices: application and POST that wrote the row
  label,            \* name and description of each row: the PATCH that set them
  csTenant, csApp, device, csLabel,  \* the same in ChirpStack
  users,            \* applications whose user exists in RabbitMQ
  req,              \* each request: the step it does next, and what it remembers
  faults, seen,     \* number of faults so far, and their kinds
  stray,      \* history: EUIs removed from ChirpStack by a request that meant another device
  conflicts,  \* history: EUIs that a POST provisioned and whose row was refused as a conflict
  overlapped, \* history: what two PATCHes changed at the same time
  cascaded    \* history: applications whose row went with their tenant

database == <<tenant, app, row, label>>
chirpstack == <<csTenant, csApp, device, csLabel>>
history == <<stray, conflicts, overlapped, cascaded>>
vars == <<database, chirpstack, users, req, faults, seen, history>>

Subjects == {"tenant"} \cup Apps
Existence == {"none", "present", "gone"}
Outcomes == {"done", "refused", "lost"}

Over == [step |-> "over", app |-> None, eui |-> None, by |-> None, label |-> None]
New == [Over EXCEPT !.step = "new"]

Begin(r, next) == req[r].step = "new" /\ req' = [req EXCEPT ![r] = next]
Goto(r, step) == req' = [req EXCEPT ![r].step = step]
End(r) == req' = [req EXCEPT ![r] = Over]

Fault(kind) ==
  /\ kind \in Faults
  /\ faults < MaxFaults
  /\ faults' = faults + 1
  /\ seen' = seen \cup {kind}
NoFault == UNCHANGED <<faults, seen>>

(* A call is done, is refused, or is done and its reply is lost; a deletion *)
(* and a commit likewise.                                                   *)
Attempt(o, refusal, loss) ==
  \/ o = "done" /\ NoFault
  \/ o = "refused" /\ Fault(refusal)
  \/ o = "lost" /\ Fault(loss)
Call(o) == Attempt(o, "refused", "lost")
Cleanup(o) == Attempt(o, "cleanup", "lost")
Commit(o) == Attempt(o, "database", "commit")

(* ChirpStack removes the devices of an application along with it, and so  *)
(* do the foreign keys of the database.                                    *)
DropFromChirpStack(as) ==
  /\ csApp' = [a \in Apps |-> IF a \in as /\ csApp[a] = "present" THEN "gone" ELSE csApp[a]]
  /\ device' = [e \in Euis |-> IF device[e] # None /\ device[e].app \in as
                               THEN None ELSE device[e]]
DropRows(as) ==
  /\ app' = [a \in Apps |-> IF a \in as /\ app[a] = "present" THEN "gone" ELSE app[a]]
  /\ row' = [e \in Euis |-> IF row[e] # None /\ row[e].app \in as THEN None ELSE row[e]]

(* Nothing is registered yet, or a tenant and its applications are.         *)
Init ==
  /\ tenant \in {"none", "present"}
  /\ csTenant = tenant
  /\ app = [a \in Apps |-> tenant] /\ csApp = app
  /\ users = {a \in Apps : app[a] = "present"}
  /\ row = [e \in Euis |-> None] /\ device = row
  /\ label = [s \in Subjects |-> [f \in Fields |-> None]] /\ csLabel = label
  /\ req = [r \in Requests |-> New]
  /\ faults = 0 /\ seen = {}
  /\ stray = {} /\ conflicts = {} /\ overlapped = {} /\ cascaded = {}

-----------------------------------------------------------------------------
(* POST /tenant *)

CreateTenantSwallowingError(r, o) ==  \* mutant: a refusal of ChirpStack is ignored
  /\ csTenant = "none"
  /\ Call(o)
  /\ csTenant' = IF o = "refused" THEN "none" ELSE "present"
  /\ Begin(r, [Over EXCEPT !.step = "tenant_commit"])
  /\ UNCHANGED <<database, csApp, device, csLabel, users, history>>

CreateTenant(r, o) ==
  /\ csTenant = "none"
  /\ Call(o)
  /\ csTenant' = IF o = "refused" THEN "none" ELSE "present"
  /\ Begin(r, IF o = "done" THEN [Over EXCEPT !.step = "tenant_commit"] ELSE Over)
  /\ UNCHANGED <<database, csApp, device, csLabel, users, history>>

CommitTenantWithoutUndo(r, o) ==  \* mutant: the tenant is left in ChirpStack
  /\ req[r].step = "tenant_commit"
  /\ Commit(o)
  /\ tenant' = IF o = "refused" THEN tenant ELSE "present"
  /\ End(r)
  /\ UNCHANGED <<app, row, label, chirpstack, users, history>>

CommitTenant(r, o) ==
  /\ req[r].step = "tenant_commit"
  /\ Commit(o)
  /\ tenant' = IF o = "refused" THEN tenant ELSE "present"
  /\ IF o = "done" THEN End(r) ELSE Goto(r, "tenant_undo")
  /\ UNCHANGED <<app, row, label, chirpstack, users, history>>

UndoTenant(r, o) ==
  /\ req[r].step = "tenant_undo"
  /\ \/ /\ csTenant = "present"
        /\ Cleanup(o)
        /\ IF o = "refused" THEN UNCHANGED <<csTenant, csApp, device>>
           ELSE csTenant' = "gone" /\ DropFromChirpStack(Apps)
     \/ csTenant # "present" /\ NoFault /\ UNCHANGED <<csTenant, csApp, device>>
  /\ End(r)
  /\ UNCHANGED <<database, csLabel, users, history>>

-----------------------------------------------------------------------------
(* DELETE /tenant/{id}: a tenant ChirpStack does not have is refused.       *)

DeleteTenant(r, o) ==
  /\ tenant = "present"
  /\ \/ /\ csTenant = "present"
        /\ Cleanup(o)
        /\ IF o = "refused" THEN UNCHANGED <<csTenant, csApp, device>>
           ELSE csTenant' = "gone" /\ DropFromChirpStack(Apps)
        /\ Begin(r, IF o = "done" THEN [Over EXCEPT !.step = "tenant_row"] ELSE Over)
     \/ csTenant # "present" /\ NoFault /\ UNCHANGED <<csTenant, csApp, device>> /\ Begin(r, Over)
  /\ UNCHANGED <<database, csLabel, users, history>>

CommitTenantDeletion(r, o) ==
  /\ req[r].step = "tenant_row"
  /\ Commit(o)
  /\ IF o = "refused" THEN UNCHANGED <<tenant, app, row, cascaded>>
     ELSE /\ tenant' = "gone"
          /\ DropRows(Apps)
          /\ cascaded' = cascaded \cup {a \in Apps : app[a] = "present"}
  /\ End(r)
  /\ UNCHANGED <<label, chirpstack, users, stray, conflicts, overlapped>>

-----------------------------------------------------------------------------
(* PATCH of a tenant or an application: the fields it does not set are sent *)
(* to ChirpStack as they were read.                                         *)

Patching(s) == {r \in Requests : req[r].step \in {"label_commit", "label_send"} /\ req[r].app = s}

BeginUpdateWithoutMerge(r, s, fields) ==  \* mutant: only the fields of the payload are sent
  /\ Begin(r, [Over EXCEPT !.step = "label_commit", !.app = s, !.label = [f \in fields |-> r]])
  /\ overlapped' = overlapped \cup (IF Patching(s) = {} THEN {} ELSE {s})
  /\ UNCHANGED <<database, chirpstack, users, faults, seen, stray, conflicts, cascaded>>

BeginUpdate(r, s, fields) ==
  /\ Begin(r, [Over EXCEPT !.step = "label_commit", !.app = s,
                           !.label = [f \in Fields |-> IF f \in fields THEN r ELSE label[s][f]]])
  /\ overlapped' = overlapped \cup (IF Patching(s) = {} THEN {} ELSE {s})
  /\ UNCHANGED <<database, chirpstack, users, faults, seen, stray, conflicts, cascaded>>

UpdateTenant(r, fields) == tenant = "present" /\ BeginUpdate(r, "tenant", fields)
UpdateApplication(r, a, fields) == app[a] = "present" /\ BeginUpdate(r, a, fields)

(* Only the columns that were set are written; a row that has gone is an    *)
(* error.                                                                   *)
CommitUpdate(r, o) ==
  LET s == req[r].app
      Present == IF s = "tenant" THEN tenant = "present" ELSE app[s] = "present" IN
  /\ req[r].step = "label_commit"
  /\ \/ /\ Present
        /\ Commit(o)
        /\ label' = IF o = "refused" THEN label
                    ELSE [label EXCEPT ![s] =
                            [f \in Fields |-> IF req[r].label[f] = r THEN r ELSE @[f]]]
        /\ IF o = "done" THEN Goto(r, "label_send") ELSE End(r)
     \/ ~Present /\ NoFault /\ End(r) /\ UNCHANGED label
  /\ UNCHANGED <<tenant, app, row, chirpstack, users, history>>

SendOnlyWhatIsSet(r, o) ==  \* mutant: a field that is not set is sent as empty
  /\ req[r].step = "label_send"
  /\ Call(o)
  /\ csLabel' = [csLabel EXCEPT ![req[r].app] =
                   [f \in Fields |-> IF req[r].label[f] = r THEN r ELSE None]]
  /\ End(r)
  /\ UNCHANGED <<database, csTenant, csApp, device, users, history>>

(* The database stays as it is when ChirpStack refuses.                     *)
SendUpdate(r, o) ==
  LET s == req[r].app
      Present == IF s = "tenant" THEN csTenant = "present" ELSE csApp[s] = "present" IN
  /\ req[r].step = "label_send"
  /\ \/ /\ Present
        /\ Call(o)
        /\ csLabel' = IF o = "refused" THEN csLabel ELSE [csLabel EXCEPT ![s] = req[r].label]
     \/ ~Present /\ NoFault /\ UNCHANGED csLabel
  /\ End(r)
  /\ UNCHANGED <<database, csTenant, csApp, device, users, history>>

-----------------------------------------------------------------------------
(* POST and DELETE of an application, in the steps that touch the registry  *)

CreateApplication(r, a, o) ==
  /\ tenant = "present" /\ csApp[a] = "none"
  /\ \/ /\ csTenant = "present"
        /\ Call(o)
        /\ csApp' = IF o = "refused" THEN csApp ELSE [csApp EXCEPT ![a] = "present"]
        /\ Begin(r, IF o = "done" THEN [Over EXCEPT !.step = "app_user", !.app = a] ELSE Over)
     \/ csTenant # "present" /\ NoFault /\ Begin(r, Over) /\ UNCHANGED csApp
  /\ UNCHANGED <<database, csTenant, device, csLabel, users, history>>

(* A refusal of the permissions comes after the user has been created.      *)
ProvisionUser(r, o) ==
  LET a == req[r].app IN
  /\ req[r].step = "app_user"
  /\ Call(o)
  /\ \/ users' = users \cup {a}
     \/ o # "done" /\ UNCHANGED users
  /\ Goto(r, IF o = "done" THEN "app_commit" ELSE "app_undo")
  /\ UNCHANGED <<database, chirpstack, history>>

CommitApplicationForgettingUser(r, o) ==  \* mutant: only ChirpStack is compensated
  /\ req[r].step = "app_commit"
  /\ \/ /\ tenant = "present"
        /\ Commit(o)
        /\ app' = IF o = "refused" THEN app ELSE [app EXCEPT ![req[r].app] = "present"]
        /\ IF o = "done" THEN End(r) ELSE Goto(r, "app_undo")
     \/ tenant # "present" /\ NoFault /\ Goto(r, "app_undo") /\ UNCHANGED app
  /\ UNCHANGED <<tenant, row, label, chirpstack, users, history>>

(* The tenant may have gone: its foreign key refuses the row then.          *)
CommitApplication(r, o) ==
  /\ req[r].step = "app_commit"
  /\ \/ /\ tenant = "present"
        /\ Commit(o)
        /\ app' = IF o = "refused" THEN app ELSE [app EXCEPT ![req[r].app] = "present"]
        /\ IF o = "done" THEN End(r) ELSE Goto(r, "app_undo_user")
     \/ tenant # "present" /\ NoFault /\ Goto(r, "app_undo_user") /\ UNCHANGED app
  /\ UNCHANGED <<tenant, row, label, chirpstack, users, history>>

UndoUser(r, o) ==
  /\ req[r].step = "app_undo_user"
  /\ Cleanup(o)
  /\ users' = IF o = "refused" THEN users ELSE users \ {req[r].app}
  /\ Goto(r, "app_undo")
  /\ UNCHANGED <<database, chirpstack, history>>

(* ChirpStack deletes application a, or answers that it has none.           *)
RemoveApplication(a, o) ==
  \/ /\ csApp[a] = "present"
     /\ Cleanup(o)
     /\ IF o = "refused" THEN UNCHANGED <<csApp, device>> ELSE DropFromChirpStack({a})
  \/ csApp[a] # "present" /\ o = "refused" /\ NoFault /\ UNCHANGED <<csApp, device>>

UndoApplication(r, o) ==
  /\ req[r].step = "app_undo"
  /\ RemoveApplication(req[r].app, o)
  /\ End(r)
  /\ UNCHANGED <<database, csTenant, csLabel, users, history>>

DeleteApplication(r, a, o) ==
  /\ app[a] = "present"
  /\ RemoveApplication(a, o)
  /\ Begin(r, IF o = "done" THEN [Over EXCEPT !.step = "app_row", !.app = a] ELSE Over)
  /\ UNCHANGED <<database, csTenant, csLabel, users, history>>

CommitApplicationDeletion(r, o) ==
  /\ req[r].step = "app_row"
  /\ Commit(o)
  /\ IF o = "refused" THEN UNCHANGED <<app, row>> ELSE DropRows({req[r].app})
  /\ IF o = "done" THEN Goto(r, "app_drop_user") ELSE End(r)
  /\ UNCHANGED <<tenant, label, chirpstack, users, history>>

DropUser(r, o) ==
  /\ req[r].step = "app_drop_user"
  /\ Cleanup(o)
  /\ users' = IF o = "refused" THEN users ELSE users \ {req[r].app}
  /\ End(r)
  /\ UNCHANGED <<database, chirpstack, history>>

-----------------------------------------------------------------------------
(* POST /devices: the application has a row, the profile is one of its      *)
(* tenant in ChirpStack, and no row has the EUI.                            *)

HasProfiles == csTenant = "present"

CheckDevice(r, a, e) ==
  /\ app[a] = "present" /\ HasProfiles /\ row[e] = None
  /\ Begin(r, [Over EXCEPT !.step = "device_create", !.app = a, !.eui = e])
  /\ UNCHANGED <<database, chirpstack, users, faults, seen, history>>

CreateDeviceTakingOver(r, o) ==  \* mutant: a device that is known counts as created
  LET a == req[r].app  e == req[r].eui IN
  /\ req[r].step = "device_create"
  /\ Call(o)
  /\ device' = IF device[e] # None \/ csApp[a] # "present" \/ o = "refused" THEN device
               ELSE [device EXCEPT ![e] = [app |-> a, by |-> r, keys |-> None]]
  /\ Goto(r, IF o = "done" THEN "device_keys" ELSE "device_undo")
  /\ UNCHANGED <<database, csTenant, csApp, csLabel, users, history>>

(* A device that is known, or an application that is not, is refused, and   *)
(* nothing is compensated: the device is not this request's.                *)
CreateDevice(r, o) ==
  LET a == req[r].app  e == req[r].eui IN
  /\ req[r].step = "device_create"
  /\ \/ /\ device[e] = None /\ csApp[a] = "present"
        /\ Call(o)
        /\ device' = IF o = "refused" THEN device
                     ELSE [device EXCEPT ![e] = [app |-> a, by |-> r, keys |-> None]]
        /\ IF o = "done" THEN Goto(r, "device_keys") ELSE End(r)
     \/ (device[e] # None \/ csApp[a] # "present") /\ NoFault /\ End(r) /\ UNCHANGED device
  /\ UNCHANGED <<database, csTenant, csApp, csLabel, users, history>>

Keyless(e) == device[e] # None /\ device[e].keys = None

CreateKeysWithoutUndo(r, o) ==  \* mutant: a device without keys is left in ChirpStack
  LET e == req[r].eui IN
  /\ req[r].step = "device_keys"
  /\ \/ /\ Keyless(e)
        /\ Call(o)
        /\ device' = IF o = "refused" THEN device ELSE [device EXCEPT ![e].keys = r]
        /\ IF o = "done" THEN Goto(r, "device_commit") ELSE End(r)
     \/ ~Keyless(e) /\ NoFault /\ End(r) /\ UNCHANGED device
  /\ UNCHANGED <<database, csTenant, csApp, csLabel, users, history>>

(* The keys are set on the device of that EUI, whoever created it.          *)
CreateKeys(r, o) ==
  LET e == req[r].eui IN
  /\ req[r].step = "device_keys"
  /\ \/ /\ Keyless(e)
        /\ Call(o)
        /\ device' = IF o = "refused" THEN device ELSE [device EXCEPT ![e].keys = r]
        /\ Goto(r, IF o = "done" THEN "device_commit" ELSE "device_undo")
     \/ ~Keyless(e) /\ NoFault /\ Goto(r, "device_undo") /\ UNCHANGED device
  /\ UNCHANGED <<database, csTenant, csApp, csLabel, users, history>>

(* _delete_device_best_effort, for the device that POST p had provisioned: *)
(* ChirpStack is told the EUI only.                                         *)
RemoveDevice(e, p, o) ==
  \/ /\ device[e] # None
     /\ Cleanup(o)
     /\ device' = IF o = "refused" THEN device ELSE [device EXCEPT ![e] = None]
     /\ stray' = stray \cup (IF o # "refused" /\ device[e].by # p THEN {e} ELSE {})
  \/ device[e] = None /\ NoFault /\ UNCHANGED <<device, stray>>

UndoDevice(r, o) ==
  /\ req[r].step = "device_undo"
  /\ RemoveDevice(req[r].eui, r, o)
  /\ End(r)
  /\ UNCHANGED <<database, csTenant, csApp, csLabel, users, conflicts, overlapped, cascaded>>

(* The foreign key and the unique index are checked here: a row that they   *)
(* refuse is a conflict, and the device stays in ChirpStack.                *)
CommitDevice(r, o) ==
  LET a == req[r].app  e == req[r].eui IN
  /\ req[r].step = "device_commit"
  /\ \/ /\ row[e] = None /\ app[a] = "present"
        /\ Commit(o)
        /\ row' = IF o = "refused" THEN row ELSE [row EXCEPT ![e] = [app |-> a, by |-> r]]
        /\ UNCHANGED conflicts
     \/ /\ ~(row[e] = None /\ app[a] = "present")
        /\ NoFault
        /\ conflicts' = conflicts \cup {e}
        /\ UNCHANGED row
  /\ End(r)
  /\ UNCHANGED <<tenant, app, label, chirpstack, users, stray, overlapped, cascaded>>

-----------------------------------------------------------------------------
(* DELETE /devices/{id}: the row goes first.  A row that another request    *)
(* has deleted meanwhile is no error.                                       *)

FindDevice(r, e) ==
  /\ row[e] # None
  /\ Begin(r, [Over EXCEPT !.step = "device_row", !.eui = e, !.by = row[e].by])
  /\ UNCHANGED <<database, chirpstack, users, faults, seen, history>>

CommitDeviceDeletion(r, o) ==
  LET e == req[r].eui IN
  /\ req[r].step = "device_row"
  /\ Commit(o)
  /\ row' = IF o # "refused" /\ row[e] # None /\ row[e].by = req[r].by
            THEN [row EXCEPT ![e] = None] ELSE row
  /\ IF o = "done" THEN Goto(r, "device_drop") ELSE End(r)
  /\ UNCHANGED <<tenant, app, label, chirpstack, users, history>>

DropDevice(r, o) ==
  /\ req[r].step = "device_drop"
  /\ RemoveDevice(req[r].eui, req[r].by, o)
  /\ End(r)
  /\ UNCHANGED <<database, csTenant, csApp, csLabel, users, conflicts, overlapped, cascaded>>

-----------------------------------------------------------------------------
(* A request dies with its process.                                         *)
Crash(r) ==
  /\ req[r].step \notin {"new", "over"}
  /\ Fault("crash")
  /\ End(r)
  /\ UNCHANGED <<database, chirpstack, users, history>>

TenantRequest(r) ==
  \/ \E o \in Outcomes : CreateTenant(r, o) \/ CommitTenant(r, o) \/ UndoTenant(r, o)
                         \/ DeleteTenant(r, o) \/ CommitTenantDeletion(r, o)
  \/ \E fields \in Payloads : UpdateTenant(r, fields) \/ \E a \in Apps : UpdateApplication(r, a, fields)
  \/ \E o \in Outcomes : CommitUpdate(r, o) \/ SendUpdate(r, o)

ApplicationRequest(r) ==
  \E o \in Outcomes :
    \/ \E a \in Apps : CreateApplication(r, a, o) \/ DeleteApplication(r, a, o)
    \/ ProvisionUser(r, o) \/ CommitApplication(r, o) \/ UndoUser(r, o) \/ UndoApplication(r, o)
    \/ CommitApplicationDeletion(r, o) \/ DropUser(r, o)

DeviceRequest(r) ==
  \/ \E e \in Euis : FindDevice(r, e) \/ \E a \in Apps : CheckDevice(r, a, e)
  \/ \E o \in Outcomes :
       \/ CreateDevice(r, o) \/ CreateKeys(r, o) \/ UndoDevice(r, o) \/ CommitDevice(r, o)
       \/ CommitDeviceDeletion(r, o) \/ DropDevice(r, o)

Next == \E r \in Requests :
  TenantRequest(r) \/ ApplicationRequest(r) \/ DeviceRequest(r) \/ Crash(r)

Spec == Init /\ [][Next]_vars
-----------------------------------------------------------------------------
(* Properties *)

Steps == {"new", "over", "tenant_commit", "tenant_undo", "tenant_row", "label_commit",
          "label_send", "app_user", "app_commit", "app_undo_user", "app_undo", "app_row",
          "app_drop_user", "device_create", "device_keys", "device_undo", "device_commit",
          "device_row", "device_drop"}
Labels == [Fields -> Requests \cup {None}]

(* The variables have their types.                                          *)
TypeOK ==
  /\ tenant \in Existence /\ csTenant \in Existence
  /\ app \in [Apps -> Existence] /\ csApp \in [Apps -> Existence]
  /\ row \in [Euis -> [app: Apps, by: Requests] \cup {None}]
  /\ device \in [Euis -> [app: Apps, by: Requests, keys: Requests \cup {None}] \cup {None}]
  /\ label \in [Subjects -> Labels] /\ csLabel \in [Subjects -> Labels]
  /\ users \subseteq Apps
  /\ req \in [Requests -> [step: Steps, app: Subjects \cup {None}, eui: Euis \cup {None},
                           by: Requests \cup {None}, label: Labels \cup {None}]]
  /\ faults \in 0..MaxFaults /\ seen \subseteq Faults
  /\ stray \subseteq Euis /\ conflicts \subseteq Euis /\ overlapped \subseteq Subjects /\ cascaded \subseteq Apps

Quiet == \A r \in Requests : req[r].step \in {"new", "over"}
Without(kinds) == seen \cap kinds = {}

(* "The local row exists, implying a device already provisioned": it is in  *)
(* ChirpStack, in the application of the row and with the keys of the       *)
(* request that wrote the row, whatever fails, unless a request removed a   *)
(* device of that EUI which was not the one it meant.                       *)
DeviceRowIsProvisioned == \A e \in Euis \ stray :
  row[e] # None /\ csApp[row[e].app] = "present"
    => device[e] = [app |-> row[e].app, by |-> row[e].by, keys |-> row[e].by]

(* Requests that fail because ChirpStack refuses leave no device behind that *)
(* has no row, and would be refused for ever.                               *)
NoOrphanDevice ==
  Quiet /\ Without({"cleanup", "lost", "database", "commit", "crash"})
    => \A e \in Euis \ conflicts : device[e] # None => row[e] # None

(* Neither do requests that the database or ChirpStack refuse leave a       *)
(* tenant or an application behind.                                         *)
NoOrphanTenant ==
  Quiet /\ Without({"cleanup", "lost", "crash"})
    => /\ csTenant = "present" => tenant = "present"
       /\ \A a \in Apps : csApp[a] = "present" => app[a] = "present"

(* A DELETE of the tenant can be repeated: ChirpStack still has what the    *)
(* row refers to, or the repetition would be refused for ever.              *)
TenantDeletionRepeats ==
  /\ tenant = "present" /\ Without({"lost", "database", "commit", "crash"})
  /\ \A r \in Requests : req[r].step # "tenant_row"
  => csTenant = "present"

(* ChirpStack shows the names of the database, after every PATCH that did   *)
(* not overlap another one of the same subject.                             *)
LabelsAgree ==
  Quiet /\ Without({"refused", "commit", "crash"})
    => /\ tenant = "present" /\ csTenant = "present" /\ "tenant" \notin overlapped
            => csLabel["tenant"] = label["tenant"]
       /\ \A a \in Apps \ overlapped :
            app[a] = "present" /\ csApp[a] = "present" => csLabel[a] = label[a]

(* A user of RabbitMQ without its application is one of an application      *)
(* that went with its tenant: a creation that loses the race against the    *)
(* deletion of its tenant cleans up.                                        *)
UsersLeftByTenant ==
  Quiet /\ Without({"refused", "cleanup", "lost", "commit", "crash"})
    => \A a \in users : app[a] = "present" \/ a \in cascaded
=============================================================================
