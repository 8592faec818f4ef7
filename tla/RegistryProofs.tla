--------------------------- MODULE RegistryProofs ---------------------------
(***************************************************************************)
(* Proofs about Registry, for any number of requests, applications, EUIs   *)
(* and faults.                                                             *)
(***************************************************************************)
EXTENDS Registry, TLAPS

Records == [step: Steps, app: Subjects \cup {None}, eui: Euis \cup {None},
            by: Requests \cup {None}, label: Labels \cup {None}]

PostSteps == {"device_create", "device_keys", "device_undo", "device_commit"}
DeleteSteps == {"device_row", "device_drop"}
AppSteps == {"app_user", "app_commit", "app_undo_user", "app_undo", "app_row", "app_drop_user"}
LabelSteps == {"label_commit", "label_send"}

(* What a request remembers at each of its steps                            *)
Remembers(x) ==
  /\ x.step \in PostSteps \cup AppSteps => x.app \in Apps
  /\ x.step \in PostSteps \cup DeleteSteps => x.eui \in Euis
  /\ x.step \in DeleteSteps => x.by \in Requests
  /\ x.step \in LabelSteps => x.app \in Subjects /\ x.label \in Labels

ReqOK == req \in [Requests -> Records] /\ \A r \in Requests : Remembers(req[r])

StoreOK ==
  /\ tenant \in Existence /\ csTenant \in Existence
  /\ app \in [Apps -> Existence] /\ csApp \in [Apps -> Existence]
  /\ row \in [Euis -> [app: Apps, by: Requests] \cup {None}]
  /\ device \in [Euis -> [app: Apps, by: Requests, keys: Requests \cup {None}] \cup {None}]
  /\ label \in [Subjects -> Labels] /\ csLabel \in [Subjects -> Labels]
  /\ users \subseteq Apps

FaultsOK == faults \in 0..MaxFaults /\ seen \subseteq Faults
HistoryOK == stray \subseteq Euis /\ conflicts \subseteq Euis /\ overlapped \subseteq Subjects
             /\ cascaded \subseteq Apps

TypeInv == ReqOK /\ StoreOK /\ FaultsOK /\ HistoryOK
-----------------------------------------------------------------------------
LEMMA OverOK == Over \in Records /\ Remembers(Over) /\ Over.step = "over"
  BY DEF Over, Records, Remembers, Steps, PostSteps, DeleteSteps, AppSteps, LabelSteps

(* What the three operators on req do                                       *)
LEMMA BeginOK ==
  ASSUME ReqOK, NEW r \in Requests, NEW x \in Records, Remembers(x), Begin(r, x)
  PROVE  ReqOK' /\ req' = [req EXCEPT ![r] = x] /\ req[r].step = "new"
  BY DEF ReqOK, Begin

LEMMA GotoOK ==
  ASSUME ReqOK, NEW r \in Requests, NEW s \in Steps, Goto(r, s),
         Remembers([req[r] EXCEPT !.step = s])
  PROVE  ReqOK' /\ req' = [req EXCEPT ![r] = [req[r] EXCEPT !.step = s]]
<1>1. req[r] \in Records
  BY DEF ReqOK
<1>2. [req[r] EXCEPT !.step = s] \in Records
  BY <1>1 DEF Records
<1>3. req' = [req EXCEPT ![r] = [req[r] EXCEPT !.step = s]]
  BY DEF Goto
<1> QED BY <1>2, <1>3 DEF ReqOK

LEMMA EndOK ==
  ASSUME ReqOK, NEW r \in Requests, End(r)
  PROVE  ReqOK' /\ req' = [req EXCEPT ![r] = Over]
  BY OverOK DEF ReqOK, End

LEMMA FaultOK ==
  ASSUME FaultsOK, NEW k, Fault(k) PROVE FaultsOK'
  BY RegistryConstants DEF FaultsOK, Fault

LEMMA AttemptOK ==
  ASSUME FaultsOK, NEW o, NEW k, NEW l, Attempt(o, k, l) \/ NoFault PROVE FaultsOK'
<1>1. CASE NoFault
  BY <1>1 DEF FaultsOK, NoFault
<1>2. CASE Attempt(o, k, l)
  BY <1>1, <1>2, FaultOK DEF Attempt
<1> QED BY <1>1, <1>2

LEMMA OutcomeOK ==
  ASSUME FaultsOK, NEW o, Call(o) \/ Cleanup(o) \/ Commit(o) \/ NoFault PROVE FaultsOK'
  BY AttemptOK DEF Call, Cleanup, Commit

LEMMA DropFromChirpStackOK ==
  ASSUME StoreOK, NEW as, DropFromChirpStack(as)
  PROVE  /\ csApp' \in [Apps -> Existence]
         /\ device' \in [Euis -> [app: Apps, by: Requests, keys: Requests \cup {None}] \cup {None}]
  BY DEF StoreOK, DropFromChirpStack, Existence

LEMMA DropRowsOK ==
  ASSUME StoreOK, NEW as, DropRows(as)
  PROVE  app' \in [Apps -> Existence] /\ row' \in [Euis -> [app: Apps, by: Requests] \cup {None}]
  BY DEF StoreOK, DropRows, Existence
-----------------------------------------------------------------------------
(* The steps a request can go to, and what it then remembers                *)
LEMMA PlainStepOK ==
  ASSUME NEW s \in {"over", "tenant_commit", "tenant_undo", "tenant_row"}
  PROVE  [Over EXCEPT !.step = s] \in Records /\ Remembers([Over EXCEPT !.step = s])
  BY DEF Over, Records, Remembers, Steps, PostSteps, DeleteSteps, AppSteps, LabelSteps

LEMMA AppStepOK ==
  ASSUME NEW s \in {"app_user", "app_row"}, NEW a \in Apps
  PROVE  LET x == [Over EXCEPT !.step = s, !.app = a] IN x \in Records /\ Remembers(x)
  BY DEF Over, Records, Remembers, Steps, Subjects, PostSteps, DeleteSteps, AppSteps, LabelSteps

LEMMA GotoAppOK ==
  ASSUME ReqOK, NEW r \in Requests, req[r].step \in AppSteps, NEW s \in AppSteps, Goto(r, s)
  PROVE  ReqOK' /\ req' = [req EXCEPT ![r] = [req[r] EXCEPT !.step = s]]
<1>1. req[r] \in Records /\ Remembers(req[r]) /\ s \in Steps
  BY DEF ReqOK, AppSteps, Steps
<1>2. Remembers([req[r] EXCEPT !.step = s])
  BY <1>1 DEF Remembers, Records, AppSteps, PostSteps, DeleteSteps, LabelSteps
<1> QED BY <1>1, <1>2, GotoOK

LEMMA GotoPostOK ==
  ASSUME ReqOK, NEW r \in Requests, req[r].step \in PostSteps, NEW s \in PostSteps, Goto(r, s)
  PROVE  ReqOK' /\ req' = [req EXCEPT ![r] = [req[r] EXCEPT !.step = s]]
<1>1. req[r] \in Records /\ Remembers(req[r]) /\ s \in Steps
  BY DEF ReqOK, PostSteps, Steps
<1>2. Remembers([req[r] EXCEPT !.step = s])
  BY <1>1 DEF Remembers, Records, AppSteps, PostSteps, DeleteSteps, LabelSteps
<1> QED BY <1>1, <1>2, GotoOK

LEMMA GotoDropOK ==
  ASSUME ReqOK, NEW r \in Requests, req[r].step = "device_row", Goto(r, "device_drop")
  PROVE  ReqOK' /\ req' = [req EXCEPT ![r] = [req[r] EXCEPT !.step = "device_drop"]]
<1>1. req[r] \in Records /\ Remembers(req[r]) /\ "device_drop" \in Steps
  BY DEF ReqOK, Steps
<1>2. Remembers([req[r] EXCEPT !.step = "device_drop"])
  BY <1>1 DEF Remembers, Records, AppSteps, PostSteps, DeleteSteps, LabelSteps
<1> QED BY <1>1, <1>2, GotoOK

LEMMA GotoUndoTenantOK ==
  ASSUME ReqOK, NEW r \in Requests, Goto(r, "tenant_undo")
  PROVE  ReqOK' /\ req' = [req EXCEPT ![r] = [req[r] EXCEPT !.step = "tenant_undo"]]
<1>1. req[r] \in Records /\ "tenant_undo" \in Steps
  BY DEF ReqOK, Steps
<1>2. Remembers([req[r] EXCEPT !.step = "tenant_undo"])
  BY <1>1 DEF Remembers, Records, AppSteps, PostSteps, DeleteSteps, LabelSteps
<1> QED BY <1>1, <1>2, GotoOK

LEMMA GotoSendOK ==
  ASSUME ReqOK, NEW r \in Requests, req[r].step = "label_commit", Goto(r, "label_send")
  PROVE  ReqOK' /\ req' = [req EXCEPT ![r] = [req[r] EXCEPT !.step = "label_send"]]
<1>1. req[r] \in Records /\ Remembers(req[r]) /\ "label_send" \in Steps
  BY DEF ReqOK, Steps
<1>2. Remembers([req[r] EXCEPT !.step = "label_send"])
  BY <1>1 DEF Remembers, Records, AppSteps, PostSteps, DeleteSteps, LabelSteps
<1> QED BY <1>1, <1>2, GotoOK
-----------------------------------------------------------------------------
(* Every step keeps the types.                                              *)
LEMMA TenantRequestOK ==
  ASSUME TypeInv, NEW r \in Requests, TenantRequest(r) PROVE TypeInv'
<1> USE DEF TypeInv, database, chirpstack, history
<1>1. ASSUME NEW o \in Outcomes, CreateTenant(r, o) PROVE TypeInv'
  <2>1. ReqOK'
    <3> DEFINE x == IF o = "done" THEN [Over EXCEPT !.step = "tenant_commit"] ELSE Over
    <3>1. x \in Records /\ Remembers(x)
      BY OverOK, PlainStepOK
    <3>2. Begin(r, x)
      BY <1>1 DEF CreateTenant
    <3> QED BY <3>1, <3>2, BeginOK
  <2>2. StoreOK'
    BY <1>1 DEF CreateTenant, StoreOK, Existence
  <2>3. FaultsOK' /\ HistoryOK'
    BY <1>1, OutcomeOK DEF CreateTenant, HistoryOK
  <2> QED BY <2>1, <2>2, <2>3
<1>2. ASSUME NEW o \in Outcomes, CommitTenant(r, o) PROVE TypeInv'
  <2>1. ReqOK'
    BY <1>2, EndOK, GotoUndoTenantOK DEF CommitTenant
  <2>2. StoreOK'
    BY <1>2 DEF CommitTenant, StoreOK, Existence
  <2>3. FaultsOK' /\ HistoryOK'
    BY <1>2, OutcomeOK DEF CommitTenant, HistoryOK
  <2> QED BY <2>1, <2>2, <2>3
<1>3. ASSUME NEW o \in Outcomes, UndoTenant(r, o) PROVE TypeInv'
  <2>1. ReqOK'
    BY <1>3, EndOK DEF UndoTenant
  <2>2. csTenant' \in Existence /\ StoreOK'
    <3>1. CASE UNCHANGED <<csTenant, csApp, device>>
      BY <1>3, <3>1 DEF UndoTenant, StoreOK
    <3>2. CASE csTenant' = "gone" /\ DropFromChirpStack(Apps)
      BY <1>3, <3>2, DropFromChirpStackOK DEF UndoTenant, StoreOK, Existence
    <3> QED BY <1>3, <3>1, <3>2 DEF UndoTenant
  <2>3. FaultsOK' /\ HistoryOK'
    BY <1>3, OutcomeOK DEF UndoTenant, HistoryOK
  <2> QED BY <2>1, <2>2, <2>3
<1>4. ASSUME NEW o \in Outcomes, DeleteTenant(r, o) PROVE TypeInv'
  <2>1. ReqOK'
    <3>1. PICK x \in {Over, [Over EXCEPT !.step = "tenant_row"]} : Begin(r, x)
      BY <1>4 DEF DeleteTenant
    <3>2. x \in Records /\ Remembers(x)
      BY OverOK, PlainStepOK
    <3> QED BY <3>1, <3>2, BeginOK
  <2>2. StoreOK'
    <3>1. CASE UNCHANGED <<csTenant, csApp, device>>
      BY <1>4, <3>1 DEF DeleteTenant, StoreOK
    <3>2. CASE csTenant' = "gone" /\ DropFromChirpStack(Apps)
      BY <1>4, <3>2, DropFromChirpStackOK DEF DeleteTenant, StoreOK, Existence
    <3> QED BY <1>4, <3>1, <3>2 DEF DeleteTenant
  <2>3. FaultsOK' /\ HistoryOK'
    BY <1>4, OutcomeOK DEF DeleteTenant, HistoryOK
  <2> QED BY <2>1, <2>2, <2>3
<1>5. ASSUME NEW o \in Outcomes, CommitTenantDeletion(r, o) PROVE TypeInv'
  <2>1. ReqOK'
    BY <1>5, EndOK DEF CommitTenantDeletion
  <2>2. StoreOK'
    <3>1. CASE UNCHANGED <<tenant, app, row, cascaded>>
      BY <1>5, <3>1 DEF CommitTenantDeletion, StoreOK
    <3>2. CASE tenant' = "gone" /\ DropRows(Apps)
      BY <1>5, <3>2, DropRowsOK DEF CommitTenantDeletion, StoreOK, Existence
    <3> QED BY <1>5, <3>1, <3>2 DEF CommitTenantDeletion
  <2>3. FaultsOK' /\ HistoryOK'
    BY <1>5, OutcomeOK DEF CommitTenantDeletion, HistoryOK
  <2> QED BY <2>1, <2>2, <2>3
<1>6. ASSUME NEW s \in Subjects, NEW fields, BeginUpdate(r, s, fields) PROVE TypeInv'
  <2> DEFINE l == [f \in Fields |-> IF f \in fields THEN r ELSE label[s][f]]
             x == [Over EXCEPT !.step = "label_commit", !.app = s, !.label = l]
  <2>1. l \in Labels
    BY DEF StoreOK, Labels
  <2>2. x \in Records /\ Remembers(x)
    BY <2>1 DEF Over, Records, Remembers, Steps, PostSteps, DeleteSteps, AppSteps, LabelSteps
  <2>3. ReqOK'
    <3>1. Begin(r, x)
      BY <1>6 DEF BeginUpdate
    <3> QED BY <2>2, <3>1, BeginOK
  <2>4. StoreOK' /\ FaultsOK' /\ HistoryOK'
    BY <1>6 DEF BeginUpdate, StoreOK, FaultsOK, HistoryOK
  <2> QED BY <2>3, <2>4
<1>7. ASSUME NEW o \in Outcomes, CommitUpdate(r, o) PROVE TypeInv'
  <2>1. ReqOK'
    BY <1>7, EndOK, GotoSendOK DEF CommitUpdate
  <2>2. req[r].app \in Subjects /\ req[r].label \in Labels
    BY <1>7 DEF CommitUpdate, ReqOK, Remembers, LabelSteps
  <2>3. label' \in [Subjects -> Labels]
    <3>1. CASE label' = label
      BY <3>1 DEF StoreOK
    <3>2. CASE label' = [label EXCEPT ![req[r].app] =
                           [f \in Fields |-> IF req[r].label[f] = r THEN r ELSE @[f]]]
      BY <2>2, <3>2 DEF StoreOK, Labels
    <3> QED BY <1>7, <3>1, <3>2 DEF CommitUpdate
  <2>4. StoreOK' /\ FaultsOK' /\ HistoryOK'
    BY <1>7, <2>3, OutcomeOK DEF CommitUpdate, StoreOK, HistoryOK
  <2> QED BY <2>1, <2>4
<1>8. ASSUME NEW o \in Outcomes, SendUpdate(r, o) PROVE TypeInv'
  <2>1. ReqOK'
    BY <1>8, EndOK DEF SendUpdate
  <2>2. req[r].app \in Subjects /\ req[r].label \in Labels
    BY <1>8 DEF SendUpdate, ReqOK, Remembers, LabelSteps
  <2>3. csLabel' \in [Subjects -> Labels]
    BY <1>8, <2>2 DEF SendUpdate, StoreOK
  <2>4. StoreOK' /\ FaultsOK' /\ HistoryOK'
    BY <1>8, <2>3, OutcomeOK DEF SendUpdate, StoreOK, HistoryOK
  <2> QED BY <2>1, <2>4
<1> QED
  BY <1>1, <1>2, <1>3, <1>4, <1>5, <1>6, <1>7, <1>8
  DEF TenantRequest, UpdateTenant, UpdateApplication, Subjects

LEMMA RemoveApplicationOK ==
  ASSUME StoreOK, NEW a, NEW o, RemoveApplication(a, o)
  PROVE  /\ csApp' \in [Apps -> Existence]
         /\ device' \in [Euis -> [app: Apps, by: Requests, keys: Requests \cup {None}] \cup {None}]
<1>1. CASE UNCHANGED <<csApp, device>>
  BY <1>1 DEF StoreOK
<1>2. CASE DropFromChirpStack({a})
  BY <1>2, DropFromChirpStackOK
<1> QED BY <1>1, <1>2 DEF RemoveApplication

LEMMA ApplicationRequestOK ==
  ASSUME TypeInv, NEW r \in Requests, ApplicationRequest(r) PROVE TypeInv'
<1> USE DEF TypeInv, database, chirpstack, history
<1> PICK o \in Outcomes :
      \/ \E a \in Apps : CreateApplication(r, a, o) \/ DeleteApplication(r, a, o)
      \/ ProvisionUser(r, o) \/ CommitApplication(r, o) \/ UndoUser(r, o) \/ UndoApplication(r, o)
      \/ CommitApplicationDeletion(r, o) \/ DropUser(r, o)
  BY DEF ApplicationRequest
<1>1. ASSUME NEW a \in Apps, CreateApplication(r, a, o) PROVE TypeInv'
  <2>1. PICK x \in {Over, [Over EXCEPT !.step = "app_user", !.app = a]} : Begin(r, x)
    BY <1>1 DEF CreateApplication
  <2>2. x \in Records /\ Remembers(x)
    BY OverOK, AppStepOK
  <2>3. ReqOK'
    BY <2>1, <2>2, BeginOK
  <2>4. csApp' \in [Apps -> Existence]
    BY <1>1 DEF CreateApplication, StoreOK, Existence
  <2>5. StoreOK' /\ FaultsOK' /\ HistoryOK'
    BY <1>1, <2>4, OutcomeOK DEF CreateApplication, StoreOK, HistoryOK
  <2> QED BY <2>3, <2>5
<1>2. ASSUME NEW a \in Apps, DeleteApplication(r, a, o) PROVE TypeInv'
  <2>1. PICK x \in {Over, [Over EXCEPT !.step = "app_row", !.app = a]} : Begin(r, x)
    BY <1>2 DEF DeleteApplication
  <2>2. x \in Records /\ Remembers(x)
    BY OverOK, AppStepOK
  <2>3. ReqOK'
    BY <2>1, <2>2, BeginOK
  <2>4. StoreOK'
    BY <1>2, RemoveApplicationOK DEF DeleteApplication, StoreOK
  <2>5. FaultsOK' /\ HistoryOK'
    BY <1>2, OutcomeOK DEF DeleteApplication, RemoveApplication, HistoryOK
  <2> QED BY <2>3, <2>4, <2>5
<1>3. ASSUME ProvisionUser(r, o) PROVE TypeInv'
  <2>1. req[r].step \in AppSteps /\ req[r].app \in Apps
    BY <1>3 DEF ProvisionUser, ReqOK, Remembers, AppSteps
  <2>2. PICK s \in {"app_commit", "app_undo"} : Goto(r, s)
    BY <1>3 DEF ProvisionUser
  <2>3. ReqOK'
    BY <2>1, <2>2, GotoAppOK DEF AppSteps
  <2>4. users' \subseteq Apps
    BY <1>3, <2>1 DEF ProvisionUser, StoreOK
  <2>5. StoreOK' /\ FaultsOK' /\ HistoryOK'
    BY <1>3, <2>4, OutcomeOK DEF ProvisionUser, StoreOK, HistoryOK
  <2> QED BY <2>3, <2>5
<1>4. ASSUME CommitApplication(r, o) PROVE TypeInv'
  <2>1. req[r].step \in AppSteps /\ req[r].app \in Apps
    BY <1>4 DEF CommitApplication, ReqOK, Remembers, AppSteps
  <2>2. ReqOK'
    BY <1>4, <2>1, EndOK, GotoAppOK DEF CommitApplication, AppSteps
  <2>3. app' \in [Apps -> Existence]
    BY <1>4, <2>1 DEF CommitApplication, StoreOK, Existence
  <2>4. StoreOK' /\ FaultsOK' /\ HistoryOK'
    BY <1>4, <2>3, OutcomeOK DEF CommitApplication, StoreOK, HistoryOK
  <2> QED BY <2>2, <2>4
<1>5. ASSUME UndoUser(r, o) PROVE TypeInv'
  <2>1. ReqOK'
    BY <1>5, GotoAppOK DEF UndoUser, AppSteps
  <2>2. StoreOK' /\ FaultsOK' /\ HistoryOK'
    BY <1>5, OutcomeOK DEF UndoUser, StoreOK, HistoryOK
  <2> QED BY <2>1, <2>2
<1>6. ASSUME UndoApplication(r, o) PROVE TypeInv'
  <2>1. ReqOK' /\ StoreOK'
    BY <1>6, EndOK, RemoveApplicationOK DEF UndoApplication, StoreOK
  <2>2. FaultsOK' /\ HistoryOK'
    BY <1>6, OutcomeOK DEF UndoApplication, RemoveApplication, HistoryOK
  <2> QED BY <2>1, <2>2
<1>7. ASSUME CommitApplicationDeletion(r, o) PROVE TypeInv'
  <2>1. ReqOK'
    BY <1>7, EndOK, GotoAppOK DEF CommitApplicationDeletion, AppSteps
  <2>2. StoreOK'
    <3>1. CASE UNCHANGED <<app, row>>
      BY <1>7, <3>1 DEF CommitApplicationDeletion, StoreOK
    <3>2. CASE DropRows({req[r].app})
      BY <1>7, <3>2, DropRowsOK DEF CommitApplicationDeletion, StoreOK
    <3> QED BY <1>7, <3>1, <3>2 DEF CommitApplicationDeletion
  <2>3. FaultsOK' /\ HistoryOK'
    BY <1>7, OutcomeOK DEF CommitApplicationDeletion, HistoryOK
  <2> QED BY <2>1, <2>2, <2>3
<1>8. ASSUME DropUser(r, o) PROVE TypeInv'
  <2>1. ReqOK' /\ StoreOK'
    BY <1>8, EndOK DEF DropUser, StoreOK
  <2>2. FaultsOK' /\ HistoryOK'
    BY <1>8, OutcomeOK DEF DropUser, HistoryOK
  <2> QED BY <2>1, <2>2
<1> QED BY <1>1, <1>2, <1>3, <1>4, <1>5, <1>6, <1>7, <1>8

LEMMA RemoveDeviceOK ==
  ASSUME StoreOK, FaultsOK, HistoryOK, NEW e \in Euis, NEW p, NEW o, RemoveDevice(e, p, o)
  PROVE  /\ device' \in [Euis -> [app: Apps, by: Requests, keys: Requests \cup {None}] \cup {None}]
         /\ stray' \subseteq Euis /\ FaultsOK'
<1>1. FaultsOK'
  BY OutcomeOK DEF RemoveDevice
<1>2. device' \in [Euis -> [app: Apps, by: Requests, keys: Requests \cup {None}] \cup {None}]
  BY DEF RemoveDevice, StoreOK
<1>3. stray' \subseteq Euis
  BY DEF RemoveDevice, HistoryOK
<1> QED BY <1>1, <1>2, <1>3

LEMMA CheckDeviceOK ==
  ASSUME TypeInv, NEW r \in Requests, NEW a \in Apps, NEW e \in Euis, CheckDevice(r, a, e)
  PROVE  TypeInv'
<1> DEFINE x == [Over EXCEPT !.step = "device_create", !.app = a, !.eui = e]
<1>1. x \in Records /\ Remembers(x)
  BY DEF Over, Records, Remembers, Steps, Subjects, PostSteps, DeleteSteps, AppSteps, LabelSteps
<1>2. Begin(r, x)
  BY DEF CheckDevice
<1>3. ReqOK'
  BY <1>1, <1>2, BeginOK DEF TypeInv
<1>4. StoreOK' /\ FaultsOK' /\ HistoryOK'
  BY DEF CheckDevice, TypeInv, StoreOK, FaultsOK, HistoryOK, database, chirpstack, history
<1> QED BY <1>3, <1>4 DEF TypeInv

LEMMA FindDeviceOK ==
  ASSUME TypeInv, NEW r \in Requests, NEW e \in Euis, FindDevice(r, e)
  PROVE  TypeInv'
<1> DEFINE x == [Over EXCEPT !.step = "device_row", !.eui = e, !.by = row[e].by]
<1>1. row[e].by \in Requests
  BY DEF FindDevice, TypeInv, StoreOK
<1>2. x \in Records /\ Remembers(x)
  BY <1>1 DEF Over, Records, Remembers, Steps, PostSteps, DeleteSteps, AppSteps, LabelSteps
<1>3. Begin(r, x)
  BY DEF FindDevice
<1>4. ReqOK'
  BY <1>2, <1>3, BeginOK DEF TypeInv
<1>5. StoreOK' /\ FaultsOK' /\ HistoryOK'
  BY DEF FindDevice, TypeInv, StoreOK, FaultsOK, HistoryOK, database, chirpstack, history
<1> QED BY <1>4, <1>5 DEF TypeInv

LEMMA DeviceRequestOK ==
  ASSUME TypeInv, NEW r \in Requests, DeviceRequest(r) PROVE TypeInv'
<1> USE DEF TypeInv, database, chirpstack, history
<1>1. ASSUME NEW o \in Outcomes, CreateDevice(r, o) PROVE TypeInv'
  <2>1. req[r].step \in PostSteps /\ req[r].app \in Apps /\ req[r].eui \in Euis
    BY <1>1 DEF CreateDevice, ReqOK, Remembers, PostSteps
  <2>2. ReqOK'
    BY <1>1, <2>1, EndOK, GotoPostOK DEF CreateDevice, PostSteps
  <2>3. device' \in [Euis -> [app: Apps, by: Requests, keys: Requests \cup {None}] \cup {None}]
    BY <1>1, <2>1 DEF CreateDevice, StoreOK
  <2>4. StoreOK' /\ FaultsOK' /\ HistoryOK'
    BY <1>1, <2>3, OutcomeOK DEF CreateDevice, StoreOK, HistoryOK
  <2> QED BY <2>2, <2>4
<1>2. ASSUME NEW o \in Outcomes, CreateKeys(r, o) PROVE TypeInv'
  <2>1. req[r].step \in PostSteps /\ req[r].app \in Apps /\ req[r].eui \in Euis
    BY <1>2 DEF CreateKeys, ReqOK, Remembers, PostSteps
  <2>2. PICK s \in {"device_commit", "device_undo"} : Goto(r, s)
    BY <1>2 DEF CreateKeys
  <2>3. ReqOK'
    BY <2>1, <2>2, GotoPostOK DEF PostSteps
  <2>4. device' \in [Euis -> [app: Apps, by: Requests, keys: Requests \cup {None}] \cup {None}]
    <3>1. CASE device' = device
      BY <3>1 DEF StoreOK
    <3>2. CASE Keyless(req[r].eui) /\ device' = [device EXCEPT ![req[r].eui].keys = r]
      BY <2>1, <3>2 DEF StoreOK, Keyless
    <3> QED BY <1>2, <3>1, <3>2 DEF CreateKeys
  <2>5. StoreOK' /\ FaultsOK' /\ HistoryOK'
    BY <1>2, <2>4, OutcomeOK DEF CreateKeys, StoreOK, HistoryOK
  <2> QED BY <2>3, <2>5
<1>3. ASSUME NEW o \in Outcomes, UndoDevice(r, o) PROVE TypeInv'
  <2>1. req[r].eui \in Euis /\ RemoveDevice(req[r].eui, r, o)
    BY <1>3 DEF UndoDevice, ReqOK, Remembers, PostSteps
  <2>2. ReqOK'
    BY <1>3, EndOK DEF UndoDevice
  <2>3. StoreOK' /\ FaultsOK' /\ HistoryOK'
    BY <1>3, <2>1, RemoveDeviceOK DEF UndoDevice, StoreOK, HistoryOK
  <2> QED BY <2>2, <2>3
<1>4. ASSUME NEW o \in Outcomes, CommitDevice(r, o) PROVE TypeInv'
  <2>1. req[r].app \in Apps /\ req[r].eui \in Euis
    BY <1>4 DEF CommitDevice, ReqOK, Remembers, PostSteps
  <2>2. ReqOK'
    BY <1>4, EndOK DEF CommitDevice
  <2>3. row' \in [Euis -> [app: Apps, by: Requests] \cup {None}]
    BY <1>4, <2>1 DEF CommitDevice, StoreOK
  <2>4. conflicts' \subseteq Euis
    BY <1>4, <2>1 DEF CommitDevice, HistoryOK
  <2>5. StoreOK' /\ FaultsOK' /\ HistoryOK'
    BY <1>4, <2>3, <2>4, OutcomeOK DEF CommitDevice, StoreOK, HistoryOK
  <2> QED BY <2>2, <2>5
<1>5. ASSUME NEW o \in Outcomes, CommitDeviceDeletion(r, o) PROVE TypeInv'
  <2>1. ReqOK'
    BY <1>5, EndOK, GotoDropOK DEF CommitDeviceDeletion
  <2>2. row' \in [Euis -> [app: Apps, by: Requests] \cup {None}]
    BY <1>5 DEF CommitDeviceDeletion, StoreOK
  <2>3. StoreOK' /\ FaultsOK' /\ HistoryOK'
    BY <1>5, <2>2, OutcomeOK DEF CommitDeviceDeletion, StoreOK, HistoryOK
  <2> QED BY <2>1, <2>3
<1>6. ASSUME NEW o \in Outcomes, DropDevice(r, o) PROVE TypeInv'
  <2>1. req[r].eui \in Euis /\ RemoveDevice(req[r].eui, req[r].by, o)
    BY <1>6 DEF DropDevice, ReqOK, Remembers, DeleteSteps
  <2>2. ReqOK'
    BY <1>6, EndOK DEF DropDevice
  <2>3. StoreOK' /\ FaultsOK' /\ HistoryOK'
    BY <1>6, <2>1, RemoveDeviceOK DEF DropDevice, StoreOK, HistoryOK
  <2> QED BY <2>2, <2>3
<1> QED
  BY <1>1, <1>2, <1>3, <1>4, <1>5, <1>6, CheckDeviceOK, FindDeviceOK DEF DeviceRequest

LEMMA NextOK == TypeInv /\ [Next]_vars => TypeInv'
<1> SUFFICES ASSUME TypeInv, [Next]_vars PROVE TypeInv'
  OBVIOUS
<1>1. ASSUME NEW r \in Requests, Crash(r) PROVE TypeInv'
  <2>1. ReqOK'
    BY <1>1, EndOK DEF Crash, TypeInv
  <2>2. FaultsOK'
    BY <1>1, FaultOK DEF Crash, TypeInv
  <2>3. StoreOK' /\ HistoryOK'
    BY <1>1 DEF Crash, TypeInv, StoreOK, HistoryOK, database, chirpstack, history
  <2> QED BY <2>1, <2>2, <2>3 DEF TypeInv
<1>2. CASE UNCHANGED vars
  BY <1>2 DEF TypeInv, ReqOK, StoreOK, FaultsOK, HistoryOK, vars, database, chirpstack, history
<1> QED
  BY <1>1, <1>2, TenantRequestOK, ApplicationRequestOK, DeviceRequestOK DEF Next

LEMMA InitOK == Init => TypeInv
<1> SUFFICES ASSUME Init PROVE TypeInv
  OBVIOUS
<1>1. ReqOK
  <2>1. New \in Records /\ Remembers(New)
    BY DEF New, Over, Records, Remembers, Steps, PostSteps, DeleteSteps, AppSteps, LabelSteps
  <2> QED BY <2>1 DEF Init, ReqOK
<1>2. StoreOK
  BY DEF Init, StoreOK, Existence, Labels
<1>3. FaultsOK /\ HistoryOK
  BY RegistryConstants DEF Init, FaultsOK, HistoryOK
<1> QED BY <1>1, <1>2, <1>3 DEF TypeInv

(* The variables of Registry have their types, whatever overlaps and fails. *)
THEOREM RegistryTypes == Spec => []TypeOK
<1>1. TypeInv => TypeOK
  BY DEF TypeInv, ReqOK, StoreOK, FaultsOK, HistoryOK, TypeOK, Records
<1> QED BY InitOK, NextOK, <1>1, PTL DEF Spec

-----------------------------------------------------------------------------
(* The inductive invariant behind DeviceRowIsProvisioned.                   *)

(* A POST that has written a row is over: it compensates nothing any more.  *)
Settled == \A e \in Euis : row[e] # None => req[row[e].by].step = "over"

(* An application that anything refers to has been created in ChirpStack,   *)
(* which gives out no identifier twice: once gone, it stays gone.           *)
Known ==
  /\ \A a \in Apps : app[a] = "present" => csApp[a] # "none"
  /\ \A e \in Euis : row[e] # None => csApp[row[e].app] # "none"
  /\ \A r \in Requests : req[r].step \in AppSteps \cup PostSteps => csApp[req[r].app] # "none"

(* A DELETE drops the device of a POST that is over, and after its row.     *)
Deleting == \A r \in Requests :
  /\ req[r].step \in DeleteSteps => req[req[r].by].step = "over"
  /\ req[r].step = "device_drop" => row[req[r].eui] = None \/ row[req[r].eui].by # req[r].by

(* A POST that goes on has its own device, until the application goes.      *)
OwnDevice(r) ==
  LET d == device[req[r].eui] IN
  /\ d # None /\ d.app = req[r].app /\ d.by = r
  /\ req[r].step = "device_commit" => d.keys = r

Posting == \A r \in Requests :
  /\ req[r].step \in {"device_keys", "device_commit"}
  /\ req[r].eui \notin stray
  /\ csApp[req[r].app] = "present"
  => OwnDevice(r)

RowInv == Settled /\ Known /\ Deleting /\ Posting /\ DeviceRowIsProvisioned

(* A step of r that ends in x, forgets no application of ChirpStack and     *)
(* writes no row of a device                                                *)
Moves(r, x) ==
  /\ req[r].step # "over" /\ req' = [req EXCEPT ![r] = x]
  /\ x.step \notin DeleteSteps
  /\ x.step \in AppSteps \cup PostSteps => csApp'[x.app] # "none"
  /\ \A a \in Apps : /\ csApp[a] # "none" => csApp'[a] # "none"
                     /\ csApp'[a] = "present" => csApp[a] \in {"none", "present"}
                     /\ app'[a] = "present" => app[a] = "present" \/ csApp'[a] # "none"
  /\ \A e \in Euis : row'[e] \in {row[e], None}

(* ... and moreover takes no device away from an application that           *)
(* ChirpStack still has                                                     *)
Harmless(r, x) ==
  /\ Moves(r, x)
  /\ x.step \notin {"device_keys", "device_commit"}
  /\ \A e \in Euis : device[e] # None /\ csApp'[device[e].app] = "present"
                     => device'[e] = device[e]
  /\ stray' = stray

LEMMA MovesOK ==
  ASSUME TypeInv, RowInv, NEW r \in Requests, NEW x \in Records, Moves(r, x)
  PROVE  Settled' /\ Known' /\ Deleting'
<1> USE DEF Moves
<1>1. \A q \in Requests : /\ q # r => req'[q] = req[q]
                          /\ q = r => req'[q] = x
                          /\ req[q].step = "over" => req'[q].step = "over"
  BY DEF TypeInv, ReqOK
<1>2. \A e \in Euis : row[e] # None => row[e].app \in Apps /\ row[e].by \in Requests
  BY DEF TypeInv, StoreOK
<1>3. Settled'
  BY <1>1, <1>2 DEF RowInv, Settled
<1>4. Known'
  <2>1. \A a \in Apps : app'[a] = "present" => csApp'[a] # "none"
    BY DEF RowInv, Known
  <2>2. \A e \in Euis : row'[e] # None => csApp'[row'[e].app] # "none"
    BY <1>2 DEF RowInv, Known
  <2>3. \A q \in Requests : req'[q].step \in AppSteps \cup PostSteps => csApp'[req'[q].app] # "none"
    <3> SUFFICES ASSUME NEW q \in Requests, req'[q].step \in AppSteps \cup PostSteps
                 PROVE  csApp'[req'[q].app] # "none"
      OBVIOUS
    <3>1. CASE q = r
      BY <1>1, <3>1
    <3>2. CASE q # r
      BY <1>1, <3>2 DEF RowInv, Known, TypeInv, ReqOK, Remembers
    <3> QED BY <3>1, <3>2
  <2> QED BY <2>1, <2>2, <2>3 DEF Known
<1>5. Deleting'
  <2> SUFFICES ASSUME NEW q \in Requests, req'[q].step \in DeleteSteps
               PROVE  /\ req'[req'[q].by].step = "over"
                      /\ req'[q].step = "device_drop" => row'[req'[q].eui] = None
                                                         \/ row'[req'[q].eui].by # req'[q].by
    BY DEF Deleting, DeleteSteps
  <2>1. q # r /\ req'[q] = req[q]
    BY <1>1
  <2>2. req[q].by \in Requests /\ req[q].eui \in Euis
    BY <2>1 DEF TypeInv, ReqOK, Remembers
  <2>3. req'[req[q].by].step = "over"
    BY <1>1, <2>1, <2>2 DEF RowInv, Deleting
  <2>4. req[q].step = "device_drop" => row[req[q].eui] = None \/ row[req[q].eui].by # req[q].by
    BY DEF RowInv, Deleting
  <2> QED BY <2>1, <2>2, <2>3, <2>4
<1> QED BY <1>3, <1>4, <1>5

LEMMA DeviceRecord ==
  ASSUME NEW a \in Apps, NEW p \in Requests, NEW k \in Requests \cup {None}
  PROVE  LET d == [app |-> a, by |-> p, keys |-> k] IN d # None /\ d.app = a /\ d.by = p /\ d.keys = k
BY RegistryConstants

LEMMA HarmlessOK ==
  ASSUME TypeInv, RowInv, NEW r \in Requests, NEW x \in Records, Harmless(r, x)
  PROVE  RowInv'
<1> USE DEF Harmless, Moves
<1>1. \A q \in Requests : (q # r => req'[q] = req[q]) /\ (q = r => req'[q] = x)
  BY DEF TypeInv, ReqOK
<1>2. \A e \in Euis : row[e] # None => row[e].app \in Apps /\ row[e].by \in Requests
  BY DEF TypeInv, StoreOK
<1>3. Settled' /\ Known' /\ Deleting'
  BY MovesOK
<1>4. Posting'
  <2> SUFFICES ASSUME NEW q \in Requests, req'[q].step \in {"device_keys", "device_commit"},
                      req'[q].eui \notin stray', csApp'[req'[q].app] = "present"
               PROVE  OwnDevice(q)'
    BY DEF Posting
  <2>1. q # r /\ req'[q] = req[q]
    BY <1>1
  <2>2. req[q].app \in Apps /\ req[q].eui \in Euis /\ req[q].step \in PostSteps
    BY <2>1 DEF TypeInv, ReqOK, Remembers, PostSteps
  <2>3. csApp[req[q].app] = "present"
    BY <2>1, <2>2 DEF RowInv, Known
  <2>4. OwnDevice(q)
    BY <2>1, <2>3 DEF RowInv, Posting
  <2>5. device'[req[q].eui] = device[req[q].eui]
    BY <2>1, <2>2, <2>4 DEF OwnDevice
  <2> QED BY <2>1, <2>4, <2>5 DEF OwnDevice
<1>5. DeviceRowIsProvisioned'
  <2> SUFFICES ASSUME NEW e \in Euis, e \notin stray', row'[e] # None, csApp'[row'[e].app] = "present"
               PROVE  device'[e] = [app |-> row'[e].app, by |-> row'[e].by, keys |-> row'[e].by]
    BY DEF DeviceRowIsProvisioned
  <2>1. row'[e] = row[e] /\ row[e].app \in Apps /\ row[e].by \in Requests
    BY <1>2
  <2>2. csApp[row[e].app] = "present"
    BY <2>1 DEF RowInv, Known
  <2>3. device[e] = [app |-> row[e].app, by |-> row[e].by, keys |-> row[e].by]
    BY <2>1, <2>2 DEF RowInv, DeviceRowIsProvisioned
  <2>4. device[e] # None /\ device[e].app = row[e].app
    BY <2>1, <2>3, DeviceRecord
  <2> QED BY <2>1, <2>3, <2>4
<1> QED BY <1>3, <1>4, <1>5 DEF RowInv

LEMMA OverHarmless ==
  ASSUME TypeInv, NEW r \in Requests, req[r].step # "over", req' = [req EXCEPT ![r] = Over],
         UNCHANGED <<app, csApp, device, stray>>, \A e \in Euis : row'[e] \in {row[e], None}
  PROVE  Over \in Records /\ Harmless(r, Over)
BY OverOK DEF Harmless, Moves, TypeInv, Over, AppSteps, PostSteps, DeleteSteps

(* Steps that concern neither rows nor devices                              *)
LEMMA AsideOK ==
  ASSUME TypeInv, RowInv, NEW r \in Requests, NEW x \in Records, req[r].step # "over",
         req' = [req EXCEPT ![r] = x], x.step \notin PostSteps \cup DeleteSteps,
         x.step \in AppSteps => csApp[x.app] # "none",
         UNCHANGED <<app, csApp, row, device, stray>>
  PROVE  RowInv'
<1>1. Harmless(r, x)
  BY DEF Harmless, Moves, PostSteps
<1> QED BY <1>1, HarmlessOK

(* ChirpStack drops applications along with their devices                   *)
LEMMA DropFromChirpStackHarmless ==
  ASSUME TypeInv, RowInv, NEW r \in Requests, NEW x \in Records, req[r].step # "over",
         req' = [req EXCEPT ![r] = x], x.step \notin PostSteps \cup DeleteSteps,
         x.step \in AppSteps => csApp[x.app] # "none" /\ x.app \in Apps,
         NEW as, DropFromChirpStack(as), UNCHANGED <<app, row, stray>>
  PROVE  RowInv'
<1>1. \A a \in Apps : /\ csApp[a] # "none" => csApp'[a] # "none"
                      /\ csApp'[a] = "present" => csApp[a] = "present" /\ a \notin as
  BY DEF DropFromChirpStack
<1>2. \A e \in Euis : device[e] # None => device[e].app \in Apps
  BY DEF TypeInv, StoreOK
<1>3. \A e \in Euis : device[e] # None /\ csApp'[device[e].app] = "present" => device'[e] = device[e]
  BY <1>1, <1>2 DEF DropFromChirpStack
<1>4. Moves(r, x)
  BY <1>1 DEF Moves, RowInv, Known
<1>5. Harmless(r, x)
  BY <1>3, <1>4 DEF Harmless, PostSteps
<1> QED BY <1>5, HarmlessOK

LEMMA TenantRequestHarmless ==
  ASSUME TypeInv, RowInv, NEW r \in Requests, TenantRequest(r) PROVE RowInv'
<1> USE DEF database, chirpstack, history
<1>0. Over \in Records /\ Over.step = "over" /\ ReqOK
  BY OverOK DEF TypeInv
<1>1. ASSUME NEW o \in Outcomes, CreateTenant(r, o) PROVE RowInv'
  <2>1. PICK x \in {Over, [Over EXCEPT !.step = "tenant_commit"]} : Begin(r, x)
    BY <1>1 DEF CreateTenant
  <2>2. x \in Records /\ Remembers(x) /\ x.step \in {"over", "tenant_commit"}
    BY OverOK, PlainStepOK DEF Over
  <2>3. req' = [req EXCEPT ![r] = x] /\ req[r].step = "new"
    BY <2>1, <2>2, BeginOK, <1>0
  <2> QED BY <1>1, <2>2, <2>3, AsideOK DEF CreateTenant, PostSteps, AppSteps, DeleteSteps
<1>2. ASSUME NEW o \in Outcomes, CommitTenant(r, o) PROVE RowInv'
  <2>1. CASE End(r)
    <3>1. req' = [req EXCEPT ![r] = Over]
      BY <1>0, <2>1, EndOK
    <3> QED BY <1>0, <1>2, <3>1, AsideOK DEF CommitTenant, PostSteps, AppSteps, DeleteSteps
  <2>2. CASE Goto(r, "tenant_undo")
    <3> DEFINE x == [req[r] EXCEPT !.step = "tenant_undo"]
    <3>1. req' = [req EXCEPT ![r] = x] /\ ReqOK'
      BY <1>0, <2>2, GotoUndoTenantOK
    <3>2. x \in Records /\ x.step = "tenant_undo"
      BY <1>0 DEF ReqOK, Records, Steps
    <3> HIDE DEF x
    <3> QED BY <1>2, <3>1, <3>2, AsideOK DEF CommitTenant, PostSteps, AppSteps, DeleteSteps
  <2> QED BY <1>2, <2>1, <2>2 DEF CommitTenant
<1>3. ASSUME NEW o \in Outcomes, UndoTenant(r, o) PROVE RowInv'
  <2>1. req' = [req EXCEPT ![r] = Over] /\ req[r].step # "over"
    BY <1>0, <1>3, EndOK DEF UndoTenant
  <2>2. CASE UNCHANGED <<csTenant, csApp, device>>
    BY <1>0, <1>3, <2>1, <2>2, AsideOK DEF UndoTenant, PostSteps, AppSteps, DeleteSteps
  <2>3. CASE DropFromChirpStack(Apps)
    BY <1>0, <1>3, <2>1, <2>3, DropFromChirpStackHarmless
    DEF UndoTenant, PostSteps, AppSteps, DeleteSteps
  <2> QED BY <1>3, <2>2, <2>3 DEF UndoTenant
<1>4. ASSUME NEW o \in Outcomes, DeleteTenant(r, o) PROVE RowInv'
  <2>1. PICK x \in {Over, [Over EXCEPT !.step = "tenant_row"]} : Begin(r, x)
    BY <1>4 DEF DeleteTenant
  <2>2. x \in Records /\ Remembers(x) /\ x.step \in {"over", "tenant_row"}
    BY OverOK, PlainStepOK DEF Over
  <2>3. req' = [req EXCEPT ![r] = x] /\ req[r].step = "new"
    BY <2>1, <2>2, BeginOK, <1>0
  <2>4. CASE UNCHANGED <<csTenant, csApp, device>>
    BY <1>4, <2>2, <2>3, <2>4, AsideOK DEF DeleteTenant, PostSteps, AppSteps, DeleteSteps
  <2>5. CASE DropFromChirpStack(Apps)
    BY <1>4, <2>2, <2>3, <2>5, DropFromChirpStackHarmless
    DEF DeleteTenant, PostSteps, AppSteps, DeleteSteps
  <2> QED BY <1>4, <2>4, <2>5 DEF DeleteTenant
<1>5. ASSUME NEW o \in Outcomes, CommitTenantDeletion(r, o) PROVE RowInv'
  <2>1. req' = [req EXCEPT ![r] = Over] /\ req[r].step # "over"
    BY <1>0, <1>5, EndOK DEF CommitTenantDeletion
  <2>2. CASE UNCHANGED <<tenant, app, row, cascaded>>
    BY <1>0, <1>5, <2>1, <2>2, AsideOK DEF CommitTenantDeletion, PostSteps, AppSteps, DeleteSteps
  <2>3. CASE DropRows(Apps)
    <3>1. /\ \A e \in Euis : row'[e] \in {row[e], None}
          /\ \A a \in Apps : app'[a] = "present" => app[a] = "present"
      BY <2>3 DEF DropRows
    <3>2. Harmless(r, Over)
      BY <1>0, <1>5, <2>1, <3>1
      DEF CommitTenantDeletion, Harmless, Moves, PostSteps, AppSteps, DeleteSteps
    <3> QED BY <1>0, <3>2, HarmlessOK
  <2> QED BY <1>5, <2>2, <2>3 DEF CommitTenantDeletion
<1>6. ASSUME NEW s \in Subjects, NEW fields, BeginUpdate(r, s, fields) PROVE RowInv'
  <2> DEFINE l == [f \in Fields |-> IF f \in fields THEN r ELSE label[s][f]]
             x == [Over EXCEPT !.step = "label_commit", !.app = s, !.label = l]
  <2>1. l \in Labels
    BY DEF TypeInv, StoreOK, Labels
  <2>2. x \in Records /\ x.step = "label_commit" /\ Remembers(x)
    BY <2>1 DEF Over, Records, Remembers, Steps, PostSteps, DeleteSteps, AppSteps, LabelSteps
  <2>3. Begin(r, x)
    BY <1>6 DEF BeginUpdate
  <2> HIDE DEF x
  <2>4. req' = [req EXCEPT ![r] = x] /\ req[r].step = "new"
    BY <1>0, <2>2, <2>3, BeginOK
  <2> QED BY <1>6, <2>2, <2>4, AsideOK DEF BeginUpdate, PostSteps, AppSteps, DeleteSteps
<1>7. ASSUME NEW o \in Outcomes, CommitUpdate(r, o) PROVE RowInv'
  <2>1. CASE End(r)
    <3>1. req' = [req EXCEPT ![r] = Over]
      BY <1>0, <2>1, EndOK
    <3> QED BY <1>0, <1>7, <3>1, AsideOK DEF CommitUpdate, PostSteps, AppSteps, DeleteSteps
  <2>2. CASE Goto(r, "label_send")
    <3> DEFINE x == [req[r] EXCEPT !.step = "label_send"]
    <3>1. req' = [req EXCEPT ![r] = x] /\ ReqOK'
      BY <1>0, <1>7, <2>2, GotoSendOK DEF CommitUpdate
    <3>2. x \in Records /\ x.step = "label_send"
      BY <1>0 DEF ReqOK, Records, Steps
    <3> HIDE DEF x
    <3> QED BY <1>7, <3>1, <3>2, AsideOK DEF CommitUpdate, PostSteps, AppSteps, DeleteSteps
  <2> QED BY <1>7, <2>1, <2>2 DEF CommitUpdate
<1>8. ASSUME NEW o \in Outcomes, SendUpdate(r, o) PROVE RowInv'
  <2>1. req' = [req EXCEPT ![r] = Over]
    BY <1>0, <1>8, EndOK DEF SendUpdate
  <2> QED BY <1>0, <1>8, <2>1, AsideOK DEF SendUpdate, PostSteps, AppSteps, DeleteSteps
<1> QED
  BY <1>1, <1>2, <1>3, <1>4, <1>5, <1>6, <1>7, <1>8
  DEF TenantRequest, UpdateTenant, UpdateApplication, Subjects

LEMMA RemoveApplicationHarmless ==
  ASSUME TypeInv, RowInv, NEW r \in Requests, NEW x \in Records, req[r].step # "over",
         req' = [req EXCEPT ![r] = x], x.step \notin PostSteps \cup DeleteSteps,
         x.step \in AppSteps => csApp[x.app] # "none" /\ x.app \in Apps,
         NEW a, NEW o, RemoveApplication(a, o), UNCHANGED <<app, row, stray>>
  PROVE  RowInv'
<1>1. CASE UNCHANGED <<csApp, device>>
  BY <1>1, AsideOK
<1>2. CASE DropFromChirpStack({a})
  BY <1>2, DropFromChirpStackHarmless
<1> QED BY <1>1, <1>2 DEF RemoveApplication

(* Going on to another step of the application                              *)
LEMMA GoingOn ==
  ASSUME TypeInv, RowInv, NEW r \in Requests, req[r].step \in AppSteps, NEW s \in AppSteps, Goto(r, s)
  PROVE  \E x \in Records : /\ req' = [req EXCEPT ![r] = x] /\ x.step = s /\ x.app = req[r].app
                            /\ x.app \in Apps /\ csApp[x.app] # "none"
<1> DEFINE x == [req[r] EXCEPT !.step = s]
<1>1. req' = [req EXCEPT ![r] = x]
  BY GotoAppOK DEF TypeInv
<1>2. req[r] \in Records /\ req[r].app \in Apps /\ csApp[req[r].app] # "none" /\ s \in Steps
  BY DEF TypeInv, ReqOK, Remembers, RowInv, Known, AppSteps, Steps
<1>3. x \in Records /\ x.step = s /\ x.app = req[r].app
  BY <1>2 DEF Records
<1> HIDE DEF x
<1> QED BY <1>1, <1>2, <1>3

LEMMA ApplicationRequestHarmless ==
  ASSUME TypeInv, RowInv, NEW r \in Requests, ApplicationRequest(r) PROVE RowInv'
<1> USE DEF database, chirpstack, history
<1>0. Over \in Records /\ Over.step = "over" /\ ReqOK
  BY OverOK DEF TypeInv
<1>s. \A s \in AppSteps : s \notin PostSteps \cup DeleteSteps /\ s # "over"
  BY DEF AppSteps, PostSteps, DeleteSteps
<1>o. "over" \notin AppSteps \cup PostSteps \cup DeleteSteps
  BY DEF AppSteps, PostSteps, DeleteSteps
<1> PICK o \in Outcomes :
      \/ \E a \in Apps : CreateApplication(r, a, o) \/ DeleteApplication(r, a, o)
      \/ ProvisionUser(r, o) \/ CommitApplication(r, o) \/ UndoUser(r, o) \/ UndoApplication(r, o)
      \/ CommitApplicationDeletion(r, o) \/ DropUser(r, o)
  BY DEF ApplicationRequest
<1>1. ASSUME NEW a \in Apps, CreateApplication(r, a, o) PROVE RowInv'
  <2>1. CASE csApp' = csApp /\ Begin(r, Over)
    <3>1. req' = [req EXCEPT ![r] = Over] /\ req[r].step = "new"
      BY <1>0, <2>1, OverOK, BeginOK
    <3> QED BY <1>0, <1>1, <1>o, <2>1, <3>1, AsideOK DEF CreateApplication
  <2>2. CASE csApp' = [csApp EXCEPT ![a] = "present"]
    <3>1. PICK x \in {Over, [Over EXCEPT !.step = "app_user", !.app = a]} : Begin(r, x)
      BY <1>1 DEF CreateApplication
    <3>2. x \in Records /\ Remembers(x) /\ x.step \in {"over", "app_user"}
          /\ (x.step = "app_user" => x.app = a)
      BY OverOK, AppStepOK DEF Over
    <3>3. req' = [req EXCEPT ![r] = x] /\ req[r].step = "new"
      BY <3>1, <3>2, BeginOK, <1>0
    <3>4. csApp \in [Apps -> Existence] /\ csApp[a] = "none"
      BY <1>1 DEF CreateApplication, TypeInv, StoreOK
    <3>5. Moves(r, x)
      BY <1>1, <1>o, <2>2, <3>2, <3>3, <3>4
      DEF CreateApplication, Moves, AppSteps, PostSteps, DeleteSteps
    <3>6. Harmless(r, x)
      BY <1>1, <3>2, <3>5 DEF CreateApplication, Harmless
    <3> QED BY <3>2, <3>6, HarmlessOK
  <2>3. CASE o = "refused"
    BY <1>1, <2>1, <2>3 DEF CreateApplication
  <2> QED BY <1>1, <2>1, <2>2, <2>3 DEF CreateApplication
<1>2. ASSUME NEW a \in Apps, DeleteApplication(r, a, o) PROVE RowInv'
  <2>1. PICK x \in {Over, [Over EXCEPT !.step = "app_row", !.app = a]} : Begin(r, x)
    BY <1>2 DEF DeleteApplication
  <2>2. x \in Records /\ Remembers(x) /\ x.step \in {"over", "app_row"}
        /\ (x.step = "app_row" => x.app = a)
    BY OverOK, AppStepOK DEF Over
  <2>3. req' = [req EXCEPT ![r] = x] /\ req[r].step = "new"
    BY <2>1, <2>2, BeginOK, <1>0
  <2>4. csApp[a] # "none"
    BY <1>2 DEF DeleteApplication, RowInv, Known
  <2>5. x.step \notin PostSteps \cup DeleteSteps /\ (x.step \in AppSteps => x.app = a)
    BY <2>2, <1>o, <1>s DEF AppSteps
  <2> QED BY <1>2, <2>2, <2>3, <2>4, <2>5, RemoveApplicationHarmless DEF DeleteApplication
<1>3. ASSUME ProvisionUser(r, o) PROVE RowInv'
  <2>1. PICK s \in {"app_commit", "app_undo"} : Goto(r, s)
    BY <1>3 DEF ProvisionUser
  <2>2. s \in AppSteps /\ req[r].step \in AppSteps
    BY <1>3 DEF ProvisionUser, AppSteps
  <2>3. PICK x \in Records : /\ req' = [req EXCEPT ![r] = x] /\ x.step = s /\ x.app = req[r].app
                             /\ x.app \in Apps /\ csApp[x.app] # "none"
    BY <2>1, <2>2, GoingOn
  <2> QED BY <1>3, <1>s, <2>2, <2>3, AsideOK DEF ProvisionUser
<1>4. ASSUME CommitApplication(r, o) PROVE RowInv'
  <2>1. PICK x \in Records : /\ req' = [req EXCEPT ![r] = x] /\ x.step \notin PostSteps \cup DeleteSteps
                             /\ x.step \in AppSteps => csApp[x.app] # "none"
    <3>1. CASE End(r)
      BY <1>0, <1>o, <3>1, EndOK
    <3>2. CASE Goto(r, "app_undo_user")
      <4>1. req[r].step \in AppSteps /\ "app_undo_user" \in AppSteps
        BY <1>4 DEF CommitApplication, AppSteps
      <4> QED BY <1>s, <3>2, <4>1, GoingOn
    <3> QED BY <1>4, <3>1, <3>2 DEF CommitApplication
  <2>2. req[r].app \in Apps /\ csApp[req[r].app] # "none"
    BY <1>4 DEF CommitApplication, TypeInv, ReqOK, Remembers, AppSteps, RowInv, Known
  <2>3. \A a \in Apps : app'[a] = "present" => app[a] = "present" \/ csApp[a] # "none"
    BY <1>4, <2>2 DEF CommitApplication, TypeInv, StoreOK
  <2>4. req[r].step # "over" /\ UNCHANGED <<csApp, row, device, stray>>
    BY <1>4 DEF CommitApplication
  <2>5. Moves(r, x)
    BY <2>1, <2>3, <2>4 DEF Moves
  <2>6. Harmless(r, x)
    BY <2>1, <2>4, <2>5 DEF Harmless, PostSteps
  <2> QED BY <2>6, HarmlessOK
<1>5. ASSUME UndoUser(r, o) PROVE RowInv'
  <2>1. req[r].step \in AppSteps /\ "app_undo" \in AppSteps /\ Goto(r, "app_undo")
    BY <1>5 DEF UndoUser, AppSteps
  <2>2. PICK x \in Records : /\ req' = [req EXCEPT ![r] = x] /\ x.step = "app_undo"
                             /\ x.app \in Apps /\ csApp[x.app] # "none"
    BY <2>1, GoingOn
  <2> QED BY <1>5, <1>s, <2>1, <2>2, AsideOK DEF UndoUser
<1>6. ASSUME UndoApplication(r, o) PROVE RowInv'
  <2>1. req' = [req EXCEPT ![r] = Over] /\ req[r].step # "over"
    BY <1>0, <1>6, EndOK DEF UndoApplication
  <2> QED BY <1>0, <1>6, <1>o, <2>1, RemoveApplicationHarmless DEF UndoApplication
<1>7. ASSUME CommitApplicationDeletion(r, o) PROVE RowInv'
  <2>1. PICK x \in Records : /\ req' = [req EXCEPT ![r] = x] /\ x.step \notin PostSteps \cup DeleteSteps
                             /\ x.step \in AppSteps => csApp[x.app] # "none"
    <3>1. CASE End(r)
      BY <1>0, <1>o, <3>1, EndOK
    <3>2. CASE Goto(r, "app_drop_user")
      <4>1. req[r].step \in AppSteps /\ "app_drop_user" \in AppSteps
        BY <1>7 DEF CommitApplicationDeletion, AppSteps
      <4> QED BY <1>s, <3>2, <4>1, GoingOn
    <3> QED BY <1>7, <3>1, <3>2 DEF CommitApplicationDeletion
  <2>2. /\ \A e \in Euis : row'[e] \in {row[e], None}
        /\ \A a \in Apps : app'[a] = "present" => app[a] = "present"
    BY <1>7 DEF CommitApplicationDeletion, DropRows
  <2>3. req[r].step # "over" /\ UNCHANGED <<csApp, device, stray>>
    BY <1>7 DEF CommitApplicationDeletion
  <2>4. Moves(r, x)
    BY <2>1, <2>2, <2>3 DEF Moves
  <2>5. Harmless(r, x)
    BY <2>1, <2>3, <2>4 DEF Harmless, PostSteps
  <2> QED BY <2>5, HarmlessOK
<1>8. ASSUME DropUser(r, o) PROVE RowInv'
  <2>1. req' = [req EXCEPT ![r] = Over] /\ req[r].step # "over"
    BY <1>0, <1>8, EndOK DEF DropUser
  <2> QED BY <1>0, <1>8, <1>o, <2>1, AsideOK DEF DropUser
<1> QED BY <1>1, <1>2, <1>3, <1>4, <1>5, <1>6, <1>7, <1>8

(* The rows and the POSTs at work keep their devices when a step changes    *)
(* only device e, in a way that spares the devices they need.               *)
LEMMA DeviceChanged ==
  ASSUME TypeInv, RowInv, NEW r \in Requests, NEW x \in Records, Moves(r, x),
         UNCHANGED <<csApp, row>>, stray \subseteq stray',
         NEW e \in Euis, \A f \in Euis \ {e} : device'[f] = device[f],
         x.step \in {"device_keys", "device_commit"} =>
           x.eui \in Euis /\ (x.eui \notin stray' /\ csApp[x.app] = "present" => OwnDevice(r)'),
         e \notin stray' /\ row[e] # None /\ csApp[row[e].app] = "present" => device'[e] = device[e],
         \A q \in Requests \ {r} :
           e \notin stray' /\ OwnDevice(q) /\ req[q].eui = e
             /\ req[q].step \in {"device_keys", "device_commit"}
           => \/ device'[e] = device[e]
              \/ /\ req[q].step = "device_keys" /\ device'[e] # None
                 /\ device'[e].app = device[e].app /\ device'[e].by = device[e].by
  PROVE  RowInv'
<1>1. Settled' /\ Known' /\ Deleting'
  BY MovesOK
<1>2. \A q \in Requests : (q # r => req'[q] = req[q]) /\ (q = r => req'[q] = x)
  BY DEF Moves, TypeInv, ReqOK
<1>3. Posting'
  <2> SUFFICES ASSUME NEW q \in Requests, req'[q].step \in {"device_keys", "device_commit"},
                      req'[q].eui \notin stray', csApp'[req'[q].app] = "present"
               PROVE  OwnDevice(q)'
    BY DEF Posting
  <2>1. CASE q = r
    BY <1>2, <2>1
  <2>2. CASE q # r
    <3>1. req'[q] = req[q] /\ req[q].eui \in Euis
      BY <1>2, <2>2 DEF TypeInv, ReqOK, Remembers, PostSteps
    <3>2. OwnDevice(q)
      BY <3>1 DEF RowInv, Posting
    <3>3. CASE device'[req[q].eui] = device[req[q].eui]
      BY <3>1, <3>2, <3>3 DEF OwnDevice
    <3>4. CASE device'[req[q].eui] # device[req[q].eui]
      <4>1. req[q].eui = e
        BY <3>1, <3>4
      <4>2. /\ req[q].step = "device_keys" /\ device'[e] # None
            /\ device'[e].app = device[e].app /\ device'[e].by = device[e].by
        BY <2>2, <3>1, <3>2, <3>4, <4>1
      <4> QED BY <3>1, <3>2, <4>1, <4>2 DEF OwnDevice
    <3> QED BY <3>3, <3>4
  <2> QED BY <2>1, <2>2
<1>4. DeviceRowIsProvisioned'
  BY DEF RowInv, DeviceRowIsProvisioned
<1> QED BY <1>1, <1>3, <1>4 DEF RowInv

LEMMA CreateDeviceHarmless ==
  ASSUME TypeInv, RowInv, NEW r \in Requests, NEW o \in Outcomes, CreateDevice(r, o) PROVE RowInv'
<1> USE DEF database, chirpstack, history
<1> DEFINE a == req[r].app
           e == req[r].eui
           d == [app |-> a, by |-> r, keys |-> None]
<1>1. /\ req[r].step = "device_create" /\ a \in Apps /\ e \in Euis /\ csApp[a] # "none"
      /\ UNCHANGED <<app, csApp, row, stray>>
  BY DEF CreateDevice, TypeInv, ReqOK, Remembers, PostSteps, RowInv, Known
<1>2. PICK x \in Records : /\ req' = [req EXCEPT ![r] = x] /\ x.app \in {a, None} /\ x.eui \in {e, None}
                           /\ \/ x.step = "over" /\ (o # "done" \/ device' = device)
                              \/ /\ x.step = "device_keys" /\ x.app = a /\ x.eui = e
                                 /\ device[e] = None /\ device' = [device EXCEPT ![e] = d]
  <2>1. CASE End(r) /\ (o # "done" \/ device' = device)
    BY <2>1, EndOK, OverOK DEF TypeInv, Over
  <2>2. CASE Goto(r, "device_keys") /\ device[e] = None /\ device' = [device EXCEPT ![e] = d]
    <3> DEFINE x == [req[r] EXCEPT !.step = "device_keys"]
    <3>1. req' = [req EXCEPT ![r] = x]
      BY <1>1, <2>2, GotoPostOK DEF TypeInv, PostSteps
    <3>2. x \in Records /\ x.step = "device_keys" /\ x.app = a /\ x.eui = e
      <4>1. req[r] \in Records /\ "device_keys" \in Steps
        BY DEF TypeInv, ReqOK, Steps
      <4> QED BY <4>1 DEF Records
    <3> HIDE DEF x
    <3> QED BY <2>2, <3>1, <3>2
  <2> QED BY <2>1, <2>2 DEF CreateDevice
<1>3. Moves(r, x)
  BY <1>1, <1>2 DEF Moves, AppSteps, DeleteSteps, PostSteps
<1>4. CASE device' = device /\ x.step = "over"
  <2>1. Harmless(r, x)
    BY <1>1, <1>3, <1>4 DEF Harmless
  <2> QED BY <2>1, HarmlessOK
<1>5. CASE device[e] = None /\ device' = [device EXCEPT ![e] = d]
  <2>1. d # None /\ device'[e] = d /\ d.app = a /\ d.by = r
    BY <1>1, <1>5, DeviceRecord DEF TypeInv, StoreOK
  <2>2. \A f \in Euis \ {e} : device'[f] = device[f]
    BY <1>1, <1>5 DEF TypeInv, StoreOK
  <2>3. e \notin stray' /\ row[e] # None /\ csApp[row[e].app] = "present" => device'[e] = device[e]
    <3> SUFFICES ASSUME e \notin stray, row[e] # None, csApp[row[e].app] = "present" PROVE FALSE
      BY <1>1
    <3>1. row[e].app \in Apps /\ row[e].by \in Requests
      BY <1>1 DEF TypeInv, StoreOK
    <3>2. device[e] = [app |-> row[e].app, by |-> row[e].by, keys |-> row[e].by]
      BY <1>1 DEF RowInv, DeviceRowIsProvisioned
    <3> QED BY <1>5, <3>1, <3>2, DeviceRecord
  <2>4. \A q \in Requests : ~(OwnDevice(q) /\ req[q].eui = e)
    BY <1>5 DEF OwnDevice
  <2>5. x.step \in {"device_keys", "device_commit"} => x.step = "device_keys" /\ OwnDevice(r)' /\ x.eui = e
    <3> SUFFICES ASSUME x.step \in {"device_keys", "device_commit"}
                 PROVE  x.step = "device_keys" /\ OwnDevice(r)' /\ x.eui = e
      OBVIOUS
    <3>1. x.step = "device_keys" /\ x.app = a /\ x.eui = e
      BY <1>2
    <3>2. req'[r] = x
      BY <1>2 DEF TypeInv, ReqOK
    <3> QED BY <2>1, <3>1, <3>2 DEF OwnDevice
  <2> HIDE DEF a, e, d
  <2> QED BY <1>1, <1>3, <2>2, <2>3, <2>4, <2>5, DeviceChanged
<1> QED BY <1>2, <1>4, <1>5 DEF CreateDevice

LEMMA CreateKeysHarmless ==
  ASSUME TypeInv, RowInv, NEW r \in Requests, NEW o \in Outcomes, CreateKeys(r, o) PROVE RowInv'
<1> USE DEF database, chirpstack, history
<1> DEFINE a == req[r].app
           e == req[r].eui
<1>1. /\ req[r].step = "device_keys" /\ a \in Apps /\ e \in Euis /\ csApp[a] # "none"
      /\ UNCHANGED <<app, csApp, row, stray>>
  BY DEF CreateKeys, TypeInv, ReqOK, Remembers, PostSteps, RowInv, Known
<1>2. PICK s \in {"device_commit", "device_undo"} : Goto(r, s) /\ (s = "device_commit" => o = "done" /\ Keyless(e))
  BY DEF CreateKeys
<1> DEFINE x == [req[r] EXCEPT !.step = s]
<1>3. req' = [req EXCEPT ![r] = x]
  BY <1>1, <1>2, GotoPostOK DEF TypeInv, PostSteps
<1>4. x \in Records /\ x.step = s /\ x.app = a /\ x.eui = e
  <2>1. req[r] \in Records /\ s \in Steps
    BY DEF TypeInv, ReqOK, Steps
  <2> QED BY <2>1 DEF Records
<1> HIDE DEF x
<1>5. Moves(r, x)
  BY <1>1, <1>3, <1>4 DEF Moves, AppSteps, DeleteSteps, PostSteps
<1>6. CASE device' = device /\ s = "device_undo"
  <2>1. Harmless(r, x)
    BY <1>1, <1>4, <1>5, <1>6 DEF Harmless
  <2> QED BY <1>4, <2>1, HarmlessOK
<1>7. CASE Keyless(e) /\ device' = [device EXCEPT ![e].keys = r]
  <2>1. device[e] # None /\ device[e] \in [app: Apps, by: Requests, keys: Requests \cup {None}]
    BY <1>1, <1>7 DEF Keyless, TypeInv, StoreOK
  <2>2. device'[e] = [device[e] EXCEPT !.keys = r] /\ \A f \in Euis \ {e} : device'[f] = device[f]
    BY <1>1, <1>7 DEF TypeInv, StoreOK
  <2>3. device'[e] = [app |-> device[e].app, by |-> device[e].by, keys |-> r]
    BY <2>1, <2>2
  <2>4. device'[e] # None /\ device'[e].app = device[e].app /\ device'[e].by = device[e].by
        /\ device'[e].keys = r
    BY <2>1, <2>3, DeviceRecord
  <2>5. e \notin stray' /\ row[e] # None /\ csApp[row[e].app] = "present" => device'[e] = device[e]
    <3> SUFFICES ASSUME e \notin stray, row[e] # None, csApp[row[e].app] = "present" PROVE FALSE
      BY <1>1
    <3>1. row[e].app \in Apps /\ row[e].by \in Requests
      BY <1>1 DEF TypeInv, StoreOK
    <3>2. device[e] = [app |-> row[e].app, by |-> row[e].by, keys |-> row[e].by]
      BY <1>1 DEF RowInv, DeviceRowIsProvisioned
    <3>3. device[e].keys \in Requests
      BY <3>1, <3>2, DeviceRecord
    <3> QED BY <1>7, <3>3, RegistryConstants DEF Keyless
  <2>6. \A q \in Requests \ {r} : OwnDevice(q) /\ req[q].eui = e
          /\ req[q].step \in {"device_keys", "device_commit"} => req[q].step = "device_keys"
    BY <1>7, RegistryConstants DEF OwnDevice, Keyless
  <2>7. x.step \in {"device_keys", "device_commit"} /\ x.eui \notin stray' /\ csApp[x.app] = "present"
          => OwnDevice(r)'
    <3> SUFFICES ASSUME e \notin stray, csApp[a] = "present" PROVE OwnDevice(r)'
      BY <1>1, <1>4
    <3>1. OwnDevice(r)
      BY <1>1 DEF RowInv, Posting
    <3>2. req'[r] = x
      BY <1>3 DEF TypeInv, ReqOK
    <3> QED BY <1>4, <2>4, <3>1, <3>2 DEF OwnDevice
  <2>8. /\ UNCHANGED <<csApp, row>> /\ stray \subseteq stray' /\ e \in Euis
        /\ x.step \in {"device_keys", "device_commit"} =>
             x.eui \in Euis /\ (x.eui \notin stray' /\ csApp[x.app] = "present" => OwnDevice(r)')
    BY <1>1, <1>4, <2>7
  <2>9. \A q \in Requests \ {r} :
          e \notin stray' /\ OwnDevice(q) /\ req[q].eui = e
            /\ req[q].step \in {"device_keys", "device_commit"}
          => \/ device'[e] = device[e]
             \/ /\ req[q].step = "device_keys" /\ device'[e] # None
                /\ device'[e].app = device[e].app /\ device'[e].by = device[e].by
    BY <2>4, <2>6
  <2>10. x \in Records /\ \A f \in Euis \ {e} : device'[f] = device[f]
    BY <1>4, <2>2
  <2> HIDE DEF a, e
  <2> QED BY <1>5, <2>5, <2>8, <2>9, <2>10, DeviceChanged
<1>8. \/ Keyless(e) /\ device' = [device EXCEPT ![e].keys = r]
      \/ device' = device /\ (o = "refused" \/ ~Keyless(e))
  BY DEF CreateKeys
<1>9. s = "device_undo" \/ (o = "done" /\ Keyless(e))
  BY <1>2
<1> QED BY <1>6, <1>7, <1>8, <1>9

(* A request removes the device of POST p, which is over by then, or        *)
(* another one, and then that EUI is stray.                                 *)
LEMMA RemoveDeviceHarmless ==
  ASSUME TypeInv, RowInv, NEW r \in Requests, NEW e \in Euis, NEW p \in Requests, NEW o \in Outcomes,
         req[r].step # "over", End(r), RemoveDevice(e, p, o), UNCHANGED <<app, csApp, row>>,
         row[e] # None => row[e].by # p,
         \A q \in Requests \ {r} : req[q].step \in {"device_keys", "device_commit"} => q # p
  PROVE  RowInv'
<1>1. req' = [req EXCEPT ![r] = Over] /\ Over \in Records /\ Over.step = "over"
  BY EndOK, OverOK DEF TypeInv
<1>2. Moves(r, Over)
  BY <1>1 DEF Moves, AppSteps, PostSteps, DeleteSteps
<1>3. CASE device' = device /\ stray' = stray
  <2>1. Harmless(r, Over)
    BY <1>1, <1>2, <1>3 DEF Harmless
  <2> QED BY <1>1, <2>1, HarmlessOK
<1>4. CASE device[e].by = p /\ device[e] # None /\ device' = [device EXCEPT ![e] = None] /\ stray' = stray
  <2>1. \A f \in Euis \ {e} : device'[f] = device[f]
    BY <1>4 DEF TypeInv, StoreOK
  <2>2. ~(e \notin stray' /\ row[e] # None /\ csApp[row[e].app] = "present")
    <3> SUFFICES ASSUME e \notin stray, row[e] # None, csApp[row[e].app] = "present" PROVE FALSE
      BY <1>4
    <3>1. row[e].app \in Apps /\ row[e].by \in Requests
      BY DEF TypeInv, StoreOK
    <3>2. device[e] = [app |-> row[e].app, by |-> row[e].by, keys |-> row[e].by]
      BY DEF RowInv, DeviceRowIsProvisioned
    <3>3. device[e].by = row[e].by
      BY <3>1, <3>2, DeviceRecord
    <3> QED BY <1>4, <3>3
  <2>3. \A q \in Requests \ {r} :
          ~(OwnDevice(q) /\ req[q].eui = e /\ req[q].step \in {"device_keys", "device_commit"})
    BY <1>4 DEF OwnDevice
  <2> QED BY <1>1, <1>2, <1>4, <2>1, <2>2, <2>3, DeviceChanged
<1>5. CASE device' = [device EXCEPT ![e] = None] /\ stray' = stray \cup {e}
  <2>1. \A f \in Euis \ {e} : device'[f] = device[f]
    BY <1>5 DEF TypeInv, StoreOK
  <2> QED BY <1>1, <1>2, <1>5, <2>1, DeviceChanged
<1>6. CASE o = "refused" \/ device[e] = None
  BY <1>3, <1>6 DEF RemoveDevice
<1>7. CASE o # "refused" /\ device[e] # None
  BY <1>4, <1>5, <1>7 DEF RemoveDevice
<1> QED BY <1>6, <1>7

LEMMA UndoDeviceHarmless ==
  ASSUME TypeInv, RowInv, NEW r \in Requests, NEW o \in Outcomes, UndoDevice(r, o) PROVE RowInv'
<1> USE DEF database, chirpstack, history
<1>1. /\ req[r].step = "device_undo" /\ req[r].eui \in Euis /\ End(r)
      /\ RemoveDevice(req[r].eui, r, o) /\ UNCHANGED <<app, csApp, row>>
  BY DEF UndoDevice, TypeInv, ReqOK, Remembers, PostSteps
<1>2. row[req[r].eui] # None => row[req[r].eui].by # r
  BY <1>1 DEF RowInv, Settled
<1> QED BY <1>1, <1>2, RemoveDeviceHarmless

LEMMA DropDeviceHarmless ==
  ASSUME TypeInv, RowInv, NEW r \in Requests, NEW o \in Outcomes, DropDevice(r, o) PROVE RowInv'
<1> USE DEF database, chirpstack, history
<1>1. /\ req[r].step = "device_drop" /\ req[r].eui \in Euis /\ req[r].by \in Requests /\ End(r)
      /\ RemoveDevice(req[r].eui, req[r].by, o) /\ UNCHANGED <<app, csApp, row>>
  BY DEF DropDevice, TypeInv, ReqOK, Remembers, DeleteSteps
<1>2. /\ row[req[r].eui] # None => row[req[r].eui].by # req[r].by
      /\ req[req[r].by].step = "over"
  BY <1>1 DEF RowInv, Deleting, DeleteSteps
<1> QED BY <1>1, <1>2, RemoveDeviceHarmless

LEMMA CommitDeviceHarmless ==
  ASSUME TypeInv, RowInv, NEW r \in Requests, NEW o \in Outcomes, CommitDevice(r, o) PROVE RowInv'
<1> USE DEF database, chirpstack, history
<1> DEFINE a == req[r].app
           e == req[r].eui
<1>1. /\ req[r].step = "device_commit" /\ a \in Apps /\ e \in Euis /\ csApp[a] # "none"
      /\ UNCHANGED <<app, csApp, device, stray>> /\ End(r)
  BY DEF CommitDevice, TypeInv, ReqOK, Remembers, PostSteps, RowInv, Known
<1>2. req' = [req EXCEPT ![r] = Over] /\ Over.step = "over"
  BY <1>1, EndOK, OverOK DEF TypeInv
<1>3. CASE row' = row
  <2>1. Over \in Records /\ Harmless(r, Over)
    BY <1>1, <1>2, <1>3, OverHarmless
  <2> QED BY <2>1, HarmlessOK
<1>4. CASE row[e] = None /\ row' = [row EXCEPT ![e] = [app |-> a, by |-> r]]
  <2>1. \A q \in Requests : /\ q # r => req'[q] = req[q]
                            /\ q = r => req'[q].step = "over"
                            /\ req[q].step = "over" => req'[q].step = "over"
    BY <1>2 DEF TypeInv, ReqOK
  <2>2. /\ \A f \in Euis \ {e} : row'[f] = row[f]
        /\ row'[e].app = a /\ row'[e].by = r
    BY <1>1, <1>4 DEF TypeInv, StoreOK
  <2>3. \A f \in Euis : row[f] # None => row[f].app \in Apps /\ row[f].by \in Requests
    BY DEF TypeInv, StoreOK
  <2>4. Settled'
    BY <2>1, <2>2, <2>3 DEF RowInv, Settled
  <2>5. Known'
    <3>1. \A q \in Requests : req'[q].step \in AppSteps \cup PostSteps => csApp'[req'[q].app] # "none"
      BY <1>1, <2>1 DEF RowInv, Known, AppSteps, PostSteps
    <3> QED BY <1>1, <2>2, <3>1 DEF RowInv, Known
  <2>6. Deleting'
    <3> SUFFICES ASSUME NEW q \in Requests, req'[q].step \in DeleteSteps
                 PROVE  /\ req'[req'[q].by].step = "over"
                        /\ req'[q].step = "device_drop" => row'[req'[q].eui] = None
                                                           \/ row'[req'[q].eui].by # req'[q].by
      BY DEF Deleting, DeleteSteps
    <3>1. q # r /\ req'[q] = req[q]
      BY <2>1 DEF DeleteSteps
    <3>2. req[q].by \in Requests /\ req[q].eui \in Euis
      BY <3>1 DEF TypeInv, ReqOK, Remembers
    <3>3. req[req[q].by].step = "over"
      BY <3>1 DEF RowInv, Deleting
    <3>4. req'[req[q].by].step = "over" /\ req[q].by # r
      BY <1>1, <2>1, <3>2, <3>3
    <3>5. req[q].step = "device_drop" => row[req[q].eui] = None \/ row[req[q].eui].by # req[q].by
      BY DEF RowInv, Deleting
    <3> QED BY <2>2, <3>1, <3>2, <3>4, <3>5
  <2>7. Posting'
    <3> SUFFICES ASSUME NEW q \in Requests, req'[q].step \in {"device_keys", "device_commit"},
                        req'[q].eui \notin stray', csApp'[req'[q].app] = "present"
                 PROVE  OwnDevice(q)'
      BY DEF Posting
    <3>1. q # r /\ req'[q] = req[q]
      BY <2>1
    <3>2. OwnDevice(q)
      BY <1>1, <3>1 DEF RowInv, Posting
    <3> QED BY <1>1, <3>1, <3>2 DEF OwnDevice
  <2>8. DeviceRowIsProvisioned'
    <3> SUFFICES ASSUME NEW f \in Euis, f \notin stray', row'[f] # None, csApp'[row'[f].app] = "present"
                 PROVE  device'[f] = [app |-> row'[f].app, by |-> row'[f].by, keys |-> row'[f].by]
      BY DEF DeviceRowIsProvisioned
    <3>1. CASE f = e
      <4>1. OwnDevice(r)
        BY <1>1, <2>2, <3>1 DEF RowInv, Posting
      <4>2. device[e] \in [app: Apps, by: Requests, keys: Requests \cup {None}]
            /\ device[e].app = a /\ device[e].by = r /\ device[e].keys = r
        BY <1>1, <4>1 DEF OwnDevice, TypeInv, StoreOK
      <4>3. device[e] = [app |-> a, by |-> r, keys |-> r]
        BY <4>2
      <4> QED BY <1>1, <2>2, <3>1, <4>3
    <3>2. CASE f # e
      BY <1>1, <2>2, <3>2 DEF RowInv, DeviceRowIsProvisioned
    <3> QED BY <3>1, <3>2
  <2> QED BY <2>4, <2>5, <2>6, <2>7, <2>8 DEF RowInv
<1> QED BY <1>3, <1>4 DEF CommitDevice

(* FindDevice and CommitDeviceDeletion go on with the deletion of the row   *)
(* of a POST that is over.                                                  *)
LEMMA DeletionGoesOn ==
  ASSUME TypeInv, RowInv, NEW r \in Requests, NEW x \in Records, req[r].step # "over",
         req' = [req EXCEPT ![r] = x], x.step \in DeleteSteps,
         UNCHANGED <<app, csApp, device, stray>>,
         \A e \in Euis : row'[e] \in {row[e], None},
         x.by \in Requests \ {r}, req[x.by].step = "over",
         x.step = "device_drop" => row'[x.eui] = None \/ row'[x.eui].by # x.by
  PROVE  RowInv'
<1>1. \A q \in Requests : /\ q # r => req'[q] = req[q]
                          /\ q = r => req'[q] = x
                          /\ req[q].step = "over" => req'[q] = req[q]
  BY DEF TypeInv, ReqOK
<1>2. \A e \in Euis : row[e] # None => row[e].app \in Apps /\ row[e].by \in Requests
  BY DEF TypeInv, StoreOK
<1>3. x.step \notin AppSteps \cup PostSteps
  BY DEF DeleteSteps, AppSteps, PostSteps
<1>4. Settled'
  BY <1>1, <1>2 DEF RowInv, Settled
<1>5. Known'
  <2>1. \A e \in Euis : row'[e] # None => csApp'[row'[e].app] # "none"
    BY <1>2 DEF RowInv, Known
  <2>2. \A q \in Requests : req'[q].step \in AppSteps \cup PostSteps => csApp'[req'[q].app] # "none"
    BY <1>1, <1>3 DEF RowInv, Known
  <2> QED BY <2>1, <2>2 DEF RowInv, Known
<1>6. Deleting'
  <2> SUFFICES ASSUME NEW q \in Requests, req'[q].step \in DeleteSteps
               PROVE  /\ req'[req'[q].by].step = "over"
                      /\ req'[q].step = "device_drop" => row'[req'[q].eui] = None
                                                         \/ row'[req'[q].eui].by # req'[q].by
    BY DEF Deleting, DeleteSteps
  <2>1. CASE q = r
    BY <1>1, <2>1
  <2>2. CASE q # r
    <3>1. req'[q] = req[q] /\ req[q].by \in Requests /\ req[q].eui \in Euis
      BY <1>1, <2>2 DEF TypeInv, ReqOK, Remembers
    <3>2. req[req[q].by].step = "over"
      BY <3>1 DEF RowInv, Deleting
    <3>3. req[q].step = "device_drop" => row[req[q].eui] = None \/ row[req[q].eui].by # req[q].by
      BY DEF RowInv, Deleting
    <3>4. row'[req[q].eui] \in {row[req[q].eui], None}
      BY <3>1
    <3> QED BY <1>1, <3>1, <3>2, <3>3, <3>4
  <2> QED BY <2>1, <2>2
<1>7. Posting'
  <2> SUFFICES ASSUME NEW q \in Requests, req'[q].step \in {"device_keys", "device_commit"},
                      req'[q].eui \notin stray', csApp'[req'[q].app] = "present"
               PROVE  OwnDevice(q)'
    BY DEF Posting
  <2>1. q # r /\ req'[q] = req[q]
    BY <1>1 DEF DeleteSteps
  <2>2. OwnDevice(q)
    BY <2>1 DEF RowInv, Posting
  <2> QED BY <2>1, <2>2 DEF OwnDevice
<1>8. DeviceRowIsProvisioned'
  BY DEF RowInv, DeviceRowIsProvisioned
<1> QED BY <1>4, <1>5, <1>6, <1>7, <1>8 DEF RowInv

LEMMA DeviceRequestHarmless ==
  ASSUME TypeInv, RowInv, NEW r \in Requests, DeviceRequest(r) PROVE RowInv'
<1> USE DEF database, chirpstack, history
<1>0. Over \in Records /\ Over.step = "over" /\ ReqOK
  BY OverOK DEF TypeInv
<1>1. ASSUME NEW a \in Apps, NEW e \in Euis, CheckDevice(r, a, e) PROVE RowInv'
  <2> DEFINE x == [Over EXCEPT !.step = "device_create", !.app = a, !.eui = e]
  <2>1. x \in Records /\ Remembers(x) /\ x.step = "device_create" /\ x.app = a
    BY DEF Over, Records, Remembers, Steps, Subjects, PostSteps, DeleteSteps, AppSteps, LabelSteps
  <2>2. Begin(r, x)
    BY <1>1 DEF CheckDevice
  <2> HIDE DEF x
  <2>3. req' = [req EXCEPT ![r] = x] /\ req[r].step = "new"
    BY <1>0, <2>1, <2>2, BeginOK
  <2>4. csApp[a] # "none" /\ UNCHANGED <<app, csApp, row, device, stray>>
    BY <1>1 DEF CheckDevice, RowInv, Known
  <2>5. Harmless(r, x)
    BY <2>1, <2>3, <2>4 DEF Harmless, Moves, DeleteSteps
  <2> QED BY <2>1, <2>5, HarmlessOK
<1>2. ASSUME NEW e \in Euis, FindDevice(r, e) PROVE RowInv'
  <2> DEFINE x == [Over EXCEPT !.step = "device_row", !.eui = e, !.by = row[e].by]
  <2>1. row[e].by \in Requests /\ req[row[e].by].step = "over"
    BY <1>2 DEF FindDevice, TypeInv, StoreOK, RowInv, Settled
  <2>2. x \in Records /\ Remembers(x) /\ x.step = "device_row" /\ x.by = row[e].by
    BY <2>1 DEF Over, Records, Remembers, Steps, PostSteps, DeleteSteps, AppSteps, LabelSteps
  <2>3. Begin(r, x)
    BY <1>2 DEF FindDevice
  <2> HIDE DEF x
  <2>4. req' = [req EXCEPT ![r] = x] /\ req[r].step = "new"
    BY <1>0, <2>2, <2>3, BeginOK
  <2>5. UNCHANGED <<app, csApp, row, device, stray>>
    BY <1>2 DEF FindDevice
  <2> QED BY <2>1, <2>2, <2>4, <2>5, DeletionGoesOn DEF DeleteSteps
<1>3. ASSUME NEW o \in Outcomes, CommitDeviceDeletion(r, o) PROVE RowInv'
  <2> DEFINE e == req[r].eui
             p == req[r].by
  <2>1. /\ req[r].step = "device_row" /\ e \in Euis /\ p \in Requests /\ req[p].step = "over"
        /\ UNCHANGED <<app, csApp, device, stray>>
    BY <1>3 DEF CommitDeviceDeletion, TypeInv, ReqOK, Remembers, DeleteSteps, RowInv, Deleting
  <2>2. /\ \A f \in Euis : row'[f] \in {row[f], None}
        /\ o # "refused" => row'[e] = None \/ row'[e].by # p
    BY <1>3, <2>1 DEF CommitDeviceDeletion, TypeInv, StoreOK
  <2>3. CASE End(r)
    <3>1. req' = [req EXCEPT ![r] = Over]
      BY <1>0, <2>3, EndOK
    <3>2. Over \in Records /\ Harmless(r, Over)
      BY <2>1, <2>2, <3>1, OverHarmless
    <3> QED BY <3>2, HarmlessOK
  <2>4. CASE o = "done" /\ Goto(r, "device_drop")
    <3> DEFINE x == [req[r] EXCEPT !.step = "device_drop"]
    <3>1. req' = [req EXCEPT ![r] = x]
      BY <1>0, <2>1, <2>4, GotoDropOK
    <3>2. req[r] \in Records /\ "device_drop" \in Steps
      BY <1>0 DEF ReqOK, Steps
    <3>3. x \in Records /\ x.step = "device_drop" /\ x.eui = e /\ x.by = p
      BY <3>2 DEF Records
    <3> HIDE DEF x
    <3>4. p # r
      BY <2>1
    <3> QED BY <2>1, <2>2, <2>4, <3>1, <3>3, <3>4, DeletionGoesOn DEF DeleteSteps
  <2> QED BY <1>3, <2>3, <2>4 DEF CommitDeviceDeletion
<1> QED
  BY <1>1, <1>2, <1>3, CreateDeviceHarmless, CreateKeysHarmless, UndoDeviceHarmless,
     CommitDeviceHarmless, DropDeviceHarmless DEF DeviceRequest

LEMMA RowInvInductive == TypeInv /\ RowInv /\ [Next]_vars => RowInv'
<1> SUFFICES ASSUME TypeInv, RowInv, [Next]_vars PROVE RowInv'
  OBVIOUS
<1>1. ASSUME NEW r \in Requests, Crash(r) PROVE RowInv'
  <2>1. req' = [req EXCEPT ![r] = Over] /\ req[r].step # "over"
    BY <1>1, EndOK DEF Crash, TypeInv
  <2>2. Over \in Records /\ Over.step = "over"
    BY OverOK
  <2>3. UNCHANGED <<app, csApp, row, device, stray>>
    BY <1>1 DEF Crash, database, chirpstack, history
  <2> QED BY <2>1, <2>2, <2>3, AsideOK DEF AppSteps, PostSteps, DeleteSteps
<1>2. CASE UNCHANGED vars
  <2>1. UNCHANGED <<app, csApp, row, device, stray, req>>
    BY <1>2 DEF vars, database, chirpstack, history
  <2>2. Settled' /\ Known' /\ Deleting'
    BY <2>1 DEF RowInv, Settled, Known, Deleting
  <2>3. Posting' /\ DeviceRowIsProvisioned'
    BY <2>1 DEF RowInv, Posting, OwnDevice, DeviceRowIsProvisioned
  <2> QED BY <2>2, <2>3 DEF RowInv
<1> QED
  BY <1>1, <1>2, TenantRequestHarmless, ApplicationRequestHarmless, DeviceRequestHarmless DEF Next

LEMMA RowInvInit == Init => RowInv
<1> SUFFICES ASSUME Init PROVE RowInv
  OBVIOUS
<1>1. \A r \in Requests : req[r].step = "new"
  BY DEF Init, New, Over
<1>2. Settled /\ DeviceRowIsProvisioned
  BY DEF Init, Settled, DeviceRowIsProvisioned
<1>3. Known /\ Deleting /\ Posting
  BY <1>1 DEF Init, Known, Deleting, Posting, AppSteps, PostSteps, DeleteSteps
<1> QED BY <1>2, <1>3 DEF RowInv

(* Whatever overlaps and fails, a row stands for a device that ChirpStack   *)
(* has in the row's application, with the keys of the request that wrote    *)
(* the row; the exception is an EUI of which a request removed another      *)
(* device than the one it meant.                                            *)
THEOREM DeviceRowsAreProvisioned == Spec => []DeviceRowIsProvisioned
<1>1. Init => TypeInv /\ RowInv
  BY InitOK, RowInvInit
<1>2. TypeInv /\ RowInv /\ [Next]_vars => (TypeInv /\ RowInv)'
  BY NextOK, RowInvInductive
<1>3. RowInv => DeviceRowIsProvisioned
  BY DEF RowInv
<1> QED BY <1>1, <1>2, <1>3, PTL DEF Spec

-----------------------------------------------------------------------------
(* The tenant and its deletion                                              *)

TenantSteps == {"tenant_commit", "tenant_undo", "tenant_row"}

(* Without a lost reply, a failing database and a crash, the creation of    *)
(* the tenant is never undone, and a DELETE that has removed it from        *)
(* ChirpStack goes on to its row.                                           *)
TenantInv ==
  /\ \A r \in Requests : req[r].step # "tenant_undo"
  /\ \A r \in Requests : req[r].step = "tenant_commit" => csTenant = "present" /\ tenant = "none"
  /\ \A r, q \in Requests : req[r].step = "tenant_commit" /\ req[q].step = "tenant_commit" => r = q
  /\ \A r \in Requests : req[r].step = "tenant_row" => csTenant = "gone"
  /\ csTenant = "none" => tenant = "none"
  /\ tenant = "present" /\ (\A r \in Requests : req[r].step # "tenant_row") => csTenant = "present"

(* A fault once seen stays seen.                                            *)
LEMMA SeenStays == [Next]_vars => seen \subseteq seen'
<1> SUFFICES ASSUME [Next]_vars PROVE seen \subseteq seen'
  OBVIOUS
<1>1. CASE UNCHANGED vars
  BY <1>1 DEF vars
<1>2. ASSUME NEW k, Fault(k) PROVE seen \subseteq seen'
  BY <1>2 DEF Fault
<1>3. ASSUME NEW o, Call(o) \/ Cleanup(o) \/ Commit(o) \/ NoFault PROVE seen \subseteq seen'
  <2>1. CASE NoFault
    BY <2>1 DEF NoFault
  <2>2. ASSUME NEW k, NEW l, Attempt(o, k, l) PROVE seen \subseteq seen'
    BY <1>2, <2>1, <2>2 DEF Attempt
  <2> QED BY <1>3, <2>1, <2>2 DEF Call, Cleanup, Commit
<1>4. ASSUME NEW r \in Requests, TenantRequest(r) PROVE seen \subseteq seen'
  BY <1>3, <1>4 DEF TenantRequest, CreateTenant, CommitTenant, UndoTenant, DeleteTenant,
       CommitTenantDeletion, UpdateTenant, UpdateApplication, BeginUpdate, CommitUpdate, SendUpdate
<1>5. ASSUME NEW r \in Requests, ApplicationRequest(r) PROVE seen \subseteq seen'
  BY <1>3, <1>5 DEF ApplicationRequest, CreateApplication, DeleteApplication, ProvisionUser,
       CommitApplication, UndoUser, UndoApplication, CommitApplicationDeletion, DropUser,
       RemoveApplication
<1>6. ASSUME NEW r \in Requests, DeviceRequest(r) PROVE seen \subseteq seen'
  BY <1>3, <1>6 DEF DeviceRequest, FindDevice, CheckDevice, CreateDevice, CreateKeys, UndoDevice,
       CommitDevice, CommitDeviceDeletion, DropDevice, RemoveDevice
<1>7. ASSUME NEW r \in Requests, Crash(r) PROVE seen \subseteq seen'
  BY <1>2, <1>7 DEF Crash
<1> QED BY <1>1, <1>4, <1>5, <1>6, <1>7 DEF Next

(* Where r is after a step                                                  *)
LEMMA StepAfter ==
  ASSUME ReqOK, NEW r \in Requests
  PROVE  /\ \A s : Goto(r, s) => /\ req'[r].step = s
                                 /\ \A q \in Requests \ {r} : req'[q] = req[q]
         /\ \A x : Begin(r, x) => /\ req[r].step = "new" /\ req'[r] = x
                                  /\ \A q \in Requests \ {r} : req'[q] = req[q]
         /\ End(r) => /\ req'[r].step = "over"
                      /\ \A q \in Requests \ {r} : req'[q] = req[q]
<1>1. req[r] \in Records
  BY DEF ReqOK
<1>2. ASSUME NEW s, Goto(r, s)
      PROVE  req'[r].step = s /\ \A q \in Requests \ {r} : req'[q] = req[q]
  <2>1. req'[r] = [req[r] EXCEPT !.step = s]
    BY <1>2 DEF Goto, ReqOK
  <2>2. req'[r].step = s
    BY <1>1, <2>1 DEF Records
  <2>3. \A q \in Requests \ {r} : req'[q] = req[q]
    BY <1>2 DEF Goto, ReqOK
  <2> QED BY <2>2, <2>3
<1>3. ASSUME NEW x, Begin(r, x)
      PROVE  req[r].step = "new" /\ req'[r] = x /\ \A q \in Requests \ {r} : req'[q] = req[q]
  BY <1>3 DEF Begin, ReqOK
<1>4. ASSUME End(r)
      PROVE  req'[r].step = "over" /\ \A q \in Requests \ {r} : req'[q] = req[q]
  BY <1>4, OverOK DEF End, ReqOK
<1> QED BY <1>2, <1>3, <1>4

(* A step of r that has nothing to do with the tenant's row                 *)
Elsewhere(r) ==
  /\ req[r].step \notin TenantSteps /\ req'[r].step \notin TenantSteps
  /\ \A q \in Requests \ {r} : req'[q] = req[q]
  /\ UNCHANGED <<tenant, csTenant>>

LEMMA ElsewhereOK ==
  ASSUME TenantInv, NEW r \in Requests, Elsewhere(r) PROVE TenantInv'
<1>1. \A q \in Requests : req'[q].step \in TenantSteps => req'[q] = req[q]
  BY DEF Elsewhere
<1>2. (\A q \in Requests : req'[q].step # "tenant_row") => \A q \in Requests : req[q].step # "tenant_row"
  BY DEF Elsewhere, TenantSteps
<1> QED BY <1>1, <1>2 DEF TenantInv, Elsewhere, TenantSteps

LEMMA ApplicationElsewhere ==
  ASSUME ReqOK, NEW r \in Requests, ApplicationRequest(r) PROVE Elsewhere(r)
<1> USE StepAfter DEF Elsewhere, TenantSteps, database, chirpstack, history
<1>1. ASSUME NEW a \in Apps, NEW o \in Outcomes, CreateApplication(r, a, o) PROVE Elsewhere(r)
  <2>1. PICK x \in {Over, [Over EXCEPT !.step = "app_user", !.app = a]} : Begin(r, x)
    BY <1>1 DEF CreateApplication
  <2>2. x.step \in {"over", "app_user"}
    BY OverOK, AppStepOK DEF Over
  <2> QED BY <1>1, <2>1, <2>2 DEF CreateApplication
<1>2. ASSUME NEW a \in Apps, NEW o \in Outcomes, DeleteApplication(r, a, o) PROVE Elsewhere(r)
  <2>1. PICK x \in {Over, [Over EXCEPT !.step = "app_row", !.app = a]} : Begin(r, x)
    BY <1>2 DEF DeleteApplication
  <2>2. x.step \in {"over", "app_row"}
    BY OverOK, AppStepOK DEF Over
  <2> QED BY <1>2, <2>1, <2>2 DEF DeleteApplication
<1>3. ASSUME NEW o \in Outcomes, ProvisionUser(r, o) PROVE Elsewhere(r)
  BY <1>3 DEF ProvisionUser
<1>4. ASSUME NEW o \in Outcomes, CommitApplication(r, o) PROVE Elsewhere(r)
  BY <1>4 DEF CommitApplication
<1>5. ASSUME NEW o \in Outcomes, UndoUser(r, o) PROVE Elsewhere(r)
  BY <1>5 DEF UndoUser
<1>6. ASSUME NEW o \in Outcomes, UndoApplication(r, o) PROVE Elsewhere(r)
  BY <1>6 DEF UndoApplication
<1>7. ASSUME NEW o \in Outcomes, CommitApplicationDeletion(r, o) PROVE Elsewhere(r)
  BY <1>7 DEF CommitApplicationDeletion
<1>8. ASSUME NEW o \in Outcomes, DropUser(r, o) PROVE Elsewhere(r)
  BY <1>8 DEF DropUser
<1> QED BY <1>1, <1>2, <1>3, <1>4, <1>5, <1>6, <1>7, <1>8 DEF ApplicationRequest

LEMMA DeviceElsewhere ==
  ASSUME ReqOK, NEW r \in Requests, DeviceRequest(r) PROVE Elsewhere(r)
<1> USE StepAfter DEF Elsewhere, TenantSteps, database, chirpstack, history
<1>1. ASSUME NEW a \in Apps, NEW e \in Euis, CheckDevice(r, a, e) PROVE Elsewhere(r)
  <2>1. [Over EXCEPT !.step = "device_create", !.app = a, !.eui = e].step = "device_create"
    BY DEF Over
  <2> QED BY <1>1, <2>1 DEF CheckDevice
<1>2. ASSUME NEW e \in Euis, FindDevice(r, e) PROVE Elsewhere(r)
  <2>1. [Over EXCEPT !.step = "device_row", !.eui = e, !.by = row[e].by].step = "device_row"
    BY DEF Over
  <2> QED BY <1>2, <2>1 DEF FindDevice
<1>3. ASSUME NEW o \in Outcomes, CreateDevice(r, o) PROVE Elsewhere(r)
  BY <1>3 DEF CreateDevice
<1>4. ASSUME NEW o \in Outcomes, CreateKeys(r, o) PROVE Elsewhere(r)
  BY <1>4 DEF CreateKeys
<1>5. ASSUME NEW o \in Outcomes, UndoDevice(r, o) \/ CommitDevice(r, o) \/ DropDevice(r, o)
      PROVE  Elsewhere(r)
  BY <1>5 DEF UndoDevice, CommitDevice, DropDevice
<1>6. ASSUME NEW o \in Outcomes, CommitDeviceDeletion(r, o) PROVE Elsewhere(r)
  BY <1>6 DEF CommitDeviceDeletion
<1> QED BY <1>1, <1>2, <1>3, <1>4, <1>5, <1>6 DEF DeviceRequest

LEMMA UpdateElsewhere ==
  ASSUME ReqOK, NEW r \in Requests,
         \/ \E s, fields : BeginUpdate(r, s, fields)
         \/ \E o \in Outcomes : CommitUpdate(r, o) \/ SendUpdate(r, o)
  PROVE  Elsewhere(r)
<1> USE StepAfter DEF Elsewhere, TenantSteps, database, chirpstack, history
<1>1. ASSUME NEW s, NEW fields, BeginUpdate(r, s, fields) PROVE Elsewhere(r)
  <2>1. \A l : [Over EXCEPT !.step = "label_commit", !.app = s, !.label = l].step = "label_commit"
    BY DEF Over
  <2> QED BY <1>1, <2>1 DEF BeginUpdate
<1>2. ASSUME NEW o \in Outcomes, CommitUpdate(r, o) \/ SendUpdate(r, o) PROVE Elsewhere(r)
  BY <1>2 DEF CommitUpdate, SendUpdate
<1> QED BY <1>1, <1>2

(* The steps of POST and DELETE /tenant                                     *)
LEMMA TenantStepsOK ==
  ASSUME TypeInv, TenantInv, Without({"lost", "database", "commit", "crash"})',
         NEW r \in Requests, NEW o \in Outcomes,
         \/ CreateTenant(r, o) \/ CommitTenant(r, o) \/ UndoTenant(r, o)
         \/ DeleteTenant(r, o) \/ CommitTenantDeletion(r, o)
  PROVE  TenantInv'
<1> USE StepAfter DEF TypeInv, database, chirpstack, history
<1>0. /\ Over.step = "over"
      /\ [Over EXCEPT !.step = "tenant_commit"].step = "tenant_commit"
      /\ [Over EXCEPT !.step = "tenant_row"].step = "tenant_row"
  BY DEF Over
<1>1. \A k \in {"lost", "database", "commit", "crash"} : ~Fault(k)
  BY DEF Fault, Without
<1>2. CASE CreateTenant(r, o)
  <2>1. o \in {"done", "refused"}
    BY <1>1, <1>2 DEF CreateTenant, Call, Attempt
  <2>2. csTenant = "none" /\ tenant = "none" /\ tenant' = tenant
        /\ req[r].step = "new" /\ \A q \in Requests \ {r} : req'[q] = req[q]
    BY <1>2 DEF CreateTenant, TenantInv
  <2>3. /\ o = "done" => csTenant' = "present" /\ req'[r].step = "tenant_commit"
        /\ o = "refused" => csTenant' = "none" /\ req'[r].step = "over"
    BY <1>0, <1>2 DEF CreateTenant
  <2> QED BY <2>1, <2>2, <2>3 DEF TenantInv
<1>3. CASE CommitTenant(r, o)
  <2>1. o = "done"
    BY <1>1, <1>3 DEF CommitTenant, Commit, Attempt, Outcomes
  <2>2. /\ req[r].step = "tenant_commit" /\ tenant' = "present" /\ csTenant' = csTenant
        /\ req'[r].step = "over" /\ \A q \in Requests \ {r} : req'[q] = req[q]
    BY <1>3, <2>1 DEF CommitTenant
  <2> QED BY <2>2 DEF TenantInv
<1>4. ~UndoTenant(r, o)
  BY DEF UndoTenant, TenantInv
<1>5. CASE DeleteTenant(r, o)
  <2>1. o \in {"done", "refused"} \/ csTenant # "present"
    BY <1>1, <1>5 DEF DeleteTenant, Cleanup, Attempt
  <2>2. tenant = "present" /\ tenant' = tenant
        /\ req[r].step = "new" /\ \A q \in Requests \ {r} : req'[q] = req[q]
    BY <1>5 DEF DeleteTenant
  <2>3. \/ csTenant' = csTenant /\ req'[r].step = "over"
        \/ csTenant' = "gone" /\ req'[r].step = "tenant_row"
    BY <1>0, <1>5, <2>1 DEF DeleteTenant
  <2>4. CASE csTenant' = csTenant /\ req'[r].step = "over"
    <3>1. Elsewhere(r)
      BY <2>2, <2>4 DEF Elsewhere, TenantSteps
    <3> QED BY <3>1, ElsewhereOK
  <2>5. CASE csTenant' = "gone" /\ req'[r].step = "tenant_row"
    BY <2>2, <2>5 DEF TenantInv
  <2> QED BY <2>3, <2>4, <2>5
<1>6. CASE CommitTenantDeletion(r, o)
  <2>1. o = "done"
    BY <1>1, <1>6 DEF CommitTenantDeletion, Commit, Attempt, Outcomes
  <2>2. /\ req[r].step = "tenant_row" /\ tenant' = "gone" /\ csTenant' = csTenant
        /\ req'[r].step = "over" /\ \A q \in Requests \ {r} : req'[q] = req[q]
    BY <1>6, <2>1 DEF CommitTenantDeletion
  <2> QED BY <2>2 DEF TenantInv
<1> QED BY <1>2, <1>3, <1>4, <1>5, <1>6

(* With calls that may be refused, but no lost reply, failing database or   *)
(* crash, a DELETE of the tenant finds it in ChirpStack as long as none has *)
(* removed it and not yet reached the row: it can be repeated.              *)
THEOREM TenantDeletionCanRepeat == Spec => []TenantDeletionRepeats
<1> DEFINE Harmful == {"lost", "database", "commit", "crash"}
           Inv == TypeInv /\ (Without(Harmful) => TenantInv)
<1>1. Init => Inv
  <2> SUFFICES ASSUME Init PROVE TypeInv /\ TenantInv
    OBVIOUS
  <2>1. TypeInv /\ \A r \in Requests : req[r].step = "new"
    BY InitOK DEF Init, New, Over
  <2> QED BY <2>1 DEF Init, TenantInv
<1>2. Inv /\ [Next]_vars => Inv'
  <2> SUFFICES ASSUME TypeInv, TenantInv, [Next]_vars, Without(Harmful)' PROVE TenantInv'
    BY NextOK, SeenStays DEF Without
  <2>1. CASE UNCHANGED vars
    BY <2>1 DEF TenantInv, vars, database, chirpstack
  <2>2. ASSUME NEW r \in Requests, TenantRequest(r) PROVE TenantInv'
    <3>1. \/ \E o \in Outcomes : CreateTenant(r, o) \/ CommitTenant(r, o) \/ UndoTenant(r, o)
                                 \/ DeleteTenant(r, o) \/ CommitTenantDeletion(r, o)
          \/ \E s, fields : BeginUpdate(r, s, fields)
          \/ \E o \in Outcomes : CommitUpdate(r, o) \/ SendUpdate(r, o)
      BY <2>2 DEF TenantRequest, UpdateTenant, UpdateApplication
    <3> QED BY <3>1, TenantStepsOK, UpdateElsewhere, ElsewhereOK DEF TypeInv
  <2>3. ASSUME NEW r \in Requests, Crash(r) PROVE FALSE
    BY <2>3 DEF Crash, Fault, Without
  <2> QED
    BY <2>1, <2>2, <2>3, ApplicationElsewhere, DeviceElsewhere, ElsewhereOK DEF Next, TypeInv
<1>3. Inv => TenantDeletionRepeats
  BY DEF TenantInv, TenantDeletionRepeats, Without
<1> QED BY <1>1, <1>2, <1>3, PTL DEF Spec
=============================================================================
