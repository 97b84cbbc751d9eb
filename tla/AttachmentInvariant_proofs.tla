--------------------- MODULE AttachmentInvariant_proofs ---------------------
(***************************************************************************)
(* The invariant under which attachments, replicas and volumes go only     *)
(* when nothing uses them, and that the CSI driver, users and the nodes    *)
(* keep it.                                                                *)
(*                                                                         *)
(* The finalizers are patched on a datamesh the pass has computed and not  *)
(* yet published, from objects it loaded earlier.  So the invariant speaks *)
(* of the objects and the kernel (StaticInv), of what was loaded (ViewInv, *)
(* LoadedInv) and of what is computed (PassInv), and relates the three.    *)
(***************************************************************************)
EXTENDS Attachments, TLAPS

\* The obligations are small and their context is large: give the provers time to read it.
USE SMTT(30), ZenonT(20)

----------------------------------------------------------------------------
(* Types *)

Plan == {None, "Attach", "Detach", "Add", "Remove", "Enable", "Disable"}
Reason == {None, "Terminating", "NodeNotEligible", "WaitingForReplica", "Pending", "NotLocal",
           "Attaching", "Detaching", "Attached", "Detached", "WaitingForReplicatedVolume"}
Transition == [plan : Plan, rev : Nat]
Mesh == [rev : Nat, type : [Nodes -> {None, "D", "A"}], att : SUBSET Nodes, multi : BOOLEAN,
         at : [Nodes -> Transition], mt : [Nodes -> Transition], xt : Transition]
RV == [ex : BOOLEAN, del : BOOLEAN, csi : BOOLEAN, ctl : BOOLEAN, dm : Mesh]
Status == [reason : Reason, ready : BOOLEAN, use : BOOLEAN]
RVA == [ex : BOOLEAN, del : BOOLEAN, csi : BOOLEAN, ctl : BOOLEAN, status : Status]
RVR == [ex : {None, "live", "deleting"}, fin : BOOLEAN, rev : Nat, ready : BOOLEAN,
        use : BOOLEAN]
View == [rv : RV, rva : [Names -> RVA], rvr : [Nodes -> RVR], dropped : SUBSET Nodes,
         err : BOOLEAN]

ApiType == rv \in RV /\ rva \in [Names -> RVA] /\ rvr \in [Nodes -> RVR] /\ pri \in SUBSET Nodes
PassType ==
    /\ pc \in {"idle", "process", "form", "conditions", "metadata", "publish", "orphan",
               "deletion", "purge"}
    /\ view \in View /\ mem \in Mesh
BudgetType == budget \in [scenario : DOMAIN Scenarios, left : Nat]
TypeOK == ApiType /\ PassType /\ BudgetType

\* The constants of the model are objects of their types.
LEMMA Constants ==
    /\ Idle \in Transition /\ NoMesh \in Mesh
    /\ NoRV \in RV /\ NewRV \in RV
    /\ NoStatus \in Status /\ NoRVA \in RVA /\ \A b \in BOOLEAN : NewRVA(b) \in RVA
    /\ NoRVR \in RVR /\ NewRVR \in RVR
    /\ NoView \in View
<1>1. Idle \in Transition
  BY DEF Idle, Transition, Plan, None
<1>2. NoMesh \in Mesh
  BY <1>1 DEF NoMesh, Mesh, None
<1>3. NoRV \in RV /\ NewRV \in RV
  BY <1>2, Zenon DEF NoRV, NewRV, RV
<1>4. NoStatus \in Status
  BY DEF NoStatus, Status, Reason, None
<1>5. NoRVA \in RVA /\ \A b \in BOOLEAN : NewRVA(b) \in RVA
  BY <1>4, Zenon DEF NoRVA, NewRVA, RVA
<1>6. NoRVR \in RVR /\ NewRVR \in RVR
  BY Zenon DEF NoRVR, NewRVR, RVR, None
<1>7. NoView \in View
  BY <1>3, <1>5, <1>6 DEF NoView, View
<1> QED BY <1>1, <1>2, <1>3, <1>4, <1>5, <1>6, <1>7

\* A volume that is not there, or is new, has no datamesh.
LEMMA Fresh ==
    /\ ~NoRV.ex /\ ~NoRV.del /\ ~NoRV.csi /\ ~NoRV.ctl /\ NoRV.dm = NoMesh
    /\ NewRV.ex /\ ~NewRV.del /\ NewRV.csi /\ ~NewRV.ctl /\ NewRV.dm = NoMesh
    /\ NoMesh.rev = 0 /\ NoMesh.att = {}
    /\ \A n \in Nodes : NoMesh.type[n] = None /\ NoMesh.at[n] = Idle /\ NoMesh.mt[n] = Idle
<1>1. NoRV.dm = NoMesh /\ NewRV.dm = NoMesh
  BY Zenon DEF NoRV, NewRV
<1>2. /\ ~NoRV.ex /\ ~NoRV.del /\ ~NoRV.csi /\ ~NoRV.ctl
      /\ NewRV.ex /\ ~NewRV.del /\ NewRV.csi /\ ~NewRV.ctl
  BY DEF NoRV, NewRV
<1>3. /\ NoMesh.rev = 0 /\ NoMesh.att = {}
      /\ \A n \in Nodes : NoMesh.type[n] = None /\ NoMesh.at[n] = Idle /\ NoMesh.mt[n] = Idle
  BY DEF NoMesh
<1> QED BY <1>1, <1>2, <1>3

\* What the API server makes of a write.
LEMMA KeptType ==
    /\ \A o \in RVA : Kept(o, NoRVA) \in RVA /\ Marked(o, NoRVA) \in RVA
    /\ \A o \in RV : Kept(o, NoRV) \in RV /\ Marked(o, NoRV) \in RV
<1>1. NoRVA \in RVA /\ NoRV \in RV
  BY Constants, Zenon
<1>2. \A o \in RVA : [o EXCEPT !.del = TRUE] \in RVA
  BY Zenon DEF RVA
<1>3. \A o \in RV : [o EXCEPT !.del = TRUE] \in RV
  BY Zenon DEF RV
<1> QED BY <1>1, <1>2, <1>3, Zenon DEF Kept, Marked

\* The scenario never changes.
LEMMA ScenarioStays ==
    ASSUME BudgetType, UNCHANGED budget \/ \E kind : Event(kind)
    PROVE  BudgetType' /\ budget'.scenario = budget.scenario /\ Sc' = Sc
BY DEF BudgetType, Event, Sc

\* The conditions of the attachments are conditions.
LEMMA StatusType ==
    ASSUME view \in View, NEW m
    PROVE  /\ rvaStatus(m) \in [Names -> Status]
           /\ Waiting \in [Names -> Status]
<1>1. \A n : AttachBlocked(m, n) \in Reason /\ DetachBlocked(m, n) \in Reason
  BY DEF AttachBlocked, DetachBlocked, Reason
<1>2. \A n : AttachmentConditionReason(m, n) \in Reason
  BY <1>1 DEF AttachmentConditionReason, Reason
<1>3. \A x \in Names : NodeOf(x) \in Nodes /\ view.rvr[NodeOf(x)].use \in BOOLEAN
  BY DEF Names, NodeOf, View, RVR
<1>4. rvaStatus(m) \in [Names -> Status]
  BY <1>2, <1>3 DEF rvaStatus, Status
<1>5. Waiting \in [Names -> Status]
  BY DEF Waiting, Status, Reason
<1> QED BY <1>4, <1>5

\* Writing conditions keeps the attachments typed, and all of them but their conditions.
LEMMA WithStatusEffect ==
    ASSUME NEW o \in [Names -> RVA], NEW st \in [Names -> Status], NEW done
    PROVE  /\ WithStatus(o, st, done) \in [Names -> RVA]
           /\ \A x \in Names : LET w == WithStatus(o, st, done)[x] IN
                 w.ex = o[x].ex /\ w.del = o[x].del /\ w.csi = o[x].csi /\ w.ctl = o[x].ctl
BY DEF WithStatus, RVA

\* The pass is over.
LEMMA EndedType ==
    ASSUME NEW again, Ended(again)
    PROVE  PassType'
BY Constants DEF Ended, PassType

\* What a pass records about the objects it loaded.
LEMMA ViewUpdates ==
    ASSUME NEW w \in View, NEW o \in [Names -> RVA], NEW d \in SUBSET Nodes, NEW e \in BOOLEAN,
           NEW v \in RV, NEW r \in [Nodes -> RVR]
    PROVE  /\ [w EXCEPT !.rva = o] \in View /\ [w EXCEPT !.rvr = r] \in View
           /\ [w EXCEPT !.rva = o, !.dropped = d] \in View
           /\ [w EXCEPT !.rva = o, !.err = e] \in View
           /\ [w EXCEPT !.rva = o, !.err = e, !.rv = v] \in View
<1>1. [w EXCEPT !.rva = o] \in View /\ [w EXCEPT !.rvr = r] \in View
  BY ZenonT(30) DEF View
<1>2. [w EXCEPT !.rva = o, !.dropped = d] \in View
  BY ZenonT(30) DEF View
<1>3. [w EXCEPT !.rva = o, !.err = e] \in View
  BY ZenonT(30) DEF View
<1>4. [w EXCEPT !.rva = o, !.err = e, !.rv = v] \in View
  BY ZenonT(30) DEF View
<1> QED BY <1>1, <1>2, <1>3, <1>4, Zenon

\* What the membership dispatcher does to the working copy.
LEMMA MembershipEffect ==
    ASSUME mem \in Mesh, NEW n \in Nodes, DispatchMembership(n)
    PROVE  /\ mem' \in Mesh /\ mem'.rev = mem.rev + 1 /\ mem'.att = mem.att /\ mem'.at = mem.at
           /\ \/ /\ addAccess(mem, n) /\ mem'.type = [mem.type EXCEPT ![n] = "A"]
                 /\ mem'.mt = [mem.mt EXCEPT ![n] = Begun(mem, "Add")]
              \/ /\ removeAccess(mem, n) /\ mem'.type = [mem.type EXCEPT ![n] = None]
                 /\ mem'.mt = [mem.mt EXCEPT ![n] = Begun(mem, "Remove")]
<1>1. Begun(mem, "Add") \in Transition /\ Begun(mem, "Remove") \in Transition
  BY DEF Begun, Transition, Mesh, Plan
<1>2. /\ mem.rev + 1 \in Nat
      /\ \A t \in Transition : [mem.mt EXCEPT ![n] = t] \in [Nodes -> Transition]
      /\ [mem.type EXCEPT ![n] = "A"] \in [Nodes -> {None, "D", "A"}]
      /\ [mem.type EXCEPT ![n] = None] \in [Nodes -> {None, "D", "A"}]
  BY DEF Mesh
<1>3. CASE /\ addAccess(mem, n)
           /\ mem' = [mem EXCEPT !.rev = @ + 1, !.type[n] = "A", !.mt[n] = Begun(mem, "Add")]
  BY <1>1, <1>2, <1>3, ZenonT(30) DEF Mesh
<1>4. CASE /\ removeAccess(mem, n)
           /\ mem' = [mem EXCEPT !.rev = @ + 1, !.type[n] = None, !.mt[n] = Begun(mem, "Remove")]
  BY <1>1, <1>2, <1>4, ZenonT(30) DEF Mesh
<1> QED BY <1>3, <1>4, Zenon DEF DispatchMembership, Computed

\* What the multiattach dispatcher does to it.
LEMMA ToggleEffect ==
    ASSUME mem \in Mesh, NEW n \in Nodes, DispatchToggle
    PROVE  /\ mem' \in Mesh /\ mem'.rev = mem.rev + 1 /\ mem'.att = mem.att /\ mem'.at = mem.at
           /\ mem'.type = mem.type /\ mem'.mt = mem.mt
<1>1. Begun(mem, "Enable") \in Transition /\ Begun(mem, "Disable") \in Transition /\ mem.rev + 1 \in Nat
  BY DEF Begun, Transition, Mesh, Plan
<1>2. CASE mem' = [mem EXCEPT !.rev = @ + 1, !.multi = TRUE, !.xt = Begun(mem, "Enable")]
  BY <1>1, <1>2, ZenonT(30) DEF Mesh
<1>3. CASE mem' = [mem EXCEPT !.rev = @ + 1, !.multi = FALSE, !.xt = Begun(mem, "Disable")]
  BY <1>1, <1>3, ZenonT(30) DEF Mesh
<1> QED BY <1>2, <1>3, Zenon DEF DispatchToggle, Computed

\* What the attachment dispatcher does to it.
LEMMA AttachmentEffect ==
    ASSUME mem \in Mesh, NEW n \in Nodes, DispatchAttachment(n)
    PROVE  /\ mem' \in Mesh /\ mem'.rev = mem.rev + 1 /\ mem'.type = mem.type /\ mem'.mt = mem.mt
           /\ ~MembershipDue(mem)
           /\ \/ /\ detach(mem, n) /\ mem'.att = mem.att \ {n}
                 /\ mem'.at = [mem.at EXCEPT ![n] = Begun(mem, "Detach")]
              \/ /\ attach(mem, n) /\ mem'.att = mem.att \cup {n}
                 /\ mem'.at = [mem.at EXCEPT ![n] = Begun(mem, "Attach")]
<1>1. Begun(mem, "Attach") \in Transition /\ Begun(mem, "Detach") \in Transition
  BY DEF Begun, Transition, Mesh, Plan
<1>2. /\ mem.rev + 1 \in Nat /\ mem.att \ {n} \in SUBSET Nodes /\ mem.att \cup {n} \in SUBSET Nodes
      /\ \A t \in Transition : [mem.at EXCEPT ![n] = t] \in [Nodes -> Transition]
  BY DEF Mesh
<1>3. ~MembershipDue(mem)
  BY Zenon DEF DispatchAttachment
<1>4. CASE /\ detach(mem, n)
           /\ mem' = [mem EXCEPT !.rev = @ + 1, !.att = mem.att \ {n}, !.at[n] = Begun(mem, "Detach")]
  BY <1>1, <1>2, <1>3, <1>4, ZenonT(30) DEF Mesh
<1>5. CASE /\ attach(mem, n)
           /\ mem' = [mem EXCEPT !.rev = @ + 1, !.att = mem.att \cup {n}, !.at[n] = Begun(mem, "Attach")]
  BY <1>1, <1>2, <1>3, <1>5, ZenonT(30) DEF Mesh
<1> QED BY <1>4, <1>5, Zenon DEF DispatchAttachment, Computed

\* Every step of the engine keeps the working copy typed.
LEMMA EngineType ==
    ASSUME TypeOK, NEW n \in Nodes,
           \/ SettleAttachment(n) \/ SettleMembership(n) \/ SettleToggle
           \/ DispatchMembership(n) \/ DispatchToggle \/ DispatchAttachment(n) \/ Finalize
    PROVE  TypeOK'
<1>1. UNCHANGED <<rv, rva, rvr, pri, budget, view>>
  BY DEF SettleAttachment, SettleMembership, SettleToggle, DispatchMembership, DispatchToggle,
         DispatchAttachment, Finalize, Computed, apis, kernel
<1>2. pc' \in {"process", "conditions"}
  BY DEF SettleAttachment, SettleMembership, SettleToggle, DispatchMembership, DispatchToggle,
         DispatchAttachment, Finalize, Computed
<1>3. mem' \in Mesh
  <2>1. mem \in Mesh
    BY DEF TypeOK, PassType
  <2>2. /\ [mem EXCEPT !.at[n] = Idle] \in Mesh /\ [mem EXCEPT !.mt[n] = Idle] \in Mesh
        /\ [mem EXCEPT !.xt = Idle] \in Mesh
    BY <2>1, Constants, Zenon DEF Mesh
  <2>3. CASE SettleAttachment(n) \/ SettleMembership(n) \/ SettleToggle \/ Finalize
    BY <2>1, <2>2, <2>3 DEF SettleAttachment, SettleMembership, SettleToggle, Finalize, Computed
  <2> QED BY Zenon, <2>1, <2>3, MembershipEffect, ToggleEffect, AttachmentEffect
<1> QED BY <1>1, <1>2, <1>3 DEF TypeOK, ApiType, PassType, BudgetType

\* So do the steps of the pass around it.
LEMMA BeginType ==
    ASSUME TypeOK, Begin \/ reconcileMetadata \/ reconcileCreateAccessReplicas \/ Conditions
    PROVE  TypeOK'
<1>0. rv \in RV /\ rva \in [Names -> RVA] /\ rvr \in [Nodes -> RVR] /\ view \in View
      /\ mem \in Mesh
  BY DEF TypeOK, ApiType, PassType
<1>1. \A v \in RV : Loaded(v) \in View /\ v.dm \in Mesh
  BY <1>0 DEF Loaded, View, RV
<1>2. CASE Begin
  BY <1>0, <1>1, <1>2, Constants
     DEF Begin, BeginWith, Begins, TypeOK, ApiType, PassType, BudgetType, kernel
<1>3. CASE reconcileMetadata
  <2>1. WithFinalizer(rv) \in RV
    BY <1>0, Zenon DEF WithFinalizer, RV
  <2>2. rv' \in RV /\ UNCHANGED <<rva, rvr, pri, budget>>
    BY <1>3, <2>1, KeptType DEF reconcileMetadata, WriteRV, kernel
  <2>3. PassType'
    BY <1>1, <1>3, <2>1 DEF reconcileMetadata, Begins, TypeOK, PassType, ctrl
  <2> QED BY <2>2, <2>3 DEF TypeOK, ApiType, BudgetType
<1>4. CASE reconcileCreateAccessReplicas
  <2>1. rvr' \in [Nodes -> RVR] /\ view' \in View
    BY <1>0, <1>4, Constants DEF reconcileCreateAccessReplicas, View
  <2> QED BY <1>4, <2>1 DEF reconcileCreateAccessReplicas, TypeOK, ApiType, PassType, BudgetType, kernel
<1>5. CASE Conditions
  <2>0. \A r \in RVR : [r EXCEPT !.ex = "deleting"] \in RVR
    BY DEF RVR
  <2>1. PICK done \in SUBSET StatusDue(rvaStatus(mem)) :
          /\ rva' = WithStatus(rva, rvaStatus(mem), done)
          /\ \/ Ended(TRUE)
             \/ /\ pc' = "metadata" /\ UNCHANGED mem
                /\ view' = [view EXCEPT !.rva = WithStatus(@, rvaStatus(mem), done),
                                        !.dropped = {n \in Nodes : accessUnused(n)}]
    BY <1>5, Zenon DEF Conditions
  <2>2. rva' \in [Names -> RVA] /\ WithStatus(view.rva, rvaStatus(mem), done) \in [Names -> RVA]
    BY <1>0, <2>1, StatusType, WithStatusEffect DEF View
  <2>3. rvr' \in [Nodes -> RVR]
    BY <1>0, <1>5, <2>0, Zenon DEF Conditions
  <2>4. PassType'
    <3>1. CASE Ended(TRUE)
      BY Zenon, <3>1, EndedType
    <3>2. CASE /\ pc' = "metadata" /\ UNCHANGED mem
               /\ view' = [view EXCEPT !.rva = WithStatus(@, rvaStatus(mem), done),
                                       !.dropped = {n \in Nodes : accessUnused(n)}]
      <4>1. {n \in Nodes : accessUnused(n)} \in SUBSET Nodes
        OBVIOUS
      <4>2. view' \in View
        BY Zenon, <1>0, <2>2, <3>2, <4>1, ViewUpdates
      <4> QED BY <1>0, <3>2, <4>2 DEF PassType
    <3> QED BY Zenon, <2>1, <3>1, <3>2
  <2> QED BY <1>5, <2>2, <2>3, <2>4, Zenon DEF Conditions, TypeOK, ApiType, BudgetType, kernel
<1> QED BY <1>2, <1>3, <1>4, <1>5

\* So do formation, the orphans and the deletion.
LEMMA WaitingType ==
    ASSUME TypeOK, reconcileFormation \/ reconcileOrphaned \/ reconcileDeletion
    PROVE  TypeOK'
<1>0. rv \in RV /\ rva \in [Names -> RVA] /\ rvr \in [Nodes -> RVR] /\ view \in View
      /\ mem \in Mesh /\ view.rva \in [Names -> RVA] /\ view.rv \in RV
  BY DEF TypeOK, ApiType, PassType, View
<1>1. \A done : /\ WithStatus(rva, Waiting, done) \in [Names -> RVA]
                /\ WithStatus(view.rva, Waiting, done) \in [Names -> RVA]
  BY <1>0, StatusType, WithStatusEffect
<1>2. CASE reconcileFormation
  <2>1. rva' \in [Names -> RVA]
    BY <1>1, <1>2, Zenon DEF reconcileFormation
  <2>2. rvr' \in [Nodes -> RVR]
    BY <1>0, <1>2, Constants, Zenon DEF reconcileFormation
  <2>3. PassType'
    <3>1. CASE Ended(TRUE)
      BY Zenon, <3>1, EndedType
    <3>2. ASSUME NEW done, pc' = "metadata", view' = [view EXCEPT !.rva = WithStatus(@, Waiting, done)]
          PROVE  view' \in View
      BY <1>0, <1>1, <3>2 DEF View
    <3>3. [NoMesh EXCEPT !.rev = 1, !.type = [n \in Nodes |-> IF n \in Sc.disk THEN "D" ELSE None]] \in Mesh
      BY Constants, Zenon DEF NoMesh, Mesh
    <3> QED BY <1>0, <1>2, <3>1, <3>2, <3>3, Zenon DEF reconcileFormation, PassType
  <2> QED BY <1>2, <2>1, <2>2, <2>3, Zenon DEF reconcileFormation, TypeOK, ApiType, BudgetType, kernel
<1>3. CASE reconcileOrphaned
  <2>1. PICK done : /\ rva' = WithStatus(rva, Waiting, done)
                    /\ view' = [view EXCEPT !.rva = WithStatus(@, Waiting, done),
                                            !.err = StatusConflicts(Waiting) # {}]
    BY <1>3, Zenon DEF reconcileOrphaned
  <2>2. view' \in View
    BY <1>0, <1>1, <2>1, ZenonT(30) DEF View
  <2> QED BY Zenon, <1>0, <1>1, <1>3, <2>1, <2>2
         DEF reconcileOrphaned, TypeOK, ApiType, PassType, BudgetType, kernel
<1>4. CASE reconcileDeletion
  <2>0. \A r \in RVR : [r EXCEPT !.ex = "deleting", !.fin = FALSE] \in RVR
    BY Zenon DEF RVR
  <2>1. PICK done :
          /\ rva' = WithStatus(rva, Waiting, done)
          /\ view' = [view EXCEPT !.rva = WithStatus(@, Waiting, done),
                                  !.err = deletionFails \/ (clearsMembers /\ rv # view.rv),
                                  !.rv = IF clearsMembers /\ rv = view.rv THEN rv' ELSE @]
    BY <1>4, Zenon DEF reconcileDeletion
  <2>2. rvr' \in [Nodes -> RVR]
    <3>1. PICK gone : rvr' = [n \in Nodes |-> IF n \in gone /\ rvr[n].ex # None
                                     THEN [rvr[n] EXCEPT !.ex = "deleting", !.fin = FALSE]
                                     ELSE rvr[n]]
      BY <1>4, Zenon DEF reconcileDeletion
    <3> QED BY Zenon, <1>0, <2>0, <3>1
  <2>3. Cleared(mem) \in Mesh
    BY <1>0, ZenonT(30) DEF Cleared, Mesh
  <2>4. rv' \in RV
    <3>1. [rv EXCEPT !.dm = Cleared(mem)] \in RV
      BY <1>0, <2>3 DEF RV
    <3> QED BY <1>0, <1>4, <3>1, Zenon DEF reconcileDeletion, WriteRV
  <2>5. view' \in View
    <3>1. (IF clearsMembers /\ rv = view.rv THEN rv' ELSE view.rv) \in RV
      BY <1>0, <2>4
    <3> QED BY <1>0, <1>1, <2>1, <3>1, ZenonT(30) DEF View
  <2> QED BY Zenon, <1>0, <1>1, <1>4, <2>1, <2>2, <2>4, <2>5
         DEF reconcileDeletion, TypeOK, ApiType, PassType, BudgetType, kernel
<1> QED BY <1>2, <1>3, <1>4

\* Removing and adding the finalizers of the attachments.
LEMMA MetadataType ==
    ASSUME rva \in [Names -> RVA], NEW m, NEW done, reconcileRVAMetadata(m, done)
    PROVE  rva' \in [Names -> RVA]
<1>1. \A x \in Names : [rva[x] EXCEPT !.ctl = finalizerWanted(m, x)] \in RVA
  <2>1. \A x \in Names : finalizerWanted(m, x) \in BOOLEAN
    BY DEF finalizerWanted
  <2> QED BY <2>1 DEF RVA
<1> QED BY <1>1, KeptType DEF reconcileRVAMetadata

\* So do the writes that end a pass.
LEMMA WriteType ==
    ASSUME TypeOK, Metadata \/ Purge \/ Publish \/ Crash
    PROVE  TypeOK'
<1>0. rv \in RV /\ rva \in [Names -> RVA] /\ rvr \in [Nodes -> RVR] /\ view \in View
      /\ mem \in Mesh
  BY DEF TypeOK, ApiType, PassType
<1>1. CASE Metadata
  <2>1. rva' \in [Names -> RVA]
    BY <1>0, <1>1, MetadataType DEF Metadata
  <2>2. rvr' \in [Nodes -> RVR]
    <3>1. \A n \in Nodes : rvrFinalizerWanted(n) \in BOOLEAN
      BY DEF rvrFinalizerWanted
    <3>2. \A n \in Nodes : [rvr[n] EXCEPT !.fin = rvrFinalizerWanted(n)] \in RVR
      BY <1>0, <3>1 DEF RVR
    <3> QED BY <1>0, <1>1, <3>2, Zenon DEF Metadata, reconcileRVRFinalizers
  <2>3. PassType'
    BY <1>0, <1>1, EndedType, Zenon DEF Metadata, PassType
  <2> QED BY <1>1, <2>1, <2>2, <2>3 DEF Metadata, TypeOK, ApiType, BudgetType, kernel
<1>2. CASE Purge
  <2>1. rva' \in [Names -> RVA]
    BY <1>0, <1>2, MetadataType DEF Purge
  <2>2. rv' \in RV
    <3>1. [rv EXCEPT !.ctl = FALSE] \in RV
      BY <1>0, Zenon DEF RV
    <3> QED BY <1>0, <1>2, <3>1, KeptType DEF Purge, WriteRV
  <2>3. PassType'
    BY <1>2, EndedType DEF Purge
  <2> QED BY <1>0, <1>2, <2>1, <2>2, <2>3 DEF Purge, TypeOK, ApiType, BudgetType, kernel
<1>3. CASE Publish
  <2>1. rv' \in RV
    <3>1. [rv EXCEPT !.dm = mem] \in RV
      BY <1>0 DEF RV
    <3> QED BY <1>0, <1>3, <3>1 DEF Publish, WriteRV
  <2>2. PassType'
    BY <1>3, EndedType DEF Publish
  <2> QED BY <1>0, <1>3, <2>1, <2>2 DEF Publish, TypeOK, ApiType, BudgetType, kernel
<1>4. CASE Crash
  <2>1. PassType'
    BY <1>4, EndedType, Zenon DEF Crash
  <2> QED BY <1>4, <2>1, ScenarioStays DEF Crash, TypeOK, ApiType, apis, kernel
<1> QED BY <1>1, <1>2, <1>3, <1>4

----------------------------------------------------------------------------
(* The inductive invariant *)

\* A datamesh: only members are attached, a Detach takes the flag at once, and nothing is
\* dated after the revision.
MeshOK(m) ==
    /\ Members(m) # {} => Formed(m)
    /\ \A n \in Nodes :
          /\ n \in m.att => m.type[n] # None
          /\ m.at[n].plan = "Detach" => n \notin m.att
          /\ m.at[n].rev <= m.rev /\ m.mt[n].rev <= m.rev
          /\ m.type[n] = "D" => n \in Sc.disk
    /\ ~Formed(m) => m = NoMesh

\* Where the volume is used, in the datamesh or in the kernel.
InUse(n) == n \in rv.dm.att \/ n \in pri
\* The attachment of the node is there and the controller holds it.
Held(n) == rva[Csi(n)].ex /\ rva[Csi(n)].ctl

\* The volume: it is there, and held, while replicas are; it is not deleted before the
\* controller holds it.
VolumeInv ==
    /\ ~rv.ex => rv = NoRV
    /\ SomeRVR(rvr) => rv.ex /\ rv.ctl
    /\ rv.csi /\ (Formed(rv.dm) \/ SomeRVR(rvr)) => \A n \in Sc.disk : rvr[n].ex = "live"
    /\ rv.del => rv.ctl /\ (rv.csi => SomeRVR(rvr))
    /\ vol \in {"drop", "discarding"} => ~rv.csi

\* The replicas and the attachments.
ObjectInv ==
    /\ \A n \in Nodes :
          /\ rvr[n].ex = None => rvr[n] = NoRVR
          /\ rvr[n].rev <= rv.dm.rev
          /\ rvr[n].ready => rvr[n].rev > 0
          /\ rvr[n].ex = "deleting" /\ n \in Sc.disk => rv.del /\ ~rv.csi
          /\ ~rva[<<n, "user">>].ex

\* A node in use runs a live replica of a member and its attachment is held; a primary is
\* attached, or has not confirmed its Detach.
UseOK(n) ==
    /\ InUse(n) => Held(n) /\ rvr[n].ex = "live" /\ rvr[n].rev > 0 /\ rv.dm.type[n] # None
    /\ n \in pri => \/ n \in rv.dm.att
                    \/ rv.dm.at[n].plan = "Detach" /\ rvr[n].rev < rv.dm.at[n].rev
UseInv == \A n \in Nodes : UseOK(n)

Normal == {"process", "form", "conditions", "metadata", "publish"}

\* What the pass loaded, against what is there.
ViewInv ==
    /\ pc # "idle" =>
          \A n \in Nodes : ~view.rva[<<n, "user">>].ex /\ (~HasRVR(n) => view.rvr[n] = NoRVR)
    /\ pc \notin {"idle", "publish"} =>
          \A n \in Nodes : view.rva[Csi(n)].ex /\ view.rva[Csi(n)].ctl => Held(n)
    /\ pc \in Normal =>
          \A n \in Nodes :
             /\ view.rvr[n].rev <= rv.dm.rev
             /\ view.rvr[n].ready => view.rvr[n].rev > 0
             /\ rv.dm.type[n] # None /\ rvr[n].ex # None => view.rvr[n].rev <= rvr[n].rev
             /\ InUse(n) => HasRVR(n) /\ view.rvr[n].rev > 0
             /\ view.rvr[n].ex = "deleting" /\ n \in Sc.disk => view.rv.del
             /\ n \in Sc.disk /\ HasRVR(n) /\ rv.csi => rvr[n].ex = "live"
    /\ pc \in {"process", "form"} =>
          \A n \in Nodes : view.rvr[n].ex = "live" => rvr[n].ex = "live"
    /\ pc \in {"deletion", "purge"} =>
          \A n \in Nodes : rvr[n].ex # None => HasRVR(n)

\* The volume is what the pass loaded, but for what CSI and users may do to it.
LoadedInv ==
    /\ pc \in Normal /\ view.rv.ex => rv.ex /\ rv.ctl
    /\ pc \in {"process", "form", "conditions"} => view.rv.ex
    /\ pc = "form" => ~Formed(rv.dm) /\ mem = NoMesh
    /\ pc = "deletion" => mem = rv.dm
    /\ pc = "process" => Formed(rv.dm)
    /\ pc \in Normal \cup {"orphan"} /\ ~view.rv.ex =>
          mem = NoMesh /\ ~SomeRVR(rvr) /\ ~SomeRVR(view.rvr)
    /\ pc = "orphan" => ~view.rv.ex /\ rv.dm = NoMesh
    /\ pc \in Normal \cup {"orphan"} => view.rv.dm = rv.dm
    /\ pc \in {"deletion", "purge"} =>
          rv.ex /\ rv.del /\ ~rv.csi /\ rv.ctl /\ rv.dm.att = {} /\ pri = {}

\* What the pass computes, against what is published: what mem lets go of is not in use, what
\* it takes is wanted and runs.
Released(n) ==
    /\ InUse(n) => n \in mem.att \/ (mem.at[n].plan = "Detach" /\ mem.type[n] # None)
    /\ mem.at[n].plan = "Detach" => mem.at[n].rev > rv.dm.rev \/ mem.at[n] = rv.dm.at[n]
Taken(n) ==
    n \in mem.att => /\ rvr[n].ex = "live" /\ rvr[n].rev > 0 /\ rv.dm.type[n] # None /\ HasRVR(n)
                     /\ n \in rv.dm.att \/ hasActiveRVA(n)
Joined(n) ==
    mem.type[n] # None => \/ rv.dm.type[n] # None
                          \/ mem.mt[n].plan = "Add" /\ mem.mt[n].rev > rv.dm.rev
\* A datamesh is formed once all the diskful replicas are there.
PassFormed == Formed(mem) => Formed(rv.dm) \/ \A n \in Sc.disk : HasRVR(n)
PassInv ==
    /\ pc \in Normal => /\ MeshOK(mem) /\ mem.rev >= rv.dm.rev
                        /\ \A n \in Nodes : Released(n) /\ Taken(n)
                        /\ PassFormed
    /\ pc = "process" => \A n \in Nodes : Joined(n)
    /\ pc = "publish" => \A n \in mem.att : Held(n)

StaticInv == MeshOK(rv.dm) /\ VolumeInv /\ ObjectInv /\ UseInv
AttInv == StaticInv /\ ViewInv /\ LoadedInv /\ PassInv

----------------------------------------------------------------------------
(* The invariant is kept by everybody but the controller and the nodes *)

\* What CSI, its callers and users do: attachments the controller holds stay, and the volume
\* is created, marked for deletion, let go of by CSI, or goes when the controller does not
\* hold it.
OutsideStep ==
    /\ UNCHANGED <<rvr, pri, pc, view, mem>>
    /\ BudgetType' /\ Sc' = Sc
    /\ rva' \in [Names -> RVA] /\ rv' \in RV
    /\ \A n \in Nodes : ~rva'[<<n, "user">>].ex /\ (Held(n) => Held(n)')
    /\ \/ /\ rv'.ex = rv.ex /\ rv'.dm = rv.dm /\ rv'.ctl = rv.ctl /\ (~rv.ex => rv' = rv)
          /\ rv'.csi => rv.csi
          /\ rv.del => rv'.del
          /\ rv'.del => rv.ctl /\ (rv'.csi => SomeRVR(rvr))
       \/ rv' = NoRV /\ ~rv.ctl
       \/ rv' = NewRV /\ ~rv.ex
    /\ vol' \in {"drop", "discarding"} => ~rv'.csi

\* Such a step keeps the invariant: replicas imply that the controller holds the volume, so a
\* volume that comes or goes has none.
LEMMA OutsideKeeps ==
    ASSUME TypeOK, AttInv, OutsideStep
    PROVE  TypeOK' /\ AttInv'
<1>0. UNCHANGED <<rvr, pri, pc, view, mem>> /\ Sc' = Sc
  BY DEF OutsideStep
<1>1. TypeOK'
  BY <1>0 DEF OutsideStep, TypeOK, ApiType, PassType
<1>2. SomeRVR(rvr) => rv.ex /\ rv.ctl
  BY DEF AttInv, StaticInv, VolumeInv
<1>3. ~SomeRVR(rvr) => \A n \in Nodes : ~InUse(n) /\ rvr[n] = NoRVR
  BY Zenon DEF AttInv, StaticInv, UseInv, UseOK, ObjectInv, SomeRVR, None
<1>4. CASE /\ rv'.ex = rv.ex /\ rv'.dm = rv.dm /\ rv'.ctl = rv.ctl /\ (~rv.ex => rv' = rv)
           /\ rv'.csi => rv.csi
           /\ rv.del => rv'.del
           /\ rv'.del => rv.ctl /\ (rv'.csi => SomeRVR(rvr))
  <2>1. MeshOK(rv.dm)' /\ VolumeInv'
    BY <1>0, <1>4, Zenon DEF AttInv, StaticInv, MeshOK, VolumeInv, OutsideStep, NoRV, SomeRVR, Formed, Members, NoMesh
  <2>2. ObjectInv'
    BY <1>0, <1>4 DEF AttInv, StaticInv, ObjectInv, OutsideStep
  <2>3. UseInv'
    BY <1>0, <1>4, Zenon DEF AttInv, StaticInv, UseInv, UseOK, InUse, OutsideStep
  <2>4. ViewInv'
    BY <1>0, <1>4, Zenon DEF AttInv, StaticInv, ViewInv, InUse, HasRVR, Normal, OutsideStep
  <2>5. LoadedInv'
    BY <1>0, <1>4 DEF AttInv, StaticInv, LoadedInv, Normal, Formed, SomeRVR
  <2>6. PassInv'
    <3>1. \A n \in Nodes : hasActiveRVA(n)' <=> hasActiveRVA(n)
      BY <1>0 DEF hasActiveRVA
    <3>2. MeshOK(mem)' <=> MeshOK(mem)
      BY <1>0 DEF MeshOK, Formed, Members, NoMesh
    <3>3. \A n \in Nodes : /\ Released(n)' <=> Released(n)
                           /\ Taken(n)' <=> Taken(n)
                           /\ Joined(n)' <=> Joined(n)
      BY <1>0, <1>4, <3>1 DEF Released, Taken, Joined, HasRVR, InUse
    <3>4. \A n \in Nodes : Held(n) => Held(n)'
      BY Zenon DEF OutsideStep
    <3>5. mem.att \subseteq Nodes
      BY DEF TypeOK, PassType, Mesh
    <3>6. PassFormed' <=> PassFormed
      BY <1>0, <1>4 DEF PassFormed, Formed, HasRVR
    <3> QED BY <1>0, <1>4, <3>2, <3>3, <3>4, <3>5, <3>6 DEF AttInv, StaticInv, PassInv, Normal
  <2> QED BY <1>1, <2>1, <2>2, <2>3, <2>4, <2>5, <2>6 DEF AttInv, StaticInv
<1>5. CASE rv' \in {NoRV, NewRV} /\ ~SomeRVR(rvr) /\ ~(rv.ex /\ rv.ctl)
  <2>0. rv'.dm = NoMesh /\ ~rv'.del /\ NoMesh.rev = 0 /\ NoMesh.att = {} /\ ~SomeRVR(rvr)'
    BY <1>0, <1>5, Fresh DEF SomeRVR
  <2>1. pc \in Normal \cup {"orphan"} => ~view.rv.ex /\ mem = NoMesh /\ rv.dm = NoMesh /\ rv'.dm = rv.dm
    <3>1. pc \in Normal \cup {"orphan"} => ~view.rv.ex /\ mem = NoMesh
      BY <1>5 DEF AttInv, StaticInv, LoadedInv
    <3>2. pc \in Normal => rv.dm.rev = 0
      BY <2>0, <3>1 DEF AttInv, StaticInv, PassInv, TypeOK, ApiType, RV, Mesh
    <3> QED BY <2>0, <3>1, <3>2 DEF AttInv, StaticInv, LoadedInv, MeshOK, Formed
  <2>2. MeshOK(rv.dm)'
    BY <1>0, <2>0 DEF MeshOK, NoMesh, Formed, Members, None, Idle
  <2>3. VolumeInv'
    BY <1>0, <1>5, <2>0, Fresh DEF VolumeInv, OutsideStep, Formed
  <2>4. ObjectInv'
    BY <1>0, <1>3, <1>5, <2>0 DEF ObjectInv, OutsideStep, NoRVR, None
  <2>5. \A n \in Nodes : ~InUse(n)'
    BY <1>0, <1>3, <1>5, <2>0 DEF InUse
  <2>6. UseInv'
    BY <2>5 DEF UseInv, UseOK, InUse
  <2>7. pc \notin {"process", "form", "conditions", "deletion", "purge"}
    BY <1>5, <2>1 DEF AttInv, StaticInv, LoadedInv, Normal
  <2>8. ViewInv'
    BY <1>0, <1>5, <2>0, <2>1, <2>5, <2>7, Zenon DEF AttInv, StaticInv, ViewInv, LoadedInv, HasRVR, Normal, OutsideStep, SomeRVR
  <2>9. LoadedInv'
    BY <1>0, <1>5, <2>0, <2>1, <2>7 DEF AttInv, StaticInv, LoadedInv, Normal, SomeRVR
  <2>10. PassInv'
    <3>1. MeshOK(mem)' <=> MeshOK(mem)
      BY <1>0 DEF MeshOK, Formed, Members, NoMesh
    <3>2. pc \in Normal => \A n \in Nodes : Released(n)' /\ Taken(n)'
      BY <1>0, <2>0, <2>1, <2>5, Zenon DEF Released, Taken, HasRVR, NoMesh, Idle, None
    <3>3. pc \in Normal => PassFormed'
      BY <1>0, <2>0, <2>1 DEF PassFormed, Formed
    <3> QED BY <1>0, <2>0, <2>1, <2>7, <3>1, <3>2, <3>3 DEF AttInv, StaticInv, PassInv, Normal
  <2> QED BY <1>1, <2>2, <2>3, <2>4, <2>6, <2>8, <2>9, <2>10 DEF AttInv, StaticInv
<1> QED BY <1>2, <1>4, <1>5 DEF OutsideStep

\* The names of attachments.
LEMMA NamesApart ==
    ASSUME NEW m \in Nodes, NEW n \in Nodes
    PROVE  /\ Csi(n) \in Names /\ <<n, "user">> \in Names /\ <<m, "user">> # Csi(n)
           /\ m # n => Csi(m) # Csi(n)
BY DEF Csi, Names

\* A new version of an attachment that is still held when the old one was.
Kin(o, w) == w \in RVA /\ (o.ex /\ o.ctl => w.ex /\ w.ctl)

LEMMA Versions ==
    ASSUME NEW o \in RVA
    PROVE  /\ Kin(o, o) /\ Kin(o, [o EXCEPT !.csi = TRUE])
           /\ Kin(o, Kept([o EXCEPT !.csi = FALSE], NoRVA)) /\ Kin(o, Marked(o, NoRVA))
           /\ Kin(o, Marked([o EXCEPT !.csi = FALSE], NoRVA))
           /\ ~o.ex => Kin(o, NewRVA(TRUE))
<1>1. \A w \in RVA : [w EXCEPT !.csi = TRUE] \in RVA /\ [w EXCEPT !.csi = FALSE] \in RVA
  BY Zenon DEF RVA
<1>2. /\ [o EXCEPT !.csi = TRUE] \in RVA /\ Kept([o EXCEPT !.csi = FALSE], NoRVA) \in RVA
      /\ Marked(o, NoRVA) \in RVA /\ Marked([o EXCEPT !.csi = FALSE], NoRVA) \in RVA
      /\ NewRVA(TRUE) \in RVA
  BY Zenon, <1>1, KeptType, Constants
<1> QED BY <1>2, Zenon DEF Kin, RVA, Kept, Marked

\* A step that only writes one attachment.
LEMMA OneAttachment ==
    ASSUME TypeOK, AttInv, NEW n \in Nodes, NEW w, Kin(rva[Csi(n)], w),
           rva' = [rva EXCEPT ![Csi(n)] = w], UNCHANGED <<rv, rvr, pri, pc, view, mem>>,
           vol' \notin {"drop", "discarding"} \/ vol' = vol,
           UNCHANGED budget \/ \E kind : Event(kind)
    PROVE  OutsideStep
<1>1. BudgetType' /\ Sc' = Sc
  BY ScenarioStays DEF TypeOK
<1>2. rva' \in [Names -> RVA] /\ rv' \in RV
  BY NamesApart, Zenon DEF TypeOK, ApiType, Kin
<1>3. ASSUME NEW m \in Nodes PROVE ~rva'[<<m, "user">>].ex /\ (Held(m) => Held(m)')
  <2>1. ~rva[<<m, "user">>].ex
    BY DEF AttInv, StaticInv, ObjectInv
  <2>2. rva'[<<m, "user">>] = rva[<<m, "user">>]
    BY NamesApart, Zenon DEF TypeOK, ApiType
  <2>3. rva'[Csi(m)] = IF m = n THEN w ELSE rva[Csi(m)]
    BY NamesApart, Zenon DEF TypeOK, ApiType
  <2> QED BY <2>1, <2>2, <2>3 DEF Held, Kin
<1>4. (rv.del => rv.ctl /\ (rv.csi => SomeRVR(rvr))) /\ (vol \in {"drop", "discarding"} => ~rv.csi)
  BY DEF AttInv, StaticInv, VolumeInv
<1> QED BY <1>1, <1>2, <1>3, <1>4 DEF OutsideStep

\* The calls for one node.
LEMMA CsiNodeOutside ==
    ASSUME TypeOK, AttInv, NEW n \in Nodes,
           \/ CsiNode(n) \/ ControllerPublishVolume(n) \/ ControllerUnpublishVolume(n)
           \/ CallFails(n)
    PROVE  OutsideStep
<1>1. ASSUME NEW from, NEW to, NEW w, Step(n, from, to, w), Kin(rva[Csi(n)], w),
             UNCHANGED budget \/ \E kind : Event(kind)
      PROVE  OutsideStep
  <2>1. rva' = [rva EXCEPT ![Csi(n)] = w] /\ UNCHANGED <<rv, rvr, pri, pc, view, mem, vol>>
    BY <1>1 DEF Step, kernel, ctrl
  <2> QED BY Zenon, <1>1, <2>1, OneAttachment
<1>2. rva[Csi(n)] \in RVA
  BY NamesApart, Zenon DEF TypeOK, ApiType
<1> DEFINE o == rva[Csi(n)]
<1>3. /\ Kin(o, o) /\ Kin(o, [o EXCEPT !.csi = TRUE])
      /\ Kin(o, Kept([o EXCEPT !.csi = FALSE], NoRVA)) /\ Kin(o, Marked(o, NoRVA))
      /\ ~o.ex => Kin(o, NewRVA(TRUE))
  BY Zenon, <1>2, Versions
<1>4. CASE EnsureRVA(n)
  BY <1>1, <1>3, <1>4, Zenon DEF EnsureRVA
<1>5. CASE createRVA(n)
  BY <1>1, <1>3, <1>5, Zenon DEF createRVA
<1>6. CASE DeleteRVA(n)
  BY <1>1, <1>3, <1>6, Zenon DEF DeleteRVA
<1>7. CASE WaitForRVAReady(n) \/ WaitForRVADeleted(n)
  BY <1>1, <1>3, <1>7, Zenon DEF WaitForRVAReady, WaitForRVADeleted
<1>8. CASE ControllerPublishVolume(n) \/ ControllerUnpublishVolume(n) \/ CallFails(n)
  BY <1>1, <1>3, <1>8, Zenon DEF ControllerPublishVolume, ControllerUnpublishVolume, CallFails
<1> QED BY <1>4, <1>5, <1>6, <1>7, <1>8 DEF CsiNode

\* A step of a call for the volume that does not write the volume.
LEMMA VolumeKept ==
    ASSUME TypeOK, AttInv, rva' \in [Names -> RVA], \A x \in Names : Kin(rva[x], rva'[x]),
           \A n \in Nodes : rva'[<<n, "user">>] = rva[<<n, "user">>],
           UNCHANGED <<rv, rvr, pri, pc, view, mem>>,
           vol' \notin {"drop", "discarding"} \/ ~rv.csi,
           UNCHANGED budget \/ \E kind : Event(kind)
    PROVE  OutsideStep
<1>1. BudgetType' /\ Sc' = Sc
  BY ScenarioStays DEF TypeOK
<1>2. rv' \in RV
  BY DEF TypeOK, ApiType
<1>3. ASSUME NEW m \in Nodes PROVE ~rva'[<<m, "user">>].ex /\ (Held(m) => Held(m)')
  BY NamesApart DEF AttInv, StaticInv, ObjectInv, Held, Kin
<1>4. rv.del => rv.ctl /\ (rv.csi => SomeRVR(rvr))
  BY DEF AttInv, StaticInv, VolumeInv
<1> QED BY <1>1, <1>2, <1>3, <1>4 DEF OutsideStep

\* One that writes it.
LEMMA VolumeWritten ==
    ASSUME TypeOK, AttInv, UNCHANGED <<rva, rvr, pri, pc, view, mem>>, rv' \in RV,
           UNCHANGED budget \/ \E kind : Event(kind),
           \/ /\ rv'.ex = rv.ex /\ rv'.dm = rv.dm /\ rv'.ctl = rv.ctl /\ (~rv.ex => rv' = rv)
              /\ rv'.csi => rv.csi
              /\ rv.del => rv'.del
              /\ rv'.del => rv.ctl /\ (rv'.csi => SomeRVR(rvr))
           \/ rv' = NoRV /\ ~rv.ctl
           \/ rv' = NewRV /\ ~rv.ex,
           vol' \notin {"drop", "discarding"} \/ ~rv'.csi
    PROVE  OutsideStep
<1>1. BudgetType' /\ Sc' = Sc
  BY ScenarioStays DEF TypeOK
<1>2. rva' \in [Names -> RVA]
  BY DEF TypeOK, ApiType
<1>3. ASSUME NEW m \in Nodes PROVE ~rva'[<<m, "user">>].ex /\ (Held(m) => Held(m)')
  BY DEF AttInv, StaticInv, ObjectInv, Held
<1> QED BY <1>1, <1>2, <1>3 DEF OutsideStep

\* Undoing an early attachment.
LEMMA Cleanup ==
    ASSUME TypeOK, cleanupEarlyRVA
    PROVE  /\ rva' \in [Names -> RVA] /\ \A x \in Names : Kin(rva[x], rva'[x])
           /\ \A n \in Nodes : rva'[<<n, "user">>] = rva[<<n, "user">>]
<1>1. \A x \in Names : /\ Kin(rva[x], rva[x])
                       /\ Kin(rva[x], Marked([rva[x] EXCEPT !.csi = FALSE], NoRVA))
  BY Versions, Zenon DEF TypeOK, ApiType
<1>2. \A x \in Names : Kin(rva[x], rva'[x])
  BY <1>1 DEF cleanupEarlyRVA
<1>3. \A n \in Nodes : rva'[<<n, "user">>] = rva[<<n, "user">>]
  BY NamesApart, Zenon DEF cleanupEarlyRVA, Csi
<1> QED BY <1>2, <1>3, Zenon DEF cleanupEarlyRVA, Kin

\* The volume after CSI removed its finalizer, and after it was marked.
LEMMA VolumeVersions ==
    ASSUME TypeOK, AttInv
    PROVE  /\ LET w == Kept([rv EXCEPT !.csi = FALSE], NoRV) IN
              /\ w \in RV /\ ~w.csi
              /\ \/ /\ w.ex = rv.ex /\ w.dm = rv.dm /\ w.ctl = rv.ctl /\ w.del = rv.del
                    /\ w.del => rv.ctl
                 \/ w = NoRV /\ ~rv.ctl
           /\ LET w == Marked(rv, NoRV) IN
              /\ w \in RV
              /\ \/ /\ w.ex = rv.ex /\ w.dm = rv.dm /\ w.ctl = rv.ctl /\ w.csi = rv.csi /\ w.del
                    /\ ~rv.csi => rv.ctl
                 \/ w = NoRV /\ ~rv.ctl
<1>1. rv \in RV /\ [rv EXCEPT !.csi = FALSE] \in RV /\ (rv.del => rv.ctl)
  BY Zenon DEF TypeOK, ApiType, RV, AttInv, StaticInv, VolumeInv
<1>2. Kept([rv EXCEPT !.csi = FALSE], NoRV) \in RV /\ Marked(rv, NoRV) \in RV
  BY <1>1, KeptType
<1> QED BY <1>1, <1>2, Fresh DEF RV, Kept, Marked

\* The calls for the volume.
LEMMA CsiVolumeOutside ==
    ASSUME TypeOK, AttInv,
           CsiVolume \/ CreateVolume \/ DeleteVolume \/ VolumeCallFails
    PROVE  OutsideStep
<1>0. \A from, to : VolStep(from, to) => UNCHANGED <<rvr, pri, pc, view, mem>> /\ vol = from /\ vol' = to
  BY DEF VolStep, kernel, ctrl
<1>1. \A x \in Names : rva[x] \in RVA /\ Kin(rva[x], rva[x])
  BY Versions, Zenon DEF TypeOK, ApiType
<1>2. rva \in [Names -> RVA] /\ (vol \in {"drop", "discarding"} => ~rv.csi)
  BY DEF TypeOK, ApiType, AttInv, StaticInv, VolumeInv
<1>3. ASSUME UNCHANGED <<rvr, pri, pc, view, mem>>, UNCHANGED <<rv, rva>>,
             vol' \notin {"drop", "discarding"}, UNCHANGED budget \/ \E kind : Event(kind)
      PROVE  OutsideStep
  BY <1>1, <1>2, <1>3, VolumeKept
<1>4. ASSUME UNCHANGED <<rvr, pri, pc, view, mem>>, UNCHANGED rv, cleanupEarlyRVA,
             vol' \notin {"drop", "discarding"}, UNCHANGED budget \/ \E kind : Event(kind)
      PROVE  OutsideStep
  BY <1>4, Cleanup, VolumeKept
<1>5. CASE \E n \in Nodes : EarlyRVA(n)
  <2>1. PICK n \in Nodes : EarlyRVA(n)
    BY <1>5
  <2>2. rva[Csi(n)] \in RVA
    BY Zenon, <1>1, NamesApart
  <2>3. PICK w : rva' = [rva EXCEPT ![Csi(n)] = w] /\ Kin(rva[Csi(n)], w)
    BY <2>1, <2>2, Versions, Zenon DEF EarlyRVA
  <2>4. /\ UNCHANGED <<rvr, pri, pc, view, mem, rv, budget>>
        /\ vol' \notin {"drop", "discarding"}
    BY <1>0, <2>1 DEF EarlyRVA
  <2> QED BY Zenon, <2>3, <2>4, OneAttachment
<1>6. CASE CreateReplicatedVolume
  <2>1. CASE ~rv.ex /\ VolStep("create", "wait") /\ WriteRV(NewRV) /\ UNCHANGED rva
    BY <1>0, <1>6, <2>1, Constants, VolumeWritten DEF WriteRV, CreateReplicatedVolume
  <2> QED BY <1>0, <1>3, <1>4, <1>6, <2>1 DEF CreateReplicatedVolume
<1>7. CASE WaitForReplicatedVolumeReady \/ ObserveVolume \/ WaitForReplicatedVolumeDeleted
  BY <1>0, <1>3, <1>4, <1>7
     DEF WaitForReplicatedVolumeReady, ObserveVolume, WaitForReplicatedVolumeDeleted
<1>8. CASE DeleteReplicatedVolume
  <2>0. UNCHANGED <<rva, budget>>
    BY <1>8 DEF DeleteReplicatedVolume
  <2>1. CASE rv.ex /\ \E f \in {<<"strip", "drop">>, <<"discard", "discarding">>} :
               VolStep(f[1], f[2]) /\ WriteRV(Kept([rv EXCEPT !.csi = FALSE], NoRV))
    <3>1. /\ UNCHANGED <<rvr, pri, pc, view, mem>>
          /\ rv' = Kept([rv EXCEPT !.csi = FALSE], NoRV)
      BY <1>0, <2>1 DEF WriteRV
    <3> QED BY Zenon, <2>0, <2>1, <3>1, VolumeVersions, VolumeWritten
  <2>2. CASE rv.ex /\ \E f \in {<<"drop", "left">>, <<"discarding", "none">>} :
               VolStep(f[1], f[2]) /\ WriteRV(Marked(rv, NoRV))
    <3>1. /\ UNCHANGED <<rvr, pri, pc, view, mem>>
          /\ rv' = Marked(rv, NoRV) /\ vol \in {"drop", "discarding"}
          /\ vol' \notin {"drop", "discarding"}
      BY <1>0, <2>2 DEF WriteRV
    <3> QED BY Zenon, <1>2, <2>0, <2>2, <3>1, VolumeVersions, VolumeWritten
  <2>3. CASE ~rv.ex /\ \E f \in {<<"strip", "left">>, <<"drop", "left">>, <<"discard", "none">>,
                                 <<"discarding", "none">>} : VolStep(f[1], f[2]) /\ UNCHANGED <<rv, old>>
    BY <1>0, <1>3, <2>0, <2>3
  <2> QED BY <1>8, <2>1, <2>2, <2>3 DEF DeleteReplicatedVolume
<1>9. CASE CreateVolume \/ DeleteVolume
  BY <1>0, <1>3, <1>9 DEF CreateVolume, DeleteVolume
<1>10. CASE VolumeCallFails
  BY <1>0, <1>3, <1>4, <1>10 DEF VolumeCallFails
<1> QED BY <1>5, <1>6, <1>7, <1>8, <1>9, <1>10 DEF CsiVolume

\* The kubelet and the users.
LEMMA UsersOutside ==
    ASSUME Undisturbed, TypeOK, AttInv, NEW n \in Nodes,
           \/ Stage(n) \/ Unstage(n) \/ UserCreate(n) \/ UserDelete(n) \/ UserDeleteVolume
    PROVE  OutsideStep
<1>1. \A x \in Names : rva[x] \in RVA /\ Kin(rva[x], rva[x])
  BY Versions, Zenon DEF TypeOK, ApiType
<1>2. rva \in [Names -> RVA] /\ (vol \in {"drop", "discarding"} => ~rv.csi)
  BY DEF TypeOK, ApiType, AttInv, StaticInv, VolumeInv
<1>3. CASE Stage(n) \/ Unstage(n)
  <2>1. UNCHANGED <<rv, rva, rvr, pri, pc, view, mem, vol, budget>>
    BY <1>3 DEF Stage, Unstage, apis, ctrl
  <2> QED BY <1>1, <1>2, <2>1, VolumeKept
<1>4. ~UserCreate(n)
  BY Zenon DEF UserCreate, Event, Undisturbed
<1>5. ~UserDelete(n)
  BY DEF UserDelete, AttInv, StaticInv, ObjectInv
<1>6. CASE UserDeleteVolume
  <2>1. /\ UNCHANGED <<rva, rvr, pri, pc, view, mem, vol>>
        /\ rv' = Marked(rv, NoRV) /\ SomeRVR(rvr) /\ \E kind : Event(kind)
    BY <1>6 DEF UserDeleteVolume, WriteRV, kernel, ctrl
  <2>2. rv.ctl /\ rv.ex
    BY <2>1 DEF AttInv, StaticInv, VolumeInv
  <2> QED BY Zenon, <1>2, <2>1, <2>2, VolumeVersions, VolumeWritten
<1> QED BY <1>3, <1>4, <1>5, <1>6

\* The scenario's diskful nodes.
LEMMA Disks ==
    ASSUME BudgetType
    PROVE  Sc.disk \subseteq Nodes /\ Sc.disk # {}
BY ScenariosAssumption DEF BudgetType, Sc

\* A replica that reports keeps the invariant: it reports a revision only when it is as the
\* datamesh of that revision wants it.
LEMMA ReportKeeps ==
    ASSUME TypeOK, AttInv, NEW n \in Nodes, Report(n)
    PROVE  TypeOK' /\ AttInv'
<1> DEFINE member == rv.dm.type[n] # None
           want == n \in rv.dm.att
           up == want \/ (n \in pri /\ n \in open)
<1>0. /\ UNCHANGED <<rv, rva, open, pc, view, mem, budget>> /\ Sc' = Sc
      /\ rvr[n].ex # None /\ pri' = (IF up THEN pri \cup {n} ELSE pri \ {n})
      /\ rvr' = [rvr EXCEPT ![n].ready = member, ![n].use = n \in open,
                    ![n].rev = IF up # want THEN @ ELSE IF member THEN rv.dm.rev ELSE 0]
  BY DEF Report, ctrl, Sc, None
<1>1. rv \in RV /\ rv.dm \in Mesh /\ rv.dm.rev \in Nat /\ rvr \in [Nodes -> RVR] /\ pri \subseteq Nodes
      /\ rvr[n] \in RVR /\ rvr[n].rev \in Nat
  BY DEF TypeOK, ApiType, RV, Mesh, RVR
<1>2. /\ \A m \in Nodes \ {n} : rvr'[m] = rvr[m]
      /\ rvr'[n].ex = rvr[n].ex /\ rvr'[n].ready = member /\ rvr'[n].use = (n \in open)
      /\ rvr'[n].rev = IF up # want THEN rvr[n].rev ELSE IF member THEN rv.dm.rev ELSE 0
      /\ rvr'[n] \in RVR /\ rvr' \in [Nodes -> RVR]
  <2>1. (IF up # want THEN rvr[n].rev ELSE IF member THEN rv.dm.rev ELSE 0) \in Nat
    BY <1>1
  <2>2. rvr'[n] = [rvr[n] EXCEPT !.ready = member, !.use = n \in open,
                      !.rev = IF up # want THEN @ ELSE IF member THEN rv.dm.rev ELSE 0]
    BY <1>0, <1>1, Zenon
  <2> HIDE DEF member, want, up
  <2>3. rvr'[n].ex = rvr[n].ex /\ rvr'[n].ready = member /\ rvr'[n].use = (n \in open)
        /\ rvr'[n].rev = IF up # want THEN rvr[n].rev ELSE IF member THEN rv.dm.rev ELSE 0
    BY <1>1, <2>2, Zenon DEF RVR
  <2>4. member \in BOOLEAN /\ (n \in open) \in BOOLEAN
    BY DEF member
  <2>5. rvr'[n] \in RVR
    <3> DEFINE u == n \in open
               k == IF up # want THEN rvr[n].rev ELSE IF member THEN rv.dm.rev ELSE 0
    <3>1. u \in BOOLEAN /\ k \in Nat /\ member \in BOOLEAN
      BY <2>1, <2>4
    <3>2. rvr'[n] = [rvr[n] EXCEPT !.ready = member, !.use = u, !.rev = k]
      BY <2>2, Zenon
    <3> HIDE DEF u, k
    <3> QED BY <1>1, <3>1, <3>2, Zenon DEF RVR
  <2>6. \A m \in Nodes \ {n} : rvr'[m] = rvr[m]
    BY <1>0, <1>1, Zenon
  <2>7. rvr' = [m \in Nodes |-> rvr'[m]]
    BY <1>0, <1>1, Zenon
  <2> QED BY <1>1, <2>3, <2>5, <2>6, <2>7
<1>3. TypeOK'
  BY <1>0, <1>1, <1>2 DEF TypeOK, ApiType, PassType, BudgetType
<1>4. \A m \in Nodes : rvr'[m].ex = rvr[m].ex
  BY <1>2
<1>5. \A m \in Nodes : InUse(m)' => InUse(m)
  BY <1>0 DEF InUse
<1>6. member => rvr'[n].rev > 0 /\ rvr'[n].rev \in {rvr[n].rev, rv.dm.rev}
  <2>1. member => rv.dm.rev > 0
    BY <1>1 DEF AttInv, StaticInv, MeshOK, Members, Formed
  <2>2. up # want => n \in pri /\ rvr[n].rev > 0
    BY DEF AttInv, StaticInv, UseInv, UseOK, InUse
  <2> QED BY <1>2, <2>1, <2>2
<1>7. MeshOK(rv.dm)' /\ VolumeInv'
  <2>1. SomeRVR(rvr)' <=> SomeRVR(rvr)
    BY <1>4 DEF SomeRVR
  <2>2. vol' = vol
    BY DEF Report
  <2> QED BY <1>0, <1>4, <2>1, <2>2, Disks, Zenon DEF AttInv, StaticInv, MeshOK, VolumeInv, Formed, Members, NoMesh, TypeOK
<1>8. ObjectInv'
  <2>1. rvr'[n].rev <= rv.dm.rev
    <3>1. rvr[n].rev <= rv.dm.rev
      BY Zenon DEF AttInv, StaticInv, ObjectInv
    <3> HIDE DEF member, want, up
    <3> QED BY <1>1, <1>2, <3>1
  <2> QED BY <1>0, <1>2, <1>4, <1>6, <2>1, Zenon DEF AttInv, StaticInv, ObjectInv
<1>9. UseInv'
  <2>1. ASSUME NEW m \in Nodes, m # n
        PROVE  /\ InUse(m)' => /\ Held(m)'
                               /\ rvr'[m].ex = "live" /\ rvr'[m].rev > 0 /\ rv'.dm.type[m] # None
               /\ m \in pri' => \/ m \in rv'.dm.att
                                \/ rv'.dm.at[m].plan = "Detach" /\ rvr'[m].rev < rv'.dm.at[m].rev
    BY <1>0, <1>2, <1>5, <2>1 DEF AttInv, StaticInv, UseInv, UseOK, Held
  <2>2. InUse(n)' => /\ Held(n)'
                     /\ rvr'[n].ex = "live" /\ rvr'[n].rev > 0 /\ rv'.dm.type[n] # None
    BY <1>0, <1>4, <1>5, <1>6, Zenon DEF AttInv, StaticInv, UseInv, UseOK, Held
  <2>3. n \in pri' => \/ n \in rv'.dm.att
                      \/ rv'.dm.at[n].plan = "Detach" /\ rvr'[n].rev < rv'.dm.at[n].rev
    BY <1>0, <1>2 DEF AttInv, StaticInv, UseInv, UseOK
  <2> QED BY <2>1, <2>2, <2>3 DEF UseInv, UseOK
<1>10. ViewInv'
  <2>1. pc \in Normal => \A m \in Nodes : rv.dm.type[m] # None /\ rvr[m].ex # None => view.rvr[m].rev <= rvr'[m].rev
    BY <1>2, <1>6, Zenon DEF AttInv, StaticInv, ViewInv
  <2> QED BY <1>0, <1>4, <1>5, <2>1, Zenon DEF AttInv, StaticInv, ViewInv, Held, HasRVR, Normal
<1>11. LoadedInv'
  <2>1. SomeRVR(rvr)' <=> SomeRVR(rvr)
    BY <1>4 DEF SomeRVR
  <2>2. rv.dm.att = {} /\ pri = {} => pri' = {}
    BY <1>0
  <2> QED BY <1>0, <2>1, <2>2 DEF AttInv, StaticInv, LoadedInv, Normal, Formed, SomeRVR
<1>12. PassInv'
  <2>1. \A m \in Nodes : hasActiveRVA(m)' <=> hasActiveRVA(m)
    BY <1>0 DEF hasActiveRVA
  <2>2. MeshOK(mem)' <=> MeshOK(mem)
    BY <1>0 DEF MeshOK, Formed, Members, NoMesh
  <2>3. \A m \in Nodes : /\ Released(m) => Released(m)'
                         /\ Taken(m) => Taken(m)'
                         /\ Joined(m)' <=> Joined(m)
    BY <1>0, <1>2, <1>5, <1>6, <2>1 DEF Released, Taken, Joined, HasRVR
  <2>4. PassFormed' <=> PassFormed
    BY <1>0 DEF PassFormed, Formed, HasRVR
  <2> QED BY <1>0, <2>2, <2>3, <2>4 DEF AttInv, StaticInv, PassInv, Normal, Held
<1> QED BY <1>3, <1>7, <1>8, <1>9, <1>10, <1>11, <1>12 DEF AttInv, StaticInv

\* So does the end of a replica: a node in use has a live one.
LEMMA TeardownKeeps ==
    ASSUME TypeOK, AttInv, NEW n \in Nodes, Teardown(n)
    PROVE  TypeOK' /\ AttInv'
<1>0. /\ UNCHANGED <<rv, rva, pc, view, mem, budget, vol>> /\ Sc' = Sc
      /\ rvr[n].ex = "deleting" /\ pri' = pri \ {n} /\ rvr' = [rvr EXCEPT ![n] = NoRVR]
  BY DEF Teardown, ctrl, Sc
<1>1. rvr \in [Nodes -> RVR] /\ NoRVR \in RVR /\ pri \subseteq Nodes /\ NoRVR.ex = None /\ NoRVR.rev = 0
      /\ rv.dm.rev \in Nat /\ ~NoRVR.ready
  BY Constants DEF TypeOK, ApiType, NoRVR, RV, Mesh
<1>2. rvr'[n] = NoRVR /\ \A m \in Nodes \ {n} : rvr'[m] = rvr[m]
  BY <1>0, <1>1
<1>3. TypeOK'
  BY <1>0, <1>1, <1>2 DEF TypeOK, ApiType, PassType, BudgetType
<1>4. ~InUse(n) /\ pri' = pri
  BY <1>0, <1>1 DEF AttInv, StaticInv, UseInv, UseOK, InUse
<1>5. SomeRVR(rvr)' => SomeRVR(rvr)
  BY <1>0, <1>2 DEF SomeRVR, None
<1>6. rv.csi /\ SomeRVR(rvr) => n \notin Sc.disk /\ SomeRVR(rvr)'
  BY <1>0, <1>2, Disks DEF AttInv, StaticInv, VolumeInv, SomeRVR, TypeOK, None
<1>7. SomeRVR(rvr)
  BY <1>0 DEF SomeRVR, None
<1>8. MeshOK(rv.dm)' /\ VolumeInv'
  <2>1. MeshOK(rv.dm)'
    BY <1>0, Zenon DEF AttInv, StaticInv, MeshOK, Formed, Members, NoMesh
  <2>2. VolumeInv'
    BY <1>0, <1>2, <1>5, <1>6, <1>7, Disks DEF AttInv, StaticInv, VolumeInv, Formed, TypeOK
  <2> QED BY <2>1, <2>2
<1>9. ObjectInv' /\ UseInv'
  <2>1. \A m \in Nodes \ {n} : InUse(m)' <=> InUse(m)
    BY <1>0, <1>4, Zenon DEF InUse
  <2>2. ~InUse(n)'
    BY <1>0, <1>4, Zenon DEF InUse
  <2>3. ObjectInv'
    BY <1>0, <1>1, <1>2 DEF AttInv, StaticInv, ObjectInv, None
  <2>4. UseInv'
    <3>1. ASSUME NEW m \in Nodes \ {n}
          PROVE  UseOK(m)'
      <4>1. UseOK(m)
        BY Zenon DEF AttInv, StaticInv, UseInv
      <4> QED BY <1>0, <1>2, <1>4, <2>1, <4>1, Zenon DEF UseOK, Held
    <3>2. UseOK(n)'
      BY <2>2, Zenon DEF UseOK, InUse
    <3> QED BY <3>1, <3>2, Zenon DEF UseInv
  <2> QED BY <2>3, <2>4
<1>10. ViewInv'
  BY <1>0, <1>1, <1>2, <1>4, Zenon DEF AttInv, StaticInv, ViewInv, InUse, Held, HasRVR, Normal, None
<1>11. LoadedInv'
  BY <1>0, <1>4, <1>5, Zenon DEF AttInv, StaticInv, LoadedInv, Normal, Formed, SomeRVR
<1>12. PassInv'
  <2>1. \A m \in Nodes : hasActiveRVA(m)' <=> hasActiveRVA(m)
    BY <1>0 DEF hasActiveRVA
  <2>2. MeshOK(mem)' <=> MeshOK(mem)
    BY <1>0 DEF MeshOK, Formed, Members, NoMesh
  <2>3. \A m \in Nodes : /\ Released(m) => Released(m)'
                         /\ Taken(m) => Taken(m)'
                         /\ Joined(m)' <=> Joined(m)
    BY <1>0, <1>2, <1>4, <2>1 DEF Released, Taken, Joined, HasRVR, InUse
  <2>4. PassFormed' <=> PassFormed
    BY <1>0 DEF PassFormed, Formed, HasRVR
  <2> QED BY <1>0, <2>2, <2>3, <2>4, Zenon DEF AttInv, StaticInv, PassInv, Normal, Held
<1> QED BY <1>3, <1>8, <1>9, <1>10, <1>11, <1>12 DEF AttInv, StaticInv

----------------------------------------------------------------------------
(* The invariant is kept by the controller's pass *)

\* What says nothing about the pass is kept while the objects are.
LEMMA StaticKept ==
    ASSUME StaticInv, Sc' = Sc, UNCHANGED <<rv, rvr, pri, vol>>,
           \A n \in Nodes : (InUse(n) => Held(n)') /\ ~rva'[<<n, "user">>].ex
    PROVE  StaticInv'
<1>1. MeshOK(rv.dm)' /\ VolumeInv'
  BY Zenon DEF StaticInv, MeshOK, VolumeInv, Formed, Members, NoMesh, SomeRVR
<1>2. ObjectInv' /\ UseInv'
  BY Zenon DEF StaticInv, ObjectInv, UseInv, UseOK, InUse
<1> QED BY <1>1, <1>2 DEF StaticInv

\* Between passes there is nothing more to say.
LEMMA BetweenPasses ==
    ASSUME StaticInv', pc' = "idle"
    PROVE  AttInv'
BY Zenon DEF AttInv, ViewInv, LoadedInv, PassInv, Normal

\* A pass begins with the volume as it is, held, and with all its objects.
LEMMA NewPass ==
    ASSUME TypeOK', StaticInv', rv'.ex, rv'.ctl,
           pc' = IF Formed(rv'.dm) THEN "process" ELSE "form",
           view'.rv = rv', view'.rva = rva', view'.rvr = rvr', mem' = rv'.dm
    PROVE  AttInv'
<1>0. /\ rv'.dm \in Mesh /\ \A n \in Nodes : rvr'[n].rev \in Nat /\ rv'.dm.at[n].rev \in Nat
      /\ rv'.dm.rev \in Nat
  BY DEF TypeOK, ApiType, RV, Mesh, RVR, Transition
<1>1. ViewInv'
  <2>1. \A n \in Nodes :
          /\ rvr'[n].rev <= rv'.dm.rev
          /\ rvr'[n].ready => rvr'[n].rev > 0
          /\ rvr'[n].rev <= rvr'[n].rev
          /\ InUse(n)' => rvr'[n].ex # None /\ rvr'[n].rev > 0
          /\ rvr'[n].ex = "deleting" /\ n \in Sc'.disk => rv'.del
          /\ n \in Sc'.disk /\ rvr'[n].ex # None /\ rv'.csi => rvr'[n].ex = "live"
          /\ ~rva'[<<n, "user">>].ex /\ (rvr'[n].ex = None => rvr'[n] = NoRVR)
    <3> SUFFICES ASSUME NEW n \in Nodes
                 PROVE  /\ rvr'[n].rev <= rv'.dm.rev
                        /\ rvr'[n].ready => rvr'[n].rev > 0
                        /\ rvr'[n].rev <= rvr'[n].rev
                        /\ InUse(n)' => rvr'[n].ex # None /\ rvr'[n].rev > 0
                        /\ rvr'[n].ex = "deleting" /\ n \in Sc'.disk => rv'.del
                        /\ n \in Sc'.disk /\ rvr'[n].ex # None /\ rv'.csi => rvr'[n].ex = "live"
                        /\ ~rva'[<<n, "user">>].ex /\ (rvr'[n].ex = None => rvr'[n] = NoRVR)
      BY Zenon
    <3>1. /\ rvr'[n].rev <= rv'.dm.rev
          /\ rvr'[n].ready => rvr'[n].rev > 0
          /\ rvr'[n].ex = "deleting" /\ n \in Sc'.disk => rv'.del
          /\ ~rva'[<<n, "user">>].ex /\ (rvr'[n].ex = None => rvr'[n] = NoRVR)
      BY DEF StaticInv, ObjectInv
    <3>2. InUse(n)' => rvr'[n].ex # None /\ rvr'[n].rev > 0
      BY DEF StaticInv, UseInv, UseOK, None
    <3>3. n \in Sc'.disk /\ rvr'[n].ex # None /\ rv'.csi => rvr'[n].ex = "live"
      BY DEF StaticInv, VolumeInv, SomeRVR
    <3>4. rvr'[n].rev <= rvr'[n].rev
      BY <1>0
    <3> QED BY <3>1, <3>2, <3>3, <3>4
  <2> QED BY <2>1, Zenon DEF ViewInv, HasRVR, Held
<1>2. LoadedInv'
  BY Zenon DEF LoadedInv, StaticInv, MeshOK
<1>3. PassInv'
  <2>1. MeshOK(mem)' /\ mem'.rev >= rv'.dm.rev
    BY <1>0 DEF StaticInv, MeshOK, Formed, Members
  <2>2. \A n \in Nodes : Released(n)' /\ Taken(n)' /\ Joined(n)'
    BY <1>0 DEF StaticInv, UseInv, UseOK, InUse, Released, Taken, Joined, HasRVR, None
  <2>3. PassFormed'
    BY DEF PassFormed, Formed
  <2> QED BY <2>1, <2>2, <2>3 DEF PassInv
<1> QED BY <1>1, <1>2, <1>3 DEF AttInv

\* The pass begins: the volume is gone, or is to go and used nowhere, or is held.
LEMMA BeginKeeps ==
    ASSUME TypeOK, AttInv, Begin
    PROVE  AttInv'
<1>0. UNCHANGED <<rv, rva, rvr, pri, vol, budget>> /\ Sc' = Sc
  BY DEF Begin, BeginWith, kernel, Sc
<1>1. StaticInv'
  <2>1. \A n \in Nodes : (InUse(n) => Held(n)') /\ ~rva'[<<n, "user">>].ex
    BY <1>0, Zenon DEF AttInv, StaticInv, UseInv, UseOK, ObjectInv, Held
  <2> QED BY <1>0, <2>1, StaticKept DEF AttInv
<1>2. TypeOK'
  BY BeginType
<1>3. ASSUME view' = Loaded(rv) PROVE view'.rv = rv' /\ view'.rva = rva' /\ view'.rvr = rvr'
  BY <1>0, <1>3 DEF Loaded
<1>4. CASE ~rv.ex /\ pc' = "orphan" /\ view' = Loaded(rv) /\ mem' = NoMesh
  <2>1. rv = NoRV /\ ~SomeRVR(rvr) /\ rv.dm = NoMesh
    BY <1>4, Fresh DEF AttInv, StaticInv, VolumeInv
  <2>2. ~SomeRVR(rvr)' /\ ~SomeRVR(view.rvr)'
    BY <1>0, <1>3, <1>4, <2>1 DEF SomeRVR
  <2>3. ViewInv'
    BY <1>0, <1>3, <1>4, Zenon DEF AttInv, StaticInv, ObjectInv, ViewInv, Normal, Held, HasRVR
  <2>4. LoadedInv' /\ PassInv'
    BY <1>0, <1>3, <1>4, <2>1, <2>2 DEF LoadedInv, PassInv, Normal
  <2> QED BY <1>1, <2>3, <2>4 DEF AttInv
<1>5. CASE rv.ex /\ rvShouldNotExist(rv, rv.dm) /\ pc' = "deletion" /\ view' = Loaded(rv) /\ mem' = rv.dm
  <2>1. rv.del /\ ~rv.csi /\ rv.ctl
    BY <1>5 DEF AttInv, StaticInv, VolumeInv, rvShouldNotExist
  <2>2. rv.dm.att = {} /\ \A n \in Nodes : rv.dm.at[n].plan # "Detach"
    <3>1. CASE Formed(rv.dm)
      BY <1>5, <3>1 DEF rvShouldNotExist
    <3>2. CASE ~Formed(rv.dm)
      <4>1. rv.dm = NoMesh
        BY <3>2, Zenon DEF AttInv, StaticInv, MeshOK
      <4>2. Idle.plan # "Detach"
        BY DEF Idle, None
      <4> QED BY <4>1, <4>2, Fresh, Zenon
    <3> QED BY <3>1, <3>2
  <2>3. pri = {}
    BY <2>2 DEF AttInv, StaticInv, UseInv, UseOK, TypeOK, ApiType
  <2>4. ViewInv'
    BY <1>0, <1>3, <1>5, Zenon DEF AttInv, StaticInv, ObjectInv, ViewInv, Normal, Held, HasRVR
  <2>5. LoadedInv' /\ PassInv'
    BY <1>0, <1>5, <2>1, <2>2, <2>3, Zenon DEF LoadedInv, PassInv, Normal
  <2> QED BY <1>1, <2>4, <2>5 DEF AttInv
<1>6. CASE rv.ex /\ WithFinalizer(rv) = rv /\ Begins(rv)
  <2>1. rv.ctl
    <3>1. WithFinalizer(rv).ctl = (~rv.del \/ SomeRVR(rvr))
      BY DEF WithFinalizer, TypeOK, ApiType, RV
    <3> QED BY <1>6, <3>1, Zenon DEF AttInv, StaticInv, VolumeInv
  <2> QED BY <1>0, <1>1, <1>2, <1>3, <1>6, <2>1, NewPass DEF Begins
<1> QED BY <1>4, <1>5, <1>6 DEF Begin, BeginWith

\* The volume gets our finalizer, or loses it when it is to go and has no replica.
LEMMA FinalizerKeeps ==
    ASSUME TypeOK, AttInv, reconcileMetadata
    PROVE  AttInv'
<1> DEFINE w == WithFinalizer(rv)
<1>0. UNCHANGED <<rva, rvr, pri, vol, budget>> /\ Sc' = Sc /\ pc = "idle" /\ rv.ex /\ w # rv
      /\ rv' = Kept(w, NoRV)
  BY DEF reconcileMetadata, WriteRV, kernel, Sc
<1>1. /\ w \in RV /\ w.ex = rv.ex /\ w.del = rv.del /\ w.csi = rv.csi /\ w.dm = rv.dm
      /\ w.ctl = (~rv.del \/ SomeRVR(rvr)) /\ (w.ctl = rv.ctl => w = rv)
  BY Zenon DEF WithFinalizer, TypeOK, ApiType, RV
<1>2. ~SomeRVR(rvr) /\ \A n \in Nodes : ~InUse(n) /\ rvr[n] = NoRVR
  <2>1. ~SomeRVR(rvr)
    BY <1>0, <1>1 DEF AttInv, StaticInv, VolumeInv, TypeOK, ApiType, RV
  <2> QED BY <2>1, Zenon DEF AttInv, StaticInv, UseInv, UseOK, ObjectInv, SomeRVR, None
<1>3. TypeOK'
  BY BeginType
<1>4. rv' = w \/ (rv' = NoRV /\ rv.del)
  BY <1>0, <1>1 DEF Kept
<1>5. rv.del => ~rv.csi /\ ~w.ctl
  BY <1>1, <1>2, Zenon DEF AttInv, StaticInv, VolumeInv
<1>6. /\ rv'.dm \in {rv.dm, NoMesh} /\ (~rv'.ex => rv' = NoRV) /\ ~rv'.del
      /\ (rv'.csi => rv.csi)
  BY <1>0, <1>1, <1>4, <1>5, Fresh, Zenon DEF Kept, RV
<1>7. MeshOK(rv.dm)'
  <2>1. CASE rv'.dm = rv.dm
    BY <1>0, <2>1, Zenon DEF AttInv, StaticInv, MeshOK, Formed, Members, NoMesh
  <2>2. CASE rv'.dm = NoMesh
    BY <2>2 DEF MeshOK, Formed, Members, NoMesh, Idle, None
  <2> QED BY <1>6, <2>1, <2>2
<1>8. VolumeInv'
  <2>1. ~SomeRVR(rvr)'
    BY <1>0, <1>2 DEF SomeRVR
  <2>2. rv'.csi => ~Formed(rv'.dm)
    <3>1. rv.csi => ~Formed(rv.dm)
      <4>1. PICK n \in Nodes : n \in Sc.disk
        BY Disks DEF TypeOK
      <4>2. rvr[n].ex # "live"
        BY <1>2 DEF NoRVR, None
      <4> QED BY <4>1, <4>2 DEF AttInv, StaticInv, VolumeInv
    <3> QED BY <1>6, <3>1, Fresh DEF Formed
  <2> QED BY <1>0, <1>6, <2>1, <2>2 DEF AttInv, StaticInv, VolumeInv
<1>9. ObjectInv' /\ UseInv'
  <2>1. \A n \in Nodes : rvr'[n] = NoRVR /\ n \notin pri' /\ ~InUse(n)'
    BY <1>0, <1>2, <1>6, Fresh DEF InUse
  <2>2. NoRVR.ex = None /\ NoRVR.rev = 0 /\ ~NoRVR.ready /\ rv'.dm.rev \in Nat
    BY <1>3 DEF NoRVR, TypeOK, ApiType, RV, Mesh
  <2>3. ObjectInv'
    BY <1>0, <2>1, <2>2 DEF AttInv, StaticInv, ObjectInv, None
  <2>4. UseInv'
    BY <2>1, Zenon DEF UseInv, UseOK, InUse
  <2> QED BY <2>3, <2>4
<1>10. StaticInv'
  BY <1>7, <1>8, <1>9 DEF StaticInv
<1>11. CASE w.ctl
  <2>1. rv' = w /\ Begins(w)
    BY <1>0, <1>11 DEF reconcileMetadata, Kept
  <2>2. view'.rv = rv' /\ view'.rva = rva' /\ view'.rvr = rvr' /\ mem' = rv'.dm
    BY <1>0, <2>1 DEF Begins, Loaded
  <2> QED BY <1>0, <1>1, <1>3, <1>10, <1>11, <2>1, <2>2, NewPass, Zenon DEF Begins
<1>12. CASE ~w.ctl
  <2>1. pc' = "idle"
    BY <1>0, <1>12 DEF reconcileMetadata, ctrl
  <2> QED BY <1>10, <2>1, BetweenPasses
<1> QED BY <1>11, <1>12

\* A restart ends the pass.
LEMMA CrashKeeps ==
    ASSUME TypeOK, AttInv, Crash
    PROVE  AttInv'
<1>0. UNCHANGED <<rv, rva, rvr, pri, vol>> /\ Sc' = Sc /\ pc' = "idle"
  BY ScenarioStays DEF Crash, Ended, apis, kernel, TypeOK
<1>1. \A n \in Nodes : (InUse(n) => Held(n)') /\ ~rva'[<<n, "user">>].ex
  BY <1>0, Zenon DEF AttInv, StaticInv, UseInv, UseOK, ObjectInv, Held
<1> QED BY <1>0, <1>1, StaticKept, BetweenPasses DEF AttInv

\* A step of the engine writes nothing: what it computes has to fit.
LEMMA ComputedKeeps ==
    ASSUME AttInv, pc = "process", pc' \in {"process", "conditions"}, Sc' = Sc,
           UNCHANGED <<rv, rva, rvr, pri, vol, view>>,
           MeshOK(mem)', mem'.rev >= rv.dm.rev, \A n \in Nodes : Released(n)' /\ Taken(n)' /\ Joined(n)'
    PROVE  AttInv'
<1>1. StaticInv'
  <2>1. \A n \in Nodes : (InUse(n) => Held(n)') /\ ~rva'[<<n, "user">>].ex
    BY Zenon DEF AttInv, StaticInv, UseInv, UseOK, ObjectInv, Held
  <2> QED BY <2>1, StaticKept DEF AttInv
<1>2. ViewInv'
  BY Zenon DEF AttInv, ViewInv, HasRVR, InUse, Held, Normal
<1>3. LoadedInv'
  BY DEF AttInv, LoadedInv, Formed, Normal
<1>4. PassInv'
  <2>1. PassFormed'
    BY DEF AttInv, LoadedInv, PassFormed, Formed
  <2> QED BY <2>1 DEF PassInv
<1> QED BY <1>1, <1>2, <1>3, <1>4 DEF AttInv

\* What the engine may rely on.
LEMMA EngineFacts ==
    ASSUME TypeOK, AttInv, pc = "process"
    PROVE  /\ mem \in Mesh /\ mem.rev \in Nat /\ rv.dm.rev \in Nat /\ mem.rev >= rv.dm.rev
           /\ MeshOK(mem) /\ MeshOK(rv.dm) /\ mem.rev > 0
           /\ \A n \in Nodes :
                /\ Released(n) /\ Taken(n) /\ Joined(n)
                /\ view.rvr[n].rev \in Nat /\ rvr[n].rev \in Nat
                /\ mem.at[n].rev \in Nat /\ mem.mt[n].rev \in Nat /\ rv.dm.at[n].rev \in Nat
                /\ view.rvr[n].rev <= rv.dm.rev
                /\ view.rvr[n].ready => view.rvr[n].rev > 0
                /\ rv.dm.type[n] # None /\ rvr[n].ex # None => view.rvr[n].rev <= rvr[n].rev
                /\ InUse(n) => HasRVR(n) /\ view.rvr[n].rev > 0
                /\ view.rvr[n].ex = "deleting" /\ n \in Sc.disk => view.rv.del
                /\ view.rvr[n].ex = "live" => rvr[n].ex = "live"
                /\ view.rvr[n].ex \in {None, "live", "deleting"}
<1>1. /\ mem \in Mesh /\ mem.rev \in Nat /\ rv.dm.rev \in Nat
      /\ \A n \in Nodes :
                /\ view.rvr[n].rev \in Nat /\ rvr[n].rev \in Nat
                /\ mem.at[n].rev \in Nat /\ mem.mt[n].rev \in Nat /\ rv.dm.at[n].rev \in Nat
                /\ view.rvr[n].ex \in {None, "live", "deleting"}
  <2>1. mem \in Mesh /\ rv.dm \in Mesh
    BY DEF TypeOK, ApiType, PassType, RV
  <2>2. \A m \in Mesh : m.rev \in Nat /\ \A n \in Nodes : m.at[n].rev \in Nat /\ m.mt[n].rev \in Nat
    BY DEF Mesh, Transition
  <2>3. \A n \in Nodes : rvr[n] \in RVR /\ view.rvr[n] \in RVR
    BY DEF TypeOK, ApiType, PassType, View
  <2>4. \A r \in RVR : r.rev \in Nat /\ r.ex \in {None, "live", "deleting"}
    BY DEF RVR
  <2> QED BY <2>1, <2>2, <2>3, <2>4, Zenon
<1>2. /\ mem.rev >= rv.dm.rev /\ MeshOK(mem) /\ MeshOK(rv.dm) /\ rv.dm.rev > 0
      /\ \A n \in Nodes : Released(n) /\ Taken(n) /\ Joined(n)
  BY Zenon DEF AttInv, StaticInv, PassInv, LoadedInv, Formed, Normal
<1>3. \A n \in Nodes :
                /\ view.rvr[n].rev <= rv.dm.rev
                /\ view.rvr[n].ready => view.rvr[n].rev > 0
                /\ rv.dm.type[n] # None /\ rvr[n].ex # None => view.rvr[n].rev <= rvr[n].rev
                /\ InUse(n) => HasRVR(n) /\ view.rvr[n].rev > 0
                /\ view.rvr[n].ex = "deleting" /\ n \in Sc.disk => view.rv.del
                /\ view.rvr[n].ex = "live" => rvr[n].ex = "live"
  BY Zenon DEF AttInv, ViewInv, Normal
<1>4. mem.rev > 0
  BY <1>1, <1>2
<1> QED BY <1>1, <1>2, <1>3, <1>4, Zenon

\* The step's result and what it leaves alone.
LEMMA EngineFrame ==
    ASSUME NEW n \in Nodes,
           \/ SettleAttachment(n) \/ SettleMembership(n) \/ SettleToggle
           \/ DispatchMembership(n) \/ DispatchToggle \/ DispatchAttachment(n) \/ Finalize
    PROVE  /\ pc = "process" /\ pc' \in {"process", "conditions"} /\ Sc' = Sc
           /\ UNCHANGED <<rv, rva, rvr, pri, vol, view>>
           /\ \A m \in Nodes : /\ InUse(m)' <=> InUse(m)
                               /\ hasActiveRVA(m)' <=> hasActiveRVA(m)
                               /\ HasRVR(m)' <=> HasRVR(m)
<1>1. /\ pc = "process" /\ pc' \in {"process", "conditions"}
      /\ UNCHANGED <<rv, rva, rvr, pri, vol, view, budget>>
  BY DEF SettleAttachment, SettleMembership, SettleToggle, DispatchMembership, DispatchToggle,
         DispatchAttachment, Finalize, Computed, apis, kernel
<1>2. Sc' = Sc
  BY <1>1, Zenon DEF Sc
<1>3. \A m \in Nodes : /\ InUse(m)' <=> InUse(m)
                       /\ hasActiveRVA(m)' <=> hasActiveRVA(m)
                       /\ HasRVR(m)' <=> HasRVR(m)
  BY <1>1, Zenon DEF InUse, hasActiveRVA, HasRVR
<1> QED BY <1>1, <1>2, <1>3, Zenon

\* A node whose Detach is confirmed does not use the volume: a Detach that began in this pass
\* is newer than every report, and a published one was confirmed after it was published.
LEMMA ConfirmedDetach ==
    ASSUME TypeOK, AttInv, pc = "process", NEW n \in Nodes, AttachmentConfirmed(mem, n),
           mem.at[n].plan = "Detach"
    PROVE  ~InUse(n)
<1> SUFFICES ASSUME InUse(n) PROVE FALSE
  OBVIOUS
<1>0. /\ view.rvr[n].rev \in Nat /\ rvr[n].rev \in Nat /\ mem.at[n].rev \in Nat
      /\ rv.dm.rev \in Nat /\ rv.dm.at[n].rev \in Nat
  BY EngineFacts, Zenon
<1>1. HasRVR(n) /\ view.rvr[n].rev > 0 /\ view.rvr[n].rev <= rv.dm.rev
  BY EngineFacts, Zenon
<1>2. view.rvr[n].rev >= mem.at[n].rev
  BY <1>0, <1>1 DEF AttachmentConfirmed, Confirmed, LeavingOrGone
<1>3. CASE mem.at[n].rev > rv.dm.rev
  BY <1>0, <1>1, <1>2, <1>3
<1>4. CASE mem.at[n] = rv.dm.at[n]
  <2>1. n \notin rv.dm.att
    BY <1>4, EngineFacts, Zenon DEF MeshOK
  <2>2. rvr[n].rev < rv.dm.at[n].rev /\ rv.dm.type[n] # None /\ rvr[n].ex # None
    BY <2>1, Zenon DEF AttInv, StaticInv, UseInv, UseOK, InUse, None
  <2>3. view.rvr[n].rev <= rvr[n].rev
    BY Zenon, <2>2, EngineFacts
  <2>4. view.rvr[n].rev >= rv.dm.at[n].rev
    BY <1>2, <1>4, Zenon
  <2> QED BY <1>0, <2>2, <2>3, <2>4
<1> QED BY <1>3, <1>4, EngineFacts, Zenon DEF Released

\* What a datamesh says of one node (MeshOK), and what the invariant says of the node while
\* the engine computes.
NodeOK(m, n) ==
    /\ n \in m.att => m.type[n] # None
    /\ m.at[n].plan = "Detach" => n \notin m.att
    /\ m.at[n].rev <= m.rev /\ m.mt[n].rev <= m.rev
    /\ m.type[n] = "D" => n \in Sc.disk
Fine(n) == NodeOK(mem, n) /\ Released(n) /\ Taken(n) /\ Joined(n)
Untouched(n) ==
    /\ n \in mem'.att <=> n \in mem.att
    /\ mem'.type[n] = mem.type[n] /\ mem'.at[n] = mem.at[n] /\ mem'.mt[n] = mem.mt[n]

\* A datamesh that is formed is as it should be when it is at every node.
LEMMA MeshByNode ==
    ASSUME NEW m, m.rev > 0
    PROVE  MeshOK(m) <=> \A n \in Nodes : NodeOK(m, n)
BY Zenon DEF MeshOK, NodeOK, Formed

\* What the engine finds at a node.
LEMMA NodeFacts ==
    ASSUME TypeOK, AttInv, pc = "process", NEW n \in Nodes
    PROVE  /\ Fine(n) /\ mem.rev \in Nat /\ rv.dm.rev \in Nat
           /\ mem.at[n].rev \in Nat /\ mem.mt[n].rev \in Nat /\ view.rvr[n].rev \in Nat
           /\ mem.rev >= rv.dm.rev /\ mem.rev > 0 /\ view.rvr[n].rev <= rv.dm.rev
<1>1. /\ mem.rev \in Nat /\ rv.dm.rev \in Nat /\ MeshOK(mem) /\ mem.rev > 0 /\ mem.rev >= rv.dm.rev
      /\ Released(n) /\ Taken(n) /\ Joined(n)
      /\ mem.at[n].rev \in Nat /\ mem.mt[n].rev \in Nat /\ view.rvr[n].rev \in Nat
      /\ view.rvr[n].rev <= rv.dm.rev
  BY EngineFacts, Zenon
<1>2. NodeOK(mem, n)
  BY <1>1, MeshByNode, Zenon
<1> QED BY <1>1, <1>2, Zenon DEF Fine

\* A node that the engine does not touch stays as it was.
LEMMA UntouchedStays ==
    ASSUME TypeOK, AttInv, pc = "process", Sc' = Sc, UNCHANGED <<rv, rva, rvr, pri, view>>,
           NEW n \in Nodes, Untouched(n), mem'.rev \in {mem.rev, mem.rev + 1}
    PROVE  Fine(n)'
<1>1. Fine(n) /\ mem.rev \in Nat /\ mem.at[n].rev \in Nat /\ mem.mt[n].rev \in Nat
  BY NodeFacts, Zenon
<1>2. mem.at[n].rev <= mem'.rev /\ mem.mt[n].rev <= mem'.rev
  <2>1. mem.at[n].rev <= mem.rev /\ mem.mt[n].rev <= mem.rev
    BY <1>1, Zenon DEF Fine, NodeOK
  <2> QED BY <1>1, <2>1
<1>3. NodeOK(mem, n)'
  BY <1>1, <1>2, Zenon DEF Fine, NodeOK, Untouched
<1>4. Released(n)' /\ Taken(n)' /\ Joined(n)'
  BY <1>1, Zenon DEF Fine, Released, Taken, Joined, Untouched, InUse, hasActiveRVA, HasRVR
<1> QED BY <1>3, <1>4, Zenon DEF Fine

\* A step of the engine keeps the invariant when what it computes for the nodes it touches fits.
LEMMA EngineKeeps ==
    ASSUME TypeOK, AttInv, pc = "process", pc' \in {"process", "conditions"}, Sc' = Sc,
           UNCHANGED <<rv, rva, rvr, pri, vol, view>>, mem'.rev \in {mem.rev, mem.rev + 1},
           \A n \in Nodes : Untouched(n) \/ Fine(n)'
    PROVE  AttInv'
<1>1. \A n \in Nodes : Fine(n)'
  BY UntouchedStays, Zenon
<1>2. mem.rev \in Nat /\ rv.dm.rev \in Nat /\ mem.rev >= rv.dm.rev /\ mem.rev > 0
  BY EngineFacts, Zenon
<1>3. mem'.rev > 0 /\ mem'.rev >= rv.dm.rev
  BY <1>2
<1>4. MeshOK(mem)'
  <2>1. \A n \in Nodes : NodeOK(mem, n)'
    BY <1>1, Zenon DEF Fine
  <2> QED BY <1>3, <2>1, Zenon DEF MeshOK, NodeOK, Formed
<1> QED BY <1>1, <1>3, <1>4, ComputedKeeps, Zenon DEF Fine

\* Settling keeps the invariant.
LEMMA SettleKeeps ==
    ASSUME TypeOK, AttInv, NEW n \in Nodes,
           SettleAttachment(n) \/ SettleMembership(n) \/ SettleToggle \/ Finalize
    PROVE  AttInv'
<1>0. /\ pc = "process" /\ pc' \in {"process", "conditions"} /\ Sc' = Sc
      /\ UNCHANGED <<rv, rva, rvr, pri, vol, view>>
      /\ InUse(n)' <=> InUse(n)
  BY EngineFrame, Zenon
<1>1. /\ Fine(n) /\ mem.rev \in Nat /\ rv.dm.rev \in Nat /\ mem.rev > 0
      /\ mem.at[n].rev \in Nat /\ mem.mt[n].rev \in Nat /\ view.rvr[n].rev \in Nat
      /\ view.rvr[n].rev <= rv.dm.rev
  BY <1>0, NodeFacts, Zenon
<1>2. Idle.rev = 0 /\ Idle.plan = None /\ None # "Detach" /\ 0 <= mem.rev
  BY <1>1 DEF Idle, None
<1>3. mem \in Mesh
  BY DEF TypeOK, PassType
<1>4. CASE SettleAttachment(n)
  <2>1. /\ mem'.rev = mem.rev /\ mem'.att = mem.att /\ mem'.type = mem.type /\ mem'.mt = mem.mt
        /\ mem'.at[n] = Idle /\ \A m \in Nodes \ {n} : mem'.at[m] = mem.at[m]
    BY <1>3, <1>4 DEF SettleAttachment, Computed, Mesh
  <2>2. NodeOK(mem, n)'
    BY <1>0, <1>1, <1>2, <2>1, Zenon DEF Fine, NodeOK
  <2>3. Released(n)'
    <3>1. CASE mem.at[n].plan = "Detach"
      <4>1. ~InUse(n)
        BY <1>0, <1>4, <3>1, ConfirmedDetach, Zenon DEF SettleAttachment
      <4> QED BY <1>0, <1>2, <2>1, <4>1, Zenon DEF Released
    <3>2. CASE mem.at[n].plan # "Detach"
      BY <1>0, <1>1, <1>2, <2>1, <3>2, Zenon DEF Fine, Released
    <3> QED BY <3>1, <3>2
  <2>4. Taken(n)' /\ Joined(n)'
    BY <1>0, <1>1, <2>1, Zenon DEF Fine, Taken, Joined, hasActiveRVA, HasRVR
  <2>5. \A m \in Nodes : Untouched(m) \/ Fine(m)'
    BY <2>1, <2>2, <2>3, <2>4, Zenon DEF Untouched, Fine
  <2> QED BY <1>0, <2>1, <2>5, EngineKeeps, Zenon
<1>5. CASE SettleMembership(n)
  <2>1. /\ mem'.rev = mem.rev /\ mem'.att = mem.att /\ mem'.type = mem.type /\ mem'.at = mem.at
        /\ mem'.mt[n] = Idle /\ \A m \in Nodes \ {n} : mem'.mt[m] = mem.mt[m]
    BY <1>3, <1>5 DEF SettleMembership, Computed, Mesh
  <2>2. NodeOK(mem, n)'
    BY <1>0, <1>1, <1>2, <2>1, Zenon DEF Fine, NodeOK
  <2>3. Joined(n)'
    <3>1. mem.mt[n].plan = "Add" => view.rvr[n].rev >= mem.mt[n].rev
      BY <1>5 DEF SettleMembership, MembershipConfirmed, Confirmed
    <3>2. ~(mem.mt[n].plan = "Add" /\ mem.mt[n].rev > rv.dm.rev)
      BY <1>1, <3>1
    <3> QED BY <1>0, <1>1, <2>1, <3>2, Zenon DEF Fine, Joined
  <2>4. Released(n)' /\ Taken(n)'
    BY <1>0, <1>1, <2>1, Zenon DEF Fine, Released, Taken, hasActiveRVA, HasRVR
  <2>5. \A m \in Nodes : Untouched(m) \/ Fine(m)'
    BY <2>1, <2>2, <2>3, <2>4, Zenon DEF Untouched, Fine
  <2> QED BY <1>0, <2>1, <2>5, EngineKeeps, Zenon
<1>6. CASE SettleToggle \/ Finalize
  <2>1. /\ mem'.rev = mem.rev /\ mem'.att = mem.att /\ mem'.type = mem.type /\ mem'.at = mem.at
        /\ mem'.mt = mem.mt
    BY <1>3, <1>6 DEF SettleToggle, Finalize, Computed, Mesh
  <2>2. \A m \in Nodes : Untouched(m)
    BY <2>1, Zenon DEF Untouched
  <2> QED BY <1>0, <2>1, <2>2, EngineKeeps, Zenon
<1> QED BY <1>4, <1>5, <1>6

=============================================================================
