----------------------- MODULE DatameshSafety_proofs -----------------------
(***************************************************************************)
(* What is proved of Datamesh, for every number of replicas, every set of  *)
(* initial layouts and every set of external events that the theorem does  *)
(* not exclude by name: the types, the slots and the exclusion of voting   *)
(* transitions (Datamesh_proofs), the primaries (Primaries_proofs), and    *)
(* that the finalizer of a deleting replica is held until the replica has  *)
(* left the datamesh, which is proved here.                                *)
(*                                                                         *)
(* The other modules assume what they use of counting (Counted), so that   *)
(* only this one needs the theory of finite sets.                          *)
(***************************************************************************)
EXTENDS Primaries_proofs, FiniteSetTheorems

\* The obligations are small and their context is large: give the provers time to read it.
USE SMTT(30), ZenonT(20)

----------------------------------------------------------------------------
(* What holds whatever the scenarios contain *)

\* There are at most 32 replicas, which is what the lemmas assume of counting.
LEMMA AllCounted == Counted
<1> SUFFICES ASSUME NEW S \in SUBSET Replicas
             PROVE  /\ Cardinality(S) \in 0 .. 32
                    /\ Cardinality(S) <= 1 => \A a, b \in S : a = b
  BY Zenon DEF Counted
<1>1. IsFiniteSet(Replicas) /\ Cardinality(Replicas) = N
  BY NAssumption, FS_Interval DEF Replicas
<1>2. IsFiniteSet(S) /\ Cardinality(S) <= Cardinality(Replicas)
  BY <1>1, FS_Subset
<1>3. Cardinality(S) \in Nat
  BY <1>2, FS_CardinalityType
<1>4. Cardinality(S) \in 0 .. 32
  BY <1>1, <1>2, <1>3, NAssumption
<1>5. Cardinality(S) = 0 => S = {}
  BY <1>2, FS_EmptySet
<1>6. Cardinality(S) = 1 => \E x : S = {x}
  BY Zenon, <1>2, FS_Singleton
<1>7. Cardinality(S) <= 1 => Cardinality(S) \in {0, 1}
  BY <1>3
<1>8. Cardinality(S) <= 1 => \A a, b \in S : a = b
  BY Zenon, <1>5, <1>6, <1>7
<1> QED BY <1>4, <1>8

\* The type invariant is the conjunction of its two halves.
LEMMA TypeHalves == TypeOK <=> EnvTypeOK /\ CtrlTypeOK
BY AllCounted DEF TypeOK, EnvTypeOK, CtrlTypeOK

\* Whatever happens, in whatever order, the objects keep the shape of the API types
\* and every running transition stands at a step of its plan.
THEOREM TypeCorrect == Spec => []TypeOK
<1>1. Init => EnvTypeOK /\ CtrlTypeOK
  BY AllCounted, InitType
<1>2. EnvTypeOK /\ CtrlTypeOK /\ [Next]_vars => EnvTypeOK' /\ CtrlTypeOK'
  BY NextType
<1> QED BY <1>1, <1>2, TypeHalves, PTL DEF Spec

\* In every reachable state each slot holds transitions of its own kind only, and the
\* subject of an AddReplica or ChangeReplicaType transition is a member.
THEOREM SlotsHold == Spec => []SlotInv
<1>1. Init => SlotInv
  BY InitSlots
<1>2. EnvTypeOK /\ CtrlTypeOK /\ SlotInv /\ [Next]_vars => SlotInv'
  BY NextSlots
<1> QED BY <1>1, <1>2, TypeCorrect, TypeHalves, PTL DEF Spec

\* The serialisation concurrencyTracker.CanAdmit promises holds in every reachable
\* state, stored or in the middle of a reconcile, with crashes, forced removals and
\* lost patches: never two VotingMembership transitions at once, and none beside a
\* ChangeQuorum transition.
THEOREM VotingIsExclusive == Spec => []VotingExclusive
<1>1. Init => VotingExclusive
  BY InitExclusive
<1>2. EnvTypeOK /\ CtrlTypeOK /\ VotingExclusive /\ [Next]_vars => VotingExclusive'
  BY NextExclusive
<1> QED BY <1>1, <1>2, TypeCorrect, TypeHalves, PTL DEF Spec

----------------------------------------------------------------------------
(* The finalizer *)

\* No reconcile is interrupted between its two patches, and every RVR is created by the
\* controller.
Undisturbed ==
    \A n \in DOMAIN Scenarios : {"Crash", "UserCreate"} \cap Scenarios[n].kinds = {}

\* Computing on the working copy: what a step does to it for the replicas let go.
LEMMA ComputedHeld ==
    ASSUME EnvTypeOK, CtrlTypeOK, SlotsOK(mem), FinalizerInv, pc = "process",
           UNCHANGED <<rv, rvr>>, pc' = "process",
           \A r \in Replicas : rvrShouldNotExist(r) => HeldIn(mem, r)'
    PROVE  FinalizerInv'
<1>1. RVRsOK'
  BY DEF FinalizerInv, RVRsOK
<1>2. \A r \in Replicas : rvrShouldNotExist(r)' = rvrShouldNotExist(r)
  BY DEF rvrShouldNotExist
<1>3. \A r \in Replicas : HeldIn(rv, r)' = HeldIn(rv, r)
  BY DEF HeldIn, Members
<1> QED BY <1>1, <1>2, <1>3 DEF FinalizerInv

\* Settling keeps the finalizer invariant.
LEMMA SettleHeld ==
    ASSUME EnvTypeOK, CtrlTypeOK, SlotsOK(mem), FinalizerInv, Settle
    PROVE  FinalizerInv'
<1>0. EnvTyped /\ mem \in State /\ rv \in State /\ pc = "process" /\ UNCHANGED <<rv, rvr>>
  BY SettleEffect DEF EnvTypeOK, EnvTyped, CtrlTypeOK, Settle, env
<1>1. ASSUME pc' = "process", mem'.type = mem.type, mem'.mt = mem.mt PROVE FinalizerInv'
  <2>1. \A r \in Replicas : rvrShouldNotExist(r) => HeldIn(mem, r)'
    BY <1>0, <1>1 DEF FinalizerInv, HeldIn, Members
  <2> QED BY <1>0, <1>1, <2>1, ComputedHeld
<1>2. ASSUME NEW q \in Replicas, pc' = "process", OnlyMt(mem', mem, q), Active(mem.mt[q]),
             AdvancedTo(mem', mem'.mt[q], mem, q, mem.mt[q])
      PROVE  FinalizerInv'
  <2>1. mem.mt[q] \in Transition /\ mem.mt[q].plan \in MembershipPlanID
    BY <1>0, <1>2, SlotsTyped DEF SlotsOK, Active
  <2>2. /\ mem'.mt[q].plan \in {mem.mt[q].plan, None}
        /\ \A p \in Replicas \ {q} : mem'.type[p] = mem.type[p]
        /\ mem.mt[q].plan \notin AddPlan \cup ChangePlan \cup RemovePlan => mem'.type = mem.type
    BY Zenon, <1>0, <1>2, <2>1, AdvancedMembers
  <2>3. mem.mt[q].plan \in AddPlan \cup ChangePlan => q \in Members(mem)
    BY DEF SlotsOK
  <2>4. None \notin RemovePlan
    BY DisjointPlans DEF MembershipPlanID
  <2>5. ASSUME NEW r \in Replicas, rvrShouldNotExist(r) PROVE HeldIn(mem, r)'
    <3>0. HeldIn(mem, r)
      BY <2>5 DEF FinalizerInv
    <3>1. CASE r # q
      BY <1>0, <1>2, <2>2, <3>0, <3>1 DEF HeldIn, Members, OnlyMt
    <3>2. CASE r = q
      <4>1. mem'.mt[r].plan \notin RemovePlan
        BY <2>2, <2>4, <3>0, <3>2 DEF HeldIn
      <4>2. r \in Members(mem') => r \in Members(mem)
        BY <2>2, <2>3, <3>0, <3>2 DEF HeldIn, Members
      <4> QED BY <1>0, <3>0, <4>1, <4>2 DEF HeldIn, Members
    <3> QED BY <3>1, <3>2
  <2> QED BY <1>0, <1>2, <2>5, ComputedHeld
<1>3. ASSUME NEW q \in Replicas, pc' = "process", OnlyAt(mem', mem, q), Active(mem.at[q]),
             AdvancedTo(mem', mem'.at[q], mem, q, mem.at[q])
      PROVE  FinalizerInv'
  <2>1. mem.at[q] \in Transition /\ mem.at[q].plan \in AttachmentPlanID
    BY <1>0, <1>3, SlotsTyped DEF SlotsOK, Active
  <2>2. mem'.type = mem.type
    BY Zenon, <1>0, <1>3, <2>1, AdvancedMembers, DisjointPlans
  <2> QED BY <1>1, <1>3, <2>2 DEF OnlyAt
<1>4. ASSUME pc' = "process", OnlyQt(mem', mem), Active(mem.qt),
             AdvancedTo(mem', mem'.qt, mem, 0, mem.qt)
      PROVE  FinalizerInv'
  <2>1. mem.qt \in Transition /\ mem.qt.plan \in ChangeQuorumPlan
    BY <1>0, <1>4, SlotsTyped, ZeroIsReplica DEF SlotsOK, Active
  <2>2. mem'.type = mem.type
    BY Zenon, <1>0, <1>4, <2>1, AdvancedMembers, DisjointPlans, ZeroIsReplica
  <2> QED BY <1>1, <1>4, <2>2 DEF OnlyQt
<1>5. ASSUME pc' = "process", OnlyXt(mem', mem), Active(mem.xt),
             AdvancedTo(mem', mem'.xt, mem, 0, mem.xt)
      PROVE  FinalizerInv'
  <2>1. mem.xt \in Transition /\ mem.xt.plan \in TogglePlanID
    BY <1>0, <1>5, SlotsTyped, ZeroIsReplica DEF SlotsOK, Active
  <2>2. mem'.type = mem.type
    BY Zenon, <1>0, <1>5, <2>1, AdvancedMembers, DisjointPlans, ZeroIsReplica
  <2> QED BY <1>1, <1>5, <2>2 DEF OnlyXt
<1>6. ASSUME mem' = rv, pc' = "idle" PROVE FinalizerInv'
  <2>1. RVRsOK'
    BY <1>0 DEF FinalizerInv, RVRsOK
  <2>2. \A r \in Replicas : rvrShouldNotExist(r)' => HeldIn(mem, r)' /\ HeldIn(rv, r)'
    BY <1>0, <1>6 DEF FinalizerInv, rvrShouldNotExist, HeldIn, Members
  <2> QED BY <1>0, <1>6, <2>1, <2>2 DEF FinalizerInv
<1> QED BY <1>2, <1>3, <1>4, <1>5, <1>6, SettleEffect

\* Dispatching keeps the finalizer invariant: a replica that was let go is not asked to
\* leave any more, and can only be admitted without having run the volume.
LEMMA DispatchHeld ==
    ASSUME EnvTypeOK, CtrlTypeOK, SlotsOK(mem), FinalizerInv, Dispatch
    PROVE  FinalizerInv'
<1>0. EnvTyped /\ mem \in State /\ rv \in State /\ pc = "process"
  BY DEF EnvTypeOK, EnvTyped, CtrlTypeOK, Dispatch
<1>1. ASSUME UNCHANGED <<rv, rvr, pc>>, mem'.type = mem.type, mem'.mt = mem.mt
      PROVE  FinalizerInv'
  <2>1. \A r \in Replicas : rvrShouldNotExist(r) => HeldIn(mem, r)'
    BY <1>1 DEF FinalizerInv, HeldIn, Members
  <2> QED BY <1>0, <1>1, <2>1, ComputedHeld
<1>2. ASSUME NEW q \in Replicas, DispatchMembership(q) PROVE FinalizerInv'
  <2> DEFINE plan == MembershipPlan(mem, q)
  <2>1. /\ plan # None /\ UNCHANGED <<rv, rvr, pc>> /\ OnlyMt(mem', mem, q)
        /\ \/ StartedAs(mem', mem'.mt[q], mem, q, plan)
           \/ SameMesh(mem', mem) /\ mem'.mt[q] = Idle
    BY <1>2, DispatchMembershipEffect DEF env
  <2>2. \/ plan \in AddPlan /\ rvr[q].req.op = "Join"
        \/ plan \in RemovePlan /\ rvr[q].req.op = "Leave" /\ q \in Members(mem)
        \/ plan \in ChangePlan \cup ForceRemovePlan /\ q \in Members(mem)
    BY <1>0, <2>1, MembershipPlanKinds
  <2> HIDE DEF plan
  <2>3. ASSUME NEW r \in Replicas, rvrShouldNotExist(r) PROVE HeldIn(mem, r)'
    <3>0. HeldIn(mem, r)
      BY <2>3 DEF FinalizerInv
    <3>1. CASE r # q
      <4>1. mem'.type[r] = mem.type[r]
        BY <1>0, <2>1, <3>1, StartedOthers DEF SameMesh
      <4> QED BY <2>1, <3>0, <3>1, <4>1 DEF HeldIn, Members, OnlyMt
    <3>2. CASE r = q /\ StartedAs(mem', mem'.mt[q], mem, q, plan)
      <4>1. plan \notin RemovePlan /\ rvr[r].rev = 0
        <5>1. rvr[r].req.op = "Join" => rvr[r].rev = 0
          BY DEF FinalizerInv, RVRsOK
        <5>2. rvr[r].req.op = "Leave" => rvr[r].rev # 0
          BY DEF FinalizerInv, RVRsOK
        <5> QED BY <2>2, <3>0, <3>2, <5>1, <5>2, DisjointPlans DEF HeldIn
      <4>2. mem'.mt[r].plan = plan
        BY <3>2, StartedPlan
      <4> QED BY <2>1, <4>1, <4>2 DEF HeldIn
    <3>3. CASE r = q /\ SameMesh(mem', mem) /\ mem'.mt[q] = Idle
      <4>1. mem'.mt[r].plan = None /\ None \notin RemovePlan
        BY <3>3, DisjointPlans DEF Idle, MembershipPlanID
      <4> QED BY <2>1, <3>0, <3>3, <4>1 DEF HeldIn, SameMesh, Members
    <3> QED BY <2>1, <3>1, <3>2, <3>3
  <2> QED BY <1>0, <2>1, <2>3, ComputedHeld
<1>3. CASE DispatchQuorum
  <2> DEFINE plan == QuorumPlan(mem)
  <2>1. /\ OnlyQt(mem', mem) /\ plan \in ChangeQuorumPlan /\ UNCHANGED <<rv, rvr, pc>>
        /\ StartedAs(mem', mem'.qt, mem, 0, plan)
    BY <1>3, DispatchOtherEffect DEF env
  <2> HIDE DEF plan
  <2>2. plan \in PlanID
    BY <2>1, DisjointPlans
  <2>3. mem'.type = mem.type
    BY <1>0, <2>1, <2>2, StartedMembers, ZeroIsReplica
  <2> QED BY <1>1, <2>1, <2>3 DEF OnlyQt
<1>4. CASE DispatchToggle
  <2> DEFINE plan == decideMultiattachToggle(mem, pot)
  <2>1. /\ OnlyXt(mem', mem) /\ plan \in TogglePlanID /\ UNCHANGED <<rv, rvr, pc>>
        /\ StartedAs(mem', mem'.xt, mem, 0, plan)
    BY <1>4, DispatchOtherEffect DEF TogglePlanID, env
  <2> HIDE DEF plan
  <2>2. plan \in PlanID
    BY <2>1, DisjointPlans
  <2>3. mem'.type = mem.type
    BY <1>0, <2>1, <2>2, StartedMembers, ZeroIsReplica
  <2> QED BY <1>1, <2>1, <2>3 DEF OnlyXt
<1>5. ASSUME NEW q \in Replicas, NEW plan \in AttachmentPlanID, OnlyAt(mem', mem, q),
             UNCHANGED <<rv, rvr, pc>>,
             StartedAs(mem', mem'.at[q], mem, q, plan)
      PROVE  FinalizerInv'
  <2>1. plan \in PlanID
    BY DisjointPlans
  <2>2. mem'.type = mem.type
    BY <1>0, <1>5, <2>1, StartedMembers
  <2> QED BY <1>1, <1>5, <2>2 DEF OnlyAt
<1>6. ASSUME NEW q \in Replicas, DispatchAttachment(q) PROVE FinalizerInv'
  BY <1>5, <1>6, DispatchOtherEffect DEF AttachmentPlanID, env
<1>7. ASSUME NEW q \in Replicas, DispatchForceDetach(q) PROVE FinalizerInv'
  <2>1. /\ OnlyAt(mem', mem, q) /\ UNCHANGED <<rv, rvr, pc>>
        /\ \/ StartedAs(mem', mem'.at[q], mem, q, "ForceDetach")
           \/ SameMesh(mem', mem) /\ mem'.at[q] = Idle
    BY <1>7, DispatchOtherEffect DEF env
  <2>2. CASE StartedAs(mem', mem'.at[q], mem, q, "ForceDetach")
    BY <1>5, <2>1, <2>2 DEF AttachmentPlanID
  <2>3. CASE SameMesh(mem', mem)
    BY <1>1, <2>1, <2>3 DEF SameMesh, OnlyAt
  <2> QED BY <2>1, <2>2, <2>3
<1>8. CASE NextIteration
  <2>1. UNCHANGED <<rv, rvr, pc, mem>>
    BY <1>8 DEF NextIteration, env
  <2> QED BY <1>1, <2>1
<1>9. CASE reconcileRVRFinalizers
  <2>1. /\ pc' = "patch" /\ mem' = mem
        /\ rvr' = [r \in Replicas |->
                     IF Exists(r) THEN [rvr[r] EXCEPT !.fin = TargetFinalizer(mem, r)]
                     ELSE rvr[r]]
    BY <1>9 DEF reconcileRVRFinalizers
  <2>2. ASSUME NEW r \in Replicas
        PROVE  /\ rvr'[r].ex = rvr[r].ex /\ rvr'[r].rev = rvr[r].rev /\ rvr'[r].req = rvr[r].req
               /\ rvr'[r].fin = IF Exists(r) THEN TargetFinalizer(mem, r) ELSE rvr[r].fin
    <3>1. rvr[r] \in RVR
      BY DEF EnvTypeOK
    <3> QED BY <2>1, <3>1 DEF RVR
  <2>3. RVRsOK'
    <3> SUFFICES ASSUME NEW r \in Replicas
                 PROVE  /\ rvr'[r].ex = "live" => rvr'[r].fin
                        /\ rvr'[r].req.op = "Join" => rvr'[r].rev = 0
                        /\ rvr'[r].req.op = "Leave" => rvr'[r].rev # 0
      BY DEF RVRsOK
    <3>1. rvr'[r].ex = "live" => rvr'[r].fin
      BY <2>2, Zenon DEF TargetFinalizer, Exists, None
    <3> QED BY <2>2, <3>1 DEF FinalizerInv, RVRsOK
  <2>4. ASSUME NEW r \in Replicas, rvrShouldNotExist(r)' PROVE HeldIn(mem, r)'
    <3>1. rvr[r].ex = "deleting" /\ ~TargetFinalizer(mem, r)
      BY <2>2, <2>4 DEF rvrShouldNotExist, Exists, None
    <3>2. CASE ~rvr[r].fin
      <4>1. HeldIn(mem, r)
        BY <3>1, <3>2 DEF FinalizerInv, rvrShouldNotExist
      <4> QED BY <2>1, <2>2, <4>1 DEF HeldIn, Members
    <3>3. CASE rvr[r].fin
      <4>1. ~isRVRMemberOrLeavingDatamesh(mem, r)
        BY <3>1, <3>3 DEF TargetFinalizer
      <4>2. mem.mt[r].plan \in RemovePlan => Registry[mem.mt[r].plan].type = "RemoveReplica"
        BY PlanShapes
      <4>3. mem.mt[r].plan \notin RemovePlan /\ r \notin Members(mem)
        BY <4>1, <4>2, DisjointPlans
           DEF isRVRMemberOrLeavingDatamesh, Active, PlanOf, MembershipPlanID
      <4> QED BY <2>1, <4>3 DEF HeldIn, Members
    <3> QED BY <3>2, <3>3
  <2> QED BY <2>1, <2>3, <2>4 DEF FinalizerInv
<1> QED BY SMTT(30), <1>2, <1>3, <1>4, <1>6, <1>7, <1>8, <1>9 DEF Dispatch

\* What the RVRs must satisfy after a step that leaves the datamesh states alone.
LEMMA ObjectsHeld ==
    ASSUME FinalizerInv, UNCHANGED <<rv, mem, pc>>, RVRsOK',
           \A r \in Replicas : rvrShouldNotExist(r)' =>
                                 rvrShouldNotExist(r) /\ rvr'[r].rev = rvr[r].rev
    PROVE  FinalizerInv'
<1>1. ASSUME NEW r \in Replicas, rvrShouldNotExist(r)'
      PROVE  HeldIn(mem, r)' /\ (pc # "patch" => HeldIn(rv, r)')
  BY <1>1 DEF FinalizerInv, HeldIn, Members
<1> QED BY <1>1 DEF FinalizerInv

\* The same for a step that changes one RVR only.
LEMMA OneObjectHeld ==
    ASSUME EnvTypeOK, FinalizerInv, UNCHANGED <<rv, mem, pc>>, NEW q \in Replicas, NEW x,
           rvr' = [rvr EXCEPT ![q] = x],
           x.ex = "live" => x.fin,
           x.req.op = "Join" => x.rev = 0,
           x.req.op = "Leave" => x.rev # 0,
           x.ex = "deleting" /\ ~x.fin => rvrShouldNotExist(q) /\ x.rev = rvr[q].rev
    PROVE  FinalizerInv'
<1>0. rvr \in [Replicas -> RVR]
  BY DEF EnvTypeOK
<1>1. rvr'[q] = x /\ \A r \in Replicas \ {q} : rvr'[r] = rvr[r]
  BY <1>0
<1>2. RVRsOK'
  BY <1>1 DEF FinalizerInv, RVRsOK
<1>3. \A r \in Replicas : rvrShouldNotExist(r)' =>
                            rvrShouldNotExist(r) /\ rvr'[r].rev = rvr[r].rev
  BY <1>1 DEF rvrShouldNotExist
<1> QED BY <1>2, <1>3, ObjectsHeld

\* A step that leaves the RVRs and the datamesh states alone.
LEMMA NothingHeld ==
    ASSUME FinalizerInv, UNCHANGED <<rv, mem, pc, rvr>>
    PROVE  FinalizerInv'
BY ObjectsHeld DEF FinalizerInv, RVRsOK, rvrShouldNotExist

\* The rvr-controller asks to join only while it reports no revision, and to leave only
\* while it reports one.
LEMMA RequestFollowsRevision ==
    ASSUME NEW r, NEW rev
    PROVE  /\ computeTargetDatameshRequest(r, rev).op = "Join" => rev = 0
           /\ computeTargetDatameshRequest(r, rev).op = "Leave" => rev # 0
BY DEF computeTargetDatameshRequest, NoRequest, None

\* A replica's own steps keep the finalizer invariant.
LEMMA ReplicaStepHeld ==
    ASSUME EnvTypeOK, CtrlTypeOK, FinalizerInv, NEW q \in Replicas, ReplicaStep(q)
    PROVE  FinalizerInv'
<1>0. /\ UNCHANGED <<rv, mem, pc>> /\ rvr[q] \in RVR
      /\ rvr[q].ex = "live" => rvr[q].fin
  BY ReplicaStepType DEF ctrl, EnvTypeOK, FinalizerInv, RVRsOK
<1>1. CASE (\E t \in MemberType : Adopt(q, t)) \/ Sync(q)
  BY <1>0, <1>1, NothingHeld DEF Adopt, Sync
<1>2. CASE Report(q)
  <2> DEFINE rev == ReportedRevision(q)
             req == computeTargetDatameshRequest(q, rev)
  <2>1. PICK use : rvr' = [rvr EXCEPT ![q].rev = rev, ![q].use = use, ![q].req = req]
    BY <1>2, Zenon DEF Report
  <2> DEFINE x == [rvr[q] EXCEPT !.rev = rev, !.use = use, !.req = req]
  <2>2. rvr' = [rvr EXCEPT ![q] = x]
    BY Zenon, <2>1
  <2>3. x.ex = rvr[q].ex /\ x.fin = rvr[q].fin /\ x.rev = rev /\ x.req = req
    BY <1>0 DEF RVR
  <2>4. (req.op = "Join" => rev = 0) /\ (req.op = "Leave" => rev # 0)
    BY RequestFollowsRevision
  <2>5. rvrShouldNotExist(q) => rev = rvr[q].rev
    BY DEF ReportedRevision
  <2> HIDE DEF x, rev, req
  <2>6. /\ x.ex = "live" => x.fin
        /\ x.req.op = "Join" => x.rev = 0
        /\ x.req.op = "Leave" => x.rev # 0
        /\ x.ex = "deleting" /\ ~x.fin => rvrShouldNotExist(q) /\ x.rev = rvr[q].rev
    BY <1>0, <2>3, <2>4, <2>5 DEF rvrShouldNotExist
  <2> QED BY Zenon, <1>0, <2>2, <2>6, OneObjectHeld
<1>3. CASE GoneRVR(q)
  <2>1. rvr' = [rvr EXCEPT ![q] = NoRVR]
    BY <1>3 DEF GoneRVR
  <2>2. NoRVR.ex = None /\ NoRVR.req.op = None
    BY DEF NoRVR, NoRequest
  <2>3. None # "live" /\ None # "deleting" /\ None # "Join" /\ None # "Leave"
    BY DEF None
  <2> QED BY Zenon, <1>0, <2>1, <2>2, <2>3, OneObjectHeld
<1> QED BY <1>1, <1>2, <1>3 DEF ReplicaStep

\* Users, other controllers and failures keep the finalizer invariant as long as no
\* reconcile is interrupted between its patches and no RVR comes without the finalizer.
LEMMA EnvironmentHeld ==
    ASSUME Undisturbed, EnvTypeOK, CtrlTypeOK, FinalizerInv, Environment
    PROVE  FinalizerInv'
<1>0. ~Event("Crash") /\ ~Event("UserCreate")
  BY DEF Undisturbed, Event, scenario, EnvTypeOK
<1>1. \A q \in Replicas : rvr[q] \in RVR /\ (rvr[q].ex = "live" => rvr[q].fin)
  BY DEF EnvTypeOK, FinalizerInv, RVRsOK
<1>2. None # "live" /\ None # "deleting" /\ None # "Join" /\ None # "Leave"
  BY DEF None
<1>3. NoRVR.ex = None /\ NoRVR.req.op = None
  BY DEF NoRVR, NoRequest
<1>4. ASSUME NEW q \in Replicas, DeleteRVR(q) PROVE FinalizerInv'
  <2> DEFINE x == [rvr[q] EXCEPT !.ex = "deleting"]
  <2>1. rvr' = [rvr EXCEPT ![q] = x] /\ UNCHANGED <<rv, mem, pc>> /\ rvr[q].ex = "live"
    BY <1>4 DEF DeleteRVR, Command, ctrl
  <2>2. x.fin = rvr[q].fin /\ x.rev = rvr[q].rev /\ x.req = rvr[q].req /\ x.ex = "deleting"
    BY <1>1 DEF RVR
  <2> HIDE DEF x
  <2>3. x.fin /\ (x.req.op = "Join" => x.rev = 0) /\ (x.req.op = "Leave" => x.rev # 0)
    BY <1>1, <2>1, <2>2 DEF FinalizerInv, RVRsOK
  <2> QED BY Zenon, <2>1, <2>2, <2>3, OneObjectHeld
<1>5. ASSUME NEW q \in Replicas, NEW t, RetypeRVR(q, t) PROVE FinalizerInv'
  <2> DEFINE x == [rvr[q] EXCEPT !.type = t]
  <2>1. rvr' = [rvr EXCEPT ![q] = x] /\ UNCHANGED <<rv, mem, pc>> /\ rvr[q].ex = "live"
    BY <1>5 DEF RetypeRVR, Command, ctrl
  <2>2. x.fin = rvr[q].fin /\ x.rev = rvr[q].rev /\ x.req = rvr[q].req /\ x.ex = rvr[q].ex
    BY <1>1 DEF RVR
  <2> HIDE DEF x
  <2>3. x.fin /\ (x.req.op = "Join" => x.rev = 0) /\ (x.req.op = "Leave" => x.rev # 0)
    BY <1>1, <2>1, <2>2 DEF FinalizerInv, RVRsOK
  <2> QED BY Zenon, <2>1, <2>2, <2>3, OneObjectHeld
<1>6. ASSUME NEW q \in Replicas, NEW op \in {"ForceLeave", "ForceDetach"}, ForceRequest(q, op)
      PROVE  FinalizerInv'
  <2> DEFINE x == [rvr[q] EXCEPT !.req = [NoRequest EXCEPT !.op = op]]
  <2>1. rvr' = [rvr EXCEPT ![q] = x] /\ UNCHANGED <<rv, mem, pc>>
    BY <1>6 DEF ForceRequest, Command, ctrl
  <2>2. x.fin = rvr[q].fin /\ x.rev = rvr[q].rev /\ x.ex = rvr[q].ex /\ x.req.op = op
    BY <1>1 DEF RVR, NoRequest
  <2> HIDE DEF x
  <2>3. x.ex = "live" => x.fin
    BY Zenon, <1>1, <2>2
  <2>4. x.req.op # "Join" /\ x.req.op # "Leave"
    BY <2>2
  <2>5. x.ex = "deleting" /\ ~x.fin => rvrShouldNotExist(q) /\ x.rev = rvr[q].rev
    BY <2>2 DEF rvrShouldNotExist
  <2> QED BY Zenon, <2>1, <2>3, <2>4, <2>5, OneObjectHeld
<1>7. ASSUME NEW q \in Replicas, NEW t, NEW k \in {"Create", "UserCreate"}, CreateRVR(q, t, k)
      PROVE  FinalizerInv'
  <2> DEFINE x == [NoRVR EXCEPT !.ex = "live", !.type = t, !.fin = (k = "Create")]
  <2>1. rvr' = [rvr EXCEPT ![q] = x] /\ UNCHANGED <<rv, mem, pc>> /\ k = "Create"
    BY <1>0, <1>7 DEF CreateRVR, Command, ctrl
  <2>2. x.fin /\ x.ex = "live" /\ x.req.op = None
    BY <2>1, Zenon DEF NoRVR, NoRequest
  <2> HIDE DEF x
  <2> QED BY Zenon, <1>2, <2>1, <2>2, OneObjectHeld
<1>8. ASSUME NEW q \in Replicas, ForceDeleteRVR(q) PROVE FinalizerInv'
  <2>1. rvr' = [rvr EXCEPT ![q] = NoRVR] /\ UNCHANGED <<rv, mem, pc>>
    BY <1>8 DEF ForceDeleteRVR, Command, ctrl
  <2> QED BY Zenon, <1>2, <1>3, <2>1, OneObjectHeld
<1>9. ASSUME NEW q \in Replicas,
             LoseNode(q) \/ AttachRVA(q) \/ DetachRVA(q) \/ OpenDevice(q) \/ CloseDevice(q)
               \/ SetEligible(q)
      PROVE  FinalizerInv'
  <2>1. UNCHANGED <<rv, mem, pc, rvr>>
    BY <1>9 DEF LoseNode, AttachRVA, DetachRVA, OpenDevice, CloseDevice, SetEligible,
                Command, ctrl
  <2> QED BY <2>1, NothingHeld
<1>10. ASSUME NEW c, ChangeConfiguration(c) PROVE FinalizerInv'
  BY <1>10, NothingHeld DEF ChangeConfiguration, Command, ctrl
<1>11. ~AbortReconcile
  BY <1>0 DEF AbortReconcile
<1> QED BY SMTT(30), <1>4, <1>5, <1>6, <1>7, <1>8, <1>9, <1>10, <1>11 DEF Environment

\* The volume starts formed: every RVR lives, holds its finalizer and asks for nothing.
LEMMA InitHeld == Init => FinalizerInv
<1> SUFFICES ASSUME Init PROVE FinalizerInv
  OBVIOUS
<1>1. PICK n \in DOMAIN Scenarios : \E l \in Scenarios[n].layouts : StartFrom(n, l)
  BY DEF Init
<1>2. PICK l \in Scenarios[n].layouts : StartFrom(n, l)
  BY <1>1
<1>3. /\ mem = rv
      /\ rvr = [r \in Replicas |->
                  IF l.type[r] = None THEN NoRVR
                  ELSE [ex |-> "live", type |-> l.type[r], fin |-> TRUE,
                        rev |-> 1, req |-> NoRequest, use |-> FALSE]]
  BY <1>2 DEF StartFrom
<1>4. \A r \in Replicas : /\ rvr[r].ex \in {"live", None} /\ rvr[r].req = NoRequest
                          /\ rvr[r].ex = "live" => rvr[r].fin
  BY <1>3 DEF NoRVR, None
<1>5. RVRsOK /\ \A r \in Replicas : ~rvrShouldNotExist(r)
  BY <1>4 DEF RVRsOK, rvrShouldNotExist, NoRequest, None
<1> QED BY <1>3, <1>5 DEF FinalizerInv

\* The invariant holds in every reachable state: no step of the controller, of a replica or
\* of the users lets a member go that ran the volume.
THEOREM FinalizerInvHolds ==
    ASSUME Undisturbed
    PROVE  Spec => []FinalizerInv
<1>1. Init => FinalizerInv
  BY InitHeld
<1>2. TypeOK /\ SlotInv /\ FinalizerInv /\ [Next]_vars => FinalizerInv'
  <2> SUFFICES ASSUME TypeOK, SlotInv, FinalizerInv, [Next]_vars PROVE FinalizerInv'
    OBVIOUS
  <2>0. EnvTypeOK /\ CtrlTypeOK /\ SlotsOK(mem)
    BY TypeHalves DEF SlotInv
  <2>1. CASE Begin
    <3>1. UNCHANGED <<rv, mem, rvr>> /\ pc = "idle" /\ pc' = "process"
      BY <2>1 DEF Begin, env
    <3>2. RVRsOK'
      BY <3>1 DEF FinalizerInv, RVRsOK
    <3>3. ASSUME NEW r \in Replicas, rvrShouldNotExist(r)' PROVE HeldIn(mem, r)' /\ HeldIn(rv, r)'
      BY <3>1, <3>3 DEF FinalizerInv, rvrShouldNotExist, HeldIn, Members
    <3> QED BY <3>1, <3>2, <3>3 DEF FinalizerInv
  <2>2. CASE Settle
    BY <2>0, <2>2, SettleHeld
  <2>3. CASE Dispatch
    BY <2>0, <2>3, DispatchHeld
  <2>4. CASE patchRVStatus
    <3>1. UNCHANGED <<mem, rvr>> /\ rv' = mem /\ pc' = "idle"
      BY <2>4 DEF patchRVStatus, env
    <3>2. RVRsOK'
      BY <3>1 DEF FinalizerInv, RVRsOK
    <3>3. ASSUME NEW r \in Replicas, rvrShouldNotExist(r)' PROVE HeldIn(mem, r)' /\ HeldIn(rv, r)'
      BY <3>1, <3>3 DEF FinalizerInv, rvrShouldNotExist, HeldIn, Members
    <3> QED BY <3>1, <3>2, <3>3 DEF FinalizerInv
  <2>5. ASSUME NEW q \in Replicas, ReplicaStep(q) PROVE FinalizerInv'
    BY <2>0, <2>5, ReplicaStepHeld
  <2>6. CASE Environment
    BY <2>0, <2>6, EnvironmentHeld
  <2>7. CASE UNCHANGED vars
    BY <2>7, NothingHeld DEF vars, ctrl, env
  <2> QED BY <2>1, <2>2, <2>3, <2>4, <2>5, <2>6, <2>7 DEF Next, Controller
<1> QED BY <1>1, <1>2, TypeCorrect, SlotsHold, PTL DEF Spec

\* "removes [the finalizer] from deleting RVRs when safe (not a datamesh member and no
\* RemoveReplica transition in progress)", comment of reconcileRVRFinalizers: whatever
\* replicas, layouts and configurations there are and however often nodes are lost, RVRs
\* deleted, retyped, force-deleted or asked to leave by force, the finalizer of a deleting
\* RVR is released only once it left, or before it ever ran the volume.
THEOREM FinalizerHeld ==
    ASSUME Undisturbed
    PROVE  Spec => []FinalizerHeldUntilLeft
<1>1. Spec => []FinalizerInv
  BY FinalizerInvHolds
<1>2. SlotInv /\ FinalizerInv => FinalizerHeldUntilLeft
  <2> SUFFICES ASSUME SlotInv, FinalizerInv, pc = "idle", NEW r \in Replicas, rvrShouldNotExist(r),
                      Active(rv.mt[r])
               PROVE  PlanOf(rv.mt[r]).type # "RemoveReplica"
    BY DEF FinalizerHeldUntilLeft, FinalizerInv, HeldIn
  <2>1. rv.mt[r].plan \in MembershipPlanID /\ rv.mt[r].plan \notin RemovePlan
    BY DEF FinalizerInv, HeldIn, SlotInv, SlotsOK, Active
  <2> QED BY <2>1, PlanShapes DEF MembershipPlanID, PlanOf
<1> QED BY <1>1, <1>2, SlotsHold, PTL

----------------------------------------------------------------------------
(* The primaries *)

\* The invariant holds in every reachable state, whatever the controller, the replicas, the
\* users and the failures do.
THEOREM PrimaryInvHolds ==
    ASSUME Regular
    PROVE  Spec => []PrimaryInv
<1>0. Undisturbed
  BY DEF Regular, Undisturbed
<1>1. Spec => []FinalizerInv
  BY <1>0, FinalizerInvHolds
<1>2. Init => PrimaryInv
  BY InitPrimary
<1>3. /\ EnvTypeOK /\ CtrlTypeOK /\ CtrlTypeOK' /\ SlotInv /\ FinalizerInv /\ PrimaryInv
      /\ [Next]_vars
      => PrimaryInv'
  BY NextPrimary
<1>4. TypeOK' => CtrlTypeOK'
  BY DEF TypeOK, CtrlTypeOK
<1> QED BY <1>1, <1>2, <1>3, <1>4, TypeCorrect, TypeHalves, SlotsHold, PTL DEF Spec

\* Two reachable nodes that both run as primary, and neither of which is on its way out, both
\* allow two primaries: guardSlotAvailable, CanAdmit and confirmMultiattach together, however
\* many replicas there are and whatever is retyped, deleted, lost or asked for in between.
THEOREM DualPrimaryIsAllowed ==
    ASSUME Regular
    PROVE  Spec => []NoDualPrimary
<1>1. Spec => []PrimaryInv
  BY PrimaryInvHolds
<1>2. PrimaryInv => NoDualPrimary
  BY PrimaryImplies
<1> QED BY <1>1, <1>2, PTL
============================================================================
