-------------------------- MODULE Datamesh_proofs --------------------------
(***************************************************************************)
(* Type correctness of Datamesh for every number of replicas, every set of *)
(* initial layouts and every set of external events. The type invariant is *)
(* inductive by itself. The proof follows the reconcile: what the          *)
(* dispatchers select, then every action of the controller, of the         *)
(* replicas and of the environment.                                        *)
(*                                                                         *)
(* What the actions of the engine do to a datamesh state, and two things   *)
(* that follow for every number of replicas and every set of scenarios     *)
(* (initial layouts and external events, crashes included): the slots hold *)
(* what they are meant for, and voters and quorum are only ever touched by *)
(* one transition at a time.                                               *)
(*                                                                         *)
(* Both are inductive relative to the type invariant, with rv and mem      *)
(* treated alike: a patch copies mem to rv, and an abandoned reconcile     *)
(* copies rv to mem.                                                       *)
(***************************************************************************)
EXTENDS Datamesh, DatameshEngine_proofs

\* The obligations are small and their context is large: give the provers time to read it.
USE SMTT(30), ZenonT(20)

\* The quorum dispatcher only selects plans of the Quorum group.
LEMMA QuorumPlans ==
    \A s : QuorumPlan(s) # None =>
             QuorumPlan(s) \in PlanID /\ Registry[QuorumPlan(s)].group = "Quorum"
<1>1. \A s : selectQuorumPlan(s) \in {"QuorumLower", "QuorumRaise", "QuorumLowerQRaiseQMR",
                                     "QuorumRaiseQLowerQMR"}
  BY SMTT(30) DEF selectQuorumPlan
<1>2. \A p \in {"QuorumLower", "QuorumRaise", "QuorumLowerQRaiseQMR", "QuorumRaiseQLowerQMR"} :
        p \in PlanID /\ Registry[p].group = "Quorum"
  BY PlanNames, PlanLookup DEF QuorumLower, QuorumRaise, QuorumLowerQRaiseQMR,
                               QuorumRaiseQLowerQMR, ChangeQuorum, Plan
<1> QED BY <1>1, <1>2 DEF QuorumPlan

\* The attachment dispatcher only selects plans of the registry.
LEMMA AttachmentPlans ==
    /\ \A s, p0 : decideMultiattachToggle(s, p0) \in PlanID \cup {None}
    /\ \A s, r : decideAttachmentForReplica(s, r) \in PlanID \cup {None}
    /\ "ForceDetach" \in PlanID
BY PlanNames DEF decideMultiattachToggle, decideAttachmentForReplica

\* The membership dispatcher only selects plans of the registry: its case
\* distinctions cover every request and every member type.
LEMMA MembershipPlans ==
    ASSUME EnvTyped, NEW s \in State, NEW r \in Replicas
    PROVE  MembershipPlan(s, r) \in PlanID \cup {None}
<1> DEFINE req == rvr[r].req
<1>1. req \in Request /\ cfg.shadow \in BOOLEAN /\ s.type[r] \in MemberType \cup {None}
  BY DEF EnvTyped, RVR, Configuration, State
<1>2. planForceRemoveReplica(s, r) \in PlanID \cup {None}
  BY PlanNames DEF planForceRemoveReplica
<1>3. planAddDiskful(s) \in PlanID
  <2> DEFINE up == s.qmr < QuorumMinimumRedundancy(cfg)
  <2>1. CASE up
    BY <1>1, <2>1, PlanNames DEF planAddDiskful, EvenVoters
  <2>2. CASE ~up
    BY <1>1, <2>2, PlanNames DEF planAddDiskful, EvenVoters
  <2> QED BY <2>1, <2>2
<1>4. req.op = "Join" => planAddReplica(s, r, req.type) \in PlanID \cup {None}
  <2>1. req.op = "Join" => req.type \in {"D", "sD", "A", "TB"}
    BY <1>1 DEF Request, ReplicaType, None
  <2> HIDE DEF req
  <2> QED BY <1>3, <2>1, PlanNames DEF planAddReplica
<1>5. planRemoveReplica(s, r) \in PlanID \cup {None}
  <2>1. planRemoveDiskful(s) \in PlanID
    BY PlanNames DEF planRemoveDiskful
  <2> QED BY <1>1, <2>1, PlanNames DEF planRemoveReplica, MemberType, IsVoter
<1>6. planChangeReplicaType(s, r, req.type) \in PlanID \cup {None}
  BY PlanNames DEF planChangeReplicaType, planChangeToDiskful, ByParity
<1> HIDE DEF req
<1> QED BY SMTT(30), <1>2, <1>4, <1>5, <1>6 DEF MembershipPlan, req

\* DRBD before its first configuration is well formed.
LEMMA UnconfiguredType == Unconfigured \in DrbdConfiguration
BY DEF Unconfigured, NoPeers, DrbdConfiguration

\* computeTargetDRBDRSpec yields a well-formed DRBD configuration.
LEMMA SpecType ==
    ASSUME NEW s \in State, NEW r \in Replicas, NEW t \in MemberType \cup {None}
    PROVE  computeTargetDRBDRSpec(s, r, t) \in DrbdConfiguration
<1>1. computeTargetDRBDRPeers(s, r) \in [Replicas -> {"voter", "shadow", "TB", "A", None}]
  <2>1. \A p \in Members(s) : PeerKind(s.type[p]) \in {"voter", "shadow", "TB", "A"}
    BY DEF Members, State, PeerKind, IsVoter, MemberType
  <2> QED BY SMTT(30), <2>1 DEF computeTargetDRBDRPeers
<1>3. [Unconfigured EXCEPT !.own = t] \in DrbdConfiguration
  BY SMTT(30), UnconfiguredType DEF DrbdConfiguration
<1>4. s.q \in 0 .. 255 /\ s.qmr \in 0 .. 255 /\ s.multi \in BOOLEAN
  BY SMTT(30) DEF State
<1>5. (IF IsVoter(t) THEN s.q ELSE 32) \in 0 .. 255
  BY SMTT(30), <1>4
<1>6. CASE r \in Members(s)
  BY <1>1, <1>4, <1>5, <1>6 DEF computeTargetDRBDRSpec, DrbdConfiguration
<1>7. CASE r \notin Members(s)
  BY SMTT(30), <1>3, <1>7 DEF computeTargetDRBDRSpec
<1> QED BY <1>6, <1>7

\* The two halves of the type invariant: the objects around the reconcile, and
\* the datamesh state with the reconcile itself.
EnvTypeOK ==
    /\ Counted
    /\ rvr \in [Replicas -> RVR] /\ conf \in [Replicas -> DrbdConfiguration]
    /\ cfg \in Configuration
    /\ utd \in SUBSET Replicas /\ lost \in SUBSET Replicas
    /\ elig \in SUBSET Replicas /\ rva \in SUBSET Replicas
    /\ open \in SUBSET Replicas
    /\ budget \in [scenario : DOMAIN Scenarios, left : Nat]

CtrlTypeOK ==
    /\ rv \in State /\ mem \in State
    /\ pc \in {"idle", "process", "patch"}
    /\ cur \in Nat /\ iter \in 0 .. maxOuter /\ disp \in BOOLEAN
    /\ pot \in SUBSET Replicas

\* A formed volume is a well-formed datamesh state.
LEMMA FormedType ==
    ASSUME Counted, NEW n \in DOMAIN Scenarios, NEW l \in Scenarios[n].layouts, cfg = l.cfg
    PROVE  FormedState(l) \in State
<1> DEFINE s0 == [rev |-> 1, type |-> l.type,
                  bv |-> [r \in Replicas |-> IF l.type[r] = "D" THEN "vg" ELSE None],
                  attached |-> l.attached, multi |-> FALSE,
                  q |-> 0, qmr |-> l.cfg.gmdr + 1, base |-> l.cfg.gmdr,
                  mt |-> [r \in Replicas |-> Idle], at |-> [r \in Replicas |-> Idle],
                  qt |-> Idle, xt |-> Idle]
<1>1. l.type \in [Replicas -> MemberType \cup {None}]
  BY SMTT(30), ScenarioAssumption DEF MemberType
<1>2. cfg \in Configuration /\ l.cfg.gmdr \in 0 .. 255 /\ l.cfg.gmdr + 1 \in 0 .. 255
  <2>1. l.cfg \in Configuration
    BY ScenarioAssumption
  <2>2. l.cfg.gmdr \in 0 .. 2
    BY <2>1 DEF Configuration
  <2> QED BY <2>1, <2>2
<1>3. [r \in Replicas |-> IF l.type[r] = "D" THEN "vg" ELSE None]
        \in [Replicas -> {"vg", None}]
  OBVIOUS
<1>4. s0 \in State
  <2>1. [r \in Replicas |-> Idle] \in [Replicas -> Transition] /\ Idle \in Transition
    BY IdleType
  <2>2. l.attached \in SUBSET Replicas /\ 0 \in 0 .. 255 /\ 1 \in Nat /\ FALSE \in BOOLEAN
    BY ScenarioAssumption
  <2> QED BY ZenonT(40), <1>1, <1>2, <1>3, <2>1, <2>2 DEF State
<1>5. FormedState(l) = [s0 EXCEPT !.q = CorrectQ(s0)]
  BY DEF FormedState
<1> HIDE DEF s0
<1>6. s0.qmr \in 0 .. 255
  BY <1>4 DEF State
<1>7. CorrectQ(s0) \in 0 .. 255
  BY ZenonT(40), <1>2, <1>6, QuorumBytes
<1> QED BY <1>4, <1>5, <1>7 DEF State

\* The type invariant holds initially.
LEMMA InitType ==
    ASSUME Counted, Init
    PROVE  EnvTypeOK /\ CtrlTypeOK
<1>n. PICK n \in DOMAIN Scenarios : \E l \in Scenarios[n].layouts : StartFrom(n, l)
  BY DEF Init
<1>l. PICK l \in Scenarios[n].layouts : StartFrom(n, l)
  BY <1>n
<1> USE <1>l DEF StartFrom
<1>0. /\ l.type \in [Replicas -> {"D", "A", "TB", None}] /\ l.cfg \in Configuration
      /\ l.attached \subseteq Replicas /\ Scenarios[n].max \in Nat
  BY ScenarioAssumption
<1>1. rv \in State /\ mem \in State
  BY FormedType
<1>2. rvr \in [Replicas -> RVR]
  <2> SUFFICES ASSUME NEW r \in Replicas PROVE rvr[r] \in RVR
    OBVIOUS
  <2>1. NoRequest \in Request
    BY DEF NoRequest, Request
  <2>2. NoRVR \in RVR
    BY <2>1 DEF NoRVR, RVR
  <2>3. l.type[r] # None => l.type[r] \in {"D", "A", "TB"}
    BY SMTT(30), <1>0
  <2>4. l.type[r] # None =>
            [ex |-> "live", type |-> l.type[r], fin |-> TRUE, rev |-> 1, req |-> NoRequest,
             use |-> FALSE] \in RVR
    BY SMTT(30), <2>1, <2>3 DEF RVR, ReplicaType
  <2> QED BY SMTT(30), <2>2, <2>4
<1>3. conf \in [Replicas -> DrbdConfiguration]
  <2> SUFFICES ASSUME NEW r \in Replicas PROVE conf[r] \in DrbdConfiguration
    OBVIOUS
  <2>1. l.type[r] \in MemberType \cup {None}
    BY <1>0 DEF MemberType
  <2>2. computeTargetDRBDRSpec(FormedState(l), r, l.type[r]) \in DrbdConfiguration
    BY SMTT(30), <2>1, FormedType, SpecType
  <2>3. Unconfigured \in DrbdConfiguration
    BY UnconfiguredType
  <2> QED BY SMTT(30), <2>2, <2>3
<1>4. utd \in SUBSET Replicas
  OBVIOUS
<1>5. /\ pc \in {"idle", "process", "patch"} /\ cur \in Nat /\ iter \in 0 .. maxOuter
      /\ pot \in SUBSET Replicas /\ budget \in [scenario : DOMAIN Scenarios, left : Nat]
  BY <1>0 DEF maxOuter
<1>6. disp \in BOOLEAN
  BY Zenon
<1> QED BY SMTT(30), <1>0, <1>1, <1>2, <1>3, <1>4, <1>5, <1>6 DEF EnvTypeOK, CtrlTypeOK

\* A step that leaves the surrounding objects alone keeps their types.
LEMMA EnvKept == EnvTypeOK /\ UNCHANGED env => EnvTypeOK'
BY DEF EnvTypeOK, env

\* A step that leaves the reconcile and the stored state alone keeps their types.
LEMMA CtrlKept == CtrlTypeOK /\ UNCHANGED <<rv, ctrl>> => CtrlTypeOK'
BY DEF CtrlTypeOK, ctrl

\* The slots of a well-formed state hold well-formed transitions.
LEMMA SlotsTyped ==
    ASSUME NEW s \in State, NEW r \in Replicas
    PROVE  /\ s.mt[r] \in Transition /\ s.at[r] \in Transition
           /\ s.qt \in Transition /\ s.xt \in Transition
BY DEF State

\* Giving up a reconcile keeps the types.
LEMMA DiscardType ==
    ASSUME rv \in State, Discard, UNCHANGED rv
    PROVE  CtrlTypeOK'
<1>1. disp' \in BOOLEAN
  BY Zenon DEF Discard
<1> QED BY <1>1 DEF Discard, CtrlTypeOK, maxOuter

\* Settling confirmed transitions keeps the types.
LEMMA SettleType ==
    ASSUME EnvTypeOK, CtrlTypeOK, Settle
    PROVE  CtrlTypeOK'
<1>0. EnvTyped /\ mem \in State /\ rv \in State
  BY DEF EnvTypeOK, EnvTyped, CtrlTypeOK
<1>1. ASSUME NEW r \in Replicas, SettleMembership(r) PROVE CtrlTypeOK'
  <2>1. mem.mt[r] \in Transition /\ Active(mem.mt[r])
    BY <1>0, <1>1, SlotsTyped DEF SettleMembership, MembershipConfirmed
  <2>2. Advanced(mem, r, mem.mt[r]) \in State /\ AdvancedSlot(mem, r, mem.mt[r]) \in Transition
    BY <1>0, <2>1, AdvancedType
  <2>3. mem' \in State
    BY ZenonT(40), <1>1, <2>2, SlotUpdates DEF SettleMembership
  <2> QED BY <1>1, <2>3 DEF SettleMembership, CtrlTypeOK
<1>2. ASSUME NEW r \in Replicas, SettleAttachment(r) PROVE CtrlTypeOK'
  <2>1. mem.at[r] \in Transition /\ Active(mem.at[r])
    BY SMTT(30), <1>0, <1>2, SlotsTyped DEF SettleAttachment, AttachmentConfirmed
  <2>2. Advanced(mem, r, mem.at[r]) \in State /\ AdvancedSlot(mem, r, mem.at[r]) \in Transition
    BY <1>0, <2>1, AdvancedType
  <2>3. mem' \in State
    BY ZenonT(40), <1>2, <2>2, SlotUpdates DEF SettleAttachment
  <2>4. pot' \in SUBSET Replicas
    BY <1>2 DEF SettleAttachment, CtrlTypeOK
  <2> QED BY SMTT(30), <1>2, <2>3, <2>4 DEF SettleAttachment, CtrlTypeOK
<1>3. ASSUME SettleQuorum PROVE CtrlTypeOK'
  <2>1. mem.qt \in Transition /\ Active(mem.qt)
    BY SMTT(30), <1>0, <1>3, SlotsTyped, ZeroIsReplica DEF SettleQuorum, GlobalConfirmed
  <2>2. Advanced(mem, 0, mem.qt) \in State /\ AdvancedSlot(mem, 0, mem.qt) \in Transition
    BY <1>0, <2>1, AdvancedType, ZeroIsReplica
  <2>3. mem' \in State
    BY ZenonT(40), <1>3, <2>2, SlotUpdates, ZeroIsReplica DEF SettleQuorum
  <2> QED BY <1>3, <2>3 DEF SettleQuorum, CtrlTypeOK
<1>4. ASSUME SettleMultiattach PROVE CtrlTypeOK'
  <2>1. mem.xt \in Transition /\ Active(mem.xt)
    BY SMTT(30), <1>0, <1>4, SlotsTyped, ZeroIsReplica DEF SettleMultiattach, GlobalConfirmed
  <2>2. Advanced(mem, 0, mem.xt) \in State /\ AdvancedSlot(mem, 0, mem.xt) \in Transition
    BY SMTT(30), <1>0, <2>1, AdvancedType, ZeroIsReplica
  <2>3. mem' \in State
    BY ZenonT(40), <1>4, <2>2, SlotUpdates, ZeroIsReplica DEF SettleMultiattach
  <2> QED BY <1>4, <2>3 DEF SettleMultiattach, CtrlTypeOK
<1>5. ASSUME Panic PROVE CtrlTypeOK'
  BY SMTT(30), <1>0, <1>5, DiscardType DEF Panic
<1> QED BY SMTT(30), <1>1, <1>2, <1>3, <1>4, <1>5 DEF Settle

\* Dispatching, and finishing Process, keeps the types.
LEMMA DispatchType ==
    ASSUME EnvTypeOK, CtrlTypeOK, Dispatch
    PROVE  CtrlTypeOK' /\ EnvTypeOK'
<1>0. EnvTyped /\ mem \in State /\ rv \in State
  BY DEF EnvTypeOK, EnvTyped, CtrlTypeOK
<1>1. ASSUME DispatchQuorum PROVE CtrlTypeOK' /\ UNCHANGED env
  <2>1. QuorumPlan(mem) \in PlanID
    BY <1>1, QuorumPlans DEF DispatchQuorum, QuorumDispatchable
  <2>2. /\ Created(mem, 0, QuorumPlan(mem)) \in State
        /\ CreatedSlot(mem, 0, QuorumPlan(mem)) \in Transition
    BY SMTT(30), <1>0, <2>1, CreatedType, ZeroIsReplica
  <2>3. mem' \in State
    BY ZenonT(40), <1>1, <2>2, SlotUpdates, ZeroIsReplica DEF DispatchQuorum
  <2> QED BY <1>1, <2>3 DEF DispatchQuorum, CtrlTypeOK, QuorumPlace
<1>2. ASSUME NEW r \in Replicas, DispatchMembership(r) PROVE CtrlTypeOK' /\ UNCHANGED env
  <2> DEFINE plan == MembershipPlan(mem, r)
             s1   == Cancelled(mem, r, plan)
  <2>1. plan \in PlanID
    BY <1>0, <1>2, MembershipPlans DEF DispatchMembership, MembershipDispatchable
  <2>2. s1 \in State
    BY ZenonT(40), <1>0, SlotUpdates, IdleType DEF Cancelled
  <2>3. Created(s1, r, plan) \in State /\ CreatedSlot(s1, r, plan) \in Transition
    BY SMTT(30), <1>0, <2>1, <2>2, CreatedType
  <2>4. mem' \in State
    <3>1. [Created(s1, r, plan) EXCEPT !.mt[r] = CreatedSlot(s1, r, plan)] \in State
      BY Zenon, <2>3, SlotUpdates
    <3> QED BY <1>2, <2>2, <3>1 DEF DispatchMembership
  <2>5. disp' \in BOOLEAN
    BY Zenon, <1>2 DEF DispatchMembership, CtrlTypeOK
  <2>6. cur' \in Nat
    BY <1>2 DEF DispatchMembership, MembershipPlace, Replicas
  <2> QED BY SMTT(30), <1>2, <2>4, <2>5, <2>6 DEF DispatchMembership, CtrlTypeOK
<1>3. ASSUME NEW r \in Replicas, DispatchForceDetach(r) PROVE CtrlTypeOK' /\ UNCHANGED env
  <2> DEFINE s1 == [mem EXCEPT !.at[r] = Idle]
  <2>1. s1 \in State
    BY ZenonT(40), <1>0, SlotUpdates, IdleType
  <2>2. /\ Created(s1, r, "ForceDetach") \in State
        /\ CreatedSlot(s1, r, "ForceDetach") \in Transition
    BY SMTT(30), <1>0, <2>1, CreatedType, AttachmentPlans
  <2>3. mem' \in State
    <3>1. [Created(s1, r, "ForceDetach") EXCEPT !.at[r] = CreatedSlot(s1, r, "ForceDetach")]
            \in State
      BY Zenon, <2>2, SlotUpdates
    <3> QED BY <1>3, <2>1, <3>1 DEF DispatchForceDetach
  <2>6. disp' \in BOOLEAN
    BY Zenon, <1>3 DEF DispatchForceDetach, CtrlTypeOK
  <2>4. cur' \in Nat
    BY <1>3, NAssumption DEF DispatchForceDetach, ForceDetachPlace, Replicas
  <2>5. pot' \in SUBSET Replicas
    BY <1>3 DEF DispatchForceDetach, CtrlTypeOK
  <2> QED BY SMTT(30), <1>3, <2>3, <2>4, <2>5, <2>6 DEF DispatchForceDetach, CtrlTypeOK
<1>4. ASSUME DispatchToggle PROVE CtrlTypeOK' /\ UNCHANGED env
  <2> DEFINE plan == decideMultiattachToggle(mem, pot)
  <2>1. plan \in PlanID
    BY <1>4, AttachmentPlans DEF DispatchToggle, ToggleDispatchable
  <2>2. Created(mem, 0, plan) \in State /\ CreatedSlot(mem, 0, plan) \in Transition
    BY <1>0, <2>1, CreatedType, ZeroIsReplica
  <2>3. mem' \in State
    BY ZenonT(40), <1>4, <2>2, SlotUpdates, ZeroIsReplica DEF DispatchToggle
  <2>4. cur' \in Nat
    BY SMTT(30), <1>4, NAssumption DEF DispatchToggle, TogglePlace
  <2> QED BY <1>4, <2>3, <2>4 DEF DispatchToggle, CtrlTypeOK
<1>5. ASSUME NEW r \in Replicas, DispatchAttachment(r) PROVE CtrlTypeOK' /\ UNCHANGED env
  <2> DEFINE plan == decideAttachmentForReplica(mem, r)
  <2>1. plan \in PlanID
    BY <1>5, AttachmentPlans DEF DispatchAttachment, AttachmentDispatchable
  <2>2. Created(mem, r, plan) \in State /\ CreatedSlot(mem, r, plan) \in Transition
    BY <1>0, <2>1, CreatedType
  <2>3. mem' \in State
    BY ZenonT(40), <1>5, <2>2, SlotUpdates DEF DispatchAttachment
  <2>4. cur' \in Nat
    BY <1>5, NAssumption DEF DispatchAttachment, AttachPlace
  <2>5. pot' \in SUBSET Replicas
    BY <1>5 DEF DispatchAttachment, CtrlTypeOK
  <2> QED BY SMTT(30), <1>5, <2>3, <2>4, <2>5 DEF DispatchAttachment, CtrlTypeOK
<1>6. ASSUME NextIteration PROVE CtrlTypeOK' /\ UNCHANGED env
  <2>1. disp' \in BOOLEAN
    BY Zenon, <1>6 DEF NextIteration
  <2> QED BY <1>6, <2>1 DEF NextIteration, CtrlTypeOK, maxOuter
<1>7. ASSUME reconcileRVRFinalizers PROVE CtrlTypeOK' /\ EnvTypeOK'
  <2>1. CtrlTypeOK'
    <3>1. disp' \in BOOLEAN
      BY Zenon, <1>7 DEF reconcileRVRFinalizers
    <3> QED BY <1>7, <3>1 DEF reconcileRVRFinalizers, CtrlTypeOK, maxOuter
  <2>2. rvr' \in [Replicas -> RVR]
    <3> SUFFICES ASSUME NEW r \in Replicas PROVE rvr'[r] \in RVR
      BY <1>7 DEF reconcileRVRFinalizers
    <3>1. rvr[r] \in RVR
      BY DEF EnvTypeOK
    <3>2. TargetFinalizer(mem, r) \in BOOLEAN
      BY Zenon DEF TargetFinalizer
    <3>3. [rvr[r] EXCEPT !.fin = TargetFinalizer(mem, r)] \in RVR
      BY <3>1, <3>2 DEF RVR
    <3> QED BY <1>7, <3>1, <3>3 DEF reconcileRVRFinalizers
  <2> QED BY <1>7, <2>1, <2>2 DEF reconcileRVRFinalizers, EnvTypeOK
<1> QED BY SMTT(30), <1>1, <1>2, <1>3, <1>4, <1>5, <1>6, <1>7, EnvKept DEF Dispatch

\* Starting a reconcile keeps the types.
LEMMA BeginType ==
    ASSUME CtrlTypeOK, Begin
    PROVE  CtrlTypeOK' /\ UNCHANGED env
<1>1. pot' \in SUBSET Replicas
  BY Zenon DEF Begin, potentiallyAttached, CtrlTypeOK, State
<1> QED BY SMTT(30), <1>1 DEF Begin, CtrlTypeOK, maxOuter

\* Every step of the rv-controller keeps the types.
LEMMA ControllerType ==
    ASSUME EnvTypeOK, CtrlTypeOK, Controller
    PROVE  CtrlTypeOK' /\ EnvTypeOK'
<1>1. CASE Begin
  BY <1>1, BeginType, EnvKept
<1>2. CASE Settle
  <2>1. UNCHANGED env
    BY <1>2 DEF Settle, SettleMembership, SettleAttachment, SettleQuorum,
                SettleMultiattach, Panic
  <2> QED BY SMTT(30), <1>2, <2>1, SettleType, EnvKept
<1>3. CASE Dispatch
  BY <1>3, DispatchType
<1>4. CASE patchRVStatus
  <2>1. CtrlTypeOK' /\ UNCHANGED env
    BY <1>4 DEF patchRVStatus, CtrlTypeOK
  <2> QED BY <2>1, EnvKept
<1> QED BY <1>1, <1>2, <1>3, <1>4 DEF Controller

\* The membership requests that are ever written are well formed.
LEMMA RequestTypes ==
    /\ NoRequest \in Request
    /\ \A op \in {"Leave", "ForceLeave", "ForceDetach"} :
          [NoRequest EXCEPT !.op = op] \in Request
    /\ \A t \in ReplicaType, op \in {"Join", "ChangeRole"}, b \in {"vg", None} :
          [op |-> op, type |-> t, bv |-> b] \in Request
BY DEF NoRequest, Request

\* The ways an RVR object is changed keep it well formed.
LEMMA RVRUpdates ==
    ASSUME NEW x \in RVR
    PROVE  /\ NoRVR \in RVR
           /\ \A t \in ReplicaType, f \in BOOLEAN :
                [NoRVR EXCEPT !.ex = "live", !.type = t, !.fin = f] \in RVR
           /\ x.ex = "live" => [x EXCEPT !.ex = "deleting"] \in RVR
           /\ \A t \in ReplicaType : [x EXCEPT !.type = t] \in RVR
           /\ \A q \in Request : [x EXCEPT !.req = q] \in RVR
           /\ \A n \in Nat, u \in BOOLEAN, q \in Request :
                [x EXCEPT !.rev = n, !.use = u, !.req = q] \in RVR
<1>1. NoRVR \in RVR
  BY RequestTypes DEF NoRVR, RVR
<1>2. \A t \in ReplicaType, f \in BOOLEAN :
        [NoRVR EXCEPT !.ex = "live", !.type = t, !.fin = f] \in RVR
  BY Zenon, RequestTypes DEF NoRVR, RVR, ReplicaType, None
<1>3. x.ex = "live" => [x EXCEPT !.ex = "deleting"] \in RVR
  BY DEF RVR, None
<1>4. \A t \in ReplicaType : [x EXCEPT !.type = t] \in RVR
  BY DEF RVR, ReplicaType, None
<1>5. \A q \in Request : [x EXCEPT !.req = q] \in RVR
  BY DEF RVR
<1>6. \A n \in Nat, u \in BOOLEAN, q \in Request :
        [x EXCEPT !.rev = n, !.use = u, !.req = q] \in RVR
  BY Zenon DEF RVR
<1> QED BY ZenonT(40), <1>1, <1>2, <1>3, <1>4, <1>5, <1>6

\* computeTargetDatameshRequest yields a well-formed request.
LEMMA TargetRequestType ==
    ASSUME EnvTypeOK, NEW r \in Replicas, Exists(r), NEW rev \in Nat
    PROVE  computeTargetDatameshRequest(r, rev) \in Request
<1>1. rvr[r].type \in ReplicaType
  BY DEF EnvTypeOK, RVR, Exists
<1> QED BY <1>1, RequestTypes DEF computeTargetDatameshRequest, ReplicaType

\* Every step of a replica keeps the types and leaves the controller alone.
LEMMA ReplicaStepType ==
    ASSUME EnvTypeOK, CtrlTypeOK, NEW r \in Replicas, ReplicaStep(r)
    PROVE  EnvTypeOK' /\ UNCHANGED <<rv, ctrl>>
<1>0. rvr[r] \in RVR /\ rv \in State
  BY DEF EnvTypeOK, CtrlTypeOK
<1>1. ASSUME NEW t \in MemberType, Adopt(r, t) PROVE EnvTypeOK' /\ UNCHANGED <<rv, ctrl>>
  <2>1. computeTargetDRBDRSpec(rv, r, t) \in DrbdConfiguration
    BY SMTT(30), <1>0, SpecType
  <2>2. conf' \in [Replicas -> DrbdConfiguration]
    BY SMTT(30), <1>1, <2>1 DEF Adopt, EnvTypeOK
  <2>3. utd' \in SUBSET Replicas
    BY <1>1 DEF Adopt, EnvTypeOK
  <2> QED BY <1>1, <2>2, <2>3 DEF Adopt, EnvTypeOK
<1>2. CASE Report(r)
  <2> DEFINE rev == ReportedRevision(r)
  <2>1. rev \in Nat
    BY <1>0 DEF RVR, State, ReportedRevision
  <2>2. PICK use \in ReportedUse(r) :
            rvr' = [rvr EXCEPT ![r].rev = rev, ![r].use = use,
                               ![r].req = computeTargetDatameshRequest(r, rev)]
    BY Zenon, <1>2 DEF Report
  <2>3. use \in BOOLEAN
    <3>1. rvr[r].use \in BOOLEAN
      BY <1>0 DEF RVR
    <3>2. (r \in open) \in BOOLEAN
      OBVIOUS
    <3> QED BY Zenon, <3>1, <3>2 DEF ReportedUse
  <2> HIDE DEF rev
  <2>4. computeTargetDatameshRequest(r, rev) \in Request
    BY <1>2, <2>1, TargetRequestType DEF Report
  <2>5. [rvr[r] EXCEPT !.rev = rev, !.use = use,
                       !.req = computeTargetDatameshRequest(r, rev)] \in RVR
    BY ZenonT(40), <1>0, <2>1, <2>3, <2>4, RVRUpdates
  <2>6. rvr' = [rvr EXCEPT ![r] =
                  [rvr[r] EXCEPT !.rev = rev, !.use = use,
                                 !.req = computeTargetDatameshRequest(r, rev)]]
    BY Zenon, <2>2 DEF EnvTypeOK
  <2>7. rvr' \in [Replicas -> RVR]
    BY <2>5, <2>6 DEF EnvTypeOK
  <2> QED BY SMTT(30), <1>2, <2>7 DEF Report, EnvTypeOK
<1>3. CASE Sync(r)
  BY <1>3 DEF Sync, EnvTypeOK
<1>4. CASE GoneRVR(r)
  <2>1. rvr' \in [Replicas -> RVR]
    BY Zenon, <1>0, <1>4, RVRUpdates DEF GoneRVR, EnvTypeOK
  <2>2. conf' \in [Replicas -> DrbdConfiguration]
    BY <1>4, UnconfiguredType DEF GoneRVR, EnvTypeOK
  <2> QED BY <1>4, <2>1, <2>2 DEF GoneRVR, EnvTypeOK
<1> QED BY SMTT(30), <1>1, <1>2, <1>3, <1>4 DEF ReplicaStep

\* Every external event keeps the types.
LEMMA EnvironmentType ==
    ASSUME EnvTypeOK, CtrlTypeOK, Environment
    PROVE  EnvTypeOK' /\ CtrlTypeOK'
<1> USE DEF Command
<1>a. ASSUME NEW kind, Event(kind)
      PROVE  budget' \in [scenario : DOMAIN Scenarios, left : Nat]
  BY <1>a DEF Event, EnvTypeOK
<1>b. scenario.types \subseteq ReplicaType /\ scenario.cfgs \subseteq Configuration
  BY ScenarioAssumption DEF scenario, EnvTypeOK
<1>1. ASSUME NEW r \in Replicas, NEW y \in RVR, rvr' = [rvr EXCEPT ![r] = y],
             UNCHANGED <<conf, utd, lost, cfg, elig, rva, open>>, NEW kind, Event(kind)
      PROVE  EnvTypeOK'
  BY <1>a, <1>1 DEF EnvTypeOK
<1>2. \A r \in Replicas : rvr[r] \in RVR
  BY DEF EnvTypeOK
<1>3. ASSUME NEW r \in Replicas, DeleteRVR(r) PROVE EnvTypeOK' /\ UNCHANGED <<rv, ctrl>>
  <2>1. [rvr[r] EXCEPT !.ex = "deleting"] \in RVR
    BY ZenonT(40), <1>2, <1>3, RVRUpdates DEF DeleteRVR
  <2> QED BY <1>1, <1>3, <2>1, Zenon DEF DeleteRVR, EnvTypeOK
<1>4. ASSUME NEW r \in Replicas, ForceDeleteRVR(r) PROVE EnvTypeOK' /\ UNCHANGED <<rv, ctrl>>
  <2>1. NoRVR \in RVR
    BY Zenon, <1>2, RVRUpdates
  <2> QED BY <1>1, <1>4, <2>1, Zenon DEF ForceDeleteRVR, EnvTypeOK
<1>5. ASSUME NEW r \in Replicas, NEW t \in scenario.types, RetypeRVR(r, t)
      PROVE  EnvTypeOK' /\ UNCHANGED <<rv, ctrl>>
  <2>1. [rvr[r] EXCEPT !.type = t] \in RVR
    BY Zenon, <1>2, RVRUpdates, <1>b
  <2> QED BY <1>1, <1>5, <2>1, Zenon DEF RetypeRVR, EnvTypeOK
<1>6. ASSUME NEW r \in Replicas, NEW t \in scenario.types, NEW k, CreateRVR(r, t, k)
      PROVE  EnvTypeOK' /\ UNCHANGED <<rv, ctrl>>
  <2>1. (k = "Create") \in BOOLEAN /\ t \in ReplicaType
    BY <1>b
  <2>2. [NoRVR EXCEPT !.ex = "live", !.type = t, !.fin = (k = "Create")] \in RVR
    BY ZenonT(40), <1>2, <2>1, RVRUpdates
  <2> QED BY <1>1, <1>6, <2>2, Zenon DEF CreateRVR, EnvTypeOK
<1>7. ASSUME NEW r \in Replicas, NEW op \in {"ForceLeave", "ForceDetach"}, ForceRequest(r, op)
      PROVE  EnvTypeOK' /\ UNCHANGED <<rv, ctrl>>
  <2>1. [rvr[r] EXCEPT !.req = [NoRequest EXCEPT !.op = op]] \in RVR
    BY ZenonT(40), <1>2, RVRUpdates, RequestTypes
  <2> QED BY <1>1, <1>7, <2>1, Zenon DEF ForceRequest, EnvTypeOK
<1>8. ASSUME NEW r \in Replicas, LoseNode(r) \/ AttachRVA(r) \/ DetachRVA(r) \/ SetEligible(r)
      PROVE  EnvTypeOK' /\ UNCHANGED <<rv, ctrl>>
  BY <1>a, <1>8 DEF LoseNode, AttachRVA, DetachRVA, SetEligible, EnvTypeOK
<1>9. ASSUME NEW r \in Replicas, OpenDevice(r) \/ CloseDevice(r)
      PROVE  EnvTypeOK' /\ UNCHANGED <<rv, ctrl>>
  BY <1>a, <1>9 DEF OpenDevice, CloseDevice, EnvTypeOK
<1>10. ASSUME NEW c \in scenario.cfgs, ChangeConfiguration(c)
       PROVE  EnvTypeOK' /\ UNCHANGED <<rv, ctrl>>
  <2>1. c \in Configuration
    BY <1>b
  <2>2. cfg.shadow \in BOOLEAN
    BY DEF EnvTypeOK, Configuration
  <2>3. [c EXCEPT !.shadow = cfg.shadow] \in Configuration
    BY <2>1, <2>2 DEF Configuration
  <2> QED BY <1>a, <1>10, <2>3 DEF ChangeConfiguration, EnvTypeOK
<1>11. CASE AbortReconcile
  <2>1. EnvTypeOK'
    BY <1>a, <1>11 DEF AbortReconcile, EnvTypeOK
  <2> QED BY <1>11, <2>1, DiscardType DEF AbortReconcile, CtrlTypeOK
<1> QED BY SMTT(30), <1>3, <1>4, <1>5, <1>6, <1>7, <1>8, <1>9, <1>10, <1>11, CtrlKept
       DEF Environment

\* The type invariant is inductive.
LEMMA NextType ==
    ASSUME EnvTypeOK, CtrlTypeOK, [Next]_vars
    PROVE  EnvTypeOK' /\ CtrlTypeOK'
<1>1. CASE Controller
  BY <1>1, ControllerType
<1>2. ASSUME NEW r \in Replicas, ReplicaStep(r) PROVE EnvTypeOK' /\ CtrlTypeOK'
  BY <1>2, ReplicaStepType, CtrlKept
<1>3. CASE Environment
  BY <1>3, EnvironmentType
<1>4. CASE UNCHANGED vars
  <2>1. UNCHANGED env /\ UNCHANGED <<rv, ctrl>>
    BY <1>4 DEF vars
  <2> QED BY <2>1, EnvKept, CtrlKept
<1> QED BY SMTT(30), <1>1, <1>2, <1>3, <1>4 DEF Next

----------------------------------------------------------------------------
(* What every action of the engine does to the working copy: which slot it *)
(* touches and which step it applies to whom                               *)

\* The transitions of y and s are the same, but for the membership slot of r (or the
\* attachment slot of r, the quorum slot, the multiattach slot).
OnlyMt(y, s, r) ==
    /\ \A p \in Replicas \ {r} : y.mt[p] = s.mt[p]
    /\ y.at = s.at /\ y.qt = s.qt /\ y.xt = s.xt

OnlyAt(y, s, r) ==
    /\ \A p \in Replicas \ {r} : y.at[p] = s.at[p]
    /\ y.mt = s.mt /\ y.qt = s.qt /\ y.xt = s.xt

OnlyQt(y, s) == y.mt = s.mt /\ y.at = s.at /\ y.xt = s.xt

OnlyXt(y, s) == y.mt = s.mt /\ y.at = s.at /\ y.qt = s.qt

\* Storing transition t of r in a membership slot of x, which has the slots of s.
LEMMA StoredMt ==
    ASSUME NEW s \in State, NEW x \in State, SameSlots(x, s), NEW r \in Replicas, NEW t
    PROVE  LET y == [x EXCEPT !.mt[r] = t]
           IN  SameMesh(y, x) /\ OnlyMt(y, s, r) /\ y.mt[r] = t
<1> DEFINE y == [x EXCEPT !.mt[r] = t]
<1>1. /\ SameMesh(y, x) /\ y.mt = [x.mt EXCEPT ![r] = t]
      /\ y.at = x.at /\ y.qt = x.qt /\ y.xt = x.xt
  BY DEF State, SameMesh
<1>2. x.mt \in [Replicas -> Transition]
  BY DEF State
<1> HIDE DEF y
<1>3. SameMesh(y, x) /\ OnlyMt(y, s, r) /\ y.mt[r] = t
  BY <1>1, <1>2 DEF SameSlots, OnlyMt
<1> QED BY <1>3 DEF y

\* Storing transition t of r in an attachment slot of x, which has the slots of s.
LEMMA StoredAt ==
    ASSUME NEW s \in State, NEW x \in State, SameSlots(x, s), NEW r \in Replicas, NEW t
    PROVE  LET y == [x EXCEPT !.at[r] = t]
           IN  SameMesh(y, x) /\ OnlyAt(y, s, r) /\ y.at[r] = t
<1> DEFINE y == [x EXCEPT !.at[r] = t]
<1>1. /\ SameMesh(y, x) /\ y.at = [x.at EXCEPT ![r] = t]
      /\ y.mt = x.mt /\ y.qt = x.qt /\ y.xt = x.xt
  BY DEF State, SameMesh
<1>2. x.at \in [Replicas -> Transition]
  BY DEF State
<1> HIDE DEF y
<1>3. SameMesh(y, x) /\ OnlyAt(y, s, r) /\ y.at[r] = t
  BY <1>1, <1>2 DEF SameSlots, OnlyAt
<1> QED BY <1>3 DEF y

\* Storing transition t in the quorum slot of x.
LEMMA StoredQt ==
    ASSUME NEW s \in State, NEW x \in State, SameSlots(x, s), NEW t
    PROVE  LET y == [x EXCEPT !.qt = t]
           IN  SameMesh(y, x) /\ OnlyQt(y, s) /\ y.qt = t
BY DEF State, SameMesh, SameSlots, OnlyQt

\* Storing transition t in the multiattach slot of x.
LEMMA StoredXt ==
    ASSUME NEW s \in State, NEW x \in State, SameSlots(x, s), NEW t
    PROVE  LET y == [x EXCEPT !.xt = t]
           IN  SameMesh(y, x) /\ OnlyXt(y, s) /\ y.xt = t
BY DEF State, SameMesh, SameSlots, OnlyXt

\* What settling does: one confirmed transition advances, or the reconcile is given up.
LEMMA SettleEffect ==
    ASSUME EnvTypeOK, CtrlTypeOK, Settle
    PROVE  /\ UNCHANGED <<rv, env>>
           /\ \/ /\ pc' = "process"
                 /\ \/ \E r \in Replicas :
                          \/ SettleMembership(r) /\ OnlyMt(mem', mem, r) /\ Active(mem.mt[r])
                             /\ AdvancedTo(mem', mem'.mt[r], mem, r, mem.mt[r])
                          \/ SettleAttachment(r) /\ OnlyAt(mem', mem, r) /\ Active(mem.at[r])
                             /\ AdvancedTo(mem', mem'.at[r], mem, r, mem.at[r])
                    \/ SettleQuorum /\ OnlyQt(mem', mem) /\ Active(mem.qt)
                       /\ AdvancedTo(mem', mem'.qt, mem, 0, mem.qt)
                    \/ SettleMultiattach /\ OnlyXt(mem', mem) /\ Active(mem.xt)
                       /\ AdvancedTo(mem', mem'.xt, mem, 0, mem.xt)
              \/ mem' = rv /\ pc' = "idle" /\ pot' = {}
<1>0. EnvTyped /\ mem \in State /\ rv \in State /\ pc = "process"
  BY DEF EnvTypeOK, EnvTyped, CtrlTypeOK, Settle
<1>1. ASSUME NEW r \in Replicas, SettleMembership(r)
      PROVE  /\ UNCHANGED <<rv, env, pc>> /\ OnlyMt(mem', mem, r) /\ Active(mem.mt[r])
             /\ AdvancedTo(mem', mem'.mt[r], mem, r, mem.mt[r])
  <2> DEFINE t == mem.mt[r]
             x == Advanced(mem, r, t)
             u == AdvancedSlot(mem, r, t)
  <2>1. t \in Transition /\ Active(t)
    BY <1>0, <1>1, SlotsTyped DEF SettleMembership, MembershipConfirmed
  <2>2. x \in State /\ SameSlots(x, mem) /\ AdvancedTo(x, u, mem, r, t)
    BY <1>0, <2>1, AdvancedType, AdvancedApplied
  <2>3. mem' = [x EXCEPT !.mt[r] = u] /\ UNCHANGED <<rv, env, pc>>
    BY <1>1 DEF SettleMembership
  <2> HIDE DEF t, x, u
  <2>4. SameMesh(mem', x) /\ OnlyMt(mem', mem, r) /\ mem'.mt[r] = u
    BY <1>0, <2>2, <2>3, StoredMt
  <2>5. AdvancedTo(mem', u, mem, r, t)
    BY <2>2, <2>4, SameAdvanced
  <2> QED BY <2>1, <2>3, <2>4, <2>5 DEF t
<1>2. ASSUME NEW r \in Replicas, SettleAttachment(r)
      PROVE  /\ UNCHANGED <<rv, env, pc>> /\ OnlyAt(mem', mem, r) /\ Active(mem.at[r])
             /\ AdvancedTo(mem', mem'.at[r], mem, r, mem.at[r])
  <2> DEFINE t == mem.at[r]
             x == Advanced(mem, r, t)
             u == AdvancedSlot(mem, r, t)
  <2>1. t \in Transition /\ Active(t)
    BY <1>0, <1>2, SlotsTyped DEF SettleAttachment, AttachmentConfirmed
  <2>2. x \in State /\ SameSlots(x, mem) /\ AdvancedTo(x, u, mem, r, t)
    BY <1>0, <2>1, AdvancedType, AdvancedApplied
  <2>3. mem' = [x EXCEPT !.at[r] = u] /\ UNCHANGED <<rv, env, pc>>
    BY <1>2 DEF SettleAttachment
  <2> HIDE DEF t, x, u
  <2>4. SameMesh(mem', x) /\ OnlyAt(mem', mem, r) /\ mem'.at[r] = u
    BY <1>0, <2>2, <2>3, StoredAt
  <2>5. AdvancedTo(mem', u, mem, r, t)
    BY <2>2, <2>4, SameAdvanced
  <2> QED BY <2>1, <2>3, <2>4, <2>5 DEF t
<1>3. ASSUME SettleQuorum
      PROVE  /\ UNCHANGED <<rv, env, pc>> /\ OnlyQt(mem', mem) /\ Active(mem.qt)
             /\ AdvancedTo(mem', mem'.qt, mem, 0, mem.qt)
  <2> DEFINE t == mem.qt
             x == Advanced(mem, 0, t)
             u == AdvancedSlot(mem, 0, t)
  <2>1. t \in Transition /\ Active(t)
    BY <1>0, <1>3, SlotsTyped, ZeroIsReplica DEF SettleQuorum, GlobalConfirmed
  <2>2. x \in State /\ SameSlots(x, mem) /\ AdvancedTo(x, u, mem, 0, t)
    BY <1>0, <2>1, AdvancedType, AdvancedApplied, ZeroIsReplica
  <2>3. mem' = [x EXCEPT !.qt = u] /\ UNCHANGED <<rv, env, pc>>
    BY <1>3 DEF SettleQuorum
  <2> HIDE DEF t, x, u
  <2>4. SameMesh(mem', x) /\ OnlyQt(mem', mem) /\ mem'.qt = u
    BY <1>0, <2>2, <2>3, StoredQt
  <2>5. AdvancedTo(mem', u, mem, 0, t)
    BY <2>2, <2>4, SameAdvanced
  <2> QED BY <2>1, <2>3, <2>4, <2>5 DEF t
<1>4. ASSUME SettleMultiattach
      PROVE  /\ UNCHANGED <<rv, env, pc>> /\ OnlyXt(mem', mem) /\ Active(mem.xt)
             /\ AdvancedTo(mem', mem'.xt, mem, 0, mem.xt)
  <2> DEFINE t == mem.xt
             x == Advanced(mem, 0, t)
             u == AdvancedSlot(mem, 0, t)
  <2>1. t \in Transition /\ Active(t)
    BY <1>0, <1>4, SlotsTyped, ZeroIsReplica DEF SettleMultiattach, GlobalConfirmed
  <2>2. x \in State /\ SameSlots(x, mem) /\ AdvancedTo(x, u, mem, 0, t)
    BY <1>0, <2>1, AdvancedType, AdvancedApplied, ZeroIsReplica
  <2>3. mem' = [x EXCEPT !.xt = u] /\ UNCHANGED <<rv, env, pc>>
    BY <1>4 DEF SettleMultiattach
  <2> HIDE DEF t, x, u
  <2>4. SameMesh(mem', x) /\ OnlyXt(mem', mem) /\ mem'.xt = u
    BY <1>0, <2>2, <2>3, StoredXt
  <2>5. AdvancedTo(mem', u, mem, 0, t)
    BY <2>2, <2>4, SameAdvanced
  <2> QED BY <2>1, <2>3, <2>4, <2>5 DEF t
<1>5. ASSUME Panic
      PROVE  UNCHANGED <<rv, env>> /\ mem' = rv /\ pc' = "idle" /\ pot' = {}
  BY <1>5 DEF Panic, Discard
<1>6. CASE \E r \in Replicas : SettleMembership(r) \/ SettleAttachment(r)
  BY <1>0, <1>1, <1>2, <1>6
<1>7. CASE SettleQuorum \/ SettleMultiattach \/ Panic
  BY <1>0, <1>3, <1>4, <1>5, <1>7
<1> QED BY Zenon, <1>6, <1>7 DEF Settle

\* What the membership dispatcher selects, by the request it read.
LEMMA MembershipPlanKinds ==
    ASSUME EnvTyped, NEW s \in State, NEW r \in Replicas, MembershipPlan(s, r) # None
    PROVE  LET plan == MembershipPlan(s, r)
           IN  \/ plan \in AddPlan /\ rvr[r].req.op = "Join" /\ r \notin Members(s)
               \/ plan \in RemovePlan /\ rvr[r].req.op = "Leave" /\ r \in Members(s)
               \/ plan \in ChangePlan /\ r \in Members(s)
               \/ /\ plan \in ForceRemovePlan /\ r \in Members(s)
                  /\ rvr[r].req.op = "ForceLeave" \/ ~Exists(r)
<1> DEFINE req == rvr[r].req
           plan == MembershipPlan(s, r)
<1>1. req \in Request /\ cfg.shadow \in BOOLEAN /\ s.type[r] \in MemberType \cup {None}
  BY DEF EnvTyped, RVR, Configuration, State
<1>2. planForceRemoveReplica(s, r) # None =>
        planForceRemoveReplica(s, r) \in ForceRemovePlan /\ r \in Members(s)
  BY DEF planForceRemoveReplica, ForceRemovePlan, Members
<1>3. planAddDiskful(s) \in AddPlan
  <2> DEFINE up == s.qmr < QuorumMinimumRedundancy(cfg)
  <2>1. CASE up
    BY <1>1, <2>1 DEF planAddDiskful, EvenVoters, AddPlan
  <2>2. CASE ~up
    BY <1>1, <2>2 DEF planAddDiskful, EvenVoters, AddPlan
  <2> QED BY <2>1, <2>2
<1>4. req.op = "Join" /\ planAddReplica(s, r, req.type) # None =>
        planAddReplica(s, r, req.type) \in AddPlan /\ r \notin Members(s)
  <2>1. req.op = "Join" => req.type \in {"D", "sD", "A", "TB"}
    BY <1>1 DEF Request, ReplicaType, None
  <2> HIDE DEF req
  <2> QED BY <1>3, <2>1 DEF planAddReplica, AddPlan, Members
<1>5. planRemoveReplica(s, r) # None =>
        planRemoveReplica(s, r) \in RemovePlan /\ r \in Members(s)
  <2>1. planRemoveDiskful(s) \in RemovePlan
    BY DEF planRemoveDiskful, RemovePlan
  <2>2. CASE r \notin Members(s)
    BY <2>2 DEF planRemoveReplica, IsVoter, Members, None
  <2>3. CASE r \in Members(s)
    BY <1>1, <2>1, <2>3 DEF planRemoveReplica, MemberType, IsVoter, RemovePlan, Members, None
  <2> QED BY <2>2, <2>3
<1>6. planChangeReplicaType(s, r, req.type) # None =>
        planChangeReplicaType(s, r, req.type) \in ChangePlan /\ r \in Members(s)
  <2> HIDE DEF req
  <2>1. CASE r \notin Members(s)
    BY <2>1, Zenon DEF planChangeReplicaType, Members, None
  <2>2. planChangeReplicaType(s, r, req.type) \in ChangePlan \cup {None}
    BY DEF planChangeReplicaType, planChangeToDiskful, ByParity, ChangePlan
  <2> QED BY <2>1, <2>2
<1> HIDE DEF req
<1>7. /\ req.op = "Join" => plan = planAddReplica(s, r, req.type)
      /\ req.op = "Leave" => plan = planRemoveReplica(s, r)
      /\ req.op = "ChangeRole" => plan = planChangeReplicaType(s, r, req.type)
      /\ req.op = "ForceLeave" => plan = planForceRemoveReplica(s, r)
      /\ req.op \notin {"Join", "Leave", "ChangeRole", "ForceLeave"} =>
            plan = planForceRemoveReplica(s, r) /\ ~Exists(r)
  BY <1>1, Zenon DEF MembershipPlan, Request, None, req
<1> HIDE DEF plan
<1>8. plan # None
  BY DEF plan
<1>9. \/ plan \in AddPlan /\ req.op = "Join" /\ r \notin Members(s)
      \/ plan \in RemovePlan /\ req.op = "Leave" /\ r \in Members(s)
      \/ plan \in ChangePlan /\ r \in Members(s)
      \/ /\ plan \in ForceRemovePlan /\ r \in Members(s)
         /\ req.op = "ForceLeave" \/ ~Exists(r)
  BY SMTT(30), <1>2, <1>4, <1>5, <1>6, <1>7, <1>8
<1> QED BY <1>9 DEF plan, req

\* What the quorum and the attachment dispatcher select.
LEMMA OtherPlanKinds ==
    /\ \A s : QuorumPlan(s) # None => QuorumPlan(s) \in ChangeQuorumPlan
    /\ \A s, p0 : decideMultiattachToggle(s, p0)
                    \in {"EnableMultiattach", "DisableMultiattach", None}
    /\ \A s, r : decideAttachmentForReplica(s, r) \in {"Attach", "Detach", None}
<1>1. \A s : selectQuorumPlan(s) \in ChangeQuorumPlan
  BY SMTT(30) DEF selectQuorumPlan, ChangeQuorumPlan
<1>2. \A s : QuorumPlan(s) # None => QuorumPlan(s) \in ChangeQuorumPlan
  BY <1>1 DEF QuorumPlan
<1>3. \A s, p0 : decideMultiattachToggle(s, p0)
                    \in {"EnableMultiattach", "DisableMultiattach", None}
  BY DEF decideMultiattachToggle
<1>4. \A s, r : decideAttachmentForReplica(s, r) \in {"Attach", "Detach", None}
  BY DEF decideAttachmentForReplica
<1> QED BY <1>2, <1>3, <1>4

\* What starting a membership transition does to the working copy.
LEMMA DispatchMembershipEffect ==
    ASSUME EnvTypeOK, CtrlTypeOK, NEW r \in Replicas, DispatchMembership(r)
    PROVE  LET plan == MembershipPlan(mem, r)
           IN  /\ plan # None /\ UNCHANGED <<rv, env, pc, pot>> /\ OnlyMt(mem', mem, r)
               /\ \/ /\ MembershipAdmitted(mem, r, plan)
                     /\ StartedAs(mem', mem'.mt[r], mem, r, plan)
                  \/ /\ ~MembershipAdmitted(mem, r, plan) /\ IsForced(plan)
                     /\ SameMesh(mem', mem) /\ mem'.mt[r] = Idle
<1> DEFINE plan == MembershipPlan(mem, r)
           s1   == Cancelled(mem, r, plan)
           x    == Created(s1, r, plan)
           u    == CreatedSlot(s1, r, plan)
<1>0. EnvTyped /\ mem \in State
  BY DEF EnvTypeOK, EnvTyped, CtrlTypeOK
<1>1. plan # None /\ plan \in PlanID
  BY <1>0, MembershipPlans DEF DispatchMembership, MembershipDispatchable
<1>2. s1 = mem \/ s1 = [mem EXCEPT !.mt[r] = Idle]
  BY DEF Cancelled
<1>3. s1 \in State
  BY Zenon, <1>0, SlotUpdates, IdleType DEF Cancelled
<1>4. SameSlots(mem, mem)
  BY DEF SameSlots
<1>5. SameMesh(mem, mem) /\ OnlyMt(mem, mem, r)
  BY DEF SameMesh, OnlyMt
<1>6. SameMesh(s1, mem) /\ OnlyMt(s1, mem, r) /\ (s1 # mem => s1.mt[r] = Idle)
  <2>1. CASE s1 = mem
    BY <1>5, <2>1
  <2>2. CASE s1 = [mem EXCEPT !.mt[r] = Idle]
    <3> HIDE DEF s1
    <3> QED BY <1>0, <1>4, <2>2, StoredMt
  <2> QED BY <1>2, <2>1, <2>2
<1>7. UNCHANGED <<rv, env, pc, pot>>
  BY DEF DispatchMembership
<1>8. CASE ~MembershipAdmitted(mem, r, plan)
  <2>1. mem' = s1 /\ s1 # mem
    BY <1>8 DEF DispatchMembership, MembershipDispatchable
  <2>2. IsForced(plan)
    BY <2>1 DEF Cancelled
  <2> HIDE DEF s1, plan
  <2>3. SameMesh(mem', mem) /\ OnlyMt(mem', mem, r) /\ mem'.mt[r] = Idle
    BY <1>6, <2>1
  <2> QED BY <1>1, <1>7, <1>8, <2>2, <2>3 DEF plan
<1>9. CASE MembershipAdmitted(mem, r, plan)
  <2>1. mem' = [x EXCEPT !.mt[r] = u]
    BY <1>9 DEF DispatchMembership
  <2>2. x \in State /\ SameSlots(x, s1) /\ StartedAs(x, u, s1, r, plan)
    BY <1>0, <1>1, <1>3, CreatedType, CreatedApplied
  <2> HIDE DEF s1, plan, x, u
  <2>3. SameMesh(mem', x) /\ OnlyMt(mem', s1, r) /\ mem'.mt[r] = u
    BY <1>3, <2>1, <2>2, StoredMt
  <2>4. OnlyMt(mem', mem, r)
    BY <1>6, <2>3 DEF OnlyMt
  <2>5. StartedAs(mem', u, s1, r, plan)
    BY <2>2, <2>3, SameAdvanced
  <2>6. StartedAs(mem', u, mem, r, plan)
    BY <1>6, <2>5, Zenon DEF StartedAs, Applied, SameMesh, StepType, StepAttached, StepMulti
  <2> QED BY <1>1, <1>7, <1>9, <2>3, <2>4, <2>6 DEF plan
<1> QED BY <1>8, <1>9

\* What starting a quorum, attachment or multiattach transition does.
LEMMA DispatchOtherEffect ==
    ASSUME EnvTypeOK, CtrlTypeOK
    PROVE  /\ DispatchQuorum =>
                /\ UNCHANGED <<rv, env, pc, pot>> /\ OnlyQt(mem', mem)
                /\ QuorumPlan(mem) \in ChangeQuorumPlan
                /\ StartedAs(mem', mem'.qt, mem, 0, QuorumPlan(mem))
           /\ DispatchToggle =>
                /\ UNCHANGED <<rv, env, pc, pot>> /\ OnlyXt(mem', mem)
                /\ decideMultiattachToggle(mem, pot)
                     \in {"EnableMultiattach", "DisableMultiattach"}
                /\ StartedAs(mem', mem'.xt, mem, 0, decideMultiattachToggle(mem, pot))
           /\ \A r \in Replicas :
                /\ DispatchForceDetach(r) =>
                     /\ UNCHANGED <<rv, env, pc>> /\ OnlyAt(mem', mem, r)
                     /\ \/ StartedAs(mem', mem'.at[r], mem, r, "ForceDetach")
                        \/ SameMesh(mem', mem) /\ mem'.at[r] = Idle
                /\ DispatchAttachment(r) =>
                     /\ UNCHANGED <<rv, env, pc>> /\ OnlyAt(mem', mem, r)
                     /\ decideAttachmentForReplica(mem, r) \in {"Attach", "Detach"}
                     /\ StartedAs(mem', mem'.at[r], mem, r, decideAttachmentForReplica(mem, r))
<1>0. EnvTyped /\ mem \in State /\ SameSlots(mem, mem)
  BY DEF EnvTypeOK, EnvTyped, CtrlTypeOK, SameSlots
<1>1. ASSUME DispatchQuorum
      PROVE  /\ UNCHANGED <<rv, env, pc, pot>> /\ OnlyQt(mem', mem)
             /\ QuorumPlan(mem) \in ChangeQuorumPlan
             /\ StartedAs(mem', mem'.qt, mem, 0, QuorumPlan(mem))
  <2> DEFINE plan == QuorumPlan(mem)
             x    == Created(mem, 0, plan)
             u    == CreatedSlot(mem, 0, plan)
  <2>1. plan \in PlanID /\ plan \in ChangeQuorumPlan
    BY <1>1, QuorumPlans, OtherPlanKinds DEF DispatchQuorum, QuorumDispatchable
  <2>2. x \in State /\ SameSlots(x, mem) /\ StartedAs(x, u, mem, 0, plan)
    BY <1>0, <2>1, CreatedType, CreatedApplied, ZeroIsReplica
  <2>3. mem' = [x EXCEPT !.qt = u] /\ UNCHANGED <<rv, env, pc, pot>>
    BY <1>1 DEF DispatchQuorum
  <2> HIDE DEF plan, x, u
  <2>4. SameMesh(mem', x) /\ OnlyQt(mem', mem) /\ mem'.qt = u
    BY <1>0, <2>2, <2>3, StoredQt
  <2>5. StartedAs(mem', u, mem, 0, plan)
    BY <2>2, <2>4, SameAdvanced
  <2> QED BY <2>1, <2>3, <2>4, <2>5 DEF plan
<1>2. ASSUME DispatchToggle
      PROVE  /\ UNCHANGED <<rv, env, pc, pot>> /\ OnlyXt(mem', mem)
             /\ decideMultiattachToggle(mem, pot) \in {"EnableMultiattach", "DisableMultiattach"}
             /\ StartedAs(mem', mem'.xt, mem, 0, decideMultiattachToggle(mem, pot))
  <2> DEFINE plan == decideMultiattachToggle(mem, pot)
             x    == Created(mem, 0, plan)
             u    == CreatedSlot(mem, 0, plan)
  <2>1. plan \in PlanID /\ plan \in {"EnableMultiattach", "DisableMultiattach"}
    BY <1>2, AttachmentPlans, OtherPlanKinds DEF DispatchToggle, ToggleDispatchable
  <2>2. x \in State /\ SameSlots(x, mem) /\ StartedAs(x, u, mem, 0, plan)
    BY <1>0, <2>1, CreatedType, CreatedApplied, ZeroIsReplica
  <2>3. mem' = [x EXCEPT !.xt = u] /\ UNCHANGED <<rv, env, pc, pot>>
    BY <1>2 DEF DispatchToggle
  <2> HIDE DEF plan, x, u
  <2>4. SameMesh(mem', x) /\ OnlyXt(mem', mem) /\ mem'.xt = u
    BY <1>0, <2>2, <2>3, StoredXt
  <2>5. StartedAs(mem', u, mem, 0, plan)
    BY <2>2, <2>4, SameAdvanced
  <2> QED BY <2>1, <2>3, <2>4, <2>5 DEF plan
<1>3. ASSUME NEW r \in Replicas, DispatchForceDetach(r)
      PROVE  /\ UNCHANGED <<rv, env, pc>> /\ OnlyAt(mem', mem, r)
             /\ \/ StartedAs(mem', mem'.at[r], mem, r, "ForceDetach")
                \/ SameMesh(mem', mem) /\ mem'.at[r] = Idle
  <2> DEFINE s1 == [mem EXCEPT !.at[r] = Idle]
             x  == Created(s1, r, "ForceDetach")
             u  == CreatedSlot(s1, r, "ForceDetach")
  <2>1. s1 \in State
    BY ZenonT(40), <1>0, SlotUpdates, IdleType
  <2>2. SameMesh(s1, mem) /\ OnlyAt(s1, mem, r) /\ s1.at[r] = Idle
    BY <1>0, StoredAt
  <2>3. /\ UNCHANGED <<rv, env, pc>>
        /\ mem' = s1 \/ mem' = [x EXCEPT !.at[r] = u]
    BY <1>3 DEF DispatchForceDetach
  <2>4. x \in State /\ SameSlots(x, s1) /\ StartedAs(x, u, s1, r, "ForceDetach")
    BY <1>0, <2>1, AttachmentPlans, CreatedType, CreatedApplied
  <2> HIDE DEF s1, x, u
  <2>5. ASSUME mem' = [x EXCEPT !.at[r] = u]
        PROVE  OnlyAt(mem', mem, r) /\ StartedAs(mem', mem'.at[r], mem, r, "ForceDetach")
    <3>1. SameMesh(mem', x) /\ OnlyAt(mem', s1, r) /\ mem'.at[r] = u
      BY <2>1, <2>4, <2>5, StoredAt
    <3>2. OnlyAt(mem', mem, r)
      BY <2>2, <3>1 DEF OnlyAt
    <3>3. StartedAs(mem', u, s1, r, "ForceDetach")
      BY <2>4, <3>1, SameAdvanced
    <3>4. StartedAs(mem', u, mem, r, "ForceDetach")
      BY <2>2, <3>3, Zenon DEF StartedAs, Applied, SameMesh, StepType, StepAttached, StepMulti
    <3> QED BY <3>1, <3>2, <3>4
  <2> QED BY <2>2, <2>3, <2>5
<1>4. ASSUME NEW r \in Replicas, DispatchAttachment(r)
      PROVE  /\ UNCHANGED <<rv, env, pc>> /\ OnlyAt(mem', mem, r)
             /\ decideAttachmentForReplica(mem, r) \in {"Attach", "Detach"}
             /\ StartedAs(mem', mem'.at[r], mem, r, decideAttachmentForReplica(mem, r))
  <2> DEFINE plan == decideAttachmentForReplica(mem, r)
             x    == Created(mem, r, plan)
             u    == CreatedSlot(mem, r, plan)
  <2>1. plan \in PlanID /\ plan \in {"Attach", "Detach"}
    BY <1>4, AttachmentPlans, OtherPlanKinds DEF DispatchAttachment, AttachmentDispatchable
  <2>2. x \in State /\ SameSlots(x, mem) /\ StartedAs(x, u, mem, r, plan)
    BY <1>0, <2>1, CreatedType, CreatedApplied
  <2>3. mem' = [x EXCEPT !.at[r] = u] /\ UNCHANGED <<rv, env, pc>>
    BY <1>4 DEF DispatchAttachment
  <2> HIDE DEF plan, x, u
  <2>4. SameMesh(mem', x) /\ OnlyAt(mem', mem, r) /\ mem'.at[r] = u
    BY <1>0, <2>2, <2>3, StoredAt
  <2>5. StartedAs(mem', u, mem, r, plan)
    BY <2>2, <2>4, SameAdvanced
  <2> QED BY <2>1, <2>3, <2>4, <2>5 DEF plan
<1> QED BY Zenon, <1>1, <1>2, <1>3, <1>4

----------------------------------------------------------------------------
(* The slots and the member list *)

\* The plans of each slot.
MembershipPlanID == AddPlan \cup ChangePlan \cup RemovePlan \cup ForceRemovePlan

AttachmentPlanID == {"Attach", "Detach", "ForceDetach"}

TogglePlanID == {"EnableMultiattach", "DisableMultiattach"}

\* A transition that is not at its last step has a next one, of the kind of its plan.
LEMMA NextStepKind ==
    ASSUME NEW t \in Transition, Active(t), ~IsLastStep(t)
    PROVE  /\ NextStep(t) \in Step /\ t.plan \notin ForceRemovePlan
           /\ t.plan \notin AttachmentPlanID \cup TogglePlanID
           /\ t.plan \in AddPlan \cup ChangePlan => NextStep(t) \in StayingStep
           /\ t.plan \in RemovePlan => NextStep(t) \in MembershipStep
           /\ t.plan \in ChangeQuorumPlan => NextStep(t) \in QuorumStep
<1> DEFINE steps == Registry[t.plan].steps
<1>1. /\ NextStep(t) \in Step /\ NextStep(t) = steps[t.step + 1]
      /\ t.step + 1 \in DOMAIN steps
  BY StepsInPlan DEF NextStep, PlanOf
<1>2. t.step \in DOMAIN steps /\ t.step # Len(steps)
  BY DEF Transition, PlanOf, IsLastStep
<1> HIDE DEF steps
<1>3. \A S : steps \in Seq(S) => steps[t.step + 1] \in S
  BY <1>1
<1>4. steps \in Seq(Step) => Len(steps) # 1
  <2>1. steps \in Seq(Step) => DOMAIN steps = 1 .. Len(steps)
    OBVIOUS
  <2>2. \A n : n \in 1 .. 1 => n = 1
    OBVIOUS
  <2> QED BY Zenon, <1>2, <2>1, <2>2
<1>5. steps \in Seq(Step)
  <2>1. PlanOf(t) \in PlanRecord
    BY StepsInPlan
  <2> QED BY <2>1 DEF PlanRecord, Steps, PlanOf, steps
<1>6. t.plan \notin ForceRemovePlan
  BY <1>4, <1>5, PlanShapes DEF steps
<1>7. t.plan \notin AttachmentPlanID \cup TogglePlanID
  BY <1>4, <1>5, FlagPlans DEF AttachmentPlanID, TogglePlanID, steps
<1>8. t.plan \in AddPlan \cup ChangePlan => NextStep(t) \in StayingStep
  BY <1>1, <1>3, PlanShapes DEF Entering, steps
<1>9. t.plan \in RemovePlan => NextStep(t) \in MembershipStep
  BY <1>1, <1>3, PlanShapes DEF steps
<1>10. t.plan \in ChangeQuorumPlan => NextStep(t) \in QuorumStep
  BY <1>1, <1>3, PlanShapes DEF steps
<1> QED BY <1>1, <1>6, <1>7, <1>8, <1>9, <1>10

\* An empty slot runs no plan.
LEMMA EmptySlot == Idle.plan = None
BY DEF Idle

\* What advancing a transition does to the member list.
LEMMA AdvancedMembers ==
    ASSUME NEW s \in State, NEW y, NEW u, NEW r \in Replicas, NEW t \in Transition, Active(t),
           AdvancedTo(y, u, s, r, t)
    PROVE  /\ u.plan \in {t.plan, None}
           /\ \A p \in Replicas \ {r} : y.type[p] = s.type[p]
           /\ t.plan \in AddPlan \cup ChangePlan /\ r \in Members(s) => r \in Members(y)
           /\ t.plan \notin AddPlan \cup ChangePlan \cup RemovePlan
                /\ t.plan \in MembershipPlanID \cup AttachmentPlanID \cup TogglePlanID
                                \cup ChangeQuorumPlan => y.type = s.type
<1>1. s.type \in [Replicas -> MemberType \cup {None}]
  BY DEF State
<1>2. CASE IsLastStep(t)
  <2>1. u = Idle /\ SameMesh(y, s)
    BY <1>2, Zenon DEF AdvancedTo
  <2>2. y.type = s.type
    BY <2>1, Zenon DEF SameMesh
  <2>3. u.plan = None
    BY <2>1, EmptySlot
  <2>4. Members(y) = Members(s)
    BY <2>2, Zenon DEF Members
  <2> QED BY <2>2, <2>3, <2>4, Zenon
<1>3. CASE ~IsLastStep(t)
  <2>1. y.type = StepType(s, r, NextStep(t)) /\ u.plan = t.plan
    BY <1>3 DEF AdvancedTo, Applied, AtStep
  <2>2. NextStep(t) \in Step
    BY <1>3, NextStepKind
  <2>3. \A p \in Replicas \ {r} : y.type[p] = s.type[p]
    BY <1>1, <2>1 DEF StepType
  <2>4. t.plan \in AddPlan \cup ChangePlan /\ r \in Members(s) => r \in Members(y)
    <3>1. t.plan \in AddPlan \cup ChangePlan => NextStep(t).to # None
      BY <1>3, NextStepKind DEF StayingStep
    <3> QED BY <1>1, <2>1, <3>1 DEF StepType, Members
  <2>5. t.plan \in ChangeQuorumPlan => y.type = s.type
    BY <1>3, <2>1, NextStepKind DEF QuorumStep, StepType
  <2>6. t.plan \notin ForceRemovePlan \cup AttachmentPlanID \cup TogglePlanID
    BY <1>3, NextStepKind
  <2> QED BY <2>1, <2>3, <2>4, <2>5, <2>6 DEF MembershipPlanID
<1> QED BY <1>2, <1>3

\* What starting a plan does to the member list.
LEMMA StartedMembers ==
    ASSUME NEW s \in State, NEW y, NEW u, NEW r \in Replicas, NEW p \in PlanID,
           StartedAs(y, u, s, r, p)
    PROVE  /\ p \in AddPlan \cup ChangePlan => r \in Members(y)
           /\ p \in AttachmentPlanID \cup TogglePlanID \cup ChangeQuorumPlan => y.type = s.type
<1> DEFINE step == Registry[p].steps[1]
<1>1. s.type \in [Replicas -> MemberType \cup {None}]
  BY DEF State
<1>2. y.type = StepType(s, r, step)
  BY DEF StartedAs, Applied, AtStep
<1>3. p \in AddPlan \cup ChangePlan => step.to \in MemberType
  BY PlanShapes DEF Entering
<1>4. p \in AttachmentPlanID \cup TogglePlanID => step.to = "keep"
  BY FlagPlans DEF AttachmentPlanID, TogglePlanID
<1>5. p \in ChangeQuorumPlan => step.to = "keep"
  <2>1. 1 \in DOMAIN Registry[p].steps
    BY FirstStep
  <2>2. p \in ChangeQuorumPlan => step \in QuorumStep
    BY <2>1, PlanShapes
  <2> QED BY <2>2 DEF QuorumStep
<1> HIDE DEF step
<1>6. p \in AddPlan \cup ChangePlan => r \in Members(y)
  BY <1>1, <1>2, <1>3 DEF StepType, Members, MemberType, None
<1> QED BY <1>2, <1>4, <1>5, <1>6 DEF StepType

\* A slot that starts a plan runs that plan, and the member list changes at its subject only.
LEMMA StartedPlan ==
    \A y, u, s, r, p : StartedAs(y, u, s, r, p) => u.plan = p /\ u.rev = y.rev
  BY DEF StartedAs, AtStep

LEMMA StartedOthers ==
    ASSUME NEW s \in State, NEW y, NEW u, NEW r, NEW p, StartedAs(y, u, s, r, p),
           NEW q \in Replicas \ {r}
    PROVE  y.type[q] = s.type[q]
<1>1. s.type \in [Replicas -> MemberType \cup {None}]
  BY DEF State
<1>2. y.type = StepType(s, r, Registry[p].steps[1])
  BY DEF StartedAs, Applied
<1> QED BY <1>1, <1>2 DEF StepType

\* What the slots of a state may hold, and that the subject of an AddReplica or
\* ChangeReplicaType transition is a member all the time.
SlotsOK(s) ==
    /\ \A r \in Replicas :
          /\ s.mt[r].plan \in MembershipPlanID \cup {None}
          /\ s.at[r].plan \in AttachmentPlanID \cup {None}
          /\ s.mt[r].plan \in AddPlan \cup ChangePlan => r \in Members(s)
    /\ s.qt.plan \in ChangeQuorumPlan \cup {None}
    /\ s.xt.plan \in TogglePlanID \cup {None}

\* The plan ids of the slots are disjoint from each other and from None.
LEMMA DisjointPlans ==
    /\ None \notin MembershipPlanID
    /\ \A p \in ForceRemovePlan : p \notin AddPlan \cup ChangePlan \cup RemovePlan
    /\ \A p \in RemovePlan : p \notin AddPlan \cup ChangePlan
    /\ \A p \in AttachmentPlanID \cup TogglePlanID \cup ChangeQuorumPlan :
          p \notin AddPlan \cup ChangePlan \cup RemovePlan
    /\ None \notin AttachmentPlanID \cup TogglePlanID \cup ChangeQuorumPlan
    /\ MembershipPlanID \cup AttachmentPlanID \cup TogglePlanID \cup ChangeQuorumPlan
          \subseteq PlanID
<1> USE DEF MembershipPlanID, AddPlan, ChangePlan, RemovePlan, ForceRemovePlan,
            AttachmentPlanID, TogglePlanID, ChangeQuorumPlan, None
<1>1. /\ None \notin MembershipPlanID
      /\ None \notin AttachmentPlanID \cup TogglePlanID \cup ChangeQuorumPlan
  OBVIOUS
<1>2. \A p \in ForceRemovePlan : p \notin AddPlan \cup ChangePlan \cup RemovePlan
  OBVIOUS
<1>3. \A p \in RemovePlan : p \notin AddPlan \cup ChangePlan
  OBVIOUS
<1>4. \A p \in AttachmentPlanID \cup TogglePlanID \cup ChangeQuorumPlan :
          p \notin AddPlan \cup ChangePlan \cup RemovePlan
  OBVIOUS
<1>5. MembershipPlanID \cup AttachmentPlanID \cup TogglePlanID \cup ChangeQuorumPlan
          \subseteq PlanID
  BY PlanNames
<1> QED BY <1>1, <1>2, <1>3, <1>4, <1>5

\* A step that changes the member list only for r, and only the membership slot of r.
LEMMA SlotsOKMt ==
    ASSUME NEW s \in State, SlotsOK(s), NEW y, NEW r \in Replicas, OnlyMt(y, s, r),
           \A p \in Replicas \ {r} : y.type[p] = s.type[p],
           y.mt[r].plan \in MembershipPlanID \cup {None},
           y.mt[r].plan \in AddPlan \cup ChangePlan => r \in Members(y)
    PROVE  SlotsOK(y)
<1>1. ASSUME NEW p \in Replicas
      PROVE  /\ y.mt[p].plan \in MembershipPlanID \cup {None}
             /\ y.at[p].plan \in AttachmentPlanID \cup {None}
             /\ y.mt[p].plan \in AddPlan \cup ChangePlan => p \in Members(y)
  BY DEF SlotsOK, OnlyMt, Members
<1> QED BY <1>1 DEF SlotsOK, OnlyMt

\* A step that leaves the member list and the membership slots alone.
LEMMA SlotsOKOther ==
    ASSUME NEW s \in State, SlotsOK(s), NEW y, y.type = s.type, y.mt = s.mt,
           \A p \in Replicas : y.at[p].plan \in AttachmentPlanID \cup {None},
           y.qt.plan \in ChangeQuorumPlan \cup {None},
           y.xt.plan \in TogglePlanID \cup {None}
    PROVE  SlotsOK(y)
BY DEF SlotsOK, Members

\* Settling keeps the slots in order.
LEMMA SettleSlots ==
    ASSUME EnvTypeOK, CtrlTypeOK, SlotsOK(mem), SlotsOK(rv), Settle
    PROVE  SlotsOK(mem')
<1>0. EnvTyped /\ mem \in State /\ rv \in State /\ mem' \in State
  BY SettleType DEF EnvTypeOK, EnvTyped, CtrlTypeOK
<1>1. ASSUME NEW r \in Replicas, OnlyMt(mem', mem, r), Active(mem.mt[r]),
             AdvancedTo(mem', mem'.mt[r], mem, r, mem.mt[r])
      PROVE  SlotsOK(mem')
  <2>1. mem.mt[r] \in Transition /\ mem.mt[r].plan \in MembershipPlanID \cup {None}
    BY <1>0, SlotsTyped DEF SlotsOK
  <2>2. /\ mem'.mt[r].plan \in {mem.mt[r].plan, None}
        /\ \A p \in Replicas \ {r} : mem'.type[p] = mem.type[p]
        /\ mem.mt[r].plan \in AddPlan \cup ChangePlan /\ r \in Members(mem) => r \in Members(mem')
    BY <1>0, <1>1, <2>1, AdvancedMembers
  <2>3. mem'.mt[r].plan \in AddPlan \cup ChangePlan => r \in Members(mem')
    BY <2>2, DisjointPlans DEF SlotsOK, MembershipPlanID
  <2> QED BY <1>0, <1>1, <2>1, <2>2, <2>3, SlotsOKMt
<1>2. ASSUME NEW r \in Replicas, OnlyAt(mem', mem, r), Active(mem.at[r]),
             AdvancedTo(mem', mem'.at[r], mem, r, mem.at[r])
      PROVE  SlotsOK(mem')
  <2>1. mem.at[r] \in Transition /\ mem.at[r].plan \in AttachmentPlanID
    BY <1>0, <1>2, SlotsTyped, Zenon DEF SlotsOK, Active
  <2>2. mem'.at[r].plan \in {mem.at[r].plan, None} /\ mem'.type = mem.type
    BY Zenon, <1>0, <1>2, <2>1, AdvancedMembers, DisjointPlans
  <2> QED BY <1>0, <1>2, <2>1, <2>2, SlotsOKOther, Zenon DEF SlotsOK, OnlyAt
<1>3. ASSUME OnlyQt(mem', mem), Active(mem.qt), AdvancedTo(mem', mem'.qt, mem, 0, mem.qt)
      PROVE  SlotsOK(mem')
  <2>1. mem.qt \in Transition /\ mem.qt.plan \in ChangeQuorumPlan
    BY <1>0, <1>3, SlotsTyped, ZeroIsReplica DEF SlotsOK, Active
  <2>2. mem'.qt.plan \in {mem.qt.plan, None} /\ mem'.type = mem.type
    BY <1>0, <1>3, <2>1, AdvancedMembers, DisjointPlans, ZeroIsReplica
  <2> QED BY <1>0, <1>3, <2>1, <2>2, SlotsOKOther, Zenon DEF SlotsOK, OnlyQt
<1>4. ASSUME OnlyXt(mem', mem), Active(mem.xt), AdvancedTo(mem', mem'.xt, mem, 0, mem.xt)
      PROVE  SlotsOK(mem')
  <2>1. mem.xt \in Transition /\ mem.xt.plan \in TogglePlanID
    BY <1>0, <1>4, SlotsTyped, ZeroIsReplica, Zenon DEF SlotsOK, Active
  <2>2. mem'.xt.plan \in {mem.xt.plan, None} /\ mem'.type = mem.type
    BY Zenon, <1>0, <1>4, <2>1, AdvancedMembers, DisjointPlans, ZeroIsReplica
  <2> QED BY <1>0, <1>4, <2>1, <2>2, SlotsOKOther, Zenon DEF SlotsOK, OnlyXt
<1> QED BY Zenon, <1>1, <1>2, <1>3, <1>4, SettleEffect

\* Dispatching keeps the slots in order.
LEMMA DispatchSlots ==
    ASSUME EnvTypeOK, CtrlTypeOK, SlotsOK(mem), Dispatch
    PROVE  SlotsOK(mem')
<1>0. EnvTyped /\ mem \in State
  BY DEF EnvTypeOK, EnvTyped, CtrlTypeOK
<1>1. ASSUME NEW r \in Replicas, DispatchMembership(r) PROVE SlotsOK(mem')
  <2> DEFINE plan == MembershipPlan(mem, r)
  <2>1. /\ plan # None /\ OnlyMt(mem', mem, r)
        /\ \/ StartedAs(mem', mem'.mt[r], mem, r, plan)
           \/ SameMesh(mem', mem) /\ mem'.mt[r] = Idle
    BY <1>1, DispatchMembershipEffect
  <2>2. plan \in MembershipPlanID /\ plan \in PlanID
    BY <1>0, <2>1, MembershipPlanKinds, DisjointPlans DEF MembershipPlanID
  <2> HIDE DEF plan
  <2>3. CASE StartedAs(mem', mem'.mt[r], mem, r, plan)
    <3>1. /\ mem'.mt[r].plan = plan
          /\ \A q \in Replicas \ {r} : mem'.type[q] = mem.type[q]
      BY <1>0, <2>3, StartedPlan, StartedOthers
    <3>2. plan \in AddPlan \cup ChangePlan => r \in Members(mem')
      BY <1>0, <2>2, <2>3, StartedMembers
    <3> QED BY <1>0, <2>1, <2>2, <3>1, <3>2, SlotsOKMt
  <2>4. CASE SameMesh(mem', mem) /\ mem'.mt[r] = Idle
    <3>1. mem'.mt[r].plan = None /\ mem'.type = mem.type
      BY <2>4 DEF SameMesh, Idle
    <3>2. None \notin AddPlan \cup ChangePlan
      BY DisjointPlans DEF MembershipPlanID
    <3> QED BY <1>0, <2>1, <3>1, <3>2, SlotsOKMt
  <2> QED BY <2>1, <2>3, <2>4
<1>2. CASE DispatchQuorum
  <2> DEFINE plan == QuorumPlan(mem)
  <2>1. /\ OnlyQt(mem', mem) /\ plan \in ChangeQuorumPlan
        /\ StartedAs(mem', mem'.qt, mem, 0, plan)
    BY Zenon, <1>2, DispatchOtherEffect
  <2> HIDE DEF plan
  <2>2. plan \in PlanID
    BY <2>1, DisjointPlans
  <2>3. mem'.qt.plan = plan /\ mem'.type = mem.type
    BY <1>0, <2>1, <2>2, StartedPlan, StartedMembers, ZeroIsReplica
  <2> QED BY <1>0, <2>1, <2>3, SlotsOKOther DEF SlotsOK, OnlyQt
<1>3. CASE DispatchToggle
  <2> DEFINE plan == decideMultiattachToggle(mem, pot)
  <2>1. /\ OnlyXt(mem', mem) /\ plan \in TogglePlanID
        /\ StartedAs(mem', mem'.xt, mem, 0, plan)
    BY <1>3, DispatchOtherEffect, Zenon DEF TogglePlanID
  <2> HIDE DEF plan
  <2>2. plan \in PlanID
    BY <2>1, DisjointPlans
  <2>3. mem'.xt.plan = plan /\ mem'.type = mem.type
    BY <1>0, <2>1, <2>2, StartedPlan, StartedMembers, ZeroIsReplica
  <2> QED BY <1>0, <2>1, <2>3, SlotsOKOther DEF SlotsOK, OnlyXt
<1>4. ASSUME NEW r \in Replicas, NEW plan \in AttachmentPlanID, OnlyAt(mem', mem, r),
             StartedAs(mem', mem'.at[r], mem, r, plan)
      PROVE  SlotsOK(mem')
  <2>1. plan \in PlanID
    BY DisjointPlans
  <2>2. mem'.at[r].plan = plan /\ mem'.type = mem.type
    BY <1>0, <1>4, <2>1, StartedPlan, StartedMembers
  <2> QED BY <1>0, <1>4, <2>2, SlotsOKOther, Zenon DEF SlotsOK, OnlyAt
<1>5. ASSUME NEW r \in Replicas, DispatchAttachment(r) PROVE SlotsOK(mem')
  BY <1>4, <1>5, DispatchOtherEffect, Zenon DEF AttachmentPlanID
<1>6. ASSUME NEW r \in Replicas, DispatchForceDetach(r) PROVE SlotsOK(mem')
  <2>1. /\ OnlyAt(mem', mem, r)
        /\ \/ StartedAs(mem', mem'.at[r], mem, r, "ForceDetach")
           \/ SameMesh(mem', mem) /\ mem'.at[r] = Idle
    BY Zenon, <1>6, DispatchOtherEffect
  <2>2. CASE StartedAs(mem', mem'.at[r], mem, r, "ForceDetach")
    BY <1>4, <2>1, <2>2 DEF AttachmentPlanID
  <2>3. CASE SameMesh(mem', mem) /\ mem'.at[r] = Idle
    <3>1. mem'.at[r].plan = None /\ mem'.type = mem.type
      BY <2>3, EmptySlot, Zenon DEF SameMesh
    <3> QED BY <1>0, <2>1, <3>1, SlotsOKOther, Zenon DEF SlotsOK, OnlyAt
  <2> QED BY <2>1, <2>2, <2>3
<1>7. CASE NextIteration \/ reconcileRVRFinalizers
  BY <1>7 DEF NextIteration, reconcileRVRFinalizers
<1> QED BY SMTT(30), <1>1, <1>2, <1>3, <1>5, <1>6, <1>7 DEF Dispatch

\* Every step either computes on the working copy, or copies one datamesh state to the
\* other, or leaves both alone.
LEMMA MeshSteps ==
    ASSUME EnvTypeOK, CtrlTypeOK, [Next]_vars
    PROVE  \/ (Settle \/ Dispatch) /\ rv' = rv
           \/ rv' \in {rv, mem} /\ mem' \in {rv, mem}
<1>1. Settle => rv' = rv
  BY Zenon, SettleEffect
<1>2. Dispatch => rv' = rv
  BY Zenon DEF Dispatch, DispatchQuorum, DispatchMembership, DispatchForceDetach,
               DispatchToggle, DispatchAttachment, NextIteration, reconcileRVRFinalizers
<1>3. Begin \/ patchRVStatus => rv' \in {rv, mem} /\ mem' = mem
  BY DEF Begin, patchRVStatus
<1>4. \A r \in Replicas : ReplicaStep(r) => rv' = rv /\ mem' = mem
  BY ReplicaStepType DEF ctrl
<1>5. Environment => rv' = rv /\ mem' \in {rv, mem}
  BY Zenon DEF Environment, DeleteRVR, LoseNode, ForceDeleteRVR, AttachRVA, DetachRVA,
               OpenDevice, CloseDevice, SetEligible, RetypeRVR, CreateRVR, ForceRequest,
               ChangeConfiguration, Command, ctrl, AbortReconcile, Discard
<1>6. UNCHANGED vars => rv' = rv /\ mem' = mem
  BY DEF vars, ctrl
<1> QED BY <1>1, <1>2, <1>3, <1>4, <1>5, <1>6 DEF Next, Controller

\* The volume starts with every slot empty.
LEMMA InitIdle ==
    ASSUME Init
    PROVE  /\ mem = rv /\ rv.qt = Idle /\ rv.xt = Idle
           /\ \A r \in Replicas : rv.mt[r] = Idle /\ rv.at[r] = Idle
<1>1. PICK n \in DOMAIN Scenarios : \E l \in Scenarios[n].layouts : StartFrom(n, l)
  BY DEF Init
<1>2. PICK l \in Scenarios[n].layouts : rv = FormedState(l) /\ mem = rv
  BY <1>1 DEF StartFrom
<1> QED BY Zenon, <1>2 DEF FormedState

\* The slots are in order in the stored and in the working state, whatever happens.
SlotInv == SlotsOK(rv) /\ SlotsOK(mem)

\* They are in order initially.
LEMMA InitSlots ==
    ASSUME Init
    PROVE  SlotInv
<1>1. SlotsOK(rv)
  BY InitIdle, DisjointPlans DEF SlotsOK, Idle, MembershipPlanID
<1> QED BY InitIdle, <1>1 DEF SlotInv

\* Every step keeps them in order.
LEMMA NextSlots ==
    ASSUME EnvTypeOK, CtrlTypeOK, SlotInv, [Next]_vars
    PROVE  SlotInv'
<1> SUFFICES SlotsOK(rv') /\ SlotsOK(mem')
  BY Zenon DEF SlotInv, SlotsOK, Members
<1>0. SlotsOK(rv) /\ SlotsOK(mem)
  BY DEF SlotInv
<1>1. CASE Settle /\ rv' = rv
  BY <1>0, <1>1, SettleSlots
<1>2. CASE Dispatch /\ rv' = rv
  BY <1>0, <1>2, DispatchSlots
<1>3. CASE rv' \in {rv, mem} /\ mem' \in {rv, mem}
  BY <1>0, <1>3
<1> QED BY <1>1, <1>2, <1>3, MeshSteps

----------------------------------------------------------------------------
(* Voting transitions *)

\* VotingExclusive of one state.
Exclusive(s) ==
    /\ \A a, b \in votingMembershipTransitions(s) : a = b
    /\ hasQuorumTransition(s) => votingMembershipTransitions(s) = {}

\* VotingExclusive speaks about the stored and the working state alike.
LEMMA ExclusiveStates == VotingExclusive <=> Exclusive(rv) /\ Exclusive(mem)
BY DEF VotingExclusive, Exclusive

\* A state with no more voting and quorum transitions is exclusive if the other is.
LEMMA FewerTransitions ==
    ASSUME NEW s, NEW y, Exclusive(s), hasQuorumTransition(y) => hasQuorumTransition(s),
           votingMembershipTransitions(y) \subseteq votingMembershipTransitions(s)
    PROVE  Exclusive(y)
BY SMTT(30) DEF Exclusive

\* In particular one in which only a slot changed, to a transition of the same plan or none.
LEMMA FewerSlots ==
    ASSUME NEW s, NEW y, Exclusive(s), y.qt = s.qt,
           \A r \in Replicas : y.mt[r].plan \in {s.mt[r].plan, None}
    PROVE  Exclusive(y)
<1>1. hasQuorumTransition(y) => hasQuorumTransition(s)
  BY DEF hasQuorumTransition
<1>2. votingMembershipTransitions(y) \subseteq votingMembershipTransitions(s)
  BY DEF votingMembershipTransitions, InGroup, Active, PlanOf
<1> QED BY <1>1, <1>2, FewerTransitions

\* Settling never adds a voting or a quorum transition.
LEMMA SettleExclusive ==
    ASSUME EnvTypeOK, CtrlTypeOK, Exclusive(mem), Exclusive(rv), Settle
    PROVE  Exclusive(mem')
<1>0. EnvTyped /\ mem \in State /\ rv \in State
  BY DEF EnvTypeOK, EnvTyped, CtrlTypeOK
<1>1. ASSUME NEW r \in Replicas, OnlyMt(mem', mem, r), Active(mem.mt[r]),
             AdvancedTo(mem', mem'.mt[r], mem, r, mem.mt[r])
      PROVE  Exclusive(mem')
  <2>1. mem'.mt[r].plan \in {mem.mt[r].plan, None}
    BY Zenon, <1>0, <1>1, SlotsTyped, AdvancedMembers
  <2> QED BY <1>1, <2>1, FewerSlots DEF OnlyMt
<1>2. ASSUME OnlyQt(mem', mem), Active(mem.qt) PROVE Exclusive(mem')
  BY <1>2, FewerTransitions
     DEF OnlyQt, hasQuorumTransition, votingMembershipTransitions, InGroup
<1>3. ASSUME mem'.mt = mem.mt, mem'.qt = mem.qt PROVE Exclusive(mem')
  BY <1>3, FewerSlots
<1> QED BY <1>1, <1>2, <1>3, SettleEffect, Zenon DEF OnlyAt, OnlyXt

\* Dispatching adds a voting or a quorum transition only when CanAdmit sees none;
\* a forced plan that empties a slot first only removes one.
LEMMA DispatchExclusive ==
    ASSUME EnvTypeOK, CtrlTypeOK, Exclusive(mem), Dispatch
    PROVE  Exclusive(mem')
<1>0. EnvTyped /\ mem \in State
  BY DEF EnvTypeOK, EnvTyped, CtrlTypeOK
<1>1. CASE DispatchQuorum
  <2>1. Registry[QuorumPlan(mem)].group = "Quorum" /\ CanAdmit(mem, {}, 0, QuorumPlan(mem))
    BY <1>1, QuorumPlans DEF DispatchQuorum, QuorumDispatchable
  <2>2. votingMembershipTransitions(mem) = {}
    BY <2>1 DEF CanAdmit
  <2>3. mem'.mt = mem.mt
    BY <1>1, DispatchOtherEffect, Zenon DEF OnlyQt
  <2> QED BY <2>2, <2>3 DEF Exclusive, votingMembershipTransitions, InGroup
<1>2. ASSUME NEW r \in Replicas, DispatchMembership(r) PROVE Exclusive(mem')
  <2> DEFINE plan == MembershipPlan(mem, r)
             s1   == Cancelled(mem, r, plan)
  <2>1. /\ OnlyMt(mem', mem, r)
        /\ \/ MembershipAdmitted(mem, r, plan) /\ StartedAs(mem', mem'.mt[r], mem, r, plan)
           \/ mem'.mt[r] = Idle
    BY <1>2, DispatchMembershipEffect
  <2>2. CASE mem'.mt[r] = Idle
    <3>1. mem'.mt[r].plan = None
      BY <2>2 DEF Idle
    <3> QED BY <2>1, <3>1, FewerSlots DEF OnlyMt
  <2>3. CASE MembershipAdmitted(mem, r, plan) /\ StartedAs(mem', mem'.mt[r], mem, r, plan)
    <3>1. CanAdmit(s1, {}, r, plan) /\ mem'.mt[r].plan = plan
      BY <2>3, StartedPlan, Zenon DEF MembershipAdmitted
    <3>2. s1.qt = mem.qt /\ \A p \in Replicas \ {r} : s1.mt[p] = mem.mt[p]
      BY <1>0 DEF Cancelled, State
    <3> HIDE DEF s1, plan
    <3>3. CASE Registry[plan].group = "VotingMembership"
      <4>1. votingMembershipTransitions(s1) = {} /\ ~hasQuorumTransition(s1)
        BY <3>1, <3>3 DEF CanAdmit
      <4>2. votingMembershipTransitions(mem') \subseteq {r} /\ ~hasQuorumTransition(mem')
        BY <2>1, <3>2, <4>1
           DEF OnlyMt, votingMembershipTransitions, InGroup, hasQuorumTransition
      <4> QED BY <4>2 DEF Exclusive
    <3>4. CASE Registry[plan].group # "VotingMembership"
      <4>1. votingMembershipTransitions(mem') \subseteq votingMembershipTransitions(mem)
        BY <2>1, <3>1, <3>4 DEF OnlyMt, votingMembershipTransitions, InGroup, PlanOf
      <4> QED BY <2>1, <4>1, FewerTransitions DEF OnlyMt, hasQuorumTransition
    <3> QED BY <3>3, <3>4
  <2> QED BY <2>1, <2>2, <2>3
<1>3. ASSUME mem'.mt = mem.mt, mem'.qt = mem.qt PROVE Exclusive(mem')
  BY <1>3, FewerSlots
<1>4. DispatchToggle \/ NextIteration \/ reconcileRVRFinalizers => Exclusive(mem')
  BY <1>3, DispatchOtherEffect DEF OnlyXt, NextIteration, reconcileRVRFinalizers
<1>5. \A r \in Replicas : DispatchForceDetach(r) \/ DispatchAttachment(r) => Exclusive(mem')
  BY <1>3, DispatchOtherEffect, Zenon DEF OnlyAt
<1> QED BY SMTT(30), <1>1, <1>2, <1>4, <1>5 DEF Dispatch

\* No transition runs initially.
LEMMA InitExclusive ==
    ASSUME Init
    PROVE  VotingExclusive
<1>1. votingMembershipTransitions(rv) = {} /\ ~hasQuorumTransition(rv)
  BY InitIdle DEF votingMembershipTransitions, InGroup, hasQuorumTransition, Active, Idle
<1> QED BY <1>1, InitIdle DEF VotingExclusive

\* Every step keeps the voting transitions exclusive.
LEMMA NextExclusive ==
    ASSUME EnvTypeOK, CtrlTypeOK, VotingExclusive, [Next]_vars
    PROVE  VotingExclusive'
<1> SUFFICES Exclusive(rv') /\ Exclusive(mem')
  BY DEF VotingExclusive, Exclusive
<1>0. Exclusive(rv) /\ Exclusive(mem)
  BY ExclusiveStates
<1>1. CASE Settle /\ rv' = rv
  BY <1>0, <1>1, SettleExclusive
<1>2. CASE Dispatch /\ rv' = rv
  BY <1>0, <1>2, DispatchExclusive
<1>3. CASE rv' \in {rv, mem} /\ mem' \in {rv, mem}
  BY <1>0, <1>3
<1> QED BY <1>1, <1>2, <1>3, MeshSteps

----------------------------------------------------------------------------
(* The invariant of the finalizers, which DatameshSafety_proofs shows: it  *)
(* carries the property through the reconcile, where it is stated of the   *)
(* working copy, and over the window between the two patches, where the    *)
(* stored state is behind the finalizers.  It needs what the requests say  *)
(* about the revision they were written with: a replica that was let go    *)
(* asks neither to leave nor, once it ran the volume, to join.             *)

\* In s, replica r is no member that ever ran the volume, and is not being removed.
HeldIn(s, r) ==
    /\ r \in Members(s) => rvr[r].rev = 0
    /\ s.mt[r].plan \notin RemovePlan

\* What the requests and finalizers of the RVRs say about each other.
RVRsOK ==
    \A r \in Replicas :
        /\ rvr[r].ex = "live" => rvr[r].fin
        /\ rvr[r].req.op = "Join" => rvr[r].rev = 0
        /\ rvr[r].req.op = "Leave" => rvr[r].rev # 0

\* The inductive invariant: the working copy satisfies the property whatever the
\* reconcile has computed so far, the stored state whenever the finalizers have not
\* been patched ahead of it.
FinalizerInv ==
    /\ pc = "idle" => mem = rv
    /\ RVRsOK
    /\ \A r \in Replicas :
          rvrShouldNotExist(r) => HeldIn(mem, r) /\ (pc # "patch" => HeldIn(rv, r))
============================================================================
