---------------------- MODULE PrimaryInvariant_proofs ----------------------
(***************************************************************************)
(* The invariant under which no two nodes run the volume as primary unless *)
(* both allow it, and what settling confirmed transitions and dispatching  *)
(* membership plans do to it.                                              *)
(*                                                                         *)
(* NoDualPrimary speaks of the configuration the nodes run and of what is  *)
(* published; both lag behind the reconcile's working copy.  The invariant *)
(* therefore says of the published state and of the working copy alike who *)
(* may be attached (MeshOK) and what a primary has been told (PriOK), and  *)
(* bounds how far the working copy may be ahead (AheadOK, AheadAll): what  *)
(* it took back, it took back at a revision no node has confirmed.         *)
(***************************************************************************)
EXTENDS Datamesh_proofs

\* The obligations are small and their context is large: give the provers time to read it.
USE SMTT(30), ZenonT(20)

\* No reconcile is interrupted between its two patches, every RVR is created by the
\* controller, and nobody forces a member out or a volume off a node by hand.
Regular ==
    \A n \in DOMAIN Scenarios :
        {"Crash", "UserCreate", "ForceLeave", "ForceDetach"} \cap Scenarios[n].kinds = {}

\* The replicas that are attached in s, or on their way there or back.
PotentialPrimary(s, r) == r \in s.attached \/ s.at[r].plan # None

\* A replica that is joining or leaving is not attached; one whose RemoveReplica is not
\* at its last step is still a member; a replica removed by force is none.
MtOK(s, r) ==
    /\ s.mt[r].plan \in AddPlan \cup RemovePlan \cup ForceRemovePlan => ~PotentialPrimary(s, r)
    /\ s.mt[r].plan # None => s.mt[r].rev > 0
    /\ s.mt[r].plan \in RemovePlan => (r \in Members(s) <=> ~IsLastStep(s.mt[r]))
    /\ s.mt[r].plan \in ForceRemovePlan => r \notin Members(s)

\* Only members are attached, and a Detach takes the flag at once.
AtOK(s, r) ==
    /\ PotentialPrimary(s, r) => r \in Members(s)
    /\ s.at[r].plan \in {"Attach", "Detach", None}
    /\ s.at[r].plan = "Detach" => r \notin s.attached

\* Two replicas are attached, or on their way, only under a settled multiattach.
ToggleOK(s) ==
    /\ s.xt.plan = "EnableMultiattach" => s.multi
    /\ s.xt.plan = "DisableMultiattach" => ~s.multi
    /\ \A a, b \in Replicas :
          PotentialPrimary(s, a) /\ PotentialPrimary(s, b) /\ a # b =>
              s.multi /\ s.xt.plan = None
    /\ s.rev > 0

MeshOK(s) == ToggleOK(s) /\ \A r \in Replicas : MtOK(s, r) /\ AtOK(s, r)

\* A primary is attached in s, or its Detach is not confirmed; once multiattach is settled,
\* or the replica has confirmed it, it allows two primaries.
PriOK(s, r) ==
    conf[r].pri =>
        /\ r \in s.attached \/ (s.at[r].plan = "Detach" /\ rvr[r].rev < s.at[r].rev)
        /\ r \in s.attached /\ s.multi /\ s.xt.plan = None => conf[r].two
        /\ r \in s.attached /\ s.xt.plan = "EnableMultiattach" /\ s.xt.rev <= rvr[r].rev =>
              conf[r].two

\* A member of s that is neither joining nor leaving has run the volume.
RunOK(s, r) ==
    r \in Members(s) /\ s.mt[r].plan \notin AddPlan \cup RemovePlan =>
        Exists(r) /\ rvr[r].rev > 0

\* How far mem may be ahead of what is published: a replica detached in mem was asked to
\* at a revision nobody has seen, and so was a replica that joined; multiattach is on in
\* mem only if that revision was not seen either, or nobody attached before still is.
AheadOK(r) ==
    /\ r \in rv.attached =>
          r \in mem.attached \/ (mem.at[r].plan = "Detach" /\ mem.at[r].rev > rv.rev)
    /\ r \in Members(mem) /\ r \notin Members(rv) =>
          mem.mt[r].plan \in AddPlan /\ mem.mt[r].rev > rv.rev
    /\ r \in rv.attached /\ r \in mem.attached /\ mem.multi /\ ~rv.multi =>
          mem.xt.plan = "EnableMultiattach" /\ mem.xt.rev > rv.rev

AheadAll ==
    /\ rv.rev <= mem.rev
    /\ mem.xt.plan = "EnableMultiattach" /\ mem.xt.rev <= rv.rev => rv.multi

\* The RVRs: nobody reports a revision that was not published, and a node without an RVR
\* does not run DRBD.
ObjectOK(r) ==
    /\ rvr[r].rev <= rv.rev
    /\ rvr[r].req.op \notin {"ForceLeave", "ForceDetach"}
    /\ r \notin lost => Exists(r) \/ conf[r] = Unconfigured

\* The inductive invariant.
PrimaryInv ==
    /\ MeshOK(rv) /\ MeshOK(mem)
    /\ \A r \in Replicas : ObjectOK(r)
    /\ \A r \in Replicas \ lost : PriOK(rv, r) /\ PriOK(mem, r) /\ AheadOK(r) /\ RunOK(mem, r)
    /\ pc # "patch" => \A r \in Replicas \ lost : RunOK(rv, r)
    /\ AheadAll
    /\ pc = "process" => \A r \in Replicas : PotentialPrimary(mem, r) => r \in pot

\* A replica that is not configured is connected to nobody.
LEMMA UnconfiguredAlone ==
    ASSUME NEW q \in Replicas, conf[q] = Unconfigured
    PROVE  \A p \in Replicas : ~Connected(p, q)
<1>1. \A p \in Replicas : conf[q].peers[p] = None
  BY DEF Unconfigured, NoPeers
<1> QED BY <1>1, Zenon DEF Connected

\* A revision that was reported has been published.
LEMMA NotReportedYet == \A a, b, c \in Nat : ~(a > b /\ c >= a /\ c <= b)
OBVIOUS

\* The counters the invariant compares are natural numbers.
LEMMA Counters ==
    ASSUME EnvTypeOK, CtrlTypeOK
    PROVE  /\ mem \in State /\ rv \in State /\ mem.rev \in Nat /\ rv.rev \in Nat
           /\ mem.xt \in Transition /\ mem.xt.rev \in Nat
           /\ \A r \in Replicas : /\ rvr[r].rev \in Nat
                                  /\ mem.mt[r] \in Transition /\ mem.mt[r].rev \in Nat
                                  /\ mem.at[r] \in Transition /\ mem.at[r].rev \in Nat
<1>1. mem \in State /\ rv \in State
  BY DEF CtrlTypeOK
<1>2. mem.rev \in Nat /\ rv.rev \in Nat /\ mem.xt \in Transition
  BY <1>1 DEF State
<1>3. \A r \in Replicas : mem.mt[r] \in Transition /\ mem.at[r] \in Transition
  BY <1>1, SlotsTyped
<1>4. \A t \in Transition : t.rev \in Nat
  BY DEF Transition
<1>5. \A r \in Replicas : rvr[r].rev \in Nat
  BY DEF EnvTypeOK, RVR
<1> QED BY <1>1, <1>2, <1>3, <1>4, <1>5

\* Computing on the working copy.
LEMMA ComputedPrimary ==
    ASSUME PrimaryInv, pc = "process", pc' = "process",
           UNCHANGED <<rv, rvr, conf, lost>>,
           MeshOK(mem'), AheadAll',
           \A r \in Replicas \ lost : PriOK(mem, r)' /\ RunOK(mem, r)' /\ AheadOK(r)',
           \A r \in Replicas : PotentialPrimary(mem', r) => r \in pot'
    PROVE  PrimaryInv'
<1>1. MeshOK(rv') /\ \A r \in Replicas : ObjectOK(r)'
  BY DEF PrimaryInv, ObjectOK, Exists
<1>2. \A r \in Replicas \ lost : PriOK(rv, r)' /\ RunOK(rv, r)'
  BY DEF PrimaryInv, PriOK, RunOK, Exists
<1> QED BY <1>1, <1>2 DEF PrimaryInv

\* A step of the working copy that leaves the attachments, multiattach and the members
\* alone.
LEMMA UnrelatedPrimary ==
    ASSUME EnvTypeOK, CtrlTypeOK, PrimaryInv, pc = "process", pc' = "process",
           UNCHANGED <<rv, rvr, conf, lost, pot>>,
           mem'.type = mem.type, mem'.attached = mem.attached, mem'.multi = mem.multi,
           mem'.mt = mem.mt, mem'.at = mem.at, mem'.xt = mem.xt, mem'.rev \in Nat,
           mem'.rev >= mem.rev
    PROVE  PrimaryInv'
<1>0. rv.rev \in Nat /\ mem.rev \in Nat
  BY DEF CtrlTypeOK, EnvTypeOK, State
<1>1. \A r \in Replicas : /\ PotentialPrimary(mem', r) <=> PotentialPrimary(mem, r)
                          /\ r \in Members(mem') <=> r \in Members(mem)
  BY DEF PotentialPrimary, Members
<1>2. ToggleOK(mem')
  BY <1>0, <1>1 DEF PrimaryInv, MeshOK, ToggleOK
<1>3. \A r \in Replicas : MtOK(mem', r) /\ AtOK(mem', r)
  BY <1>1 DEF PrimaryInv, MeshOK, MtOK, AtOK
<1>4. AheadAll'
  BY <1>0 DEF PrimaryInv, AheadAll
<1>5. ASSUME NEW r \in Replicas \ lost PROVE PriOK(mem, r)' /\ RunOK(mem, r)' /\ AheadOK(r)'
  <2>1. PriOK(mem, r) /\ RunOK(mem, r) /\ AheadOK(r)
    BY DEF PrimaryInv
  <2>2. PriOK(mem, r)' /\ RunOK(mem, r)'
    BY <1>1, <2>1 DEF PriOK, RunOK, Exists
  <2>3. AheadOK(r)'
    BY <1>1, <2>1 DEF AheadOK
  <2> QED BY <2>2, <2>3
<1>6. \A r \in Replicas : PotentialPrimary(mem', r) => r \in pot'
  BY <1>1 DEF PrimaryInv
<1> QED BY <1>2, <1>3, <1>4, <1>5, <1>6, ComputedPrimary DEF MeshOK

\* A step of the membership slot of q.
LEMMA MembershipPrimary ==
    ASSUME EnvTypeOK, CtrlTypeOK, PrimaryInv, pc = "process", pc' = "process",
           UNCHANGED <<rv, rvr, conf, lost, pot>>, NEW q \in Replicas,
           OnlyMt(mem', mem, q), mem'.attached = mem.attached, mem'.multi = mem.multi,
           mem'.rev \in Nat, mem'.rev >= mem.rev,
           \A p \in Replicas \ {q} : mem'.type[p] = mem.type[p],
           MtOK(mem', q), PotentialPrimary(mem, q) => q \in Members(mem'),
           q \notin lost => RunOK(mem, q)',
           q \notin lost /\ q \in Members(mem') /\ q \notin Members(rv) =>
              mem'.mt[q].plan \in AddPlan /\ mem'.mt[q].rev > rv.rev
    PROVE  PrimaryInv'
<1>0. rv.rev \in Nat /\ mem.rev \in Nat
  BY DEF CtrlTypeOK, EnvTypeOK, State
<1>1. mem'.at = mem.at /\ mem'.xt = mem.xt
  BY DEF OnlyMt
<1>2. \A r \in Replicas : PotentialPrimary(mem', r) <=> PotentialPrimary(mem, r)
  BY <1>1 DEF PotentialPrimary
<1>3. \A r \in Replicas \ {q} : /\ r \in Members(mem') <=> r \in Members(mem)
                                /\ mem'.mt[r] = mem.mt[r]
  BY DEF OnlyMt, Members
<1>4. ToggleOK(mem')
  BY <1>0, <1>1, <1>2 DEF PrimaryInv, MeshOK, ToggleOK
<1>5. ASSUME NEW r \in Replicas PROVE MtOK(mem', r) /\ AtOK(mem', r)
  <2>1. MtOK(mem, r) /\ AtOK(mem, r)
    BY DEF PrimaryInv, MeshOK
  <2>2. r # q => MtOK(mem', r)
    BY <1>2, <1>3, <2>1 DEF MtOK
  <2>3. AtOK(mem', r)
    BY <1>1, <1>2, <1>3, <2>1 DEF AtOK
  <2> QED BY <2>2, <2>3
<1>6. AheadAll'
  BY <1>0, <1>1 DEF PrimaryInv, AheadAll
<1>7. ASSUME NEW r \in Replicas \ lost PROVE PriOK(mem, r)' /\ RunOK(mem, r)' /\ AheadOK(r)'
  <2>1. PriOK(mem, r) /\ RunOK(mem, r) /\ AheadOK(r)
    BY DEF PrimaryInv
  <2>2. PriOK(mem, r)'
    BY <1>1, <2>1 DEF PriOK
  <2>3. RunOK(mem, r)'
    BY <1>3, <2>1 DEF RunOK, Exists
  <2>4. AheadOK(r)'
    BY <1>1, <1>3, <2>1 DEF AheadOK
  <2> QED BY <2>2, <2>3, <2>4
<1>8. \A r \in Replicas : PotentialPrimary(mem', r) => r \in pot'
  BY <1>2 DEF PrimaryInv
<1> QED BY <1>4, <1>5, <1>6, <1>7, <1>8, ComputedPrimary DEF MeshOK

----------------------------------------------------------------------------
(* What a confirmed step says *)

\* A confirmed step of a transition that adds or retypes a member is confirmed by the
\* member itself.
LEMMA MemberConfirmed ==
    ASSUME NEW s, NEW r \in Replicas, NEW t \in Transition, Active(t),
           t.plan \in AddPlan \cup ChangePlan, r \in Members(s), StepConfirmed(s, r, t)
    PROVE  Exists(r) /\ rvr[r].rev >= t.rev
<1>1. t.step \in DOMAIN Registry[t.plan].steps
  BY DEF Transition, PlanOf
<1>2. Registry[t.plan].steps \in Seq(StayingStep)
  BY PlanShapes DEF Entering
<1>3. StepOf(t).confirm \in StayingConfirm
  BY <1>1, <1>2 DEF StepOf, PlanOf, StayingStep
<1>4. r \in MustConfirm(s, r, StepOf(t).confirm)
  BY <1>3 DEF MustConfirm, StayingConfirm
<1>5. r \in confirmedReplicas(t.rev)
  BY <1>3, <1>4 DEF StepConfirmed, Confirmed, StayingConfirm
<1> QED BY <1>5 DEF confirmedReplicas

\* The transitions of a single step are at their last step.
LEMMA FlagStep ==
    ASSUME NEW t \in Transition, t.plan \in AttachmentPlanID \cup TogglePlanID
    PROVE  IsLastStep(t) /\ StepOf(t) = Registry[t.plan].steps[1]
<1>1. t.plan \in PlanID /\ Len(Registry[t.plan].steps) = 1
  BY FlagPlans DEF AttachmentPlanID, TogglePlanID
<1>2. Registry[t.plan] \in PlanRecord
  BY <1>1, RegistryTypes
<1>3. Registry[t.plan].steps \in Seq(Step)
  BY <1>2 DEF PlanRecord, Steps
<1>4. Active(t)
  BY <1>1, DisjointPlans DEF Active
<1>5. t.step \in DOMAIN Registry[t.plan].steps
  BY <1>4 DEF Transition, PlanOf
<1>6. t.step = 1
  BY <1>1, <1>3, <1>5
<1> QED BY <1>1, <1>6 DEF IsLastStep, StepOf, PlanOf

\* A confirmed Detach: the subject has taken it over, has left or is gone.
LEMMA DetachConfirmed ==
    ASSUME NEW s, NEW r \in Replicas, NEW t \in Transition, t.plan = "Detach",
           StepConfirmed(s, r, t)
    PROVE  Exists(r) /\ rvr[r].rev # 0 => rvr[r].rev >= t.rev
<1>1. StepOf(t).confirm = "subjectLeavingOrGone"
  BY FlagStep, FlagPlans DEF AttachmentPlanID
<1>2. r \in Confirmed(r, "subjectLeavingOrGone", t.rev)
  BY <1>1 DEF StepConfirmed, MustConfirm
<1> QED BY <1>2 DEF Confirmed, confirmedReplicas, Left

\* A confirmed multiattach toggle: the attached members have taken it over.
LEMMA ToggleConfirmed ==
    ASSUME NEW s, NEW r \in Replicas, NEW t \in Transition, t.plan \in TogglePlanID,
           r \in Members(s), r \in s.attached, StepConfirmed(s, 0, t)
    PROVE  rvr[r].rev >= t.rev
<1>1. StepOf(t).confirm = "multiattach"
  BY FlagStep, FlagPlans DEF TogglePlanID
<1>2. r \in MustConfirm(s, 0, "multiattach")
  BY DEF MustConfirm
<1>3. r \in Confirmed(0, "multiattach", t.rev)
  BY <1>1, <1>2 DEF StepConfirmed
<1> QED BY <1>3 DEF Confirmed, confirmedReplicas

\* A RemoveReplica at its next step: the member goes exactly with the last one.
LEMMA RemoveNext ==
    ASSUME NEW s \in State, NEW y \in State, NEW u, NEW r \in Replicas, NEW t \in Transition,
           t.plan \in RemovePlan, ~IsLastStep(t), r \in Members(s), AdvancedTo(y, u, s, r, t)
    PROVE  r \in Members(y) <=> ~IsLastStep(u)
<1> DEFINE steps == Registry[t.plan].steps
<1>0. t.plan \in PlanID /\ Active(t)
  BY DisjointPlans DEF MembershipPlanID, Active
<1>1. NextStep(t) = steps[t.step + 1] /\ t.step + 1 \in DOMAIN steps
  BY <1>0, StepsInPlan DEF NextStep, PlanOf
<1>2. steps \in Seq(MembershipStep) /\ Leaving(steps)
  BY PlanShapes, LeavingPlans
<1>3. /\ y.type = StepType(s, r, NextStep(t)) /\ u.plan = t.plan /\ u.step = t.step + 1
      /\ s.type \in [Replicas -> MemberType \cup {None}]
  BY DEF AdvancedTo, Applied, AtStep, State
<1>4. IsLastStep(u) <=> t.step + 1 = Len(steps)
  BY <1>3 DEF IsLastStep, PlanOf
<1> HIDE DEF steps
<1>5. t.step + 1 # Len(steps) => t.step + 1 \in 1 .. Len(steps) - 1
  BY <1>1, <1>2
<1>6. NextStep(t).to = None <=> t.step + 1 = Len(steps)
  BY <1>1, <1>2, <1>5 DEF Leaving
<1> QED BY <1>3, <1>4, <1>6 DEF StepType, Members, None

----------------------------------------------------------------------------
(* Settling *)

\* Settling a membership transition keeps the invariant: a member that was added has
\* confirmed, so it runs the volume and is no news to the published state.
LEMMA SettleMembershipPrimary ==
    ASSUME EnvTypeOK, CtrlTypeOK, mem' \in State, SlotsOK(mem), PrimaryInv, pc = "process",
           pc' = "process", UNCHANGED <<rv, env, pot>>, NEW q \in Replicas,
           MembershipConfirmed(mem, q), OnlyMt(mem', mem, q),
           AdvancedTo(mem', mem'.mt[q], mem, q, mem.mt[q])
    PROVE  PrimaryInv'
<1> DEFINE t == mem.mt[q]
<1>0. /\ mem \in State /\ rv \in State /\ mem.rev \in Nat /\ rv.rev \in Nat
      /\ mem'.rev \in Nat /\ t \in Transition /\ t.rev \in Nat /\ rvr[q].rev \in Nat
      /\ UNCHANGED <<rvr, conf, lost>>
  <2>1. mem'.rev \in Nat
    BY DEF State
  <2>2. UNCHANGED <<rvr, conf, lost>>
    BY DEF env
  <2> QED BY <2>1, <2>2, Counters
<1>1. /\ Active(t) /\ StepConfirmed(mem, q, t)
      /\ t.plan \in MembershipPlanID /\ t.plan # None
      /\ t.plan \in AddPlan \cup ChangePlan => q \in Members(mem)
  BY DEF MembershipConfirmed, SlotsOK, Active
<1>2. /\ MtOK(mem, q) /\ AtOK(mem, q) /\ mem.rev > 0 /\ rvr[q].rev <= rv.rev
      /\ q \notin lost => RunOK(mem, q) /\ AheadOK(q)
  BY DEF PrimaryInv, MeshOK, ToggleOK, ObjectOK
<1>3. t.plan \in AddPlan \cup ChangePlan => Exists(q) /\ rvr[q].rev >= t.rev
  BY <1>0, <1>1, MemberConfirmed
<1>4. t.rev > 0
  BY <1>1, <1>2, Zenon DEF MtOK
<1>4a. q \notin lost /\ q \in Members(mem) /\ t.plan \in AddPlan \cup ChangePlan =>
          q \in Members(rv)
  <2> SUFFICES ASSUME q \notin lost, q \in Members(mem), t.plan \in AddPlan \cup ChangePlan,
                      q \notin Members(rv)
               PROVE  FALSE
    OBVIOUS
  <2>1. t.rev > rv.rev
    BY <1>2 DEF AheadOK
  <2>2. rvr[q].rev >= t.rev /\ rvr[q].rev <= rv.rev
    BY <1>2, <1>3
  <2>3. t.rev \in Nat /\ rv.rev \in Nat /\ rvr[q].rev \in Nat
    BY <1>0
  <2> HIDE DEF t
  <2> QED BY <2>1, <2>2, <2>3
<1>5. /\ None \notin AddPlan \cup RemovePlan \cup ForceRemovePlan
      /\ \A p \in ForceRemovePlan : p \notin AddPlan \cup ChangePlan \cup RemovePlan
      /\ \A p \in RemovePlan : p \notin AddPlan \cup ChangePlan
  BY DisjointPlans DEF MembershipPlanID
<1>6. \A p \in Replicas \ {q} : mem'.type[p] = mem.type[p]
  <2> HIDE DEF t
  <2>1. AdvancedTo(mem', mem'.mt[q], mem, q, t)
    BY DEF t
  <2>2. mem \in State /\ t \in Transition /\ Active(t)
    BY <1>0, <1>1
  <2> QED BY Zenon, <2>1, <2>2, AdvancedMembers
<1>7. CASE IsLastStep(t)
  <2>1. SameMesh(mem', mem) /\ mem'.mt[q].plan = None
    BY <1>7 DEF AdvancedTo, Idle
  <2>2. q \in Members(mem') <=> q \in Members(mem)
    BY <2>1 DEF SameMesh, Members
  <2>3. MtOK(mem', q)
    BY <1>5, <2>1 DEF MtOK
  <2>4. PotentialPrimary(mem, q) => q \in Members(mem')
    BY <1>2, <2>2 DEF AtOK
  <2>5. t.plan \in AddPlan \cup ChangePlan \/ q \notin Members(mem)
    BY <1>1, <1>2, <1>7 DEF MtOK, MembershipPlanID
  <2>6. q \notin lost => RunOK(mem, q)'
    BY <1>0, <1>3, <1>4, <2>2, <2>5 DEF RunOK, Exists
  <2>7. q \notin lost /\ q \in Members(mem') => q \in Members(rv)
    BY <1>4a, <2>2, <2>5
  <2> QED BY <1>0, <1>6, <2>1, <2>3, <2>4, <2>6, <2>7, MembershipPrimary DEF SameMesh
<1>8. CASE ~IsLastStep(t)
  <2>1. /\ Applied(mem', mem, q, NextStep(t))
        /\ mem'.mt[q].plan = t.plan /\ mem'.mt[q].rev = mem'.rev
    BY <1>8 DEF AdvancedTo, AtStep
  <2>2. /\ NextStep(t) \in MembershipStep /\ t.plan \notin ForceRemovePlan
        /\ t.plan \in AddPlan \cup ChangePlan => NextStep(t).to # None
    BY <1>0, <1>1, <1>8, NextStepKind, Zenon DEF MembershipPlanID, StayingStep
  <2>3. q \in Members(mem)
    BY <1>1, <1>2, <1>8, <2>2, Zenon DEF MtOK, MembershipPlanID
  <2>4. mem'.attached = mem.attached
    <3>1. NextStep(t).to = None => q \notin mem.attached
      BY <1>1, <1>2, <2>2, Zenon DEF MtOK, PotentialPrimary, MembershipPlanID
    <3> QED BY <1>0, <2>1, <2>2, <3>1, Zenon DEF Applied, StepAttached, MembershipStep
  <2>5. mem'.multi = mem.multi
    BY <2>1, <2>2, Zenon DEF Applied, StepMulti, MembershipStep
  <2>5a. mem'.rev >= mem.rev
    BY <1>0, <2>1 DEF Applied
  <2>6. t.plan \in AddPlan \cup ChangePlan => q \in Members(mem')
    <3> HIDE DEF t
    <3>1. AdvancedTo(mem', mem'.mt[q], mem, q, t)
      BY DEF t
    <3> QED BY Zenon, <1>0, <1>1, <2>3, <3>1, AdvancedMembers
  <2>7. t.plan \in RemovePlan => (q \in Members(mem') <=> ~IsLastStep(mem'.mt[q]))
    BY <1>0, <1>8, <2>3, RemoveNext
  <2>8. PotentialPrimary(mem', q) <=> PotentialPrimary(mem, q)
    BY <2>4 DEF PotentialPrimary, OnlyMt
  <2>9. MtOK(mem', q)
    <3>1. mem'.mt[q].rev > 0
      <4>1. mem.rev \in Nat /\ mem'.rev \in Nat /\ mem.rev > 0
        BY <1>0, <1>2, Zenon
      <4>2. mem'.rev > 0
        BY <2>5a, <4>1
      <4> QED BY <2>1, <4>2, Zenon
    <3> QED BY <1>2, <2>1, <2>2, <2>7, <2>8, <3>1, Zenon DEF MtOK
  <2>10. PotentialPrimary(mem, q) => q \in Members(mem')
    BY <1>1, <1>2, <2>2, <2>6, Zenon DEF MtOK, MembershipPlanID
  <2>11. q \notin lost => RunOK(mem, q)'
    BY <1>0, <1>2, <2>1, <2>3, Zenon DEF RunOK, Exists
  <2>12. q \notin lost => q \in Members(rv)
    BY <1>2, <1>4a, <1>5, <2>3, Zenon DEF AheadOK
  <2> QED BY <1>0, <1>6, <2>4, <2>5, <2>5a, <2>9, <2>10, <2>11, <2>12, MembershipPrimary
<1> QED BY <1>7, <1>8

\* Settling an Attach or a Detach keeps the invariant: a reachable member that confirmed a
\* Detach has demoted the volume.
LEMMA SettleAttachmentPrimary ==
    ASSUME EnvTypeOK, CtrlTypeOK, PrimaryInv, pc = "process", pc' = "process",
           UNCHANGED <<rv, env>>, NEW q \in Replicas, AttachmentConfirmed(mem, q),
           OnlyAt(mem', mem, q), AdvancedTo(mem', mem'.at[q], mem, q, mem.at[q]),
           pot' = IF mem.at[q].plan = "Detach" THEN pot \ {q} ELSE pot
    PROVE  PrimaryInv'
<1> DEFINE t == mem.at[q]
<1>0. /\ mem \in State /\ rv \in State /\ mem.rev \in Nat /\ rv.rev \in Nat
      /\ t \in Transition /\ t.rev \in Nat /\ rvr[q].rev \in Nat
      /\ UNCHANGED <<rvr, conf, lost>>
  <2>1. UNCHANGED <<rvr, conf, lost>>
    BY DEF env
  <2> QED BY <2>1, Counters
<1>1. /\ MtOK(mem, q) /\ AtOK(mem, q) /\ rvr[q].rev <= rv.rev
      /\ q \notin lost => RunOK(mem, q) /\ AheadOK(q) /\ PriOK(mem, q)
  BY DEF PrimaryInv, MeshOK, ObjectOK
<1>2. t.plan \in {"Attach", "Detach"} /\ StepConfirmed(mem, q, t)
  BY <1>1 DEF AttachmentConfirmed, AtOK, Active
<1>3. IsLastStep(t)
  BY <1>0, <1>2, FlagStep DEF AttachmentPlanID
<1>4. SameMesh(mem', mem) /\ mem'.at[q].plan = None
  BY <1>3 DEF AdvancedTo, Idle
<1>5. \A r \in Replicas \ {q} : mem'.at[r] = mem.at[r]
  BY DEF OnlyAt
<1>6. mem'.mt = mem.mt /\ mem'.xt = mem.xt
  BY DEF OnlyAt
<1>7. \A r \in Replicas : /\ r \in Members(mem') <=> r \in Members(mem)
                          /\ PotentialPrimary(mem', r) => PotentialPrimary(mem, r)
                          /\ PotentialPrimary(mem', r) /\ r = q => r \in mem.attached
  BY <1>2, <1>4, <1>5 DEF SameMesh, Members, PotentialPrimary, None
<1>8. q \notin lost /\ t.plan = "Detach" =>
          rvr[q].rev >= t.rev /\ ~conf[q].pri /\ q \notin rv.attached
  <2> SUFFICES ASSUME q \notin lost, t.plan = "Detach"
               PROVE  rvr[q].rev >= t.rev /\ ~conf[q].pri /\ q \notin rv.attached
    OBVIOUS
  <2>1. PotentialPrimary(mem, q) /\ q \in Members(mem) /\ q \notin mem.attached
    BY <1>1 DEF AtOK, PotentialPrimary, None
  <2>2. Exists(q) /\ rvr[q].rev > 0
    BY <1>1, <2>1, Zenon DEF RunOK, MtOK
  <2>3. rvr[q].rev >= t.rev
    BY <1>0, <1>2, <2>2, DetachConfirmed
  <2>3a. t.rev \in Nat /\ rv.rev \in Nat /\ rvr[q].rev \in Nat /\ rvr[q].rev <= rv.rev
    BY <1>0, <1>1
  <2>3b. /\ conf[q].pri => rvr[q].rev < t.rev
         /\ q \in rv.attached => t.rev > rv.rev
    BY <1>1, <2>1, Zenon DEF PriOK, AheadOK
  <2> HIDE DEF t
  <2>4. ~conf[q].pri
    BY <2>3, <2>3a, <2>3b
  <2>5. q \notin rv.attached
    BY <2>3, <2>3a, <2>3b
  <2> QED BY <2>3, <2>4, <2>5
<1>9. ToggleOK(mem')
  BY <1>4, <1>6, <1>7, Zenon DEF PrimaryInv, MeshOK, ToggleOK, SameMesh
<1>10. ASSUME NEW r \in Replicas PROVE MtOK(mem', r) /\ AtOK(mem', r)
  <2>1. MtOK(mem, r) /\ AtOK(mem, r)
    BY DEF PrimaryInv, MeshOK
  <2>2. MtOK(mem', r)
    BY <1>6, <1>7, <2>1 DEF MtOK
  <2>3. AtOK(mem', r)
    BY <1>4, <1>5, <1>7, <2>1 DEF AtOK, SameMesh, None
  <2> QED BY <2>2, <2>3
<1>11. AheadAll'
  BY <1>4, <1>6, Zenon DEF PrimaryInv, AheadAll, SameMesh
<1>12. ASSUME NEW r \in Replicas \ lost PROVE PriOK(mem, r)' /\ RunOK(mem, r)' /\ AheadOK(r)'
  <2>1. PriOK(mem, r) /\ RunOK(mem, r) /\ AheadOK(r)
    BY DEF PrimaryInv
  <2>2. RunOK(mem, r)'
    BY <1>0, <1>6, <1>7, <2>1 DEF RunOK, Exists
  <2>3. CASE r # q
    BY <1>0, <1>4, <1>5, <1>6, <1>7, <2>1, <2>2, <2>3, Zenon DEF PriOK, AheadOK, SameMesh
  <2>4. CASE r = q
    <3>1. PriOK(mem, r)'
      BY <1>0, <1>2, <1>4, <1>6, <1>8, <2>1, <2>4, Zenon DEF PriOK, SameMesh
    <3>2. AheadOK(r)'
      BY <1>0, <1>2, <1>4, <1>6, <1>7, <1>8, <2>1, <2>4, Zenon DEF AheadOK, SameMesh
    <3> QED BY Zenon, <2>2, <3>1, <3>2
  <2> QED BY <2>3, <2>4
<1>13. \A r \in Replicas : PotentialPrimary(mem', r) => r \in pot'
  <2>1. t.plan = "Detach" => q \notin mem.attached
    BY <1>1 DEF AtOK
  <2> QED BY <1>7, <2>1, Zenon DEF PrimaryInv
<1> QED BY <1>0, <1>9, <1>10, <1>11, <1>12, <1>13, ComputedPrimary, Zenon DEF MeshOK

\* Settling a multiattach toggle keeps the invariant: every primary that is still attached
\* has confirmed EnableMultiattach.
LEMMA SettleTogglePrimary ==
    ASSUME EnvTypeOK, CtrlTypeOK, SlotsOK(mem), PrimaryInv, pc = "process", pc' = "process",
           UNCHANGED <<rv, env, pot>>, GlobalConfirmed(mem, mem.xt),
           OnlyXt(mem', mem), AdvancedTo(mem', mem'.xt, mem, 0, mem.xt)
    PROVE  PrimaryInv'
<1> DEFINE t == mem.xt
<1>0. /\ mem \in State /\ rv \in State /\ mem.rev \in Nat /\ rv.rev \in Nat
      /\ t \in Transition /\ t.rev \in Nat /\ UNCHANGED <<rvr, conf, lost>>
  <2>1. UNCHANGED <<rvr, conf, lost>>
    BY DEF env
  <2> QED BY <2>1, Counters
<1>1. t.plan \in TogglePlanID /\ StepConfirmed(mem, 0, t) /\ t.plan # None
  BY DEF GlobalConfirmed, SlotsOK, Active
<1>2. IsLastStep(t)
  BY <1>0, <1>1, FlagStep
<1>3. SameMesh(mem', mem) /\ mem'.xt.plan = None
  BY <1>2 DEF AdvancedTo, Idle
<1>4. mem'.mt = mem.mt /\ mem'.at = mem.at
  BY DEF OnlyXt
<1>5. \A r \in Replicas : /\ r \in Members(mem') <=> r \in Members(mem)
                          /\ PotentialPrimary(mem', r) <=> PotentialPrimary(mem, r)
  BY <1>3, <1>4 DEF SameMesh, Members, PotentialPrimary
<1>6. ToggleOK(mem')
  BY <1>1, <1>3, <1>5, Zenon DEF PrimaryInv, MeshOK, ToggleOK, SameMesh, None
<1>7. \A r \in Replicas : MtOK(mem', r) /\ AtOK(mem', r)
  BY <1>3, <1>4, <1>5, Zenon DEF PrimaryInv, MeshOK, MtOK, AtOK, SameMesh
<1>8. AheadAll'
  BY <1>3 DEF PrimaryInv, AheadAll, SameMesh, None
<1>9. ASSUME NEW r \in Replicas \ lost PROVE PriOK(mem, r)' /\ RunOK(mem, r)' /\ AheadOK(r)'
  <2>1. /\ PriOK(mem, r) /\ RunOK(mem, r) /\ AheadOK(r) /\ rvr[r].rev <= rv.rev
        /\ AtOK(mem, r) /\ ToggleOK(mem) /\ rvr[r].rev \in Nat
    BY DEF PrimaryInv, MeshOK, ObjectOK, EnvTypeOK, RVR
  <2>2. r \in mem.attached => rvr[r].rev >= t.rev
    BY <1>0, <1>1, <2>1, ToggleConfirmed, Zenon DEF AtOK, PotentialPrimary
  <2>3. RunOK(mem, r)'
    BY <1>0, <1>4, <1>5, <2>1 DEF RunOK, Exists
  <2>4. mem.multi => t.plan = "EnableMultiattach"
    BY <1>1, <2>1, Zenon DEF ToggleOK, TogglePlanID
  <2>5. PriOK(mem, r)'
    BY <1>0, <1>3, <1>4, <2>1, <2>2, <2>4, Zenon DEF PriOK, SameMesh, None
  <2>6. AheadOK(r)'
    <3>1. ~(r \in rv.attached /\ r \in mem.attached /\ mem.multi /\ ~rv.multi)
      <4> SUFFICES ASSUME r \in rv.attached, r \in mem.attached, mem.multi, ~rv.multi
                   PROVE  FALSE
        BY Zenon
      <4>1. t.rev > rv.rev
        BY <2>1 DEF AheadOK
      <4>2. rvr[r].rev >= t.rev /\ rvr[r].rev <= rv.rev
        BY <2>1, <2>2
      <4>3. t.rev \in Nat /\ rv.rev \in Nat /\ rvr[r].rev \in Nat
        BY Zenon, <1>0, <2>1
      <4> HIDE DEF t
      <4> QED BY <4>1, <4>2, <4>3, NotReportedYet, Zenon
    <3> QED BY <1>0, <1>3, <1>4, <1>5, <2>1, <3>1, Zenon DEF AheadOK, SameMesh
  <2> QED BY <2>3, <2>5, <2>6
<1>10. \A r \in Replicas : PotentialPrimary(mem', r) => r \in pot'
  BY <1>5 DEF PrimaryInv
<1> QED BY <1>0, <1>6, <1>7, <1>8, <1>9, <1>10, ComputedPrimary, Zenon DEF MeshOK

\* When nothing is computed, the working copy is what is published.
LEMMA PublishedPrimary ==
    ASSUME EnvTypeOK, CtrlTypeOK, PrimaryInv, UNCHANGED <<rvr, conf, lost>>,
           mem' = rv', pc' = "idle",
           \/ rv' = rv /\ pc # "patch"
           \/ rv' = mem
    PROVE  PrimaryInv'
<1>0. rv.rev \in Nat /\ mem.rev \in Nat /\ \A r \in Replicas : rvr[r].rev \in Nat
  BY Zenon DEF CtrlTypeOK, EnvTypeOK, State, RVR
<1>1. MeshOK(rv') /\ rv.rev <= rv'.rev /\ rv'.rev \in Nat
  BY <1>0 DEF PrimaryInv, AheadAll
<1>2. ASSUME NEW r \in Replicas PROVE ObjectOK(r)'
  BY <1>0, <1>1 DEF PrimaryInv, ObjectOK, Exists
<1>3. ASSUME NEW r \in Replicas \ lost PROVE PriOK(rv, r)' /\ RunOK(rv, r)'
  BY Zenon DEF PrimaryInv, PriOK, RunOK, Exists
<1>4. ASSUME NEW r \in Replicas \ lost PROVE AheadOK(r)'
  BY DEF AheadOK
<1>5. AheadAll'
  BY <1>1 DEF AheadAll, MeshOK, ToggleOK
<1>6. ASSUME NEW r \in Replicas \ lost PROVE PriOK(mem, r)' /\ RunOK(mem, r)'
  BY <1>3 DEF PriOK, RunOK, Exists
<1> QED BY <1>1, <1>2, <1>3, <1>4, <1>5, <1>6 DEF PrimaryInv

\* A step of the quorum slot.
LEMMA QuorumPrimary ==
    ASSUME EnvTypeOK, CtrlTypeOK, mem' \in State, PrimaryInv, pc = "process",
           pc' = "process", UNCHANGED <<rv, env, pot>>, OnlyQt(mem', mem),
           \/ SameMesh(mem', mem)
           \/ \E step \in QuorumStep : Applied(mem', mem, 0, step)
    PROVE  PrimaryInv'
<1>0. mem.rev \in Nat /\ mem'.rev \in Nat /\ UNCHANGED <<rv, rvr, conf, lost, pot>>
  BY Zenon DEF CtrlTypeOK, State, env
<1>1. /\ mem'.type = mem.type /\ mem'.attached = mem.attached /\ mem'.multi = mem.multi
      /\ mem'.rev >= mem.rev
  <2>1. CASE SameMesh(mem', mem)
    BY <1>0, <2>1 DEF SameMesh
  <2>2. ASSUME NEW step \in QuorumStep, Applied(mem', mem, 0, step)
        PROVE  /\ mem'.type = mem.type /\ mem'.attached = mem.attached
               /\ mem'.multi = mem.multi /\ mem'.rev >= mem.rev
    <3>1. step.to = "keep" /\ step.flag = "keep"
      BY DEF QuorumStep, MembershipStep
    <3>2. mem'.rev >= mem.rev
      BY <1>0, <2>2 DEF Applied
    <3> QED BY <2>2, <3>1, <3>2 DEF Applied, StepType, StepAttached, StepMulti, None
  <2> QED BY <2>1, <2>2
<1> QED BY <1>0, <1>1, UnrelatedPrimary, Zenon DEF OnlyQt

\* Settling keeps the invariant.
LEMMA SettlePrimary ==
    ASSUME EnvTypeOK, CtrlTypeOK, CtrlTypeOK', SlotsOK(mem), PrimaryInv, Settle
    PROVE  PrimaryInv'
<1>0. mem' \in State /\ mem \in State /\ pc = "process" /\ UNCHANGED <<rv, env>>
  BY SettleEffect, Zenon DEF CtrlTypeOK, Settle
<1>1. ASSUME NEW q \in Replicas, pc' = "process", SettleMembership(q), OnlyMt(mem', mem, q),
             AdvancedTo(mem', mem'.mt[q], mem, q, mem.mt[q])
      PROVE  PrimaryInv'
  <2>1. MembershipConfirmed(mem, q) /\ pot' = pot
    BY <1>1 DEF SettleMembership
  <2> QED BY <1>0, <1>1, <2>1, SettleMembershipPrimary
<1>2. ASSUME NEW q \in Replicas, pc' = "process", SettleAttachment(q), OnlyAt(mem', mem, q),
             AdvancedTo(mem', mem'.at[q], mem, q, mem.at[q])
      PROVE  PrimaryInv'
  <2>1. /\ AttachmentConfirmed(mem, q)
        /\ pot' = IF mem.at[q].plan = "Detach" THEN pot \ {q} ELSE pot
    BY <1>2 DEF SettleAttachment
  <2> QED BY <1>0, <1>2, <2>1, SettleAttachmentPrimary
<1>3. ASSUME pc' = "process", SettleQuorum, OnlyQt(mem', mem), Active(mem.qt),
             AdvancedTo(mem', mem'.qt, mem, 0, mem.qt)
      PROVE  PrimaryInv'
  <2>1. mem.qt \in Transition /\ mem.qt.plan \in ChangeQuorumPlan /\ pot' = pot
    BY <1>0, <1>3, SlotsTyped, ZeroIsReplica DEF SlotsOK, Active, SettleQuorum
  <2>2. ~IsLastStep(mem.qt) => NextStep(mem.qt) \in QuorumStep
    BY <1>3, <2>1, NextStepKind
  <2>3. \/ SameMesh(mem', mem)
        \/ \E step \in QuorumStep : Applied(mem', mem, 0, step)
    BY <1>3, <2>2 DEF AdvancedTo
  <2> QED BY <1>0, <1>3, <2>1, <2>3, QuorumPrimary
<1>4. ASSUME pc' = "process", SettleMultiattach, OnlyXt(mem', mem),
             AdvancedTo(mem', mem'.xt, mem, 0, mem.xt)
      PROVE  PrimaryInv'
  <2>1. GlobalConfirmed(mem, mem.xt) /\ pot' = pot
    BY <1>4 DEF SettleMultiattach
  <2> QED BY <1>0, <1>4, <2>1, SettleTogglePrimary
<1>5. ASSUME mem' = rv, pc' = "idle" PROVE PrimaryInv'
  <2>1. mem' = rv' /\ rv' = rv /\ pc # "patch" /\ UNCHANGED <<rvr, conf, lost>>
    BY <1>0, <1>5 DEF env
  <2> QED BY <1>5, <2>1, PublishedPrimary
<1> QED BY Zenon, <1>1, <1>2, <1>3, <1>4, <1>5, SettleEffect

\* The first step of a membership plan.
LEMMA StartedMembership ==
    ASSUME NEW s \in State, NEW y \in State, NEW u, NEW r \in Replicas,
           NEW p \in MembershipPlanID, StartedAs(y, u, s, r, p)
    PROVE  /\ y.multi = s.multi /\ y.rev >= s.rev /\ y.rev \in Nat
           /\ r \notin s.attached \/ p \in AddPlan \cup ChangePlan => y.attached = s.attached
           /\ y.type # s.type => y.rev > s.rev
<1> DEFINE step == Registry[p].steps[1]
<1>0. s.rev \in Nat /\ y.rev \in Nat /\ s.attached \in SUBSET Replicas
  BY DEF State
<1>1. Applied(y, s, r, step)
  BY DEF StartedAs
<1>2. step \in MembershipStep /\ (p \in AddPlan \cup ChangePlan => step.to # None)
  <2>1. p \in PlanID
    BY DisjointPlans
  <2>2. 1 \in DOMAIN Registry[p].steps
    BY <2>1, FirstStep
  <2>3. \/ Registry[p].steps \in Seq(StayingStep)
        \/ p \notin AddPlan \cup ChangePlan /\ Registry[p].steps \in Seq(MembershipStep)
    BY PlanShapes DEF MembershipPlanID, Entering
  <2> QED BY <2>2, <2>3 DEF StayingStep
<1> HIDE DEF step
<1>3. y.multi = s.multi
  BY <1>1, <1>2, Zenon DEF Applied, StepMulti, MembershipStep
<1>4. y.rev >= s.rev /\ (y.type # s.type => y.rev > s.rev)
  BY <1>0, <1>1 DEF Applied, SameMesh
<1>5. r \notin s.attached \/ p \in AddPlan \cup ChangePlan => y.attached = s.attached
  BY <1>0, <1>1, <1>2, Zenon DEF Applied, StepAttached, MembershipStep
<1> QED BY <1>0, <1>3, <1>4, <1>5

\* A removal takes its subject out with its first step only if that is its last.
LEMMA RemoveStarted ==
    ASSUME NEW s \in State, NEW y \in State, NEW u, NEW r \in Replicas, r \in Members(s)
    PROVE  /\ \A p \in RemovePlan :
                 StartedAs(y, u, s, r, p) => (r \in Members(y) <=> ~IsLastStep(u))
           /\ \A p \in ForceRemovePlan : StartedAs(y, u, s, r, p) => r \notin Members(y)
<1>0. s.type \in [Replicas -> MemberType \cup {None}]
  BY DEF State
<1>1. ASSUME NEW p \in RemovePlan, StartedAs(y, u, s, r, p)
      PROVE  r \in Members(y) <=> ~IsLastStep(u)
  <2> DEFINE steps == Registry[p].steps
  <2>1. /\ y.type = StepType(s, r, steps[1]) /\ u.plan = p /\ u.step = 1
    BY <1>1 DEF StartedAs, Applied, AtStep
  <2>2. p \in PlanID
    BY DisjointPlans DEF MembershipPlanID
  <2>3. steps \in Seq(MembershipStep) /\ Leaving(steps) /\ 1 \in DOMAIN steps
    BY <2>2, PlanShapes, LeavingPlans, FirstStep
  <2>4. IsLastStep(u) <=> 1 = Len(steps)
    BY <2>1 DEF IsLastStep, PlanOf
  <2> HIDE DEF steps
  <2>5. 1 # Len(steps) => 1 \in 1 .. Len(steps) - 1
    <3>1. Len(steps) \in Nat /\ DOMAIN steps = 1 .. Len(steps)
      BY <2>3
    <3>2. 1 <= Len(steps)
      BY <2>3, <3>1
    <3> QED BY <3>1, <3>2
  <2>6. steps[1].to = None <=> 1 = Len(steps)
    BY <2>3, <2>5 DEF Leaving
  <2> QED BY <1>0, <2>1, <2>4, <2>6 DEF StepType, Members, None
<1>2. ASSUME NEW p \in ForceRemovePlan, StartedAs(y, u, s, r, p) PROVE r \notin Members(y)
  <2>1. Registry[p].steps[1].to = None /\ y.type = StepType(s, r, Registry[p].steps[1])
    BY <1>2, LeavingPlans DEF StartedAs, Applied
  <2> QED BY <1>0, <2>1 DEF StepType, Members, None
<1> QED BY <1>1, <1>2

----------------------------------------------------------------------------
(* Dispatching a membership plan *)

\* Dispatching a membership plan keeps the invariant: a replica that is attached is neither
\* added nor removed, and one that still runs the volume is not forgotten.
LEMMA DispatchMembershipPrimary ==
    ASSUME EnvTypeOK, CtrlTypeOK, CtrlTypeOK', SlotsOK(mem), PrimaryInv, pc = "process",
           NEW q \in Replicas, DispatchMembership(q)
    PROVE  PrimaryInv'
<1> DEFINE plan == MembershipPlan(mem, q)
<1>0. /\ mem \in State /\ rv \in State /\ mem' \in State /\ mem.rev \in Nat /\ rv.rev \in Nat
      /\ mem'.rev \in Nat /\ EnvTyped
  BY Zenon DEF CtrlTypeOK, State, EnvTypeOK, EnvTyped
<1>1. /\ plan # None /\ UNCHANGED <<rv, env, pc, pot>> /\ OnlyMt(mem', mem, q)
      /\ \/ /\ MembershipAdmitted(mem, q, plan)
            /\ StartedAs(mem', mem'.mt[q], mem, q, plan)
         \/ /\ ~MembershipAdmitted(mem, q, plan) /\ IsForced(plan)
            /\ SameMesh(mem', mem) /\ mem'.mt[q] = Idle
  BY DispatchMembershipEffect
<1>2. \/ plan \in AddPlan /\ q \notin Members(mem)
      \/ plan \in RemovePlan /\ q \in Members(mem)
      \/ plan \in ChangePlan /\ q \in Members(mem)
      \/ /\ plan \in ForceRemovePlan /\ q \in Members(mem)
         /\ rvr[q].req.op = "ForceLeave" \/ ~Exists(q)
  BY Zenon, <1>0, <1>1, MembershipPlanKinds
<1> HIDE DEF plan
<1>3. UNCHANGED <<rv, rvr, conf, lost, pot, pc>>
  BY <1>1 DEF env
<1>4. /\ MtOK(mem, q) /\ AtOK(mem, q) /\ mem.rev > 0 /\ rv.rev <= mem.rev
      /\ q \notin lost => RunOK(mem, q) /\ AheadOK(q)
      /\ rvr[q].req.op # "ForceLeave"
      /\ q \notin lost => Exists(q) \/ conf[q] = Unconfigured
  BY Zenon DEF PrimaryInv, MeshOK, ToggleOK, ObjectOK, AheadAll
<1>5. /\ None \notin AddPlan \cup RemovePlan \cup ForceRemovePlan
      /\ \A p \in ForceRemovePlan : p \notin AddPlan \cup ChangePlan \cup RemovePlan
      /\ \A p \in RemovePlan : p \notin AddPlan \cup ChangePlan
      /\ \A p \in AddPlan : p \notin ChangePlan
  BY DisjointPlans, PlanShapes DEF MembershipPlanID
<1>6. plan \in MembershipPlanID /\ (IsForced(plan) <=> plan \in ForceRemovePlan)
  BY <1>2 DEF MembershipPlanID, IsForced, ForceRemovePlan
<1>7. CASE /\ MembershipAdmitted(mem, q, plan)
           /\ StartedAs(mem', mem'.mt[q], mem, q, plan)
  <2>1. mem'.mt[q].plan = plan /\ mem'.mt[q].rev = mem'.rev
    BY <1>7, StartedPlan
  <2>2. /\ mem'.multi = mem.multi /\ mem'.rev >= mem.rev
        /\ q \notin mem.attached \/ plan \in AddPlan \cup ChangePlan => mem'.attached = mem.attached
        /\ mem'.type # mem.type => mem'.rev > mem.rev
    BY <1>0, <1>6, <1>7, StartedMembership
  <2>3. \A p \in Replicas \ {q} : mem'.type[p] = mem.type[p]
    BY <1>0, <1>7, StartedOthers
  <2>4. mem'.rev > 0
    BY <1>0, <1>4, <2>2
  <2>5. PotentialPrimary(mem', q) <=> q \in mem'.attached \/ mem.at[q].plan # None
    BY <1>1 DEF PotentialPrimary, OnlyMt
  <2>6. plan \in AddPlan \cup ChangePlan => q \in Members(mem')
    <3>1. plan \in PlanID
      BY <1>6, DisjointPlans
    <3> QED BY <1>0, <1>7, <3>1, StartedMembers
  <2>7. plan \notin ForceRemovePlan => mem.mt[q].plan = None
    BY <1>6, <1>7 DEF MembershipAdmitted, Cancelled, Active
  <2>8. CASE plan \in AddPlan
    <3>1. ~PotentialPrimary(mem, q) /\ mem'.attached = mem.attached
      BY <1>2, <1>4, <1>5, <2>2, <2>8, Zenon DEF AtOK
    <3>2. MtOK(mem', q)
      BY <1>5, <2>1, <2>4, <2>5, <2>8, <3>1 DEF MtOK, PotentialPrimary
    <3>3. mem'.rev > rv.rev
      <4>1. mem'.type # mem.type
        BY <1>2, <1>5, <2>6, <2>8 DEF Members
      <4> QED BY <1>0, <1>4, <2>2, <4>1
    <3>4. RunOK(mem, q)'
      BY <2>1, <2>8 DEF RunOK
    <3> QED BY Zenon, <1>0, <1>1, <1>3, <2>1, <2>2, <2>3, <2>8, <3>1, <3>2, <3>3, <3>4, MembershipPrimary
  <2>9. CASE plan \in ChangePlan
    <3>1. q \in Members(mem) /\ mem.mt[q].plan = None
      BY Zenon, <1>2, <1>5, <2>7, <2>9
    <3>2. MtOK(mem', q)
      BY <1>5, <2>1, <2>4, <2>9 DEF MtOK
    <3>3. q \notin lost => RunOK(mem, q)' /\ q \in Members(rv)
      BY <1>3, <1>4, <1>5, <3>1, Zenon DEF RunOK, AheadOK, Exists
    <3> QED BY Zenon, <1>0, <1>1, <1>3, <2>2, <2>3, <2>6, <2>9, <3>2, <3>3, MembershipPrimary
  <2>10. CASE plan \in RemovePlan
    <3>1. q \in Members(mem) /\ mem.mt[q].plan = None
      BY <1>2, <1>5, <2>7, <2>10
    <3>2. ~PotentialPrimary(mem, q)
      <4>1. guardNotAttached(mem, q)
        BY <1>5, <1>6, <1>7, <2>10, PlanShapes DEF MembershipAdmitted, Cancelled, MembershipGuards
      <4> QED BY <4>1 DEF guardNotAttached, PotentialPrimary, Active
    <3>3. mem'.attached = mem.attached
      BY <2>2, <3>2 DEF PotentialPrimary
    <3>4. q \in Members(mem') <=> ~IsLastStep(mem'.mt[q])
      BY <1>0, <1>7, <2>10, <3>1, RemoveStarted
    <3>5. MtOK(mem', q)
      BY <1>5, <2>1, <2>4, <2>5, <2>10, <3>2, <3>3, <3>4 DEF MtOK, PotentialPrimary
    <3>6. RunOK(mem, q)'
      BY <2>1, <2>10 DEF RunOK
    <3>7. q \notin lost => q \in Members(rv)
      BY <1>4, <1>5, <3>1 DEF AheadOK
    <3> QED BY Zenon, <1>0, <1>1, <1>3, <2>2, <2>3, <3>2, <3>3, <3>5, <3>6, <3>7, MembershipPrimary
  <2>11. CASE plan \in ForceRemovePlan
    <3>1. q \in Members(mem)
      BY <1>2, <1>5, <2>11
    <3>2. ~PotentialPrimary(mem, q)
      <4> DEFINE s1 == Cancelled(mem, q, plan)
      <4>1. guardNotAttached(s1, q)
        BY <1>7, <2>11, PlanShapes, Zenon DEF MembershipAdmitted, MembershipGuards
      <4>2. s1.attached = mem.attached /\ s1.at = mem.at
        BY <1>0 DEF Cancelled, State
      <4> QED BY <4>1, <4>2 DEF guardNotAttached, PotentialPrimary, Active
    <3>3. mem'.attached = mem.attached
      BY <2>2, <3>2 DEF PotentialPrimary
    <3>4. q \notin Members(mem')
      BY <1>0, <1>7, <2>11, <3>1, RemoveStarted
    <3>5. MtOK(mem', q)
      BY <1>5, <2>1, <2>4, <2>5, <2>11, <3>2, <3>3, <3>4, Zenon DEF MtOK, PotentialPrimary
    <3>6. RunOK(mem, q)'
      BY <3>4 DEF RunOK
    <3> QED BY Zenon, <1>0, <1>1, <1>3, <2>2, <2>3, <3>2, <3>3, <3>4, <3>5, <3>6, MembershipPrimary
  <2> QED BY <1>6, <2>8, <2>9, <2>10, <2>11 DEF MembershipPlanID
<1>8. CASE /\ ~MembershipAdmitted(mem, q, plan) /\ IsForced(plan)
           /\ SameMesh(mem', mem) /\ mem'.mt[q] = Idle
  <2>1. plan \in ForceRemovePlan /\ q \in Members(mem) /\ ~Exists(q)
    BY Zenon, <1>2, <1>4, <1>5, <1>6, <1>8
  <2>2. mem'.mt[q].plan = None
    BY <1>8 DEF Idle
  <2>3. q \in lost
    <3> SUFFICES ASSUME q \notin lost PROVE MembershipAdmitted(mem, q, plan)
      BY <1>8
    <3> DEFINE s1 == [mem EXCEPT !.mt[q] = Idle]
    <3>1. ~PotentialPrimary(mem, q) /\ conf[q] = Unconfigured
      BY <1>4, <2>1, Zenon DEF RunOK, MtOK
    <3>2. /\ s1.attached = mem.attached /\ s1.at = mem.at /\ s1.mt[q] = Idle
          /\ Cancelled(mem, q, plan) = s1
      BY <1>0, <1>8 DEF State, Cancelled
    <3>3. guardNotAttached(s1, q)
      BY <3>1, <3>2 DEF guardNotAttached, PotentialPrimary, Active
    <3>4. guardMemberUnreachable(s1, q)
      <4>1. \A p \in Replicas : ~Connected(p, q)
        BY <3>1, UnconfiguredAlone, Zenon
      <4> QED BY <4>1 DEF guardMemberUnreachable, Members
    <3>5. /\ Registry[plan].type = "ForceRemoveReplica"
          /\ Registry[plan].group = "Emergency" /\ Registry[plan].gainsDisk = FALSE
          /\ plan \in {"ForceRemove", "ForceRemoveDiskfulQDown"}
      BY <2>1, PlanShapes, LeavingPlans, Zenon DEF ForceRemovePlan
    <3>6. ~Active(s1.mt[q])
      BY <3>2 DEF Active, Idle
    <3> HIDE DEF s1
    <3>7. MembershipGuards(s1, q, plan)
      BY <3>3, <3>4, <3>5, Zenon DEF MembershipGuards, ShadowDiskfulPlans
    <3>8. CanAdmit(s1, {}, q, plan)
      BY <3>5 DEF CanAdmit
    <3> QED BY <3>2, <3>6, <3>7, <3>8 DEF MembershipAdmitted
  <2>4. MtOK(mem', q)
    BY <1>5, <2>2 DEF MtOK
  <2>5. PotentialPrimary(mem, q) => q \in Members(mem')
    BY <1>4, <1>8, Zenon DEF AtOK, SameMesh, Members
  <2>6. /\ mem'.attached = mem.attached /\ mem'.multi = mem.multi
        /\ mem'.rev = mem.rev /\ mem'.type = mem.type
    BY <1>8 DEF SameMesh
  <2>7. mem'.rev \in Nat /\ mem'.rev >= mem.rev
    BY <1>0, <2>6
  <2>8. \A p \in Replicas \ {q} : mem'.type[p] = mem.type[p]
    BY <2>6
  <2>9. pc' = "process" /\ OnlyMt(mem', mem, q)
    BY <1>1
  <2> QED BY Zenon, <1>3, <2>3, <2>4, <2>5, <2>6, <2>7, <2>8, <2>9, MembershipPrimary
<1> QED BY <1>1, <1>7, <1>8
============================================================================
