------------------------- MODULE Primaries_proofs -------------------------
(***************************************************************************)
(* No two nodes run the volume as primary unless both allow two primaries, *)
(* for every number of replicas: the remaining dispatchers, the replicas and*)
(* their surroundings keep the invariant of PrimaryInvariant_proofs, which *)
(* implies NoDualPrimary.                                                  *)
(***************************************************************************)
EXTENDS PrimaryInvariant_proofs

\* The obligations are small and their context is large: give the provers time to read it.
USE SMTT(30), ZenonT(20)

----------------------------------------------------------------------------
(* The multiattach toggle and the attachments *)

\* y is s after a plan p that sets a flag of r, or of the volume, was stored in slot u: the
\* members are the same, and the revision moves with the flag.
FlagSet(y, u, s, r, p) ==
    /\ y.type = s.type /\ y.rev >= s.rev /\ u.plan = p /\ u.rev = y.rev
    /\ p = "Attach" => y.attached = s.attached \cup {r}
    /\ p = "Detach" => y.attached = s.attached \ {r}
    /\ p \notin {"Attach", "Detach"} => y.attached = s.attached
    /\ p = "EnableMultiattach" => y.multi = TRUE
    /\ p = "DisableMultiattach" => y.multi = FALSE
    /\ p \in {"Attach", "Detach"} => y.multi = s.multi
    /\ y.attached # s.attached \/ y.multi # s.multi => y.rev > s.rev

\* That is what starting such a plan does.
LEMMA StartedFlag ==
    ASSUME NEW s \in State, NEW y \in State, NEW u, NEW r \in Replicas,
           NEW p \in {"Attach", "Detach", "EnableMultiattach", "DisableMultiattach"},
           StartedAs(y, u, s, r, p)
    PROVE  FlagSet(y, u, s, r, p)
<1> DEFINE step == Registry[p].steps[1]
<1>0. s.rev \in Nat /\ y.rev \in Nat
  BY DEF State
<1>1. Applied(y, s, r, step) /\ u.plan = p /\ u.rev = y.rev
  BY DEF StartedAs, AtStep
<1>2. /\ step.to = "keep"
      /\ step.flag = CASE p = "Attach" -> "attach" [] p = "Detach" -> "detach"
                       [] p = "EnableMultiattach" -> "enable" [] OTHER -> "disable"
  BY FlagPlans
<1> HIDE DEF step
<1>3. y.type = s.type
  BY <1>1, <1>2 DEF Applied, StepType
<1>4. y.rev >= s.rev /\ (y.attached # s.attached \/ y.multi # s.multi => y.rev > s.rev)
  BY <1>0, <1>1 DEF Applied, SameMesh
<1>5. /\ p = "Attach" => y.attached = s.attached \cup {r}
      /\ p = "Detach" => y.attached = s.attached \ {r}
      /\ p \notin {"Attach", "Detach"} => y.attached = s.attached
  BY <1>1, <1>2 DEF Applied, StepAttached, None
<1>6. /\ p = "EnableMultiattach" => y.multi = TRUE
      /\ p = "DisableMultiattach" => y.multi = FALSE
      /\ p \in {"Attach", "Detach"} => y.multi = s.multi
  BY <1>1, <1>2, Zenon DEF Applied, StepMulti
<1> QED BY <1>1, <1>3, <1>4, <1>5, <1>6 DEF FlagSet

\* Toggling multiattach keeps the invariant: it is enabled before a second replica is
\* admitted, and disabled only once at most one is left.
LEMMA DispatchTogglePrimary ==
    ASSUME EnvTypeOK, CtrlTypeOK, CtrlTypeOK', PrimaryInv, pc = "process", DispatchToggle
    PROVE  PrimaryInv'
<1> DEFINE plan == decideMultiattachToggle(mem, pot)
<1>0. /\ mem \in State /\ mem' \in State /\ mem.rev \in Nat /\ rv.rev \in Nat
      /\ mem'.rev \in Nat /\ pot \in SUBSET Replicas
      /\ \A r \in Replicas : rvr[r].rev \in Nat
  BY Zenon DEF CtrlTypeOK, State, EnvTypeOK, RVR
<1>1. /\ UNCHANGED <<rv, env, pc, pot>> /\ OnlyXt(mem', mem)
      /\ plan \in {"EnableMultiattach", "DisableMultiattach"}
      /\ StartedAs(mem', mem'.xt, mem, 0, plan)
  BY DispatchOtherEffect
<1>2. /\ mem.xt.plan = None
      /\ plan = "EnableMultiattach" => ~mem.multi
      /\ plan = "DisableMultiattach" => Cardinality(pot) <= 1
  BY <1>1 DEF decideMultiattachToggle, hasMultiattachTransition, Active, None
<1> HIDE DEF plan
<1>3. /\ mem'.type = mem.type /\ mem'.attached = mem.attached /\ mem'.xt.plan = plan
      /\ mem'.xt.rev = mem'.rev /\ mem'.rev >= mem.rev
      /\ mem'.multi <=> plan = "EnableMultiattach"
      /\ plan = "EnableMultiattach" => mem'.rev > mem.rev
  <2>1. FlagSet(mem', mem'.xt, mem, 0, plan)
    BY <1>0, <1>1, StartedFlag, ZeroIsReplica
  <2>2. mem.multi \in BOOLEAN
    BY <1>0 DEF State
  <2> QED BY <1>1, <1>2, <2>1, <2>2 DEF FlagSet
<1>4. UNCHANGED <<rv, rvr, conf, lost, pot, pc>> /\ mem'.mt = mem.mt /\ mem'.at = mem.at
  BY <1>1 DEF env, OnlyXt
<1>5. /\ ToggleOK(mem) /\ AheadAll
      /\ \A r \in Replicas : PotentialPrimary(mem, r) => r \in pot
      /\ \A r \in Replicas : MtOK(mem, r) /\ AtOK(mem, r) /\ rvr[r].rev <= rv.rev
  BY DEF PrimaryInv, MeshOK, ObjectOK
<1>6. \A r \in Replicas : /\ r \in Members(mem') <=> r \in Members(mem)
                          /\ PotentialPrimary(mem', r) <=> PotentialPrimary(mem, r)
  BY <1>3, <1>4 DEF Members, PotentialPrimary
<1>7. \A a, b \in Replicas : PotentialPrimary(mem, a) /\ PotentialPrimary(mem, b) => a = b
  <2> SUFFICES ASSUME NEW a \in Replicas, NEW b \in Replicas,
                      PotentialPrimary(mem, a), PotentialPrimary(mem, b)
               PROVE  a = b
    OBVIOUS
  <2>1. CASE plan = "EnableMultiattach"
    BY <1>2, <1>5, <2>1 DEF ToggleOK
  <2>2. CASE plan = "DisableMultiattach"
    <3>1. Cardinality(pot) <= 1 /\ a \in pot /\ b \in pot
      BY <1>2, <1>5, <2>2
    <3>2. Counted
      BY DEF EnvTypeOK
    <3> QED BY Zenon, <1>0, <3>1, <3>2 DEF Counted
  <2> QED BY <1>1, <2>1, <2>2
<1>8. ToggleOK(mem')
  <2>1. mem'.rev > 0
    BY <1>0, <1>3, <1>5 DEF ToggleOK
  <2> QED BY <1>1, <1>3, <1>6, <1>7, <2>1 DEF ToggleOK
<1>9. \A r \in Replicas : MtOK(mem', r) /\ AtOK(mem', r)
  BY <1>3, <1>4, <1>5, <1>6 DEF MtOK, AtOK
<1>10. plan = "EnableMultiattach" => mem'.rev > rv.rev
  BY <1>0, <1>3, <1>5 DEF AheadAll
<1>11. AheadAll'
  BY <1>0, <1>1, <1>3, <1>4, <1>5, <1>10 DEF AheadAll
<1>12. ASSUME NEW r \in Replicas \ lost PROVE PriOK(mem, r)' /\ RunOK(mem, r)' /\ AheadOK(r)'
  <2>1. PriOK(mem, r) /\ RunOK(mem, r) /\ AheadOK(r) /\ rvr[r].rev <= rv.rev /\ rvr[r].rev \in Nat
    BY <1>0, <1>5 DEF PrimaryInv
  <2>2. plan = "EnableMultiattach" => ~(mem'.xt.rev <= rvr[r].rev)
    BY <1>0, <1>3, <1>10, <2>1
  <2>3. PriOK(mem, r)'
    BY <1>1, <1>3, <1>4, <2>1, <2>2 DEF PriOK, None
  <2>4. RunOK(mem, r)'
    BY <1>4, <1>6, <2>1 DEF RunOK, Exists
  <2>5. AheadOK(r)'
    BY <1>3, <1>4, <1>6, <1>10, <2>1 DEF AheadOK
  <2> QED BY <2>3, <2>4, <2>5
<1>13. \A r \in Replicas : PotentialPrimary(mem', r) => r \in pot'
  BY <1>4, <1>5, <1>6
<1> QED BY <1>4, <1>8, <1>9, <1>11, <1>12, <1>13, ComputedPrimary DEF MeshOK

\* Attaching or detaching a replica keeps the invariant: only the one there is, or under a
\* settled multiattach (guardSlotAvailable and CanAdmit).
LEMMA DispatchAttachmentPrimary ==
    ASSUME EnvTypeOK, CtrlTypeOK, CtrlTypeOK', PrimaryInv, pc = "process",
           NEW q \in Replicas, DispatchAttachment(q)
    PROVE  PrimaryInv'
<1> DEFINE plan == decideAttachmentForReplica(mem, q)
<1>0. /\ mem \in State /\ mem' \in State /\ mem.rev \in Nat /\ rv.rev \in Nat
      /\ mem'.rev \in Nat /\ \A r \in Replicas : rvr[r].rev \in Nat
  BY Zenon DEF CtrlTypeOK, State, EnvTypeOK, RVR
<1>1. /\ UNCHANGED <<rv, env, pc>> /\ OnlyAt(mem', mem, q)
      /\ plan \in {"Attach", "Detach"}
      /\ StartedAs(mem', mem'.at[q], mem, q, plan)
  BY DispatchOtherEffect
<1>2. /\ mem.at[q].plan = None /\ pot' = pot \cup {q}
      /\ AttachmentGuards(mem, pot, q, plan) /\ CanAdmit(mem, pot, q, plan)
  BY DEF DispatchAttachment, AttachmentDispatchable, Active
<1>3. plan = "Detach" => q \in mem.attached
  BY DEF decideAttachmentForReplica, None
<1> HIDE DEF plan
<1>4. /\ mem'.type = mem.type /\ mem'.rev >= mem.rev /\ mem'.at[q].plan = plan
      /\ mem'.at[q].rev = mem'.rev
      /\ plan = "Attach" => mem'.attached = mem.attached \cup {q}
      /\ plan = "Detach" => mem'.attached = mem.attached \ {q}
      /\ mem'.multi = mem.multi
      /\ mem'.attached # mem.attached => mem'.rev > mem.rev
  <2>1. FlagSet(mem', mem'.at[q], mem, q, plan)
    BY <1>0, <1>1, StartedFlag
  <2> QED BY <1>1, <2>1 DEF FlagSet
<1>5. /\ mem'.attached = IF plan = "Attach" THEN mem.attached \cup {q} ELSE mem.attached \ {q}
      /\ plan = "Detach" => mem'.rev > mem.rev
  BY <1>1, <1>3, <1>4
<1>6. pot \subseteq {q} \/ (mem.multi /\ mem.xt.plan = None)
  BY <1>1, <1>2, AttachmentGroup DEF CanAdmit, hasMultiattachTransition, Active
<1>7. plan = "Attach" => q \in Members(mem) /\ mem.mt[q].plan = None
  BY <1>2 DEF AttachmentGuards, ReplicaReady, Active
<1>8. /\ UNCHANGED <<rv, rvr, conf, lost, pc>> /\ mem'.mt = mem.mt /\ mem'.xt = mem.xt
      /\ \A r \in Replicas \ {q} : mem'.at[r] = mem.at[r]
  BY <1>1 DEF env, OnlyAt
<1>9. /\ ToggleOK(mem) /\ AheadAll
      /\ \A r \in Replicas : PotentialPrimary(mem, r) => r \in pot
      /\ \A r \in Replicas : MtOK(mem, r) /\ AtOK(mem, r) /\ rvr[r].rev <= rv.rev
  BY DEF PrimaryInv, MeshOK, ObjectOK
<1>10. \A r \in Replicas :
          /\ r \in Members(mem') <=> r \in Members(mem)
          /\ PotentialPrimary(mem', r) <=> PotentialPrimary(mem, r) \/ r = q
          /\ r # q => (r \in mem'.attached <=> r \in mem.attached)
  <2>1. PotentialPrimary(mem', q)
    BY <1>1, <1>4 DEF PotentialPrimary, None
  <2> QED BY <1>4, <1>5, <1>8, <2>1 DEF Members, PotentialPrimary
<1>11. plan = "Detach" => PotentialPrimary(mem, q)
  BY <1>3 DEF PotentialPrimary
<1>12. q \in Members(mem)
  BY <1>1, <1>7, <1>9, <1>11 DEF AtOK
<1>13. ToggleOK(mem')
  <2>1. mem'.rev > 0
    BY <1>0, <1>4, <1>9 DEF ToggleOK
  <2>2. ASSUME NEW a \in Replicas, NEW b \in Replicas, a # b,
               PotentialPrimary(mem', a), PotentialPrimary(mem', b)
        PROVE  mem.multi /\ mem.xt.plan = None
    BY <1>6, <1>9, <1>10, <2>2 DEF ToggleOK
  <2> QED BY <1>4, <1>8, <1>9, <2>1, <2>2 DEF ToggleOK
<1>14. ASSUME NEW r \in Replicas PROVE MtOK(mem', r) /\ AtOK(mem', r)
  <2>1. MtOK(mem, r) /\ AtOK(mem, r)
    BY <1>9
  <2>2. mem'.mt[r] = mem.mt[r]
    BY <1>8
  <2>3. None \notin AddPlan \cup RemovePlan \cup ForceRemovePlan
    BY DisjointPlans DEF MembershipPlanID
  <2>4. MtOK(mem', r)
    BY <1>1, <1>7, <1>10, <1>11, <2>1, <2>2, <2>3 DEF MtOK
  <2>5. AtOK(mem', r)
    BY <1>1, <1>4, <1>5, <1>8, <1>10, <1>12, <2>1 DEF AtOK, None
  <2> QED BY <2>4, <2>5
<1>15. AheadAll'
  BY <1>0, <1>4, <1>8, <1>9 DEF AheadAll
<1>16. plan = "Detach" => mem'.at[q].rev > rv.rev /\ rvr[q].rev < mem'.at[q].rev
  BY <1>0, <1>4, <1>5, <1>9 DEF AheadAll
<1>17. ASSUME NEW r \in Replicas \ lost PROVE PriOK(mem, r)' /\ RunOK(mem, r)' /\ AheadOK(r)'
  <2>1. PriOK(mem, r) /\ RunOK(mem, r) /\ AheadOK(r)
    BY DEF PrimaryInv
  <2>2. RunOK(mem, r)'
    BY <1>8, <1>10, <2>1 DEF RunOK, Exists
  <2>3. CASE r # q
    <3>1. PriOK(mem, r)'
      BY <1>4, <1>8, <1>10, <2>1, <2>3 DEF PriOK
    <3>2. AheadOK(r)'
      BY <1>4, <1>8, <1>10, <2>1, <2>3 DEF AheadOK
    <3> QED BY <2>2, <3>1, <3>2
  <2>4. CASE r = q /\ plan = "Attach"
    <3>1. PriOK(mem, r)'
      BY <1>2, <1>4, <1>5, <1>8, <2>1, <2>4 DEF PriOK, None
    <3>2. AheadOK(r)'
      BY <1>2, <1>4, <1>5, <1>8, <1>10, <2>1, <2>4 DEF AheadOK, None
    <3> QED BY <2>2, <3>1, <3>2
  <2>5. CASE r = q /\ plan = "Detach"
    <3>1. PriOK(mem, r)'
      BY <1>4, <1>5, <1>8, <1>16, <2>5 DEF PriOK
    <3>2. AheadOK(r)'
      BY <1>4, <1>5, <1>8, <1>10, <1>16, <2>1, <2>5 DEF AheadOK
    <3> QED BY <2>2, <3>1, <3>2
  <2> QED BY <1>1, <2>3, <2>4, <2>5
<1>18. \A r \in Replicas : PotentialPrimary(mem', r) => r \in pot'
  BY <1>2, <1>9, <1>10
<1> QED BY <1>8, <1>13, <1>14, <1>15, <1>17, <1>18, ComputedPrimary DEF MeshOK

\* Dispatching keeps the invariant.
LEMMA DispatchPrimary ==
    ASSUME EnvTypeOK, CtrlTypeOK, CtrlTypeOK', SlotsOK(mem), PrimaryInv, Dispatch
    PROVE  PrimaryInv'
<1>0. mem' \in State /\ mem \in State /\ pc = "process"
  BY DEF CtrlTypeOK, Dispatch
<1>1. ASSUME NEW q \in Replicas, DispatchMembership(q) PROVE PrimaryInv'
  BY <1>0, <1>1, DispatchMembershipPrimary
<1>2. CASE DispatchQuorum
  <2> DEFINE plan == QuorumPlan(mem)
  <2>1. /\ UNCHANGED <<rv, env, pc, pot>> /\ OnlyQt(mem', mem)
        /\ plan \in ChangeQuorumPlan
        /\ StartedAs(mem', mem'.qt, mem, 0, plan)
    BY <1>2, DispatchOtherEffect
  <2> HIDE DEF plan
  <2>2. Registry[plan].steps \in Seq(QuorumStep) /\ 1 \in DOMAIN Registry[plan].steps
    <3>1. plan \in PlanID
      BY <2>1, DisjointPlans
    <3> QED BY <2>1, <3>1, PlanShapes, FirstStep
  <2>3. Registry[plan].steps[1] \in QuorumStep
    BY <2>2
  <2>4. \E step \in QuorumStep : Applied(mem', mem, 0, step)
    BY <2>1, <2>3 DEF StartedAs
  <2> QED BY <1>0, <2>1, <2>4, QuorumPrimary
<1>3. CASE DispatchToggle
  BY <1>0, <1>3, DispatchTogglePrimary
<1>4. ASSUME NEW q \in Replicas, DispatchForceDetach(q) PROVE FALSE
  BY <1>4 DEF DispatchForceDetach, ForceDetachable, PrimaryInv, ObjectOK
<1>5. ASSUME NEW q \in Replicas, DispatchAttachment(q) PROVE PrimaryInv'
  BY <1>0, <1>5, DispatchAttachmentPrimary
<1>6. CASE NextIteration
  <2>1. UNCHANGED <<rv, rvr, conf, lost, pot, pc, mem>> /\ mem'.rev \in Nat /\ mem'.rev >= mem.rev
    <3>1. UNCHANGED <<rv, rvr, conf, lost, pot, pc, mem>>
      BY <1>6, Zenon DEF NextIteration, env
    <3>2. mem.rev \in Nat
      BY <1>0, Zenon DEF State
    <3> QED BY <3>1, <3>2
  <2> QED BY <1>0, <2>1, UnrelatedPrimary
<1>7. CASE reconcileRVRFinalizers
  <2>1. /\ pc' = "patch" /\ UNCHANGED <<rv, mem, conf, lost>>
        /\ rvr' = [r \in Replicas |->
                     IF Exists(r) THEN [rvr[r] EXCEPT !.fin = TargetFinalizer(mem, r)]
                     ELSE rvr[r]]
    BY <1>7 DEF reconcileRVRFinalizers
  <2>2. ASSUME NEW r \in Replicas
        PROVE  rvr'[r].ex = rvr[r].ex /\ rvr'[r].rev = rvr[r].rev /\ rvr'[r].req = rvr[r].req
    <3>1. rvr[r] \in RVR
      BY DEF EnvTypeOK
    <3> QED BY <2>1, <3>1 DEF RVR
  <2>3. \A r \in Replicas : ObjectOK(r)'
    BY <2>1, <2>2 DEF PrimaryInv, ObjectOK, Exists
  <2>4. \A r \in Replicas \ lost : PriOK(rv, r)' /\ PriOK(mem, r)' /\ RunOK(mem, r)'
    BY <2>1, <2>2 DEF PrimaryInv, PriOK, RunOK, Exists
  <2>5. AheadAll' /\ \A r \in Replicas \ lost : AheadOK(r)'
    BY <2>1 DEF PrimaryInv, AheadAll, AheadOK
  <2>6. MeshOK(rv') /\ MeshOK(mem')
    BY <2>1 DEF PrimaryInv
  <2> QED BY <2>1, <2>3, <2>4, <2>5, <2>6 DEF PrimaryInv
<1> QED BY SMTT(30), <1>1, <1>2, <1>3, <1>4, <1>5, <1>6, <1>7 DEF Dispatch

----------------------------------------------------------------------------
(* The replicas and their surroundings *)

\* A step outside the reconcile that touches one replica at most.
LEMMA OneReplicaPrimary ==
    ASSUME PrimaryInv, UNCHANGED <<rv, mem, pc>>, pc # "process", lost \subseteq lost',
           NEW q \in Replicas,
           \A r \in Replicas \ {q} : rvr'[r] = rvr[r] /\ conf'[r] = conf[r],
           ObjectOK(q)',
           q \notin lost' => /\ PriOK(rv, q)' /\ PriOK(mem, q)' /\ RunOK(mem, q)'
                             /\ pc # "patch" => RunOK(rv, q)'
    PROVE  PrimaryInv'
<1>1. MeshOK(rv') /\ MeshOK(mem') /\ AheadAll' /\ \A r \in Replicas \ lost' : AheadOK(r)'
  BY DEF PrimaryInv, AheadAll, AheadOK
<1>2. ASSUME NEW r \in Replicas \ {q} PROVE ObjectOK(r)'
  BY DEF PrimaryInv, ObjectOK, Exists
<1>3. ASSUME NEW r \in Replicas \ lost', r # q
      PROVE  PriOK(rv, r)' /\ PriOK(mem, r)' /\ RunOK(mem, r)' /\ (pc # "patch" => RunOK(rv, r)')
  <2>1. /\ PriOK(rv, r) /\ PriOK(mem, r) /\ RunOK(mem, r) /\ (pc # "patch" => RunOK(rv, r))
        /\ rvr'[r] = rvr[r] /\ conf'[r] = conf[r]
    BY <1>3 DEF PrimaryInv
  <2>2. PriOK(rv, r)' /\ PriOK(mem, r)'
    BY <2>1, Zenon DEF PriOK
  <2>3. RunOK(mem, r)' /\ (pc # "patch" => RunOK(rv, r)')
    BY <2>1 DEF RunOK, Exists
  <2> QED BY <2>2, <2>3
<1> QED BY <1>1, <1>2, <1>3 DEF PrimaryInv

\* A node that runs what is published is primary only if published as attached.
LEMMA ConfiguredPrimary ==
    ASSUME EnvTypeOK, CtrlTypeOK, PrimaryInv, UNCHANGED <<rv, mem>>,
           NEW q \in Replicas \ lost, NEW t, conf'[q] = computeTargetDRBDRSpec(rv, q, t),
           rvr'[q].rev \in Nat, rvr'[q].rev <= rv.rev
    PROVE  PriOK(rv, q)' /\ PriOK(mem, q)'
<1>0. /\ mem.rev \in Nat /\ rv.rev \in Nat /\ mem.at[q].rev \in Nat /\ mem.xt.rev \in Nat
      /\ rv.multi \in BOOLEAN
  BY SlotsTyped, Zenon DEF CtrlTypeOK, State, Transition
<1>1. ToggleOK(rv) /\ AheadOK(q) /\ AheadAll
  BY DEF PrimaryInv, MeshOK
<1>2. conf'[q].pri => q \in rv.attached /\ (conf'[q].two <=> rv.multi)
  <2>1. CASE q \in Members(rv)
    <3>1. conf'[q].pri = (q \in rv.attached) /\ conf'[q].two = rv.multi
      BY <2>1 DEF computeTargetDRBDRSpec
    <3> QED BY Zenon, <3>1
  <2>2. CASE q \notin Members(rv)
    <3>1. conf'[q].pri = FALSE
      BY <2>2 DEF computeTargetDRBDRSpec, Unconfigured
    <3> QED BY Zenon, <3>1
  <2> QED BY <2>1, <2>2
<1>3. PriOK(rv, q)'
  BY <1>1, <1>2 DEF PriOK, ToggleOK
<1>4. PriOK(mem, q)'
  <2> SUFFICES ASSUME conf'[q].pri
               PROVE  /\ \/ q \in mem.attached
                         \/ mem.at[q].plan = "Detach" /\ rvr'[q].rev < mem.at[q].rev
                      /\ q \in mem.attached /\ mem.multi /\ mem.xt.plan = None => conf'[q].two
                      /\ q \in mem.attached /\ mem.xt.plan = "EnableMultiattach"
                           /\ mem.xt.rev <= rvr'[q].rev => conf'[q].two
    BY DEF PriOK
  <2>1. q \in mem.attached \/ (mem.at[q].plan = "Detach" /\ rvr'[q].rev < mem.at[q].rev)
    BY <1>0, <1>1, <1>2 DEF AheadOK
  <2>2. q \in mem.attached /\ mem.multi /\ mem.xt.plan = None => conf'[q].two
    BY <1>1, <1>2 DEF AheadOK, None
  <2>3. mem.xt.plan = "EnableMultiattach" /\ mem.xt.rev <= rvr'[q].rev => conf'[q].two
    <3> SUFFICES ASSUME mem.xt.plan = "EnableMultiattach", mem.xt.rev <= rvr'[q].rev
                 PROVE  conf'[q].two
      OBVIOUS
    <3>1. mem.xt.rev <= rv.rev
      BY <1>0
    <3> QED BY <1>1, <1>2, <3>1 DEF AheadAll
  <2> QED BY <2>1, <2>2, <2>3
<1> QED BY <1>3, <1>4

\* The rvr-controller asks for nothing by force.
LEMMA RequestNotForced ==
    ASSUME NEW r, NEW rev
    PROVE  computeTargetDatameshRequest(r, rev).op \notin {"ForceLeave", "ForceDetach"}
BY DEF computeTargetDatameshRequest, NoRequest, None

\* A replica's own steps keep the invariant: a node becomes primary only as published, and
\* its DRBD is torn down only once it has left.
LEMMA ReplicaStepPrimary ==
    ASSUME EnvTypeOK, CtrlTypeOK, FinalizerInv, PrimaryInv, NEW q \in Replicas, ReplicaStep(q)
    PROVE  PrimaryInv'
<1>0. /\ UNCHANGED <<rv, mem, pc>> /\ rvr[q] \in RVR /\ rv.rev \in Nat /\ rvr[q].rev \in Nat
      /\ rvr \in [Replicas -> RVR] /\ conf \in [Replicas -> DrbdConfiguration]
  BY ReplicaStepType, Zenon DEF ctrl, EnvTypeOK, CtrlTypeOK, State, RVR
<1>1. /\ ObjectOK(q) /\ rv.rev > 0
      /\ q \notin lost => /\ PriOK(rv, q) /\ PriOK(mem, q) /\ AheadOK(q) /\ RunOK(mem, q)
                          /\ pc # "patch" => RunOK(rv, q)
  BY DEF PrimaryInv, MeshOK, ToggleOK
<1>2. ASSUME NEW t \in MemberType, Adopt(q, t) PROVE PrimaryInv'
  <2>1. /\ Exists(q) /\ q \notin lost /\ pc # "process" /\ UNCHANGED <<rvr, lost>>
        /\ conf' = [conf EXCEPT ![q] = computeTargetDRBDRSpec(rv, q, t)]
    BY <1>2 DEF Adopt, Outside
  <2>2. /\ conf'[q] = computeTargetDRBDRSpec(rv, q, t)
        /\ \A r \in Replicas \ {q} : conf'[r] = conf[r]
    BY <1>0, <2>1
  <2>3. rvr'[q].rev \in Nat /\ rvr'[q].rev <= rv.rev
    BY <1>0, <1>1, <2>1 DEF ObjectOK
  <2>4. PriOK(rv, q)' /\ PriOK(mem, q)'
    BY <1>0, <2>1, <2>2, <2>3, ConfiguredPrimary
  <2>5. ObjectOK(q)'
    BY <1>0, <1>1, <2>1 DEF ObjectOK, Exists
  <2>6. RunOK(mem, q)' /\ (pc # "patch" => RunOK(rv, q)')
    BY <1>0, <1>1, <2>1 DEF RunOK, Exists
  <2> QED BY <1>0, <2>1, <2>2, <2>4, <2>5, <2>6, OneReplicaPrimary
<1>3. CASE Report(q)
  <2> DEFINE rev == ReportedRevision(q)
             req == computeTargetDatameshRequest(q, rev)
  <2>1. PICK use : rvr' = [rvr EXCEPT ![q].rev = rev, ![q].use = use, ![q].req = req]
    BY <1>3, Zenon DEF Report
  <2>2. UNCHANGED <<conf, lost>> /\ pc # "process"
    BY <1>3 DEF Report, Outside
  <2>3. /\ rvr'[q].ex = rvr[q].ex /\ rvr'[q].rev = rev /\ rvr'[q].req = req
        /\ \A r \in Replicas \ {q} : rvr'[r] = rvr[r]
    BY <1>0, <2>1 DEF RVR
  <2>4. \/ rev = rvr[q].rev
        \/ /\ Configured(rv, q)
           /\ rev = IF q \in Members(rv) THEN rv.rev ELSE 0
    BY DEF ReportedRevision
  <2>5. req.op \notin {"ForceLeave", "ForceDetach"}
    BY RequestNotForced
  <2> HIDE DEF rev, req
  <2>6. rev \in Nat /\ rev <= rv.rev
    BY <1>0, <1>1, <2>4 DEF ObjectOK
  <2>7. ObjectOK(q)'
    BY <1>0, <1>1, <2>2, <2>3, <2>5, <2>6 DEF ObjectOK, Exists
  <2>8. ASSUME q \notin lost PROVE PriOK(rv, q)' /\ PriOK(mem, q)'
    <3>1. CASE rev = rvr[q].rev
      BY <1>0, <1>1, <2>2, <2>3, <2>8, <3>1, Zenon DEF PriOK
    <3>2. CASE Configured(rv, q)
      <4>1. conf'[q] = computeTargetDRBDRSpec(rv, q, computeIntendedType(rv, q))
        BY <2>2, <3>2 DEF Configured
      <4> QED BY <1>0, <2>3, <2>6, <2>8, <4>1, ConfiguredPrimary
    <3> QED BY <2>4, <3>1, <3>2
  <2>9. ASSUME q \notin lost PROVE RunOK(mem, q)' /\ (pc # "patch" => RunOK(rv, q)')
    <3>1. rev = 0 /\ rev # rvr[q].rev => q \notin Members(rv)
      BY <1>0, <1>1, <2>4
    <3>2. q \in Members(mem) /\ q \notin Members(rv) => mem.mt[q].plan \in AddPlan
      BY <1>1, <2>9 DEF AheadOK
    <3>3. RunOK(mem, q)'
      BY <1>0, <1>1, <2>3, <2>6, <2>9, <3>1, <3>2 DEF RunOK, Exists
    <3>4. pc # "patch" => RunOK(rv, q)'
      BY <1>0, <1>1, <2>3, <2>6, <2>9, <3>1 DEF RunOK, Exists
    <3> QED BY <3>3, <3>4
  <2> QED BY <1>0, <2>2, <2>3, <2>7, <2>8, <2>9, OneReplicaPrimary
<1>4. CASE Sync(q)
  <2>1. UNCHANGED <<rvr, conf, lost>> /\ pc # "process"
    BY <1>4 DEF Sync, Outside
  <2>2. /\ ObjectOK(q)'
        /\ q \notin lost => /\ PriOK(rv, q)' /\ PriOK(mem, q)' /\ RunOK(mem, q)'
                            /\ pc # "patch" => RunOK(rv, q)'
    BY <1>0, <1>1, <2>1, Zenon DEF ObjectOK, PriOK, RunOK, Exists
  <2> QED BY <1>0, <2>1, <2>2, OneReplicaPrimary
<1>5. CASE GoneRVR(q)
  <2>1. /\ rvrShouldNotExist(q) /\ q \notin lost /\ pc # "process" /\ UNCHANGED lost
        /\ rvr' = [rvr EXCEPT ![q] = NoRVR] /\ conf' = [conf EXCEPT ![q] = Unconfigured]
    BY <1>5 DEF GoneRVR, Outside
  <2>2. /\ rvr'[q] = NoRVR /\ conf'[q] = Unconfigured
        /\ \A r \in Replicas \ {q} : rvr'[r] = rvr[r] /\ conf'[r] = conf[r]
    BY <1>0, <2>1
  <2>3. NoRVR.rev = 0 /\ NoRVR.req.op = None /\ Unconfigured.pri = FALSE
    BY DEF NoRVR, NoRequest, Unconfigured
  <2>4. ObjectOK(q)'
    BY <1>0, <2>2, <2>3 DEF ObjectOK, None
  <2>5. PriOK(rv, q)' /\ PriOK(mem, q)'
    BY <2>2, <2>3 DEF PriOK
  <2>6. HeldIn(mem, q) /\ (pc # "patch" => HeldIn(rv, q))
    BY <2>1 DEF FinalizerInv
  <2>7. RunOK(mem, q)' /\ (pc # "patch" => RunOK(rv, q)')
    BY <1>0, <1>1, <2>1, <2>6 DEF RunOK, HeldIn
  <2> QED BY <1>0, <2>1, <2>2, <2>4, <2>5, <2>7, OneReplicaPrimary
<1> QED BY <1>2, <1>3, <1>4, <1>5 DEF ReplicaStep

\* Users, other controllers and failures keep the invariant, as long as they are Regular.
LEMMA EnvironmentPrimary ==
    ASSUME Regular, EnvTypeOK, CtrlTypeOK, PrimaryInv, Environment
    PROVE  PrimaryInv'
<1>0. ~Event("Crash") /\ ~Event("UserCreate") /\ ~Event("ForceLeave") /\ ~Event("ForceDetach")
  BY DEF Regular, Event, scenario, EnvTypeOK
<1>1. rvr \in [Replicas -> RVR] /\ rv.rev \in Nat
  BY DEF EnvTypeOK, CtrlTypeOK, State
<1>2. ASSUME NEW q \in Replicas, NEW x, rvr' = [rvr EXCEPT ![q] = x],
             UNCHANGED <<rv, mem, pc, conf, lost>>, pc # "process",
             x.rev = rvr[q].rev, x.req = rvr[q].req, Exists(q), x.ex # None
      PROVE  PrimaryInv'
  <2>1. rvr'[q] = x /\ \A r \in Replicas \ {q} : rvr'[r] = rvr[r]
    BY <1>1, <1>2
  <2>2. ObjectOK(q)'
    BY <1>2, <2>1 DEF PrimaryInv, ObjectOK, Exists
  <2>3. ASSUME q \notin lost
        PROVE  /\ PriOK(rv, q)' /\ PriOK(mem, q)' /\ RunOK(mem, q)'
               /\ pc # "patch" => RunOK(rv, q)'
    <3>1. /\ PriOK(rv, q) /\ PriOK(mem, q) /\ RunOK(mem, q)
          /\ pc # "patch" => RunOK(rv, q)
      BY <2>3 DEF PrimaryInv
    <3>2. PriOK(rv, q)' /\ PriOK(mem, q)'
      BY <1>2, <2>1, <3>1, Zenon DEF PriOK
    <3>3. RunOK(mem, q)' /\ (pc # "patch" => RunOK(rv, q)')
      BY <1>2, <2>1, <3>1 DEF RunOK, Exists
    <3> QED BY <3>2, <3>3
  <2> QED BY <1>2, <2>1, <2>2, <2>3, OneReplicaPrimary
<1>3. ASSUME NEW q \in Replicas, UNCHANGED <<rv, mem, pc, rvr, conf>>, pc # "process",
             lost \subseteq lost'
      PROVE  PrimaryInv'
  <2>1. /\ ObjectOK(q)
        /\ q \notin lost' => /\ PriOK(rv, q) /\ PriOK(mem, q) /\ RunOK(mem, q)
                             /\ pc # "patch" => RunOK(rv, q)
    BY <1>3 DEF PrimaryInv
  <2>2. /\ ObjectOK(q)'
        /\ q \notin lost' => /\ PriOK(rv, q)' /\ PriOK(mem, q)' /\ RunOK(mem, q)'
                             /\ pc # "patch" => RunOK(rv, q)'
    <3>1. ObjectOK(q)'
      BY <1>3, <2>1, Zenon DEF ObjectOK, Exists
    <3>2. q \notin lost' => PriOK(rv, q)'
      BY <1>3, <2>1, Zenon DEF PriOK, Exists
    <3>3. q \notin lost' => PriOK(mem, q)'
      BY <1>3, <2>1, Zenon DEF PriOK, Exists
    <3>4. q \notin lost' => RunOK(mem, q)' /\ (pc # "patch" => RunOK(rv, q)')
      BY <1>3, <2>1, Zenon DEF RunOK, Exists
    <3> QED BY <3>1, <3>2, <3>3, <3>4
  <2> QED BY <1>3, <2>2, OneReplicaPrimary
<1>4. ASSUME NEW q \in Replicas, DeleteRVR(q) PROVE PrimaryInv'
  <2> DEFINE x == [rvr[q] EXCEPT !.ex = "deleting"]
  <2>1. /\ rvr' = [rvr EXCEPT ![q] = x] /\ UNCHANGED <<rv, mem, pc, conf, lost>>
        /\ rvr[q].ex = "live" /\ pc # "process"
    BY <1>4 DEF DeleteRVR, Command, Outside, ctrl
  <2>2. x.rev = rvr[q].rev /\ x.req = rvr[q].req /\ Exists(q) /\ x.ex # None
    BY <1>1, <2>1 DEF RVR, Exists, None
  <2> HIDE DEF x
  <2> QED BY Zenon, <1>2, <2>1, <2>2
<1>5. ASSUME NEW q \in Replicas, NEW t, RetypeRVR(q, t) PROVE PrimaryInv'
  <2> DEFINE x == [rvr[q] EXCEPT !.type = t]
  <2>1. /\ rvr' = [rvr EXCEPT ![q] = x] /\ UNCHANGED <<rv, mem, pc, conf, lost>>
        /\ rvr[q].ex = "live" /\ pc # "process"
    BY <1>5 DEF RetypeRVR, Command, Outside, ctrl
  <2>2. x.rev = rvr[q].rev /\ x.req = rvr[q].req /\ Exists(q) /\ x.ex # None
    BY <1>1, <2>1 DEF RVR, Exists, None
  <2> HIDE DEF x
  <2> QED BY Zenon, <1>2, <2>1, <2>2
<1>6. ASSUME NEW q \in Replicas, NEW op \in {"ForceLeave", "ForceDetach"} PROVE ~ForceRequest(q, op)
  BY <1>0 DEF ForceRequest, Command
<1>7. NoRVR.rev = 0 /\ NoRVR.req.op = None
  BY DEF NoRVR, NoRequest
<1>8. ASSUME NEW q \in Replicas, NEW t, NEW k, CreateRVR(q, t, k) PROVE PrimaryInv'
  <2> DEFINE x == [NoRVR EXCEPT !.ex = "live", !.type = t, !.fin = (k = "Create")]
  <2>1. /\ rvr' = [rvr EXCEPT ![q] = x] /\ UNCHANGED <<rv, mem, pc, conf, lost>>
        /\ ~Exists(q) /\ q \notin lost /\ pc # "process"
    BY <1>8 DEF CreateRVR, Command, Outside, ctrl
  <2>2. x.rev = 0 /\ x.req.op = None /\ x.ex # None
    BY DEF NoRVR, NoRequest, None
  <2> HIDE DEF x
  <2>3. rvr'[q] = x /\ \A r \in Replicas \ {q} : rvr'[r] = rvr[r]
    BY <1>1, <2>1
  <2>4. conf'[q] = Unconfigured /\ Unconfigured.pri = FALSE
    BY <2>1, Zenon DEF PrimaryInv, ObjectOK, Unconfigured
  <2>5. ObjectOK(q)'
    BY <1>1, <2>1, <2>2, <2>3 DEF ObjectOK, Exists, None
  <2>6. PriOK(rv, q)' /\ PriOK(mem, q)'
    BY <2>4 DEF PriOK
  <2>7. RunOK(mem, q) /\ (pc # "patch" => RunOK(rv, q))
    BY <2>1 DEF PrimaryInv
  <2>8. RunOK(mem, q)' /\ (pc # "patch" => RunOK(rv, q)')
    BY <2>1, <2>7 DEF RunOK
  <2> QED BY <2>1, <2>3, <2>5, <2>6, <2>8, OneReplicaPrimary
<1>9. ASSUME NEW q \in Replicas, ForceDeleteRVR(q) PROVE PrimaryInv'
  <2>1. /\ rvr' = [rvr EXCEPT ![q] = NoRVR] /\ UNCHANGED <<rv, mem, pc, conf, lost>>
        /\ q \in lost /\ pc # "process"
    BY <1>9 DEF ForceDeleteRVR, Command, Outside, ctrl
  <2>2. rvr'[q] = NoRVR /\ \A r \in Replicas \ {q} : rvr'[r] = rvr[r]
    BY <1>1, <2>1
  <2>3. ObjectOK(q)'
    BY <1>1, <1>7, <2>1, <2>2 DEF ObjectOK, None
  <2> QED BY <2>1, <2>2, <2>3, OneReplicaPrimary
<1>10. ASSUME NEW q \in Replicas,
              LoseNode(q) \/ AttachRVA(q) \/ DetachRVA(q) \/ OpenDevice(q) \/ CloseDevice(q)
                \/ SetEligible(q)
       PROVE  PrimaryInv'
  <2>1. UNCHANGED <<rv, mem, pc, rvr, conf>> /\ pc # "process" /\ lost \subseteq lost'
    BY <1>10 DEF LoseNode, AttachRVA, DetachRVA, OpenDevice, CloseDevice, SetEligible,
                 Command, Outside, ctrl
  <2> QED BY <1>3, <2>1
<1>11. ASSUME NEW c, ChangeConfiguration(c) PROVE PrimaryInv'
  <2>1. UNCHANGED <<rv, mem, pc, rvr, conf>> /\ pc # "process" /\ lost \subseteq lost'
    BY <1>11 DEF ChangeConfiguration, Command, Outside, ctrl
  <2> QED BY <1>3, <2>1, ZeroIsReplica
<1>12. ~AbortReconcile
  BY <1>0 DEF AbortReconcile
<1> QED BY SMTT(30), <1>4, <1>5, <1>6, <1>8, <1>9, <1>10, <1>11, <1>12 DEF Environment

\* A volume starts formed, attached on one node at most, and every node runs it as published.
LEMMA InitPrimary == Init => PrimaryInv
<1> SUFFICES ASSUME Init PROVE PrimaryInv
  OBVIOUS
<1>1. PICK n \in DOMAIN Scenarios : \E l \in Scenarios[n].layouts : StartFrom(n, l)
  BY DEF Init
<1>2. PICK l \in Scenarios[n].layouts : StartFrom(n, l)
  BY <1>1
<1>3. /\ l.attached \subseteq {r \in Replicas : l.type[r] # None}
      /\ \A a, b \in l.attached : a = b
  BY ScenarioAssumption
<1>4. /\ mem = rv /\ pc = "idle" /\ rv.rev = 1 /\ rv.type = l.type /\ rv.attached = l.attached
      /\ rv.multi = FALSE /\ rv.xt = Idle
      /\ \A r \in Replicas : rv.mt[r] = Idle /\ rv.at[r] = Idle
  BY Zenon, <1>2 DEF StartFrom, FormedState
<1>5. ASSUME NEW r \in Replicas
      PROVE  /\ rvr[r].rev \in {0, 1} /\ rvr[r].req.op = None
             /\ rvr[r].ex = None => l.type[r] = None /\ conf[r] = Unconfigured
             /\ l.type[r] # None => rvr[r].rev = 1 /\ rvr[r].ex = "live"
             /\ conf[r].pri => r \in rv.attached
  <2>1. /\ rvr[r] = IF l.type[r] = None THEN NoRVR
                    ELSE [ex |-> "live", type |-> l.type[r], fin |-> TRUE,
                          rev |-> 1, req |-> NoRequest, use |-> FALSE]
        /\ conf[r] = IF l.type[r] = None THEN Unconfigured
                     ELSE computeTargetDRBDRSpec(FormedState(l), r, l.type[r])
        /\ rv = FormedState(l)
    BY <1>2 DEF StartFrom
  <2>2. CASE l.type[r] = None
    BY <2>1, <2>2 DEF NoRVR, NoRequest, Unconfigured
  <2>3. CASE l.type[r] # None
    <3>1. r \in Members(rv)
      BY <1>4, <2>3 DEF Members
    <3>2. conf[r].pri = (r \in rv.attached)
      BY <2>1, <2>3, <3>1 DEF computeTargetDRBDRSpec
    <3>3. rvr[r].rev = 1 /\ rvr[r].ex = "live" /\ rvr[r].req.op = None
      BY <2>1, <2>3 DEF NoRequest
    <3>4. conf[r].pri => r \in rv.attached
      BY Zenon, <3>2
    <3> QED BY <2>3, <3>3, <3>4 DEF None
  <2> QED BY <2>2, <2>3
<1>6. Idle.plan = None /\ None \notin AddPlan \cup RemovePlan \cup ForceRemovePlan
  BY DisjointPlans DEF Idle, MembershipPlanID
<1>7. \A r \in Replicas : PotentialPrimary(rv, r) <=> r \in l.attached
  BY <1>4, <1>6 DEF PotentialPrimary
<1>8. MeshOK(rv)
  <2>1. ToggleOK(rv)
    BY <1>3, <1>4, <1>6, <1>7 DEF ToggleOK, None
  <2>2. ASSUME NEW r \in Replicas PROVE MtOK(rv, r) /\ AtOK(rv, r)
    BY <1>3, <1>4, <1>6, <1>7, Zenon DEF MtOK, AtOK, Members, None
  <2> QED BY <2>1, <2>2 DEF MeshOK
<1>9. ASSUME NEW r \in Replicas PROVE ObjectOK(r)
  BY <1>4, <1>5 DEF ObjectOK, Exists, None
<1>10. ASSUME NEW r \in Replicas PROVE PriOK(rv, r) /\ RunOK(rv, r) /\ AheadOK(r)
  <2>1. PriOK(rv, r)
    BY <1>4, <1>5, <1>6 DEF PriOK, None
  <2>2. RunOK(rv, r)
    BY <1>4, <1>5 DEF RunOK, Members, Exists, None
  <2>3. AheadOK(r)
    BY <1>4 DEF AheadOK
  <2> QED BY <2>1, <2>2, <2>3
<1>11. AheadAll
  BY <1>4, <1>6 DEF AheadAll, None
<1> QED BY <1>4, <1>8, <1>9, <1>10, <1>11 DEF PrimaryInv

\* Every step keeps the invariant.
LEMMA NextPrimary ==
    ASSUME Regular, EnvTypeOK, CtrlTypeOK, CtrlTypeOK', SlotInv, FinalizerInv, PrimaryInv,
           [Next]_vars
    PROVE  PrimaryInv'
<1>0. SlotsOK(mem)
  BY DEF SlotInv
<1>1. CASE Begin
  <2>1. /\ UNCHANGED <<rv, mem, rvr, conf, lost>> /\ pc = "idle" /\ pc' = "process"
        /\ pot' = potentiallyAttached(rv) /\ mem = rv
    BY <1>1 DEF Begin, env, FinalizerInv
  <2>2. ASSUME NEW r \in Replicas, PotentialPrimary(mem', r) PROVE r \in pot'
    <3>1. rv.at[r].plan \in {"Attach", "Detach", None}
      BY DEF PrimaryInv, MeshOK, AtOK
    <3> QED BY <2>1, <2>2, <3>1, AttachmentGroup
            DEF PotentialPrimary, potentiallyAttached, Active, PlanOf
  <2>3. MeshOK(rv') /\ MeshOK(mem') /\ AheadAll' /\ \A r \in Replicas \ lost' : AheadOK(r)'
    BY <2>1, Zenon DEF PrimaryInv, AheadAll, AheadOK
  <2>4. \A r \in Replicas : ObjectOK(r)'
    BY <2>1, Zenon DEF PrimaryInv, ObjectOK, Exists
  <2>5. ASSUME NEW r \in Replicas \ lost'
        PROVE  PriOK(rv, r)' /\ PriOK(mem, r)' /\ RunOK(mem, r)' /\ RunOK(rv, r)'
    BY <2>1, Zenon DEF PrimaryInv, PriOK, RunOK, Exists
  <2> QED BY <2>1, <2>2, <2>3, <2>4, <2>5 DEF PrimaryInv
<1>2. CASE Settle
  BY <1>0, <1>2, SettlePrimary
<1>3. CASE Dispatch
  BY <1>0, <1>3, DispatchPrimary
<1>4. CASE patchRVStatus
  <2>1. UNCHANGED <<mem, rvr, conf, lost>> /\ rv' = mem /\ mem' = rv' /\ pc' = "idle"
    BY <1>4 DEF patchRVStatus, env
  <2> QED BY <1>0, <2>1, PublishedPrimary
<1>5. ASSUME NEW q \in Replicas, ReplicaStep(q) PROVE PrimaryInv'
  BY <1>0, <1>5, ReplicaStepPrimary
<1>6. CASE Environment
  BY <1>0, <1>6, EnvironmentPrimary
<1>7. CASE UNCHANGED vars
  <2>1. UNCHANGED <<rv, mem, pc, pot, rvr, conf, lost>>
    BY <1>7 DEF vars, ctrl, env
  <2>2. \A r \in Replicas : ObjectOK(r)' /\ AheadOK(r)' = AheadOK(r)
    BY <2>1, Zenon DEF PrimaryInv, ObjectOK, AheadOK, Exists
  <2>3. \A r \in Replicas : /\ PriOK(rv, r)' = PriOK(rv, r) /\ PriOK(mem, r)' = PriOK(mem, r)
                            /\ RunOK(rv, r)' = RunOK(rv, r) /\ RunOK(mem, r)' = RunOK(mem, r)
    BY <2>1, Zenon DEF PriOK, RunOK, Exists
  <2> QED BY <2>1, <2>2, <2>3, Zenon DEF PrimaryInv, AheadAll
<1> QED BY <1>1, <1>2, <1>3, <1>4, <1>5, <1>6, <1>7 DEF Next, Controller

\* It implies that two nodes that run as primary both allow two primaries.
LEMMA PrimaryImplies ==
    ASSUME PrimaryInv
    PROVE  NoDualPrimary
<1> SUFFICES ASSUME NEW a \in Replicas \ lost, conf[a].pri, rv.at[a].plan # "Detach",
                    NEW b \in Replicas \ lost, conf[b].pri, rv.at[b].plan # "Detach", a # b
             PROVE  conf[a].two /\ conf[b].two
  BY DEF NoDualPrimary
<1>1. PriOK(rv, a) /\ PriOK(rv, b) /\ ToggleOK(rv)
  BY Zenon DEF PrimaryInv, MeshOK
<1>2. a \in rv.attached /\ b \in rv.attached
  BY <1>1 DEF PriOK
<1>3. rv.multi /\ rv.xt.plan = None
  BY <1>1, <1>2 DEF ToggleOK, PotentialPrimary
<1> QED BY <1>1, <1>2, <1>3, Zenon DEF PriOK
============================================================================
