--------------------------- MODULE DatameshState ---------------------------
(***************************************************************************)
(* The objects the datamesh transition engine works on, and the derived    *)
(* quantities its guards and confirm callbacks read.                       *)
(*                                                                         *)
(* A datamesh state s is the part of rv.status the engine owns:            *)
(*   rev       DatameshRevision                                            *)
(*   type      member type per replica, None when it is not a member       *)
(*   bv        volume group recorded in the member, None when empty        *)
(*   attached  members with Attached = true;   multi  datamesh.Multiattach *)
(*   q, qmr    quorum and quorumMinimumRedundancy (bytes)                  *)
(*   base      BaselineGuaranteedMinimumDataRedundancy                     *)
(*   mt, at    transition in the membership / attachment slot of a replica *)
(*   qt, xt    the ChangeQuorum and the multiattach transition             *)
(* Replicas are their ids 0..N-1, which also number the nodes.             *)
(***************************************************************************)
EXTENDS Plans, Integers, FiniteSets

CONSTANTS
    N,               \* number of replica ids in use, at most 32
    MaxDiskMembers   \* maxDiskMembers, 8 in the code

ASSUME NAssumption == N \in 1 .. 32
ASSUME MaxDiskMembersAssumption == MaxDiskMembers \in Nat

VARIABLES
    rv,      \* the datamesh state stored in the API server
    rvr,     \* the RVR objects: [ex, type, fin, rev, req, use]
    conf,    \* what DRBD runs with on each node (applied DRBDResource spec)
    utd,     \* nodes whose backing disk is UpToDate
    lost,    \* nodes no peer can reach any more
    cfg,     \* rv.status.configuration, spec and feature flags: [ftt, gmdr,
             \* local, max, shadow]
    elig,    \* nodes eligible in the storage pool
    rva      \* nodes with an active ReplicatedVolumeAttachment

Replicas == 0 .. N - 1

Idle == [plan |-> None, step |-> 0, rev |-> 0]

Active(t) == t.plan # None

PlanOf(t) == Registry[t.plan]

StepOf(t) == PlanOf(t).steps[t.step]

\* Membership requests are [op, type, bv].
NoRequest == [op |-> None, type |-> None, bv |-> None]

Exists(r) == rvr[r].ex # None

----------------------------------------------------------------------------
(* The shape of the objects *)

\* FailuresToTolerate and GuaranteedMinimumDataRedundancy are 0 to 2; local is
\* VolumeAccess = Local, max is spec.MaxAttachments and shadow is the feature flag
\* ShadowDiskful the controller runs with.
Configuration ==
    [ftt : 0 .. 2, gmdr : 0 .. 2, local : BOOLEAN, max : Nat,
     shadow : BOOLEAN]

Transition ==
    {t \in [plan : PlanID \cup {None}, step : 0 .. 6, rev : Nat] :
        Active(t) => t.step \in DOMAIN PlanOf(t).steps}

State ==
    [rev : Nat, type : [Replicas -> MemberType \cup {None}],
     bv : [Replicas -> {"vg", None}], attached : SUBSET Replicas, multi : BOOLEAN,
     q : 0 .. 255, qmr : 0 .. 255, base : 0 .. 255,
     mt : [Replicas -> Transition], at : [Replicas -> Transition],
     qt : Transition, xt : Transition]

Request ==
    [op : {"Join", "ChangeRole"}, type : ReplicaType, bv : {"vg", None}]
        \cup [op : {"Leave", "ForceLeave", "ForceDetach", None}, type : {None}, bv : {None}]

\* use is status.attachment.inUse.
RVR ==
    {x \in [ex : {"live", "deleting", None}, type : ReplicaType \cup {None},
            fin : BOOLEAN, rev : Nat, req : Request, use : BOOLEAN] :
        x.ex # None => x.type # None}

----------------------------------------------------------------------------
(* Sets and counts over the members of s *)

Members(s) == {r \in Replicas : s.type[r] # None}

Voters(s) == {r \in Replicas : IsVoter(s.type[r])}

voterCount(s) == Cardinality(Voters(s))

fullMeshMembers(s) == {r \in Replicas : ConnectsToAllPeers(s.type[r])}

upToDateDiskful(s) == {r \in Replicas : s.type[r] = "D" /\ Exists(r) /\ r \in utd}

upToDateDiskfulCount(s) == Cardinality(upToDateDiskful(s))

Minimum(a, b) == IF a <= b THEN a ELSE b

Maximum(a, b) == IF a >= b THEN a ELSE b

Majority(n) == n \div 2 + 1

\* computeCorrectQuorum: q is the majority; qmr goes straight down to its
\* target, but up no further than there are UpToDate copies.
CorrectQ(s) == Majority(voterCount(s))

CorrectQMR(s) ==
    LET target == QuorumMinimumRedundancy(cfg)
    IN  IF target <= s.qmr THEN target
        ELSE Maximum(s.qmr, Minimum(target, upToDateDiskfulCount(s)))

\* updateBaselineGMDR
BaselineGMDR(qmr) == Minimum(IF qmr > 0 THEN qmr - 1 ELSE 0, cfg.gmdr)

----------------------------------------------------------------------------
(* The tracker's view of the active transitions *)

InGroup(s, group) == {r \in Replicas : Active(s.mt[r]) /\ PlanOf(s.mt[r]).group = group}

votingMembershipTransitions(s) == InGroup(s, "VotingMembership")

hasQuorumTransition(s) == Active(s.qt)

hasMultiattachTransition(s) == Active(s.xt)

\* newConcurrencyTracker plus the Adds of NewEngine: attached members and
\* everyone with an Attach or Detach in flight.
potentiallyAttached(s) ==
    s.attached \cup {r \in Replicas : Active(s.at[r]) /\ PlanOf(s.at[r]).group = "Attachment"}

----------------------------------------------------------------------------
(* Confirm callbacks: whom a step of subject r waits for, and who counts   *)
(* as having confirmed revision n.                                         *)

MustConfirm(s, r, kind) ==
    CASE kind \in {"subject", "subjectLeavingOrGone"} -> {r}
      [] kind \in {"fm", "fmLeaving"}  -> fullMeshMembers(s) \cup {r}
      [] kind = "all"                  -> Members(s)
      [] kind = "allLeaving"           -> Members(s) \cup {r}
      [] kind = "multiattach"          ->
            {m \in Members(s) : HasBackingVolume(s.type[m]) \/ m \in s.attached}
      [] OTHER                         -> {}

confirmedReplicas(n) == {p \in Replicas : Exists(p) /\ rvr[p].rev >= n}

\* Defective variant: a leaving replica confirms by being gone, not by revision 0.
LeftGone(r) == ~Exists(r)

Left(r) == Exists(r) /\ rvr[r].rev = 0

Confirmed(r, kind, n) ==
    confirmedReplicas(n)
      \cup {p \in {r} : kind \in {"fmLeaving", "allLeaving"} /\ Left(p)}
      \cup {p \in {r} : kind = "subjectLeavingOrGone" /\ (~Exists(p) \/ Left(p))}

StepConfirmed(s, r, t) ==
    MustConfirm(s, r, StepOf(t).confirm) \subseteq Confirmed(r, StepOf(t).confirm, t.rev)
============================================================================
