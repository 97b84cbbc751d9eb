-------------------------- MODULE DatameshDispatch --------------------------
(***************************************************************************)
(* The datamesh domain (package datamesh): which plan the quorum, the      *)
(* membership and the attachment dispatcher select in a state s, and the   *)
(* guards each plan has to pass when it is created.                        *)
(*                                                                         *)
(* Left out: zones (the topology is Ignored, where every zone guard        *)
(* passes) and the "internal check" guards, which repeat the condition the *)
(* dispatcher has just selected the plan by.                               *)
(***************************************************************************)
EXTENDS DrbdQuorum

----------------------------------------------------------------------------
(* Guards *)

guardAddressesPopulated(r) == Exists(r) /\ conf[r].own # None

commonAddGuards(r) == r \in elig /\ guardAddressesPopulated(r)

guardNotAttached(s, r) == r \notin s.attached /\ ~Active(s.at[r])

guardVolumeAccessNotLocal == ~cfg.local

guardVolumeAccessLocalForDemotion(s, r) == ~(r \in s.attached /\ cfg.local)

\* Defective variant: the subject is still counted among the UpToDate copies.
guardGMDRCountsSubject(s, r) == upToDateDiskfulCount(s) > cfg.gmdr

guardGMDRPreserved(s, r) == Cardinality(upToDateDiskful(s) \ {r}) > cfg.gmdr

guardFTTPreserved(s) == voterCount(s) > IntendedDiskfulCount(cfg)

loseVoterGuards(s, r) ==
    /\ guardVolumeAccessLocalForDemotion(s, r)
    /\ guardGMDRPreserved(s, r)
    /\ guardFTTPreserved(s)

\* IsTieBreakerOperational: live, at the revision the reconcile started from
\* and connected to every full-mesh member.
TieBreakerOperational(s, t) ==
    /\ rvr[t].ex = "live" /\ rvr[t].rev >= rv.rev /\ t \notin lost
    /\ \A p \in fullMeshMembers(s) \ {t} : Connected(t, p) /\ p \notin lost

operationalTieBreakers(s, r) ==
    {t \in Replicas \ {r} : s.type[t] = "TB" /\ TieBreakerOperational(s, t)}

guardTBSufficient(s, r) ==
    Cardinality(operationalTieBreakers(s, r))
        >= TieBreakersForDiskful(voterCount(s), cfg.ftt)

DiskMembers(s) == {r \in Replicas : NeedsBackingVolume(s.type[r])}

PendingDiskMembers(s) ==
    {r \in Members(s) \ DiskMembers(s) : Active(s.mt[r]) /\ PlanOf(s.mt[r]).gainsDisk}

guardMaxDiskMembers(s) ==
    Cardinality(DiskMembers(s)) + Cardinality(PendingDiskMembers(s)) < MaxDiskMembers

guardMemberUnreachable(s, r) ==
    ~\E p \in Members(s) \ {r} : Exists(p) /\ {p, r} \cap lost = {} /\ Connected(p, r)

----------------------------------------------------------------------------
(* Plan selection of the membership dispatcher; None when nothing applies *)

EvenVoters(s) == voterCount(s) % 2 = 0

planForceRemoveReplica(s, r) ==
    IF s.type[r] = None THEN None
    ELSE IF IsVoter(s.type[r]) /\ EvenVoters(s) THEN "ForceRemoveDiskfulQDown"
    ELSE "ForceRemove"

planAddDiskful(s) ==
    LET qmrUp == s.qmr < QuorumMinimumRedundancy(cfg)
    IN  CASE ~cfg.shadow /\ EvenVoters(s)  /\ ~qmrUp -> "AddDiskful"
          [] ~cfg.shadow /\ EvenVoters(s)  /\ qmrUp  -> "AddDiskfulQMRUp"
          [] ~cfg.shadow /\ ~EvenVoters(s) /\ ~qmrUp -> "AddDiskfulQUp"
          [] ~cfg.shadow /\ ~EvenVoters(s) /\ qmrUp  -> "AddDiskfulQUpQMRUp"
          [] cfg.shadow  /\ EvenVoters(s)  /\ ~qmrUp -> "AddDiskfulViaSd"
          [] cfg.shadow  /\ EvenVoters(s)  /\ qmrUp  -> "AddDiskfulViaSdQMRUp"
          [] cfg.shadow  /\ ~EvenVoters(s) /\ ~qmrUp -> "AddDiskfulViaSdQUp"
          [] cfg.shadow  /\ ~EvenVoters(s) /\ qmrUp  -> "AddDiskfulViaSdQUpQMRUp"

planAddReplica(s, r, type) ==
    IF s.type[r] # None THEN None
    ELSE CASE type = "A"  -> "AddAccess"
           [] type = "TB" -> "AddTieBreaker"
           [] type = "sD" -> "AddShadowDiskful"
           [] type = "D"  -> planAddDiskful(s)

planRemoveDiskful(s) ==
    LET qmrDown == s.qmr > QuorumMinimumRedundancy(cfg)
    IN  IF EvenVoters(s)
        THEN IF qmrDown THEN "RemoveDiskfulQMRDownQDown" ELSE "RemoveDiskfulQDown"
        ELSE IF qmrDown THEN "RemoveDiskfulQMRDown" ELSE "RemoveDiskful"

planRemoveReplica(s, r) ==
    CASE s.type[r] = None            -> None
      [] s.type[r] = "A"             -> "RemoveAccess"
      [] s.type[r] = "TB"            -> "RemoveTieBreaker"
      [] s.type[r] \in {"sD", "sD0"} -> "RemoveShadowDiskful"
      [] IsVoter(s.type[r])          -> planRemoveDiskful(s)

ByParity(s, even, odd) == IF EvenVoters(s) THEN even ELSE odd

planChangeToDiskful(s, direct, directQUp, viaSd, viaSdQUp) ==
    IF cfg.shadow THEN ByParity(s, viaSd, viaSdQUp) ELSE ByParity(s, direct, directQUp)

planChangeReplicaType(s, r, type) ==
    LET from == s.type[r]
        isD  == from \in {"D", "D0"}
        isSD == from \in {"sD", "sD0"}
    IN  CASE from = None \/ (Active(s.mt[r]) /\ PlanOf(s.mt[r]).type = "AddReplica") -> None
          [] from = "A"  /\ type = "TB" -> "AToTB"
          [] from = "TB" /\ type = "A"  -> "TBToA"
          [] from = "A"  /\ type = "sD" -> "AToSD"
          [] isSD        /\ type = "A"  -> "SDToA"
          [] from = "TB" /\ type = "sD" -> "TBToSD"
          [] isSD        /\ type = "TB" -> "SDToTB"
          [] from = "A"  /\ type = "D"  ->
                planChangeToDiskful(s, "AToD", "AToDQUp", "AToDViaSd", "AToDViaSdQUp")
          [] isD         /\ type = "A"  -> ByParity(s, "DToAQDown", "DToA")
          [] isSD        /\ type = "D"  -> ByParity(s, "SDToD", "SDToDQUp")
          [] isD         /\ type = "sD" -> ByParity(s, "DToSDQDown", "DToSD")
          [] from = "TB" /\ type = "D"  ->
                planChangeToDiskful(s, "TBToD", "TBToDQUp", "TBToDViaSd", "TBToDViaSdQUp")
          [] isD         /\ type = "TB" -> ByParity(s, "DToTBQDown", "DToTB")
          [] OTHER                      -> None

\* membershipDispatcher for one replica: a request decides; a member whose
\* RVR is gone is force-removed.
MembershipPlan(s, r) ==
    LET req == rvr[r].req
    IN  CASE req.op = "Join"       -> planAddReplica(s, r, req.type)
          [] req.op = "Leave"      -> planRemoveReplica(s, r)
          [] req.op = "ChangeRole" -> planChangeReplicaType(s, r, req.type)
          [] req.op = "ForceLeave" -> planForceRemoveReplica(s, r)
          [] req.op = None /\ ~Exists(r) -> planForceRemoveReplica(s, r)
          [] OTHER                 -> None

\* Plans with guardShadowDiskfulSupported
ShadowDiskfulPlans ==
    {"AddShadowDiskful", "AddDiskfulViaSd", "AddDiskfulViaSdQMRUp", "AddDiskfulViaSdQUp",
     "AddDiskfulViaSdQUpQMRUp", "AToSD", "TBToSD", "SDToD", "SDToDQUp", "DToSD",
     "DToSDQDown", "AToDViaSd", "AToDViaSdQUp", "TBToDViaSd", "TBToDViaSdQUp"}

\* The guards of each plan.
MembershipGuards(s, r, plan) ==
    LET from == s.type[r]
        to   == rvr[r].req.type
        type == Registry[plan].type
    IN  /\ type = "AddReplica" => commonAddGuards(r)
        /\ type = "RemoveReplica" => guardNotAttached(s, r)
        /\ type \in {"RemoveReplica", "ChangeReplicaType"} =>
              /\ IsVoter(from) => loseVoterGuards(s, r)
              /\ from = "TB"   => guardTBSufficient(s, r)
        /\ type = "AddReplica" /\ to = "A" => guardVolumeAccessNotLocal
        /\ plan \in {"TBToA", "SDToA", "SDToTB", "DToA", "DToAQDown"} =>
              guardVolumeAccessNotLocal
        /\ Registry[plan].gainsDisk /\ ~NeedsBackingVolume(from) => guardMaxDiskMembers(s)
        /\ plan \in ShadowDiskfulPlans => cfg.shadow
        /\ type = "ForceRemoveReplica" =>
              guardNotAttached(s, r) /\ guardMemberUnreachable(s, r)

----------------------------------------------------------------------------
(* Quorum dispatcher *)

hasPendingJoinD(s) ==
    \E r \in Replicas : s.type[r] = None /\ rvr[r].req.op = "Join" /\ rvr[r].req.type = "D"

hasPendingLeaveD(s) ==
    \E r \in Replicas : IsVoter(s.type[r]) /\ rvr[r].req.op = "Leave"

canMembershipHandleQMR(s) ==
    \/ CorrectQMR(s) = s.qmr + 1 /\ hasPendingJoinD(s)
    \/ CorrectQMR(s) + 1 = s.qmr /\ hasPendingLeaveD(s)

selectQuorumPlan(s) ==
    LET q   == CorrectQ(s)
        qmr == CorrectQMR(s)
    IN  IF q < s.q /\ qmr > s.qmr THEN "QuorumLowerQRaiseQMR"
        ELSE IF q > s.q /\ qmr < s.qmr THEN "QuorumRaiseQLowerQMR"
        ELSE IF q > s.q \/ qmr > s.qmr THEN "QuorumRaise"
        ELSE "QuorumLower"

\* Defective variant: only a wrong qmr triggers a correction.
QuorumPlanQMROnly(s) ==
    IF votingMembershipTransitions(s) # {} \/ CorrectQMR(s) = s.qmr
    THEN None ELSE selectQuorumPlan(s)

QuorumPlan(s) ==
    IF \/ votingMembershipTransitions(s) # {}
       \/ CorrectQ(s) = s.q /\ CorrectQMR(s) = s.qmr
       \/ CorrectQ(s) = s.q /\ canMembershipHandleQMR(s)
    THEN None ELSE selectQuorumPlan(s)

----------------------------------------------------------------------------
(* Attachment dispatcher; pot is gctx.potentiallyAttached *)

isQuorumSatisfied(s) ==
    \E r \in Voters(s) \ lost : Exists(r) /\ ReplicaQuorum(r, Replicas \ lost)

\* Defective variant: only a replica with an UpToDate disk is ready.
ReplicaReadyDiskful(s, r) == Exists(r) /\ r \in Members(s) \ lost /\ HasQuorum(r, Replicas \ lost)

\* The Ready condition of an RVR: its node has quorum.
ReplicaReady(s, r) ==
    Exists(r) /\ r \in Members(s) \ lost /\ ReplicaQuorum(r, Replicas \ lost)

needMultiattach(s) == Cardinality(Members(s) \cap rva) > 1 /\ cfg.max > 1

decideMultiattachToggle(s, pot) ==
    IF hasMultiattachTransition(s) THEN None
    ELSE IF needMultiattach(s) /\ ~s.multi THEN "EnableMultiattach"
    ELSE IF ~needMultiattach(s) /\ s.multi /\ Cardinality(pot) <= 1 THEN "DisableMultiattach"
    ELSE None

decideAttachmentForReplica(s, r) ==
    IF r \in rva
    THEN IF r \in s.attached /\ ~Active(s.at[r]) THEN None ELSE "Attach"
    ELSE IF r \in s.attached THEN "Detach" ELSE None

guardDeviceNotInUse(r) == ~rvr[r].use

AttachmentGuards(s, pot, r, plan) ==
    /\ plan = "Detach" => guardDeviceNotInUse(r)
    /\ plan = "Attach" =>
          /\ r \in elig /\ r \notin lost
          /\ ReplicaReady(s, r)
          /\ ~Active(s.mt[r])
          /\ isQuorumSatisfied(s)
          /\ Cardinality(pot) < cfg.max
          /\ cfg.local => HasBackingVolume(s.type[r])
============================================================================
