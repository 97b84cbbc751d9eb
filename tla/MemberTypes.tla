---------------------------- MODULE MemberTypes ----------------------------
(***************************************************************************)
(* Datamesh member types and the classification every other module builds  *)
(* on (api/v1alpha1/rv_types.go).  "D0" and "sD0" are the liminal types,   *)
(* written D∅ and sD∅ in the plans: the disk is provisioned but DRBD runs  *)
(* without it.                                                             *)
(***************************************************************************)
EXTENDS Naturals

None == "none"

MemberType == {"D", "D0", "sD", "sD0", "A", "TB"}

\* What an RVR may ask for (ReplicaType).
ReplicaType == {"D", "sD", "A", "TB"}

IsVoter(t) == t \in {"D", "D0"}

HasBackingVolume(t) == t \in {"D", "sD"}

NeedsBackingVolume(t) == t \in {"D", "D0", "sD", "sD0"}

ConnectsToAllPeers(t) == t \in {"D", "D0", "sD", "sD0"}

ToLiminal(t) == [D |-> "D0", sD |-> "sD0"][t]

\* A configuration is [ftt, gmdr]: FailuresToTolerate and
\* GuaranteedMinimumDataRedundancy.
QuorumMinimumRedundancy(c) == c.gmdr + 1

IntendedDiskfulCount(c) == c.ftt + c.gmdr + 1

TieBreakersForDiskful(diskful, ftt) ==
    IF diskful > 0 /\ diskful % 2 = 0 /\ ftt = diskful \div 2 THEN 1 ELSE 0
============================================================================
