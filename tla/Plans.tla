------------------------------- MODULE Plans -------------------------------
(***************************************************************************)
(* The plan registry of the datamesh transition engine: every membership,  *)
(* quorum and attachment plan as a sequence of steps.  A step says what    *)
(* its apply callback does to the datamesh and who has to confirm it:      *)
(*   to       the subject's new member type: "keep" leaves it, None        *)
(*            removes the member, another type creates or retypes it;      *)
(*   bv       "set" copies the volume group from the membership request,   *)
(*            "clear" empties it;                                          *)
(*   q, qmr   "up"/"down" by one, "fix" to the computed value, or "keep";  *)
(*   base     when updateBaselineGMDR runs: in apply, once the step is     *)
(*            confirmed, or never;                                         *)
(*   flag     what happens to member.Attached or datamesh.Multiattach;     *)
(*   confirm  the confirm callback.                                        *)
(***************************************************************************)
EXTENDS MemberTypes, Sequences

NoOp == [to |-> "keep", bv |-> "keep", q |-> "keep", qmr |-> "keep",
         base |-> "never", flag |-> "keep", confirm |-> "immediate"]

Retype(t, who) == [NoOp EXCEPT !.to = t, !.confirm = who]

WithVolume(step) == [step EXCEPT !.bv = "set"]

WithoutVolume(step) == [step EXCEPT !.bv = "clear"]

WithRaiseQ(step) == [step EXCEPT !.q = "up"]

WithLowerQ(step) == [step EXCEPT !.q = "down"]

RaiseQMR == [NoOp EXCEPT !.qmr = "up", !.base = "complete", !.confirm = "all"]

LowerQMR == [NoOp EXCEPT !.qmr = "down", !.base = "apply", !.confirm = "all"]

Plan(type, group, gains, steps) ==
    [type |-> type, group |-> group, gainsDisk |-> gains, steps |-> steps]

Voting(type, gains, steps) == Plan(type, "VotingMembership", gains, steps)

NonVoting(type, gains, steps) == Plan(type, "NonVotingMembership", gains, steps)

----------------------------------------------------------------------------
(* AddReplica *)

CreateLiminal == WithVolume(Retype("D0", "all"))

AttachDisk == Retype("D", "subject")

AccessVestibule == <<Retype("A", "fm"), WithRaiseQ(WithVolume(Retype("D0", "all")))>>

ShadowPreSync == <<WithVolume(Retype("sD0", "all")), Retype("sD", "subject")>>

\* Defective variant: the quorum is not raised with the new voter.
ShadowToVoterKeepsQ == <<Retype("sD0", "subject"), Retype("D0", "all"), AttachDisk>>

ShadowToVoterQUp ==
    <<Retype("sD0", "subject"), WithRaiseQ(Retype("D0", "all")), AttachDisk>>

AddDiskful == Voting("AddReplica", TRUE, <<CreateLiminal, AttachDisk>>)

AddDiskfulQMRUp == Voting("AddReplica", TRUE, <<CreateLiminal, AttachDisk, RaiseQMR>>)

AddDiskfulQUp == Voting("AddReplica", TRUE, Append(AccessVestibule, AttachDisk))

AddDiskfulQUpQMRUp ==
    Voting("AddReplica", TRUE, AccessVestibule \o <<AttachDisk, RaiseQMR>>)

AddDiskfulViaSd ==
    Voting("AddReplica", TRUE, Append(ShadowPreSync, Retype("D", "all")))

AddDiskfulViaSdQMRUp ==
    Voting("AddReplica", TRUE, ShadowPreSync \o <<Retype("D", "all"), RaiseQMR>>)

AddDiskfulViaSdQUp ==
    Voting("AddReplica", TRUE,
           ShadowPreSync \o <<Retype("sD0", "subject"),
                              WithRaiseQ(WithVolume(Retype("D0", "all"))),
                              AttachDisk>>)

AddDiskfulViaSdQUpQMRUp ==
    Voting("AddReplica", TRUE,
           ShadowPreSync \o <<Retype("sD0", "subject"),
                              WithRaiseQ(WithVolume(Retype("D0", "all"))),
                              AttachDisk, RaiseQMR>>)

AddShadowDiskful == NonVoting("AddReplica", TRUE, ShadowPreSync)

AddAccess == NonVoting("AddReplica", FALSE, <<Retype("A", "fm")>>)

AddTieBreaker == NonVoting("AddReplica", FALSE, <<Retype("TB", "fm")>>)

----------------------------------------------------------------------------
(* RemoveReplica *)

DetachDisk == Retype("D0", "subject")

DemoteQDown(t) == WithLowerQ(WithoutVolume(Retype(t, "all")))

RemoveDiskful ==
    Voting("RemoveReplica", FALSE, <<DetachDisk, Retype(None, "allLeaving")>>)

RemoveDiskfulQMRDown ==
    Voting("RemoveReplica", FALSE,
           <<LowerQMR, DetachDisk, Retype(None, "allLeaving")>>)

RemoveDiskfulQDown ==
    Voting("RemoveReplica", FALSE,
           <<DetachDisk, DemoteQDown("A"), Retype(None, "fmLeaving")>>)

RemoveDiskfulQMRDownQDown ==
    Voting("RemoveReplica", FALSE,
           <<LowerQMR, DetachDisk, DemoteQDown("A"), Retype(None, "fmLeaving")>>)

RemoveShadowDiskful ==
    NonVoting("RemoveReplica", FALSE, <<Retype(None, "allLeaving")>>)

RemoveAccess == NonVoting("RemoveReplica", FALSE, <<Retype(None, "fmLeaving")>>)

RemoveTieBreaker == NonVoting("RemoveReplica", FALSE, <<Retype(None, "fmLeaving")>>)

----------------------------------------------------------------------------
(* ForceRemoveReplica *)

ForceRemove == Plan("ForceRemoveReplica", "Emergency", FALSE, <<Retype(None, "all")>>)

ForceRemoveDiskfulQDown ==
    Plan("ForceRemoveReplica", "Emergency", FALSE,
         <<WithLowerQ(Retype(None, "all"))>>)

----------------------------------------------------------------------------
(* ChangeReplicaType *)

ChangeType(group, gains, steps) == Plan("ChangeReplicaType", group, gains, steps)

AToTB == ChangeType("NonVotingMembership", FALSE, <<Retype("TB", "fm")>>)

TBToA == ChangeType("NonVotingMembership", FALSE, <<Retype("A", "fm")>>)

AToSD == ChangeType("NonVotingMembership", TRUE, ShadowPreSync)

SDToA ==
    ChangeType("NonVotingMembership", FALSE,
               <<Retype("sD0", "subject"), WithoutVolume(Retype("A", "all"))>>)

TBToSD == ChangeType("NonVotingMembership", TRUE, ShadowPreSync)

SDToTB ==
    ChangeType("NonVotingMembership", FALSE,
               <<Retype("sD0", "subject"), WithoutVolume(Retype("TB", "all"))>>)

SDToD == ChangeType("VotingMembership", TRUE, <<Retype("D", "all")>>)

SDToDQUp == ChangeType("VotingMembership", TRUE, ShadowToVoterQUp)

DToSD == ChangeType("VotingMembership", TRUE, <<Retype("sD", "all")>>)

DToSDQDown ==
    ChangeType("VotingMembership", TRUE,
               <<DetachDisk, WithLowerQ(Retype("sD0", "all")), Retype("sD", "subject")>>)

AToD == ChangeType("VotingMembership", TRUE, <<CreateLiminal, AttachDisk>>)

\* Defective variant: the quorum is raised a step before the voter is there.
AToDQUpFirst ==
    ChangeType("VotingMembership", TRUE,
               <<WithRaiseQ([NoOp EXCEPT !.confirm = "all"]), CreateLiminal, AttachDisk>>)

AToDQUp ==
    ChangeType("VotingMembership", TRUE, <<WithRaiseQ(CreateLiminal), AttachDisk>>)

AToDViaSd ==
    ChangeType("VotingMembership", TRUE, Append(ShadowPreSync, Retype("D", "all")))

AToDViaSdQUp ==
    ChangeType("VotingMembership", TRUE, ShadowPreSync \o ShadowToVoterQUp)

DToA ==
    ChangeType("VotingMembership", FALSE,
               <<DetachDisk, WithoutVolume(Retype("A", "all"))>>)

DToAQDown == ChangeType("VotingMembership", FALSE, <<DetachDisk, DemoteQDown("A")>>)

TBToD == ChangeType("VotingMembership", TRUE, <<CreateLiminal, AttachDisk>>)

TBToDQUp ==
    ChangeType("VotingMembership", TRUE, <<WithRaiseQ(CreateLiminal), AttachDisk>>)

TBToDViaSd ==
    ChangeType("VotingMembership", TRUE, Append(ShadowPreSync, Retype("D", "all")))

TBToDViaSdQUp ==
    ChangeType("VotingMembership", TRUE, ShadowPreSync \o ShadowToVoterQUp)

DToTB ==
    ChangeType("VotingMembership", FALSE,
               <<DetachDisk, WithoutVolume(Retype("TB", "all"))>>)

DToTBQDown == ChangeType("VotingMembership", FALSE, <<DetachDisk, DemoteQDown("TB")>>)

----------------------------------------------------------------------------
(* ChangeQuorum *)

FixQ == [NoOp EXCEPT !.q = "fix", !.confirm = "all"]

\* Defective variant: the baseline follows the lower qmr only once it is confirmed.
FixQMRDownLate == [NoOp EXCEPT !.qmr = "fix", !.base = "complete", !.confirm = "all"]

FixQMRDown == [NoOp EXCEPT !.qmr = "fix", !.base = "apply", !.confirm = "all"]

FixQMRUp == [NoOp EXCEPT !.qmr = "fix", !.base = "complete", !.confirm = "all"]

ChangeQuorum(steps) == Plan("ChangeQuorum", "Quorum", FALSE, steps)

QuorumLower == ChangeQuorum(<<FixQMRDown, FixQ>>)

QuorumRaise == ChangeQuorum(<<FixQ, FixQMRUp>>)

QuorumLowerQRaiseQMR == ChangeQuorum(<<FixQ, FixQMRUp>>)

QuorumRaiseQLowerQMR == ChangeQuorum(<<FixQ, FixQMRDown>>)

----------------------------------------------------------------------------
(* Attachment *)

Flag(f, who) == [NoOp EXCEPT !.flag = f, !.confirm = who]

Attach == Plan("Attach", "Attachment", FALSE, <<Flag("attach", "subject")>>)

Detach ==
    Plan("Detach", "Attachment", FALSE, <<Flag("detach", "subjectLeavingOrGone")>>)

ForceDetach == Plan("ForceDetach", "Emergency", FALSE, <<Flag("detach", "immediate")>>)

EnableMultiattach ==
    Plan("EnableMultiattach", "Multiattach", FALSE, <<Flag("enable", "multiattach")>>)

DisableMultiattach ==
    Plan("DisableMultiattach", "Multiattach", FALSE, <<Flag("disable", "multiattach")>>)

----------------------------------------------------------------------------
\* The registry; a persisted transition names its plan by these keys.
Registry ==
    [AddDiskful |-> AddDiskful, AddDiskfulQMRUp |-> AddDiskfulQMRUp,
     AddDiskfulQUp |-> AddDiskfulQUp, AddDiskfulQUpQMRUp |-> AddDiskfulQUpQMRUp,
     AddDiskfulViaSd |-> AddDiskfulViaSd,
     AddDiskfulViaSdQMRUp |-> AddDiskfulViaSdQMRUp,
     AddDiskfulViaSdQUp |-> AddDiskfulViaSdQUp,
     AddDiskfulViaSdQUpQMRUp |-> AddDiskfulViaSdQUpQMRUp,
     AddShadowDiskful |-> AddShadowDiskful, AddAccess |-> AddAccess,
     AddTieBreaker |-> AddTieBreaker,
     RemoveDiskful |-> RemoveDiskful, RemoveDiskfulQMRDown |-> RemoveDiskfulQMRDown,
     RemoveDiskfulQDown |-> RemoveDiskfulQDown,
     RemoveDiskfulQMRDownQDown |-> RemoveDiskfulQMRDownQDown,
     RemoveShadowDiskful |-> RemoveShadowDiskful, RemoveAccess |-> RemoveAccess,
     RemoveTieBreaker |-> RemoveTieBreaker,
     ForceRemove |-> ForceRemove, ForceRemoveDiskfulQDown |-> ForceRemoveDiskfulQDown,
     AToTB |-> AToTB, TBToA |-> TBToA, AToSD |-> AToSD, SDToA |-> SDToA,
     TBToSD |-> TBToSD, SDToTB |-> SDToTB, SDToD |-> SDToD, SDToDQUp |-> SDToDQUp,
     DToSD |-> DToSD, DToSDQDown |-> DToSDQDown, AToD |-> AToD, AToDQUp |-> AToDQUp,
     AToDViaSd |-> AToDViaSd, AToDViaSdQUp |-> AToDViaSdQUp,
     DToA |-> DToA, DToAQDown |-> DToAQDown, TBToD |-> TBToD, TBToDQUp |-> TBToDQUp,
     TBToDViaSd |-> TBToDViaSd, TBToDViaSdQUp |-> TBToDViaSdQUp,
     DToTB |-> DToTB, DToTBQDown |-> DToTBQDown,
     QuorumLower |-> QuorumLower, QuorumRaise |-> QuorumRaise,
     QuorumLowerQRaiseQMR |-> QuorumLowerQRaiseQMR,
     QuorumRaiseQLowerQMR |-> QuorumRaiseQLowerQMR,
     Attach |-> Attach, Detach |-> Detach, ForceDetach |-> ForceDetach,
     EnableMultiattach |-> EnableMultiattach, DisableMultiattach |-> DisableMultiattach]

PlanID == DOMAIN Registry
============================================================================
