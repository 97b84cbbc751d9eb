----------------------- MODULE DatameshEngine_proofs -----------------------
(***************************************************************************)
(* Every plan of the registry is well formed: it has a known transition    *)
(* type and concurrency group, and one to six well-formed steps.  This is  *)
(* what the engine relies on when it looks a persisted transition up by    *)
(* its plan id and current step.                                           *)
(*                                                                         *)
(* Lemmas about the engine: applying a step, advancing a transition and    *)
(* creating one keep a datamesh state well formed and leave the other      *)
(* transitions alone. They rest on the well-formedness of the plans and on *)
(* there being at most 32 replicas, which keeps the byte counters from     *)
(* wrapping.                                                               *)
(***************************************************************************)
EXTENDS DatameshEngine, TLAPS

\* The obligations are small and their context is large: give the provers time to read it.
USE SMTT(30), ZenonT(20)

Confirm ==
    {"immediate", "subject", "subjectLeavingOrGone", "fm", "fmLeaving", "all",
     "allLeaving", "multiattach"}

\* The values of a step: what each callback may do, and who confirms.
Step ==
    [to : MemberType \cup {"keep", None}, bv : {"keep", "set", "clear"},
     q : {"keep", "up", "down", "fix"}, qmr : {"keep", "up", "down", "fix"},
     base : {"never", "apply", "complete"},
     flag : {"keep", "attach", "detach", "enable", "disable"},
     confirm : Confirm]

Steps == {x \in Seq(Step) : Len(x) \in 1 .. 6}

TransitionType ==
    {"AddReplica", "RemoveReplica", "ForceRemoveReplica", "ChangeReplicaType",
     "ChangeQuorum", "Attach", "Detach", "ForceDetach", "EnableMultiattach",
     "DisableMultiattach"}

Group ==
    {"VotingMembership", "NonVotingMembership", "Emergency", "Quorum", "Attachment",
     "Multiattach"}

PlanRecord ==
    [type : TransitionType, group : Group, gainsDisk : BOOLEAN, steps : Steps]

\* A step that only retypes its subject is well formed (mrStep with one of the
\* create, change or remove callbacks).
LEMMA RetypeType ==
    ASSUME NEW t \in MemberType \cup {None}, NEW who \in Confirm
    PROVE  Retype(t, who) \in Step
BY Zenon DEF Retype, NoOp, Step, Confirm

\* Composing a step with a volume or quorum change keeps it well formed
\* (composeReplicaApply).
LEMMA WithType ==
    ASSUME NEW step \in Step
    PROVE  /\ WithVolume(step) \in Step /\ WithoutVolume(step) \in Step
           /\ WithRaiseQ(step) \in Step /\ WithLowerQ(step) \in Step
BY DEF WithVolume, WithoutVolume, WithRaiseQ, WithLowerQ, Step

\* The named steps the plans are put together from are well formed.
LEMMA StepTypes ==
    /\ CreateLiminal \in Step /\ AttachDisk \in Step
    /\ RaiseQMR \in Step /\ LowerQMR \in Step
    /\ DetachDisk \in Step /\ DemoteQDown("A") \in Step /\ DemoteQDown("TB") \in Step
    /\ FixQ \in Step /\ FixQMRUp \in Step /\ FixQMRDown \in Step
    /\ \A f \in {"attach", "detach", "enable", "disable"}, who \in Confirm : Flag(f, who) \in Step
<1>1. RaiseQMR \in Step /\ LowerQMR \in Step
  BY Zenon DEF RaiseQMR, LowerQMR, NoOp, Step, Confirm
<1>2. FixQ \in Step /\ FixQMRUp \in Step /\ FixQMRDown \in Step
  BY Zenon DEF FixQ, FixQMRUp, FixQMRDown, NoOp, Step, Confirm
<1>3. CreateLiminal \in Step /\ AttachDisk \in Step /\ DetachDisk \in Step
  BY RetypeType, WithType DEF CreateLiminal, AttachDisk, DetachDisk, MemberType, Confirm
<1>4. DemoteQDown("A") \in Step /\ DemoteQDown("TB") \in Step
  BY RetypeType, WithType DEF DemoteQDown, MemberType, Confirm
<1>5. \A f \in {"attach", "detach", "enable", "disable"}, who \in Confirm : Flag(f, who) \in Step
  BY Zenon DEF Flag, NoOp, Step, Confirm
<1> QED BY <1>1, <1>2, <1>3, <1>4, <1>5

\* The step sequences shared by several plans are well formed.
LEMMA SequenceTypes ==
    /\ AccessVestibule \in Seq(Step) /\ Len(AccessVestibule) = 2
    /\ ShadowPreSync \in Seq(Step) /\ Len(ShadowPreSync) = 2
    /\ ShadowToVoterQUp \in Seq(Step) /\ Len(ShadowToVoterQUp) = 3
<1>1. AccessVestibule \in Seq(Step) /\ Len(AccessVestibule) = 2
  <2>1. Retype("A", "fm") \in Step /\ WithRaiseQ(WithVolume(Retype("D0", "all"))) \in Step
    BY RetypeType, WithType DEF MemberType, Confirm
  <2> QED BY <2>1 DEF AccessVestibule
<1>2. ShadowPreSync \in Seq(Step) /\ Len(ShadowPreSync) = 2
  <2>1. WithVolume(Retype("sD0", "all")) \in Step /\ Retype("sD", "subject") \in Step
    BY RetypeType, WithType DEF MemberType, Confirm
  <2> QED BY <2>1 DEF ShadowPreSync
<1>3. ShadowToVoterQUp \in Seq(Step) /\ Len(ShadowToVoterQUp) = 3
  <2>1. Retype("sD0", "subject") \in Step /\ WithRaiseQ(Retype("D0", "all")) \in Step
    BY RetypeType, WithType DEF MemberType, Confirm
  <2> QED BY <2>1, StepTypes DEF ShadowToVoterQUp
<1> QED BY <1>1, <1>2, <1>3

\* Up to four steps written out make the steps of a plan.
LEMMA ShortSequences ==
    /\ \A a \in Step : <<a>> \in Steps
    /\ \A a, b \in Step : <<a, b>> \in Steps
    /\ \A a, b, c \in Step : <<a, b, c>> \in Steps
    /\ \A a, b, c, d \in Step : <<a, b, c, d>> \in Steps
BY DEF Steps

\* Length and type of a concatenation and of an appended sequence.
LEMMA Lengths ==
    /\ \A x, y \in Seq(Step) : x \o y \in Seq(Step) /\ Len(x \o y) = Len(x) + Len(y)
    /\ \A x \in Seq(Step), a \in Step :
          Append(x, a) \in Seq(Step) /\ Len(Append(x, a)) = Len(x) + 1
OBVIOUS

\* A shared pair of steps with one more step makes the steps of a plan.
LEMMA Appended ==
    ASSUME NEW x \in Seq(Step), Len(x) = 2, NEW a \in Step
    PROVE  Append(x, a) \in Steps
<1>1. Append(x, a) \in Seq(Step) /\ Len(Append(x, a)) = 3
  BY Lengths
<1> QED BY <1>1 DEF Steps

\* The lengths of the concatenated plans.
LEMMA Sums == \A a, b, c : a = 2 /\ b \in {2, 3, 4} /\ c = a + b => c \in 1 .. 6
OBVIOUS

\* A shared pair of steps with two to four more makes the steps of a plan.
LEMMA Concatenated ==
    ASSUME NEW x \in Seq(Step), Len(x) = 2, NEW y \in Seq(Step), Len(y) \in {2, 3, 4}
    PROVE  x \o y \in Steps
<1>1. x \o y \in Seq(Step) /\ Len(x \o y) = Len(x) + Len(y)
  BY Zenon, Lengths
<1>2. Len(x \o y) \in 1 .. 6
  BY Zenon, <1>1, Sums
<1> QED BY <1>1, <1>2 DEF Steps

\* The same, for the shared sequences the plans really use.
LEMMA LongSequences ==
    /\ ShadowPreSync \in Steps /\ ShadowToVoterQUp \in Steps
    /\ \A x \in {AccessVestibule, ShadowPreSync} :
        /\ \A a \in Step : Append(x, a) \in Steps
        /\ \A a, b \in Step : x \o <<a, b>> \in Steps
        /\ \A a, b, c \in Step : x \o <<a, b, c>> \in Steps
        /\ \A a, b, c, d \in Step : x \o <<a, b, c, d>> \in Steps
        /\ x \o ShadowToVoterQUp \in Steps
<1>1. ShadowPreSync \in Steps /\ ShadowToVoterQUp \in Steps
  BY SequenceTypes DEF Steps
<1>2. ASSUME NEW x \in {AccessVestibule, ShadowPreSync}
      PROVE  /\ \A a \in Step : Append(x, a) \in Steps
             /\ \A a, b \in Step : x \o <<a, b>> \in Steps
             /\ \A a, b, c \in Step : x \o <<a, b, c>> \in Steps
             /\ \A a, b, c, d \in Step : x \o <<a, b, c, d>> \in Steps
             /\ x \o ShadowToVoterQUp \in Steps
  <2>1. x \in Seq(Step) /\ Len(x) = 2
    BY SequenceTypes
  <2>2. \A a \in Step : Append(x, a) \in Steps
    BY <2>1, Appended
  <2>3. \A a, b \in Step : <<a, b>> \in Seq(Step) /\ Len(<<a, b>>) = 2
    OBVIOUS
  <2>4. \A a, b, c \in Step : <<a, b, c>> \in Seq(Step) /\ Len(<<a, b, c>>) = 3
    OBVIOUS
  <2>5. \A a, b, c, d \in Step : <<a, b, c, d>> \in Seq(Step) /\ Len(<<a, b, c, d>>) = 4
    OBVIOUS
  <2>6. \A a, b \in Step : x \o <<a, b>> \in Steps
    BY Zenon, <2>1, <2>3, Concatenated
  <2>7. \A a, b, c \in Step : x \o <<a, b, c>> \in Steps
    BY Zenon, <2>1, <2>4, Concatenated
  <2>8. \A a, b, c, d \in Step : x \o <<a, b, c, d>> \in Steps
    BY Zenon, <2>1, <2>5, Concatenated
  <2>9. x \o ShadowToVoterQUp \in Steps
    BY <2>1, SequenceTypes, Concatenated
  <2> QED BY <2>2, <2>6, <2>7, <2>8, <2>9
<1> QED BY <1>1, <1>2

\* A plan put together by Plan is well formed when its parts are.
LEMMA PlanType ==
    \A steps \in Steps, gains \in BOOLEAN, type \in TransitionType, group \in Group :
        Plan(type, group, gains, steps) \in PlanRecord
BY DEF Plan, PlanRecord

\* The AddReplica plans are well formed.
LEMMA AddPlanTypes ==
    /\ AddDiskful \in PlanRecord /\ AddDiskfulQMRUp \in PlanRecord
    /\ AddDiskfulQUp \in PlanRecord /\ AddDiskfulQUpQMRUp \in PlanRecord
    /\ AddDiskfulViaSd \in PlanRecord /\ AddDiskfulViaSdQMRUp \in PlanRecord
    /\ AddDiskfulViaSdQUp \in PlanRecord /\ AddDiskfulViaSdQUpQMRUp \in PlanRecord
    /\ AddShadowDiskful \in PlanRecord /\ AddAccess \in PlanRecord
    /\ AddTieBreaker \in PlanRecord
<1> USE DEF Voting, NonVoting, TransitionType, Group
<1>0. /\ Retype("D", "all") \in Step /\ Retype("sD0", "subject") \in Step
      /\ WithRaiseQ(WithVolume(Retype("D0", "all"))) \in Step
      /\ Retype("A", "fm") \in Step /\ Retype("TB", "fm") \in Step
  BY RetypeType, WithType DEF MemberType, Confirm
<1>1. AddDiskful \in PlanRecord /\ AddDiskfulQMRUp \in PlanRecord
  BY StepTypes, ShortSequences, PlanType, Zenon DEF AddDiskful, AddDiskfulQMRUp
<1>2. AddDiskfulQUp \in PlanRecord /\ AddDiskfulQUpQMRUp \in PlanRecord
  BY StepTypes, LongSequences, PlanType, Zenon DEF AddDiskfulQUp, AddDiskfulQUpQMRUp
<1>3. AddDiskfulViaSd \in PlanRecord /\ AddDiskfulViaSdQMRUp \in PlanRecord
  BY <1>0, StepTypes, LongSequences, PlanType, Zenon DEF AddDiskfulViaSd, AddDiskfulViaSdQMRUp
<1>4. AddDiskfulViaSdQUp \in PlanRecord /\ AddDiskfulViaSdQUpQMRUp \in PlanRecord
  BY Zenon, <1>0, StepTypes, LongSequences, PlanType
     DEF AddDiskfulViaSdQUp, AddDiskfulViaSdQUpQMRUp
<1>5. /\ AddShadowDiskful \in PlanRecord /\ AddAccess \in PlanRecord
      /\ AddTieBreaker \in PlanRecord
  BY Zenon, <1>0, ShortSequences, LongSequences, PlanType
     DEF AddShadowDiskful, AddAccess, AddTieBreaker
<1> QED BY <1>1, <1>2, <1>3, <1>4, <1>5

\* The RemoveReplica and ForceRemoveReplica plans are well formed.
LEMMA RemovePlanTypes ==
    /\ RemoveDiskful \in PlanRecord /\ RemoveDiskfulQMRDown \in PlanRecord
    /\ RemoveDiskfulQDown \in PlanRecord /\ RemoveDiskfulQMRDownQDown \in PlanRecord
    /\ RemoveShadowDiskful \in PlanRecord /\ RemoveAccess \in PlanRecord
    /\ RemoveTieBreaker \in PlanRecord
    /\ ForceRemove \in PlanRecord /\ ForceRemoveDiskfulQDown \in PlanRecord
<1> USE DEF Voting, NonVoting, TransitionType, Group
<1>0. /\ Retype(None, "all") \in Step /\ WithLowerQ(Retype(None, "all")) \in Step
      /\ Retype(None, "allLeaving") \in Step /\ Retype(None, "fmLeaving") \in Step
  BY RetypeType, WithType DEF MemberType, Confirm
<1>1. RemoveDiskful \in PlanRecord /\ RemoveDiskfulQMRDown \in PlanRecord
  BY <1>0, StepTypes, ShortSequences, PlanType, Zenon DEF RemoveDiskful, RemoveDiskfulQMRDown
<1>2. RemoveDiskfulQDown \in PlanRecord /\ RemoveDiskfulQMRDownQDown \in PlanRecord
  BY Zenon, <1>0, StepTypes, ShortSequences, PlanType
     DEF RemoveDiskfulQDown, RemoveDiskfulQMRDownQDown
<1>3. /\ RemoveShadowDiskful \in PlanRecord /\ RemoveAccess \in PlanRecord
      /\ RemoveTieBreaker \in PlanRecord
  BY <1>0, ShortSequences, PlanType, Zenon DEF RemoveShadowDiskful, RemoveAccess, RemoveTieBreaker
<1>4. ForceRemove \in PlanRecord /\ ForceRemoveDiskfulQDown \in PlanRecord
  BY <1>0, ShortSequences, PlanType, Zenon DEF ForceRemove, ForceRemoveDiskfulQDown
<1> QED BY <1>1, <1>2, <1>3, <1>4

\* The ChangeReplicaType plans are well formed.
LEMMA ChangePlanTypes ==
    /\ AToTB \in PlanRecord /\ TBToA \in PlanRecord /\ AToSD \in PlanRecord
    /\ SDToA \in PlanRecord /\ TBToSD \in PlanRecord /\ SDToTB \in PlanRecord
    /\ SDToD \in PlanRecord /\ SDToDQUp \in PlanRecord
    /\ DToSD \in PlanRecord /\ DToSDQDown \in PlanRecord
    /\ AToD \in PlanRecord /\ AToDQUp \in PlanRecord
    /\ AToDViaSd \in PlanRecord /\ AToDViaSdQUp \in PlanRecord
    /\ DToA \in PlanRecord /\ DToAQDown \in PlanRecord
    /\ TBToD \in PlanRecord /\ TBToDQUp \in PlanRecord
    /\ TBToDViaSd \in PlanRecord /\ TBToDViaSdQUp \in PlanRecord
    /\ DToTB \in PlanRecord /\ DToTBQDown \in PlanRecord
<1> USE DEF ChangeType, TransitionType, Group
<1>0. /\ Retype("TB", "fm") \in Step /\ Retype("A", "fm") \in Step
      /\ Retype("sD0", "subject") \in Step /\ Retype("sD", "subject") \in Step
      /\ Retype("D", "all") \in Step /\ Retype("sD", "all") \in Step
      /\ WithoutVolume(Retype("A", "all")) \in Step
      /\ WithoutVolume(Retype("TB", "all")) \in Step
      /\ WithLowerQ(Retype("sD0", "all")) \in Step
      /\ WithRaiseQ(CreateLiminal) \in Step
  BY StepTypes, RetypeType, WithType DEF MemberType, Confirm
<1>1. AToTB \in PlanRecord /\ TBToA \in PlanRecord
  BY <1>0, ShortSequences, PlanType, Zenon DEF AToTB, TBToA
<1>2. AToSD \in PlanRecord /\ TBToSD \in PlanRecord /\ SDToDQUp \in PlanRecord
  BY LongSequences, PlanType, Zenon DEF AToSD, TBToSD, SDToDQUp
<1>3. SDToA \in PlanRecord /\ SDToTB \in PlanRecord
  BY <1>0, ShortSequences, PlanType, Zenon DEF SDToA, SDToTB
<1>4. SDToD \in PlanRecord /\ DToSD \in PlanRecord /\ DToSDQDown \in PlanRecord
  BY <1>0, StepTypes, ShortSequences, PlanType, Zenon DEF SDToD, DToSD, DToSDQDown
<1>5. /\ AToD \in PlanRecord /\ AToDQUp \in PlanRecord
      /\ TBToD \in PlanRecord /\ TBToDQUp \in PlanRecord
  BY <1>0, StepTypes, ShortSequences, PlanType, Zenon DEF AToD, AToDQUp, TBToD, TBToDQUp
<1>6. /\ AToDViaSd \in PlanRecord /\ AToDViaSdQUp \in PlanRecord
      /\ TBToDViaSd \in PlanRecord /\ TBToDViaSdQUp \in PlanRecord
  BY <1>0, LongSequences, PlanType, Zenon DEF AToDViaSd, AToDViaSdQUp, TBToDViaSd, TBToDViaSdQUp
<1>7. /\ DToA \in PlanRecord /\ DToAQDown \in PlanRecord
      /\ DToTB \in PlanRecord /\ DToTBQDown \in PlanRecord
  BY <1>0, StepTypes, ShortSequences, PlanType, Zenon DEF DToA, DToAQDown, DToTB, DToTBQDown
<1> QED BY <1>1, <1>2, <1>3, <1>4, <1>5, <1>6, <1>7

\* The ChangeQuorum, attachment and multiattach plans are well formed.
LEMMA OtherPlanTypes ==
    /\ QuorumLower \in PlanRecord /\ QuorumRaise \in PlanRecord
    /\ QuorumLowerQRaiseQMR \in PlanRecord /\ QuorumRaiseQLowerQMR \in PlanRecord
    /\ Attach \in PlanRecord /\ Detach \in PlanRecord /\ ForceDetach \in PlanRecord
    /\ EnableMultiattach \in PlanRecord /\ DisableMultiattach \in PlanRecord
<1> USE DEF TransitionType, Group
<1>1. /\ QuorumLower \in PlanRecord /\ QuorumRaise \in PlanRecord
      /\ QuorumLowerQRaiseQMR \in PlanRecord /\ QuorumRaiseQLowerQMR \in PlanRecord
  BY Zenon, StepTypes, ShortSequences, PlanType
     DEF ChangeQuorum, QuorumLower, QuorumRaise, QuorumLowerQRaiseQMR, QuorumRaiseQLowerQMR
<1>2. /\ Attach \in PlanRecord /\ Detach \in PlanRecord /\ ForceDetach \in PlanRecord
  BY StepTypes, ShortSequences, PlanType, Zenon DEF Confirm, Attach, Detach, ForceDetach
<1>3. EnableMultiattach \in PlanRecord /\ DisableMultiattach \in PlanRecord
  BY StepTypes, ShortSequences, PlanType, Zenon DEF Confirm, EnableMultiattach, DisableMultiattach
<1> QED BY <1>1, <1>2, <1>3

\* The registry holds each plan under its own id.
LEMMA PlanLookup ==
    /\ Registry["AddDiskful"] = AddDiskful /\ Registry["AddDiskfulQMRUp"] = AddDiskfulQMRUp
    /\ Registry["AddDiskfulQUp"] = AddDiskfulQUp
    /\ Registry["AddDiskfulQUpQMRUp"] = AddDiskfulQUpQMRUp
    /\ Registry["AddDiskfulViaSd"] = AddDiskfulViaSd
    /\ Registry["AddDiskfulViaSdQMRUp"] = AddDiskfulViaSdQMRUp
    /\ Registry["AddDiskfulViaSdQUp"] = AddDiskfulViaSdQUp
    /\ Registry["AddDiskfulViaSdQUpQMRUp"] = AddDiskfulViaSdQUpQMRUp
    /\ Registry["AddShadowDiskful"] = AddShadowDiskful /\ Registry["AddAccess"] = AddAccess
    /\ Registry["AddTieBreaker"] = AddTieBreaker
    /\ Registry["RemoveDiskful"] = RemoveDiskful
    /\ Registry["RemoveDiskfulQMRDown"] = RemoveDiskfulQMRDown
    /\ Registry["RemoveDiskfulQDown"] = RemoveDiskfulQDown
    /\ Registry["RemoveDiskfulQMRDownQDown"] = RemoveDiskfulQMRDownQDown
    /\ Registry["RemoveShadowDiskful"] = RemoveShadowDiskful
    /\ Registry["RemoveAccess"] = RemoveAccess
    /\ Registry["RemoveTieBreaker"] = RemoveTieBreaker
    /\ Registry["ForceRemove"] = ForceRemove
    /\ Registry["ForceRemoveDiskfulQDown"] = ForceRemoveDiskfulQDown
    /\ Registry["AToTB"] = AToTB /\ Registry["TBToA"] = TBToA /\ Registry["AToSD"] = AToSD
    /\ Registry["SDToA"] = SDToA /\ Registry["TBToSD"] = TBToSD
    /\ Registry["SDToTB"] = SDToTB /\ Registry["SDToD"] = SDToD
    /\ Registry["SDToDQUp"] = SDToDQUp /\ Registry["DToSD"] = DToSD
    /\ Registry["DToSDQDown"] = DToSDQDown /\ Registry["AToD"] = AToD
    /\ Registry["AToDQUp"] = AToDQUp /\ Registry["AToDViaSd"] = AToDViaSd
    /\ Registry["AToDViaSdQUp"] = AToDViaSdQUp /\ Registry["DToA"] = DToA
    /\ Registry["DToAQDown"] = DToAQDown /\ Registry["TBToD"] = TBToD
    /\ Registry["TBToDQUp"] = TBToDQUp /\ Registry["TBToDViaSd"] = TBToDViaSd
    /\ Registry["TBToDViaSdQUp"] = TBToDViaSdQUp /\ Registry["DToTB"] = DToTB
    /\ Registry["DToTBQDown"] = DToTBQDown /\ Registry["QuorumLower"] = QuorumLower
    /\ Registry["QuorumRaise"] = QuorumRaise
    /\ Registry["QuorumLowerQRaiseQMR"] = QuorumLowerQRaiseQMR
    /\ Registry["QuorumRaiseQLowerQMR"] = QuorumRaiseQLowerQMR
    /\ Registry["Attach"] = Attach /\ Registry["Detach"] = Detach
    /\ Registry["ForceDetach"] = ForceDetach
    /\ Registry["EnableMultiattach"] = EnableMultiattach
    /\ Registry["DisableMultiattach"] = DisableMultiattach
<1>1. /\ Registry["AddDiskful"] = AddDiskful /\ Registry["AddDiskfulQMRUp"] = AddDiskfulQMRUp
      /\ Registry["AddDiskfulQUp"] = AddDiskfulQUp
      /\ Registry["AddDiskfulQUpQMRUp"] = AddDiskfulQUpQMRUp
      /\ Registry["AddDiskfulViaSd"] = AddDiskfulViaSd
      /\ Registry["AddDiskfulViaSdQMRUp"] = AddDiskfulViaSdQMRUp
  BY DEF Registry
<1>2. /\ Registry["AddDiskfulViaSdQUp"] = AddDiskfulViaSdQUp
      /\ Registry["AddDiskfulViaSdQUpQMRUp"] = AddDiskfulViaSdQUpQMRUp
      /\ Registry["AddShadowDiskful"] = AddShadowDiskful /\ Registry["AddAccess"] = AddAccess
      /\ Registry["AddTieBreaker"] = AddTieBreaker
      /\ Registry["RemoveDiskful"] = RemoveDiskful
  BY DEF Registry
<1>3. /\ Registry["RemoveDiskfulQMRDown"] = RemoveDiskfulQMRDown
      /\ Registry["RemoveDiskfulQDown"] = RemoveDiskfulQDown
      /\ Registry["RemoveDiskfulQMRDownQDown"] = RemoveDiskfulQMRDownQDown
      /\ Registry["RemoveShadowDiskful"] = RemoveShadowDiskful
      /\ Registry["RemoveAccess"] = RemoveAccess
      /\ Registry["RemoveTieBreaker"] = RemoveTieBreaker
  BY DEF Registry
<1>4. /\ Registry["ForceRemove"] = ForceRemove
      /\ Registry["ForceRemoveDiskfulQDown"] = ForceRemoveDiskfulQDown
      /\ Registry["AToTB"] = AToTB /\ Registry["TBToA"] = TBToA /\ Registry["AToSD"] = AToSD
      /\ Registry["SDToA"] = SDToA
  BY DEF Registry
<1>5. /\ Registry["TBToSD"] = TBToSD /\ Registry["SDToTB"] = SDToTB
      /\ Registry["SDToD"] = SDToD /\ Registry["SDToDQUp"] = SDToDQUp
      /\ Registry["DToSD"] = DToSD /\ Registry["DToSDQDown"] = DToSDQDown
  BY DEF Registry
<1>6. /\ Registry["AToD"] = AToD /\ Registry["AToDQUp"] = AToDQUp
      /\ Registry["AToDViaSd"] = AToDViaSd /\ Registry["AToDViaSdQUp"] = AToDViaSdQUp
      /\ Registry["DToA"] = DToA /\ Registry["DToAQDown"] = DToAQDown
  BY DEF Registry
<1>7. /\ Registry["TBToD"] = TBToD /\ Registry["TBToDQUp"] = TBToDQUp
      /\ Registry["TBToDViaSd"] = TBToDViaSd /\ Registry["TBToDViaSdQUp"] = TBToDViaSdQUp
      /\ Registry["DToTB"] = DToTB /\ Registry["DToTBQDown"] = DToTBQDown
  BY DEF Registry
<1>8. /\ Registry["QuorumLower"] = QuorumLower /\ Registry["QuorumRaise"] = QuorumRaise
      /\ Registry["QuorumLowerQRaiseQMR"] = QuorumLowerQRaiseQMR
      /\ Registry["QuorumRaiseQLowerQMR"] = QuorumRaiseQLowerQMR
      /\ Registry["Attach"] = Attach /\ Registry["Detach"] = Detach
  BY DEF Registry
<1>9. /\ Registry["ForceDetach"] = ForceDetach
      /\ Registry["EnableMultiattach"] = EnableMultiattach
      /\ Registry["DisableMultiattach"] = DisableMultiattach
  BY DEF Registry
<1> QED BY <1>1, <1>2, <1>3, <1>4, <1>5, <1>6, <1>7, <1>8, <1>9

\* The plan ids of the registry, spelled out.
LEMMA PlanNames ==
    PlanID =
      {"AddDiskful", "AddDiskfulQMRUp", "AddDiskfulQUp", "AddDiskfulQUpQMRUp",
       "AddDiskfulViaSd", "AddDiskfulViaSdQMRUp", "AddDiskfulViaSdQUp",
       "AddDiskfulViaSdQUpQMRUp", "AddShadowDiskful", "AddAccess", "AddTieBreaker",
       "RemoveDiskful", "RemoveDiskfulQMRDown", "RemoveDiskfulQDown",
       "RemoveDiskfulQMRDownQDown", "RemoveShadowDiskful", "RemoveAccess",
       "RemoveTieBreaker", "ForceRemove", "ForceRemoveDiskfulQDown",
       "AToTB", "TBToA", "AToSD", "SDToA", "TBToSD", "SDToTB", "SDToD", "SDToDQUp",
       "DToSD", "DToSDQDown", "AToD", "AToDQUp", "AToDViaSd", "AToDViaSdQUp", "DToA",
       "DToAQDown", "TBToD", "TBToDQUp", "TBToDViaSd", "TBToDViaSdQUp", "DToTB",
       "DToTBQDown", "QuorumLower", "QuorumRaise", "QuorumLowerQRaiseQMR",
       "QuorumRaiseQLowerQMR", "Attach", "Detach", "ForceDetach", "EnableMultiattach",
       "DisableMultiattach"}
BY DEF PlanID, Registry

\* Whatever plan id a persisted transition names, the registry has a
\* well-formed plan for it.
LEMMA RegistryTypes == \A p \in PlanID : Registry[p] \in PlanRecord
<1>1. \A p \in {"AddDiskful", "AddDiskfulQMRUp", "AddDiskfulQUp", "AddDiskfulQUpQMRUp",
                 "AddDiskfulViaSd", "AddDiskfulViaSdQMRUp", "AddDiskfulViaSdQUp",
                 "AddDiskfulViaSdQUpQMRUp", "AddShadowDiskful", "AddAccess", "AddTieBreaker"} :
        Registry[p] \in PlanRecord
  BY Zenon, PlanLookup, AddPlanTypes
<1>2. \A p \in {"RemoveDiskful", "RemoveDiskfulQMRDown", "RemoveDiskfulQDown",
                 "RemoveDiskfulQMRDownQDown", "RemoveShadowDiskful", "RemoveAccess",
                 "RemoveTieBreaker", "ForceRemove", "ForceRemoveDiskfulQDown"} :
        Registry[p] \in PlanRecord
  BY Zenon, PlanLookup, RemovePlanTypes
<1>3. \A p \in {"AToTB", "TBToA", "AToSD", "SDToA", "TBToSD", "SDToTB", "SDToD", "SDToDQUp",
                 "DToSD", "DToSDQDown", "AToD"} :
        Registry[p] \in PlanRecord
  BY Zenon, PlanLookup, ChangePlanTypes
<1>4. \A p \in {"AToDQUp", "AToDViaSd", "AToDViaSdQUp", "DToA", "DToAQDown", "TBToD",
                 "TBToDQUp", "TBToDViaSd", "TBToDViaSdQUp", "DToTB", "DToTBQDown"} :
        Registry[p] \in PlanRecord
  BY Zenon, PlanLookup, ChangePlanTypes
<1>5. \A p \in {"QuorumLower", "QuorumRaise", "QuorumLowerQRaiseQMR", "QuorumRaiseQLowerQMR",
                 "Attach", "Detach", "ForceDetach", "EnableMultiattach", "DisableMultiattach"} :
        Registry[p] \in PlanRecord
  BY Zenon, PlanLookup, OtherPlanTypes
<1> QED BY PlanNames, <1>1, <1>2, <1>3, <1>4, <1>5

----------------------------------------------------------------------------
(***************************************************************************)
(* What the plans do to their subject.                                     *)
(***************************************************************************)

\* Steps that leave the attachment flags alone, those that moreover keep the subject
\* a member and wait for it to confirm, and those that leave the member list alone.
MembershipStep == {x \in Step : x.flag = "keep"}

StayingConfirm == {"subject", "fm", "all"}

StayingStep == {x \in MembershipStep : x.to # None /\ x.confirm \in StayingConfirm}

QuorumStep == {x \in MembershipStep : x.to = "keep"}

\* A plan that makes its subject a member with its first step and keeps it one.
Entering(plan) == plan.steps \in Seq(StayingStep) /\ plan.steps[1].to \in MemberType

\* The decorations of a step leave its subject's type, its flag and its confirmation alone.
LEMMA WithKeeps ==
    ASSUME NEW x \in Step
    PROVE  /\ WithVolume(x) \in Step /\ WithVolume(x).to = x.to
           /\ WithVolume(x).flag = x.flag /\ WithVolume(x).confirm = x.confirm
           /\ WithoutVolume(x) \in Step /\ WithoutVolume(x).to = x.to
           /\ WithoutVolume(x).flag = x.flag /\ WithoutVolume(x).confirm = x.confirm
           /\ WithRaiseQ(x) \in Step /\ WithRaiseQ(x).to = x.to
           /\ WithRaiseQ(x).flag = x.flag /\ WithRaiseQ(x).confirm = x.confirm
           /\ WithLowerQ(x) \in Step /\ WithLowerQ(x).to = x.to
           /\ WithLowerQ(x).flag = x.flag /\ WithLowerQ(x).confirm = x.confirm
BY DEF WithVolume, WithoutVolume, WithRaiseQ, WithLowerQ, Step

\* Steps that make the subject a member of some type, whatever else they do.
LEMMA EnteringSteps ==
    ASSUME NEW t \in MemberType, NEW who \in StayingConfirm
    PROVE  /\ Retype(t, who) \in StayingStep /\ Retype(t, who).to = t
           /\ WithVolume(Retype(t, who)) \in StayingStep
           /\ WithVolume(Retype(t, who)).to = t
           /\ WithoutVolume(Retype(t, who)) \in StayingStep
           /\ WithLowerQ(Retype(t, who)) \in StayingStep
           /\ WithRaiseQ(Retype(t, who)) \in StayingStep
           /\ WithRaiseQ(WithVolume(Retype(t, who))) \in StayingStep
           /\ WithRaiseQ(WithVolume(Retype(t, who))).to = t
           /\ WithLowerQ(WithoutVolume(Retype(t, who))) \in StayingStep
<1>0. t # None
  BY DEF MemberType, None
<1>1. /\ Retype(t, who) \in Step /\ Retype(t, who).to = t
      /\ Retype(t, who).flag = "keep" /\ Retype(t, who).confirm = who
  BY RetypeType, Zenon DEF Retype, NoOp, StayingConfirm, Confirm
<1>2. \A x \in Step :
        /\ WithVolume(x) \in Step /\ WithVolume(x).to = x.to
        /\ WithVolume(x).flag = x.flag /\ WithVolume(x).confirm = x.confirm
        /\ WithoutVolume(x) \in Step /\ WithoutVolume(x).to = x.to
        /\ WithoutVolume(x).flag = x.flag /\ WithoutVolume(x).confirm = x.confirm
        /\ WithRaiseQ(x) \in Step /\ WithRaiseQ(x).to = x.to
        /\ WithRaiseQ(x).flag = x.flag /\ WithRaiseQ(x).confirm = x.confirm
        /\ WithLowerQ(x) \in Step /\ WithLowerQ(x).to = x.to
        /\ WithLowerQ(x).flag = x.flag /\ WithLowerQ(x).confirm = x.confirm
  BY WithKeeps
<1>3. \A x \in Step : x.to = t /\ x.flag = "keep" /\ x.confirm = who => x \in StayingStep
  BY <1>0 DEF StayingStep, MembershipStep
<1> QED BY <1>1, <1>2, <1>3

\* The steps and step sequences the plans are put together from.
LEMMA StayingSteps ==
    /\ CreateLiminal \in StayingStep /\ CreateLiminal.to = "D0"
    /\ WithRaiseQ(CreateLiminal) \in StayingStep /\ WithRaiseQ(CreateLiminal).to = "D0"
    /\ AttachDisk \in StayingStep /\ DetachDisk \in StayingStep /\ DetachDisk.to = "D0"
    /\ RaiseQMR \in StayingStep /\ LowerQMR \in StayingStep
    /\ DemoteQDown("A") \in StayingStep /\ DemoteQDown("TB") \in StayingStep
    /\ AccessVestibule \in Seq(StayingStep) /\ AccessVestibule[1].to = "A"
    /\ Len(AccessVestibule) = 2
    /\ ShadowPreSync \in Seq(StayingStep) /\ ShadowPreSync[1].to = "sD0"
    /\ Len(ShadowPreSync) = 2
    /\ ShadowToVoterQUp \in Seq(StayingStep) /\ ShadowToVoterQUp[1].to = "sD0"
<1> USE DEF MemberType, StayingConfirm
<1>1. /\ CreateLiminal \in StayingStep /\ CreateLiminal.to = "D0"
      /\ WithRaiseQ(CreateLiminal) \in StayingStep /\ WithRaiseQ(CreateLiminal).to = "D0"
  BY EnteringSteps DEF CreateLiminal
<1>2. AttachDisk \in StayingStep /\ DetachDisk \in StayingStep /\ DetachDisk.to = "D0"
  BY EnteringSteps DEF AttachDisk, DetachDisk
<1>3. RaiseQMR \in StayingStep /\ LowerQMR \in StayingStep
  BY StepTypes, Zenon DEF RaiseQMR, LowerQMR, NoOp, StayingStep, MembershipStep, None
<1>4. DemoteQDown("A") \in StayingStep /\ DemoteQDown("TB") \in StayingStep
  BY EnteringSteps DEF DemoteQDown
<1>5. /\ AccessVestibule \in Seq(StayingStep) /\ AccessVestibule[1].to = "A"
      /\ Len(AccessVestibule) = 2
  <2>1. /\ Retype("A", "fm") \in StayingStep /\ Retype("A", "fm").to = "A"
        /\ WithRaiseQ(WithVolume(Retype("D0", "all"))) \in StayingStep
    BY EnteringSteps
  <2> QED BY <2>1 DEF AccessVestibule
<1>6. /\ ShadowPreSync \in Seq(StayingStep) /\ ShadowPreSync[1].to = "sD0"
      /\ Len(ShadowPreSync) = 2
  <2>1. /\ WithVolume(Retype("sD0", "all")) \in StayingStep
        /\ WithVolume(Retype("sD0", "all")).to = "sD0"
        /\ Retype("sD", "subject") \in StayingStep
    BY EnteringSteps
  <2> QED BY <2>1 DEF ShadowPreSync
<1>7. ShadowToVoterQUp \in Seq(StayingStep) /\ ShadowToVoterQUp[1].to = "sD0"
  <2>1. /\ Retype("sD0", "subject") \in StayingStep /\ Retype("sD0", "subject").to = "sD0"
        /\ WithRaiseQ(Retype("D0", "all")) \in StayingStep
    BY EnteringSteps
  <2> QED BY <1>2, <2>1 DEF ShadowToVoterQUp
<1> QED BY <1>1, <1>2, <1>3, <1>4, <1>5, <1>6, <1>7

\* What is put behind a first pair of steps leaves its first step the first.
LEMMA Prolonged ==
    ASSUME NEW x \in Seq(StayingStep), Len(x) = 2
    PROVE  /\ \A y \in Seq(StayingStep) : x \o y \in Seq(StayingStep) /\ (x \o y)[1] = x[1]
           /\ \A a \in StayingStep :
                 Append(x, a) \in Seq(StayingStep) /\ Append(x, a)[1] = x[1]
<1>1. ASSUME NEW y \in Seq(StayingStep)
      PROVE  x \o y \in Seq(StayingStep) /\ (x \o y)[1] = x[1]
  <2>1. x \o y \in Seq(StayingStep)
    OBVIOUS
  <2>2. (x \o y)[1] = x[1]
    OBVIOUS
  <2> QED BY <2>1, <2>2
<1>2. ASSUME NEW a \in StayingStep
      PROVE  Append(x, a) \in Seq(StayingStep) /\ Append(x, a)[1] = x[1]
  OBVIOUS
<1> QED BY <1>1, <1>2

\* Every AddReplica plan makes its subject a member at once and keeps it one.
LEMMA AddPlansEnter ==
    /\ Entering(AddDiskful) /\ Entering(AddDiskfulQMRUp)
    /\ Entering(AddDiskfulQUp) /\ Entering(AddDiskfulQUpQMRUp)
    /\ Entering(AddDiskfulViaSd) /\ Entering(AddDiskfulViaSdQMRUp)
    /\ Entering(AddDiskfulViaSdQUp) /\ Entering(AddDiskfulViaSdQUpQMRUp)
    /\ Entering(AddShadowDiskful) /\ Entering(AddAccess) /\ Entering(AddTieBreaker)
<1> USE DEF Entering, Voting, NonVoting, Plan, MemberType
<1>0. /\ Retype("D", "all") \in StayingStep /\ Retype("sD0", "subject") \in StayingStep
      /\ WithRaiseQ(WithVolume(Retype("D0", "all"))) \in StayingStep
      /\ Retype("A", "fm") \in StayingStep /\ Retype("TB", "fm") \in StayingStep
      /\ Retype("A", "fm").to = "A" /\ Retype("TB", "fm").to = "TB"
  BY EnteringSteps DEF StayingConfirm
<1>1. Entering(AddDiskful) /\ Entering(AddDiskfulQMRUp)
  BY StayingSteps DEF AddDiskful, AddDiskfulQMRUp
<1>2. Entering(AddDiskfulQUp) /\ Entering(AddDiskfulQUpQMRUp)
  <2>1. <<AttachDisk, RaiseQMR>> \in Seq(StayingStep)
    BY StayingSteps
  <2> QED BY <2>1, StayingSteps, Prolonged DEF AddDiskfulQUp, AddDiskfulQUpQMRUp
<1>3. Entering(AddDiskfulViaSd) /\ Entering(AddDiskfulViaSdQMRUp)
  <2>1. <<Retype("D", "all"), RaiseQMR>> \in Seq(StayingStep)
    BY <1>0, StayingSteps
  <2> QED BY <1>0, <2>1, StayingSteps, Prolonged DEF AddDiskfulViaSd, AddDiskfulViaSdQMRUp
<1>4. Entering(AddDiskfulViaSdQUp) /\ Entering(AddDiskfulViaSdQUpQMRUp)
  <2>1. /\ <<Retype("sD0", "subject"), WithRaiseQ(WithVolume(Retype("D0", "all"))),
             AttachDisk>> \in Seq(StayingStep)
        /\ <<Retype("sD0", "subject"), WithRaiseQ(WithVolume(Retype("D0", "all"))),
             AttachDisk, RaiseQMR>> \in Seq(StayingStep)
    BY <1>0, StayingSteps
  <2> QED BY <2>1, StayingSteps, Prolonged DEF AddDiskfulViaSdQUp, AddDiskfulViaSdQUpQMRUp
<1>5. Entering(AddShadowDiskful) /\ Entering(AddAccess) /\ Entering(AddTieBreaker)
  BY <1>0, StayingSteps DEF AddShadowDiskful, AddAccess, AddTieBreaker
<1> QED BY <1>1, <1>2, <1>3, <1>4, <1>5

\* So does every ChangeReplicaType plan.
LEMMA ChangePlansEnter ==
    /\ Entering(AToTB) /\ Entering(TBToA) /\ Entering(AToSD) /\ Entering(SDToA)
    /\ Entering(TBToSD) /\ Entering(SDToTB) /\ Entering(SDToD) /\ Entering(SDToDQUp)
    /\ Entering(DToSD) /\ Entering(DToSDQDown) /\ Entering(AToD) /\ Entering(AToDQUp)
    /\ Entering(AToDViaSd) /\ Entering(AToDViaSdQUp) /\ Entering(DToA)
    /\ Entering(DToAQDown) /\ Entering(TBToD) /\ Entering(TBToDQUp)
    /\ Entering(TBToDViaSd) /\ Entering(TBToDViaSdQUp) /\ Entering(DToTB)
    /\ Entering(DToTBQDown)
<1> USE DEF Entering, ChangeType, Plan, MemberType
<1>0. /\ \A t \in {"A", "TB"} :
            /\ Retype(t, "fm") \in StayingStep /\ Retype(t, "fm").to = t
            /\ WithoutVolume(Retype(t, "all")) \in StayingStep
      /\ \A t \in {"D", "sD"} :
            Retype(t, "all") \in StayingStep /\ Retype(t, "all").to = t
      /\ Retype("sD0", "subject") \in StayingStep /\ Retype("sD0", "subject").to = "sD0"
      /\ WithLowerQ(Retype("sD0", "all")) \in StayingStep
      /\ Retype("sD", "subject") \in StayingStep
  BY EnteringSteps DEF StayingConfirm
<1>1. Entering(AToTB) /\ Entering(TBToA)
  BY <1>0 DEF AToTB, TBToA
<1>2. Entering(AToSD) /\ Entering(TBToSD) /\ Entering(SDToDQUp)
  BY StayingSteps DEF AToSD, TBToSD, SDToDQUp
<1>3. Entering(SDToA) /\ Entering(SDToTB)
  BY <1>0 DEF SDToA, SDToTB
<1>4. Entering(SDToD) /\ Entering(DToSD) /\ Entering(DToSDQDown)
  BY <1>0, StayingSteps DEF SDToD, DToSD, DToSDQDown
<1>5. Entering(AToD) /\ Entering(AToDQUp) /\ Entering(TBToD) /\ Entering(TBToDQUp)
  BY StayingSteps DEF AToD, AToDQUp, TBToD, TBToDQUp
<1>6. /\ Entering(AToDViaSd) /\ Entering(AToDViaSdQUp)
      /\ Entering(TBToDViaSd) /\ Entering(TBToDViaSdQUp)
  BY <1>0, StayingSteps, Prolonged DEF AToDViaSd, AToDViaSdQUp, TBToDViaSd, TBToDViaSdQUp
<1>7. Entering(DToA) /\ Entering(DToAQDown) /\ Entering(DToTB) /\ Entering(DToTBQDown)
  BY <1>0, StayingSteps DEF DToA, DToAQDown, DToTB, DToTBQDown
<1> QED BY <1>1, <1>2, <1>3, <1>4, <1>5, <1>6, <1>7

\* No membership or quorum plan touches an attachment flag, and the ChangeQuorum plans
\* leave the member list alone; a ForceRemoveReplica has a single step.
LEMMA RemovePlanSteps ==
    /\ \A plan \in {RemoveDiskful, RemoveDiskfulQMRDown, RemoveDiskfulQDown,
                    RemoveDiskfulQMRDownQDown, RemoveShadowDiskful, RemoveAccess,
                    RemoveTieBreaker} : plan.steps \in Seq(MembershipStep)
    /\ \A plan \in {ForceRemove, ForceRemoveDiskfulQDown} :
          plan.steps \in Seq(MembershipStep) /\ Len(plan.steps) = 1
    /\ \A plan \in {QuorumLower, QuorumRaise, QuorumLowerQRaiseQMR, QuorumRaiseQLowerQMR} :
          plan.steps \in Seq(QuorumStep)
<1> USE DEF Voting, NonVoting, Plan
<1>0. /\ \A who \in {"all", "allLeaving", "fmLeaving"} : Retype(None, who) \in MembershipStep
      /\ WithLowerQ(Retype(None, "all")) \in MembershipStep
  <2>1. \A who \in Confirm : Retype(None, who) \in Step /\ Retype(None, who).flag = "keep"
    BY RetypeType, Zenon DEF Retype, NoOp
  <2>2. \A x \in Step : WithLowerQ(x) \in Step /\ WithLowerQ(x).flag = x.flag
    <3> SUFFICES ASSUME NEW x \in Step PROVE WithLowerQ(x).flag = x.flag
      BY WithType
    <3> QED BY Zenon DEF WithLowerQ, Step
  <2> QED BY <2>1, <2>2 DEF Confirm, MembershipStep
<1>1. /\ DetachDisk \in MembershipStep /\ LowerQMR \in MembershipStep
      /\ DemoteQDown("A") \in MembershipStep
  BY StayingSteps DEF StayingStep
<1>2. FixQ \in QuorumStep /\ FixQMRDown \in QuorumStep /\ FixQMRUp \in QuorumStep
  BY StepTypes, Zenon DEF FixQ, FixQMRDown, FixQMRUp, NoOp, QuorumStep, MembershipStep
<1>3. /\ RemoveDiskful.steps \in Seq(MembershipStep)
      /\ RemoveDiskfulQMRDown.steps \in Seq(MembershipStep)
      /\ RemoveDiskfulQDown.steps \in Seq(MembershipStep)
      /\ RemoveDiskfulQMRDownQDown.steps \in Seq(MembershipStep)
  BY <1>0, <1>1 DEF RemoveDiskful, RemoveDiskfulQMRDown, RemoveDiskfulQDown,
                    RemoveDiskfulQMRDownQDown
<1>4. /\ RemoveShadowDiskful.steps \in Seq(MembershipStep)
      /\ RemoveAccess.steps \in Seq(MembershipStep)
      /\ RemoveTieBreaker.steps \in Seq(MembershipStep)
  BY <1>0 DEF RemoveShadowDiskful, RemoveAccess, RemoveTieBreaker
<1>5. /\ ForceRemove.steps \in Seq(MembershipStep) /\ Len(ForceRemove.steps) = 1
      /\ ForceRemoveDiskfulQDown.steps \in Seq(MembershipStep)
      /\ Len(ForceRemoveDiskfulQDown.steps) = 1
  BY <1>0 DEF ForceRemove, ForceRemoveDiskfulQDown
<1>6. /\ QuorumLower.steps \in Seq(QuorumStep) /\ QuorumRaise.steps \in Seq(QuorumStep)
      /\ QuorumLowerQRaiseQMR.steps \in Seq(QuorumStep)
      /\ QuorumRaiseQLowerQMR.steps \in Seq(QuorumStep)
  BY <1>2 DEF QuorumLower, QuorumRaise, QuorumLowerQRaiseQMR, QuorumRaiseQLowerQMR,
              ChangeQuorum
<1> QED BY <1>3, <1>4, <1>5, <1>6

\* The ids of the plans by transition type.
ForceRemovePlan == {"ForceRemove", "ForceRemoveDiskfulQDown"}

RemovePlan ==
    {"RemoveDiskful", "RemoveDiskfulQMRDown", "RemoveDiskfulQDown",
     "RemoveDiskfulQMRDownQDown", "RemoveShadowDiskful", "RemoveAccess", "RemoveTieBreaker"}

AddPlan ==
    {"AddDiskful", "AddDiskfulQMRUp", "AddDiskfulQUp", "AddDiskfulQUpQMRUp",
     "AddDiskfulViaSd", "AddDiskfulViaSdQMRUp", "AddDiskfulViaSdQUp",
     "AddDiskfulViaSdQUpQMRUp", "AddShadowDiskful", "AddAccess", "AddTieBreaker"}

ChangePlan ==
    {"AToTB", "TBToA", "AToSD", "SDToA", "TBToSD", "SDToTB", "SDToD", "SDToDQUp", "DToSD",
     "DToSDQDown", "AToD", "AToDQUp", "AToDViaSd", "AToDViaSdQUp", "DToA", "DToAQDown",
     "TBToD", "TBToDQUp", "TBToDViaSd", "TBToDViaSdQUp", "DToTB", "DToTBQDown"}

ChangeQuorumPlan ==
    {"QuorumLower", "QuorumRaise", "QuorumLowerQRaiseQMR", "QuorumRaiseQLowerQMR"}

\* What the plans of each transition type do to their subject.
LEMMA PlanShapes ==
    /\ \A p \in AddPlan : Registry[p].type = "AddReplica" /\ Entering(Registry[p])
    /\ \A p \in ChangePlan : Registry[p].type = "ChangeReplicaType" /\ Entering(Registry[p])
    /\ \A p \in RemovePlan :
          Registry[p].type = "RemoveReplica" /\ Registry[p].steps \in Seq(MembershipStep)
    /\ \A p \in ForceRemovePlan :
          /\ Registry[p].type = "ForceRemoveReplica"
          /\ Registry[p].steps \in Seq(MembershipStep) /\ Len(Registry[p].steps) = 1
    /\ \A p \in ChangeQuorumPlan :
          Registry[p].type = "ChangeQuorum" /\ Registry[p].steps \in Seq(QuorumStep)
<1>1. \A p \in AddPlan : Registry[p].type = "AddReplica" /\ Entering(Registry[p])
  <2>1. \A p \in AddPlan : Entering(Registry[p])
    BY PlanLookup, AddPlansEnter DEF AddPlan
  <2>2. /\ AddDiskful.type = "AddReplica" /\ AddDiskfulQMRUp.type = "AddReplica"
        /\ AddDiskfulQUp.type = "AddReplica" /\ AddDiskfulQUpQMRUp.type = "AddReplica"
        /\ AddDiskfulViaSd.type = "AddReplica" /\ AddDiskfulViaSdQMRUp.type = "AddReplica"
        /\ AddDiskfulViaSdQUp.type = "AddReplica" /\ AddDiskfulViaSdQUpQMRUp.type = "AddReplica"
        /\ AddShadowDiskful.type = "AddReplica" /\ AddAccess.type = "AddReplica"
        /\ AddTieBreaker.type = "AddReplica"
    BY DEF Plan, Voting, NonVoting, AddDiskful, AddDiskfulQMRUp,
           AddDiskfulQUp, AddDiskfulQUpQMRUp, AddDiskfulViaSd, AddDiskfulViaSdQMRUp,
           AddDiskfulViaSdQUp, AddDiskfulViaSdQUpQMRUp, AddShadowDiskful, AddAccess,
           AddTieBreaker
  <2>3. \A p \in AddPlan : Registry[p].type = "AddReplica"
    BY PlanLookup, <2>2 DEF AddPlan
  <2> QED BY <2>1, <2>3
<1>2. \A p \in ChangePlan : Registry[p].type = "ChangeReplicaType" /\ Entering(Registry[p])
  <2>1. \A p \in ChangePlan : Entering(Registry[p])
    BY PlanLookup, ChangePlansEnter DEF ChangePlan
  <2>2. /\ AToTB.type = "ChangeReplicaType" /\ TBToA.type = "ChangeReplicaType"
        /\ AToSD.type = "ChangeReplicaType" /\ SDToA.type = "ChangeReplicaType"
        /\ TBToSD.type = "ChangeReplicaType" /\ SDToTB.type = "ChangeReplicaType"
        /\ SDToD.type = "ChangeReplicaType" /\ SDToDQUp.type = "ChangeReplicaType"
        /\ DToSD.type = "ChangeReplicaType" /\ DToSDQDown.type = "ChangeReplicaType"
        /\ AToD.type = "ChangeReplicaType"
    BY DEF ChangeType, Plan, AToTB, TBToA, AToSD, SDToA, TBToSD, SDToTB, SDToD, SDToDQUp, DToSD, DToSDQDown,
           AToD
  <2>3. /\ AToDQUp.type = "ChangeReplicaType" /\ AToDViaSd.type = "ChangeReplicaType"
        /\ AToDViaSdQUp.type = "ChangeReplicaType" /\ DToA.type = "ChangeReplicaType"
        /\ DToAQDown.type = "ChangeReplicaType" /\ TBToD.type = "ChangeReplicaType"
        /\ TBToDQUp.type = "ChangeReplicaType" /\ TBToDViaSd.type = "ChangeReplicaType"
        /\ TBToDViaSdQUp.type = "ChangeReplicaType" /\ DToTB.type = "ChangeReplicaType"
        /\ DToTBQDown.type = "ChangeReplicaType"
    BY DEF ChangeType, Plan, AToDQUp, AToDViaSd, AToDViaSdQUp, DToA, DToAQDown, TBToD, TBToDQUp, TBToDViaSd,
           TBToDViaSdQUp, DToTB, DToTBQDown
  <2>4. \A p \in ChangePlan : Registry[p].type = "ChangeReplicaType"
    BY PlanLookup, <2>2, <2>3 DEF ChangePlan
  <2> QED BY <2>1, <2>4
<1>3. \A p \in RemovePlan :
          Registry[p].type = "RemoveReplica" /\ Registry[p].steps \in Seq(MembershipStep)
  <2>1. \A p \in RemovePlan : Registry[p].steps \in Seq(MembershipStep)
    BY PlanLookup, RemovePlanSteps DEF RemovePlan
  <2>2. /\ RemoveDiskful.type = "RemoveReplica"
        /\ RemoveDiskfulQMRDown.type = "RemoveReplica"
        /\ RemoveDiskfulQDown.type = "RemoveReplica"
        /\ RemoveDiskfulQMRDownQDown.type = "RemoveReplica"
        /\ RemoveShadowDiskful.type = "RemoveReplica" /\ RemoveAccess.type = "RemoveReplica"
        /\ RemoveTieBreaker.type = "RemoveReplica"
    BY DEF Voting, NonVoting, Plan, RemoveDiskful, RemoveDiskfulQMRDown, RemoveDiskfulQDown,
           RemoveDiskfulQMRDownQDown, RemoveShadowDiskful, RemoveAccess, RemoveTieBreaker
  <2>3. \A p \in RemovePlan : Registry[p].type = "RemoveReplica"
    BY PlanLookup, <2>2 DEF RemovePlan
  <2> QED BY <2>1, <2>3
<1>4. \A p \in ForceRemovePlan :
          /\ Registry[p].type = "ForceRemoveReplica"
          /\ Registry[p].steps \in Seq(MembershipStep) /\ Len(Registry[p].steps) = 1
  <2>1. \A p \in ForceRemovePlan :
          Registry[p].steps \in Seq(MembershipStep) /\ Len(Registry[p].steps) = 1
    BY PlanLookup, RemovePlanSteps DEF ForceRemovePlan
  <2>2. \A p \in ForceRemovePlan : Registry[p].type = "ForceRemoveReplica"
    BY PlanLookup DEF ForceRemovePlan, Plan, ForceRemove, ForceRemoveDiskfulQDown
  <2> QED BY <2>1, <2>2
<1>5. \A p \in ChangeQuorumPlan :
          Registry[p].type = "ChangeQuorum" /\ Registry[p].steps \in Seq(QuorumStep)
  <2>1. \A p \in ChangeQuorumPlan : Registry[p].steps \in Seq(QuorumStep)
    BY PlanLookup, RemovePlanSteps DEF ChangeQuorumPlan
  <2>2. /\ QuorumLower.type = "ChangeQuorum" /\ QuorumRaise.type = "ChangeQuorum"
        /\ QuorumLowerQRaiseQMR.type = "ChangeQuorum"
        /\ QuorumRaiseQLowerQMR.type = "ChangeQuorum"
    BY DEF Plan, ChangeQuorum, QuorumLower, QuorumRaise, QuorumLowerQRaiseQMR,
           QuorumRaiseQLowerQMR
  <2>3. \A p \in ChangeQuorumPlan : Registry[p].type = "ChangeQuorum"
    BY PlanLookup, <2>2 DEF ChangeQuorumPlan
  <2> QED BY <2>1, <2>3
<1> QED BY <1>1, <1>2, <1>3, <1>4, <1>5

\* The attachment and multiattach plans have a single step, which sets or clears a flag
\* and leaves the member list alone.
LEMMA FlagPlans ==
    \A p \in {"Attach", "Detach", "ForceDetach", "EnableMultiattach", "DisableMultiattach"} :
        /\ p \in PlanID /\ Registry[p].type = p
        /\ Len(Registry[p].steps) = 1 /\ Registry[p].steps[1].to = "keep"
        /\ Registry[p].steps[1].flag =
             CASE p = "Attach" -> "attach" [] p \in {"Detach", "ForceDetach"} -> "detach"
               [] p = "EnableMultiattach" -> "enable" [] OTHER -> "disable"
        /\ Registry[p].steps[1].confirm =
             CASE p = "Attach" -> "subject" [] p = "Detach" -> "subjectLeavingOrGone"
               [] p = "ForceDetach" -> "immediate" [] OTHER -> "multiattach"
<1> USE DEF Plan, Flag, NoOp
<1>1. /\ Attach.type = "Attach" /\ Len(Attach.steps) = 1 /\ Attach.steps[1].to = "keep"
      /\ Attach.steps[1].flag = "attach" /\ Attach.steps[1].confirm = "subject"
  BY Zenon DEF Attach
<1>2. /\ Detach.type = "Detach" /\ Len(Detach.steps) = 1 /\ Detach.steps[1].to = "keep"
      /\ Detach.steps[1].flag = "detach"
      /\ Detach.steps[1].confirm = "subjectLeavingOrGone"
  BY Zenon DEF Detach
<1>3. /\ ForceDetach.type = "ForceDetach" /\ Len(ForceDetach.steps) = 1
      /\ ForceDetach.steps[1].to = "keep" /\ ForceDetach.steps[1].flag = "detach"
      /\ ForceDetach.steps[1].confirm = "immediate"
  BY Zenon DEF ForceDetach
<1>4. /\ EnableMultiattach.type = "EnableMultiattach" /\ Len(EnableMultiattach.steps) = 1
      /\ EnableMultiattach.steps[1].to = "keep"
      /\ EnableMultiattach.steps[1].flag = "enable"
      /\ EnableMultiattach.steps[1].confirm = "multiattach"
  BY Zenon DEF EnableMultiattach
<1>5. /\ DisableMultiattach.type = "DisableMultiattach" /\ Len(DisableMultiattach.steps) = 1
      /\ DisableMultiattach.steps[1].to = "keep"
      /\ DisableMultiattach.steps[1].flag = "disable"
      /\ DisableMultiattach.steps[1].confirm = "multiattach"
  BY Zenon DEF DisableMultiattach
<1>6. /\ Registry["Attach"] = Attach /\ Registry["Detach"] = Detach
      /\ Registry["ForceDetach"] = ForceDetach
      /\ Registry["EnableMultiattach"] = EnableMultiattach
      /\ Registry["DisableMultiattach"] = DisableMultiattach
  BY PlanLookup
<1> HIDE DEF Plan, Flag, NoOp
<1> QED BY <1>1, <1>2, <1>3, <1>4, <1>5, <1>6, PlanNames

\* The last step takes the subject off the member list, and no other does.
Leaving(x) == x[Len(x)].to = None /\ \A k \in 1 .. Len(x) - 1 : x[k].to # None

\* A RemoveReplica plan removes its subject with its last step, a ForceRemoveReplica with
\* its only one, as an emergency that nothing holds up.
LEMMA LeavingPlans ==
    /\ \A p \in RemovePlan : Leaving(Registry[p].steps)
    /\ \A p \in ForceRemovePlan :
          /\ Registry[p].steps[1].to = None
          /\ Registry[p].group = "Emergency" /\ Registry[p].gainsDisk = FALSE
<1> USE DEF Voting, NonVoting, Plan
<1>0. /\ \A who \in {"all", "allLeaving", "fmLeaving"} : Retype(None, who).to = None
      /\ WithLowerQ(Retype(None, "all")).to = None
  BY DEF Retype, NoOp, WithLowerQ
<1>1. DetachDisk.to # None /\ LowerQMR.to # None /\ DemoteQDown("A").to # None
  BY StayingSteps DEF StayingStep
<1>2. Leaving(RemoveDiskful.steps) /\ Leaving(RemoveDiskfulQMRDown.steps)
  BY <1>0, <1>1 DEF RemoveDiskful, RemoveDiskfulQMRDown, Leaving
<1>3. Leaving(RemoveDiskfulQDown.steps) /\ Leaving(RemoveDiskfulQMRDownQDown.steps)
  BY <1>0, <1>1 DEF RemoveDiskfulQDown, RemoveDiskfulQMRDownQDown, Leaving
<1>4. /\ Leaving(RemoveShadowDiskful.steps) /\ Leaving(RemoveAccess.steps)
      /\ Leaving(RemoveTieBreaker.steps)
  BY <1>0 DEF RemoveShadowDiskful, RemoveAccess, RemoveTieBreaker, Leaving
<1>5. \A plan \in {ForceRemove, ForceRemoveDiskfulQDown} :
          plan.steps[1].to = None /\ plan.group = "Emergency" /\ plan.gainsDisk = FALSE
  BY <1>0 DEF ForceRemove, ForceRemoveDiskfulQDown
<1>6. \A p \in RemovePlan : Leaving(Registry[p].steps)
  BY PlanLookup, <1>2, <1>3, <1>4 DEF RemovePlan
<1>7. \A p \in ForceRemovePlan : Registry[p] \in {ForceRemove, ForceRemoveDiskfulQDown}
  BY PlanLookup DEF ForceRemovePlan
<1> QED BY <1>5, <1>6, <1>7

\* Attaching and detaching are serialised with each other and with the multiattach toggle.
LEMMA AttachmentGroup == \A p \in {"Attach", "Detach"} : Registry[p].group = "Attachment"
<1>1. Attach.group = "Attachment" /\ Detach.group = "Attachment"
  BY DEF Attach, Detach, Plan
<1>2. Registry["Attach"] = Attach /\ Registry["Detach"] = Detach
  BY PlanLookup
<1> QED BY <1>1, <1>2

----------------------------------------------------------------------------
(* The engine *)

\* x and s have the same transitions.
SameSlots(x, s) == x.mt = s.mt /\ x.at = s.at /\ x.qt = s.qt /\ x.xt = s.xt

\* What the proofs use of counting: a set of replicas has at most 32 elements, and one of at
\* most one element does not hold two.  DatameshSafety_proofs shows it.
Counted ==
    \A S \in SUBSET Replicas :
        Cardinality(S) \in 0 .. 32 /\ (Cardinality(S) <= 1 => \A a, b \in S : a = b)

\* What the operators on states read of their surroundings.
EnvTyped == Counted /\ cfg \in Configuration /\ rvr \in [Replicas -> RVR]

\* There are at most 32 replicas, so the byte counters voterCount and
\* upToDateDiskfulCount do not wrap.
LEMMA VoterCounts ==
    ASSUME Counted
    PROVE  \A s : voterCount(s) \in 0 .. 32 /\ upToDateDiskfulCount(s) \in 0 .. 32
<1>1. \A S \in SUBSET Replicas : Cardinality(S) \in 0 .. 32
  BY Zenon DEF Counted
<1> QED BY <1>1 DEF voterCount, Voters, upToDateDiskfulCount, upToDateDiskful

\* What computeCorrectQuorum and updateBaselineGMDR compute fits a byte.
LEMMA QuorumBytes ==
    ASSUME Counted, cfg \in Configuration, NEW s, s.qmr \in 0 .. 255
    PROVE  /\ CorrectQ(s) \in 0 .. 255 /\ CorrectQMR(s) \in 0 .. 255
           /\ \A n \in 0 .. 255 : BaselineGMDR(n) \in 0 .. 255
<1>0. cfg.gmdr \in 0 .. 2
  BY DEF Configuration
<1>1. CorrectQ(s) \in 0 .. 255
  <2>1. voterCount(s) \in 0 .. 32
    BY VoterCounts
  <2> QED BY <2>1 DEF CorrectQ, Majority
<1>2. CorrectQMR(s) \in 0 .. 255
  <2>1. upToDateDiskfulCount(s) \in 0 .. 32
    BY VoterCounts
  <2> QED BY <1>0, <2>1 DEF CorrectQMR, QuorumMinimumRedundancy, Minimum, Maximum
<1>3. \A n \in 0 .. 255 : BaselineGMDR(n) \in 0 .. 255
  BY <1>0 DEF BaselineGMDR, Minimum
<1> QED BY Zenon, <1>1, <1>2, <1>3

\* raiseQ, lowerQ, raiseQMR and lowerQMR stay in the byte range by wrapping.
LEMMA ByteType ==
    \A n \in 0 .. 255 : Byte(n + 1) \in 0 .. 255 /\ Byte(n + 255) \in 0 .. 255
BY DEF Byte

\* An apply callback keeps the datamesh state well formed and leaves the
\* transitions alone.
LEMMA MutateType ==
    ASSUME Counted, cfg \in Configuration, rvr \in [Replicas -> RVR],
           NEW s \in State, NEW r \in Replicas, NEW step \in Step
    PROVE  /\ Mutate(s, r, step) \in State
           /\ SameSlots(Mutate(s, r, step), s)
<1> DEFINE removed == step.to = None
           type    == IF step.to = "keep" THEN s.type ELSE [s.type EXCEPT ![r] = step.to]
           bv      == IF removed \/ step.bv = "clear" THEN [s.bv EXCEPT ![r] = None]
                      ELSE IF step.bv = "set" THEN [s.bv EXCEPT ![r] = rvr[r].req.bv]
                      ELSE s.bv
           att     == IF removed \/ step.flag = "detach" THEN s.attached \ {r}
                      ELSE IF step.flag = "attach" THEN s.attached \cup {r}
                      ELSE s.attached
           multi   == IF step.flag = "enable" THEN TRUE
                      ELSE IF step.flag = "disable" THEN FALSE ELSE s.multi
           q       == CASE step.q = "up"   -> Byte(s.q + 1)
                        [] step.q = "down" -> Byte(s.q + 255)
                        [] step.q = "fix"  -> CorrectQ(s)
                        [] OTHER           -> s.q
           qmr     == CASE step.qmr = "up"   -> Byte(s.qmr + 1)
                        [] step.qmr = "down" -> Byte(s.qmr + 255)
                        [] step.qmr = "fix"  -> CorrectQMR(s)
                        [] OTHER             -> s.qmr
           base    == IF step.base = "apply" THEN BaselineGMDR(qmr) ELSE s.base
<1>0. /\ s.type \in [Replicas -> MemberType \cup {None}]
      /\ s.bv \in [Replicas -> {"vg", None}] /\ s.attached \in SUBSET Replicas
      /\ s.multi \in BOOLEAN /\ s.q \in 0 .. 255 /\ s.qmr \in 0 .. 255 /\ s.base \in 0 .. 255
  BY DEF State
<1>1. type \in [Replicas -> MemberType \cup {None}]
  BY <1>0 DEF Step
<1>2. bv \in [Replicas -> {"vg", None}]
  <2>1. rvr[r].req.bv \in {"vg", None}
    BY DEF RVR, Request
  <2> QED BY <1>0, <2>1
<1>3. att \in SUBSET Replicas
  BY <1>0
<1>4. multi \in BOOLEAN
  BY Zenon, <1>0
<1>5. q \in 0 .. 255
  <2>1. CorrectQ(s) \in 0 .. 255
    BY Zenon, <1>0, QuorumBytes
  <2>2. Byte(s.q + 1) \in 0 .. 255 /\ Byte(s.q + 255) \in 0 .. 255
    BY ZenonT(40), <1>0, ByteType
  <2> QED BY Zenon, <1>0, <2>1, <2>2
<1>6. qmr \in 0 .. 255
  <2>1. CorrectQMR(s) \in 0 .. 255
    BY Zenon, <1>0, QuorumBytes
  <2>2. Byte(s.qmr + 1) \in 0 .. 255 /\ Byte(s.qmr + 255) \in 0 .. 255
    BY ZenonT(40), <1>0, ByteType
  <2> QED BY Zenon, <1>0, <2>1, <2>2
<1>7. base \in 0 .. 255
  <2> HIDE DEF qmr
  <2> QED BY ZenonT(40), <1>0, <1>6, QuorumBytes
<1>8. Mutate(s, r, step) = [s EXCEPT !.type = type, !.bv = bv, !.attached = att,
                                     !.multi = multi, !.q = q, !.qmr = qmr, !.base = base]
  BY DEF Mutate
<1> HIDE DEF removed, type, bv, att, multi, q, qmr, base
<1>9. Mutate(s, r, step) =
        [rev |-> s.rev, type |-> type, bv |-> bv, attached |-> att, multi |-> multi,
         q |-> q, qmr |-> qmr, base |-> base, mt |-> s.mt, at |-> s.at, qt |-> s.qt,
         xt |-> s.xt]
  BY ZenonT(40), <1>8 DEF State
<1>10. /\ s.rev \in Nat /\ s.mt \in [Replicas -> Transition]
       /\ s.at \in [Replicas -> Transition] /\ s.qt \in Transition /\ s.xt \in Transition
  BY DEF State
<1>11. Mutate(s, r, step) \in State
  BY <1>1, <1>2, <1>3, <1>4, <1>5, <1>6, <1>7, <1>9, <1>10 DEF State
<1> QED BY <1>9, <1>11 DEF SameSlots

\* So does applyStep, which also moves the revision.
LEMMA ApplyStepType ==
    ASSUME EnvTyped, NEW s \in State, NEW r \in Replicas, NEW step \in Step
    PROVE  ApplyStep(s, r, step) \in State /\ SameSlots(ApplyStep(s, r, step), s)
<1> DEFINE s1 == Mutate(s, r, step)
<1>1. s1 \in State /\ SameSlots(s1, s)
  BY MutateType DEF EnvTyped
<1>2. ApplyStep(s, r, step) = IF s1 = s THEN s ELSE [s1 EXCEPT !.rev = s.rev + 1]
  BY DEF ApplyStep
<1> HIDE DEF s1
<1>3. s.rev + 1 \in Nat
  BY DEF State
<1>4. [s1 EXCEPT !.rev = s.rev + 1] \in State
  BY <1>1, <1>3 DEF State
<1>5. SameSlots([s1 EXCEPT !.rev = s.rev + 1], s1)
  BY <1>1 DEF State, SameSlots
<1> QED BY <1>1, <1>2, <1>4, <1>5 DEF SameSlots

\* So does the onComplete callback of a confirmed step.
LEMMA StepCompletedType ==
    ASSUME EnvTyped, NEW s \in State, NEW step
    PROVE  StepCompleted(s, step) \in State /\ SameSlots(StepCompleted(s, step), s)
<1>1. BaselineGMDR(s.qmr) \in 0 .. 255
  BY ZenonT(40), QuorumBytes DEF State, EnvTyped
<1>2. [s EXCEPT !.base = BaselineGMDR(s.qmr)] \in State
  BY <1>1 DEF State
<1>3. SameSlots([s EXCEPT !.base = BaselineGMDR(s.qmr)], s)
  BY DEF State, SameSlots
<1> QED BY <1>2, <1>3 DEF StepCompleted, SameSlots

\* A transition that is not at its last step has a next one in its plan.
LEMMA StepsInPlan ==
    ASSUME NEW t \in Transition, Active(t)
    PROVE  /\ t.plan \in PlanID /\ PlanOf(t) \in PlanRecord
           /\ ~IsLastStep(t) => /\ NextStep(t) \in Step
                               /\ t.step + 1 \in DOMAIN PlanOf(t).steps
                               /\ t.step + 1 \in 0 .. 6
<1>1. t.plan \in PlanID
  BY DEF Transition, Active
<1>2. PlanOf(t) \in PlanRecord
  BY <1>1, RegistryTypes DEF PlanOf
<1>3. PlanOf(t).steps \in Seq(Step) /\ Len(PlanOf(t).steps) \in 1 .. 6
  BY <1>2 DEF PlanRecord, Steps
<1>4. t.step \in DOMAIN PlanOf(t).steps
  BY DEF Transition
<1>5. ~IsLastStep(t) => t.step + 1 \in 1 .. Len(PlanOf(t).steps)
  BY <1>3, <1>4 DEF IsLastStep
<1>6. ~IsLastStep(t) => NextStep(t) \in Step
  BY <1>3, <1>5 DEF NextStep
<1>7. ~IsLastStep(t) => t.step + 1 \in DOMAIN PlanOf(t).steps
  BY <1>3, <1>5
<1>8. ~IsLastStep(t) => t.step + 1 \in 0 .. 6
  <2>1. \A m \in 1 .. 6 : \A n \in 1 .. m : n \in 0 .. 6
    OBVIOUS
  <2> QED BY Zenon, <1>3, <1>5, <2>1
<1> QED BY <1>1, <1>2, <1>6, <1>7, <1>8

\* Every plan has a first step (createTransition applies it).
LEMMA FirstStep ==
    ASSUME NEW p \in PlanID
    PROVE  Registry[p].steps[1] \in Step /\ 1 \in DOMAIN Registry[p].steps
<1>1. Registry[p].steps \in Seq(Step) /\ Len(Registry[p].steps) \in 1 .. 6
  BY RegistryTypes DEF PlanRecord, Steps
<1> QED BY <1>1

\* The empty slot is well formed.
LEMMA IdleType == Idle \in Transition
BY DEF Idle, Transition, Active

\* advanceStep and completion: the state stays well formed, the other slots stay
\* as they are, and the slot keeps its plan or becomes empty.
LEMMA AdvancedType ==
    ASSUME EnvTyped, NEW s \in State, NEW r \in Replicas, NEW t \in Transition, Active(t)
    PROVE  /\ Advanced(s, r, t) \in State /\ SameSlots(Advanced(s, r, t), s)
           /\ AdvancedSlot(s, r, t) \in Transition
           /\ AdvancedSlot(s, r, t).plan \in {t.plan, None}
<1> DEFINE s1 == StepCompleted(s, StepOf(t))
<1>1. s1 \in State /\ SameSlots(s1, s)
  BY StepCompletedType
<1>2. ~IsLastStep(t) => /\ ApplyStep(s1, r, NextStep(t)) \in State
                       /\ SameSlots(ApplyStep(s1, r, NextStep(t)), s1)
  BY <1>1, StepsInPlan, ApplyStepType
<1>3. Advanced(s, r, t) = IF IsLastStep(t) THEN s1 ELSE ApplyStep(s1, r, NextStep(t))
  BY DEF Advanced
<1> HIDE DEF s1
<1>4. Advanced(s, r, t) \in State /\ SameSlots(Advanced(s, r, t), s)
  BY <1>1, <1>2, <1>3 DEF SameSlots
<1>5. CASE IsLastStep(t)
  <2>1. AdvancedSlot(s, r, t) = Idle
    BY <1>5 DEF AdvancedSlot
  <2> QED BY <1>4, <2>1, IdleType DEF Idle
<1>6. CASE ~IsLastStep(t)
  <2>1. AdvancedSlot(s, r, t) =
          [plan |-> t.plan, step |-> t.step + 1, rev |-> Advanced(s, r, t).rev]
    BY <1>6 DEF AdvancedSlot, AtStep
  <2>2. Advanced(s, r, t).rev \in Nat
    BY ZenonT(40), <1>4 DEF State
  <2>3. /\ t.plan \in PlanID /\ t.step + 1 \in 0 .. 6
        /\ t.step + 1 \in DOMAIN PlanOf(t).steps
    BY <1>6, StepsInPlan
  <2> QED BY <1>4, <2>1, <2>2, <2>3 DEF Transition, PlanOf
<1> QED BY <1>5, <1>6

\* createTransition: the state stays well formed, the slots stay as they are, and
\* the new slot holds the first step of the plan.
LEMMA CreatedType ==
    ASSUME EnvTyped, NEW s \in State, NEW r \in Replicas, NEW p \in PlanID
    PROVE  /\ Created(s, r, p) \in State /\ SameSlots(Created(s, r, p), s)
           /\ CreatedSlot(s, r, p) \in Transition /\ CreatedSlot(s, r, p).plan = p
<1>1. Created(s, r, p) \in State /\ SameSlots(Created(s, r, p), s)
  BY FirstStep, ApplyStepType DEF Created
<1>2. CreatedSlot(s, r, p) = [plan |-> p, step |-> 1, rev |-> Created(s, r, p).rev]
  BY DEF CreatedSlot, AtStep
<1>3. Created(s, r, p).rev \in Nat
  BY Zenon, <1>1 DEF State
<1>4. CreatedSlot(s, r, p) \in Transition
  BY <1>2, <1>3, FirstStep DEF Transition, PlanOf
<1> QED BY <1>1, <1>2, <1>4

\* Storing a well-formed transition in a slot keeps the state well formed.
LEMMA SlotUpdates ==
    ASSUME NEW s \in State, NEW r \in Replicas, NEW t \in Transition
    PROVE  /\ [s EXCEPT !.mt[r] = t] \in State /\ [s EXCEPT !.at[r] = t] \in State
           /\ [s EXCEPT !.qt = t] \in State /\ [s EXCEPT !.xt = t] \in State
BY ZenonT(40) DEF State

\* Replica id 0 exists; global steps use it as a placeholder subject.
LEMMA ZeroIsReplica == 0 \in Replicas
BY NAssumption DEF Replicas

----------------------------------------------------------------------------
\* What a step makes of the member types, the attached members, multiattach and the
\* revision.
StepType(s, r, step) == IF step.to = "keep" THEN s.type ELSE [s.type EXCEPT ![r] = step.to]

StepAttached(s, r, step) ==
    IF step.to = None \/ step.flag = "detach" THEN s.attached \ {r}
    ELSE IF step.flag = "attach" THEN s.attached \cup {r} ELSE s.attached

StepMulti(s, step) ==
    IF step.flag = "enable" THEN TRUE ELSE IF step.flag = "disable" THEN FALSE ELSE s.multi

\* y and s have the same members, attached members, multiattach and revision.
SameMesh(y, s) ==
    y.type = s.type /\ y.attached = s.attached /\ y.multi = s.multi /\ y.rev = s.rev

\* y is s after the apply callback of step on r: the revision moves if anything changed.
Applied(y, s, r, step) ==
    /\ y.type = StepType(s, r, step) /\ y.attached = StepAttached(s, r, step)
    /\ y.multi = StepMulti(s, step)
    /\ y.rev \in {s.rev, s.rev + 1} /\ (y.rev = s.rev => SameMesh(y, s))

\* applyStep changes exactly what the step says.
LEMMA ApplyStepApplied ==
    ASSUME NEW s \in State, NEW r \in Replicas, NEW step \in Step
    PROVE  Applied(ApplyStep(s, r, step), s, r, step)
<1> DEFINE s1 == Mutate(s, r, step)
<1>1. /\ s1.type = StepType(s, r, step) /\ s1.attached = StepAttached(s, r, step)
      /\ s1.multi = StepMulti(s, step) /\ s1.rev = s.rev
  BY DEF Mutate, StepType, StepAttached, StepMulti, State
<1>2. ApplyStep(s, r, step) = IF s1 = s THEN s ELSE [s1 EXCEPT !.rev = s.rev + 1]
  BY DEF ApplyStep
<1>3. DOMAIN s1 = DOMAIN s
  BY DEF Mutate
<1> HIDE DEF s1
<1>4. LET y == [s1 EXCEPT !.rev = s.rev + 1]
      IN  /\ y.type = s1.type /\ y.attached = s1.attached /\ y.multi = s1.multi
          /\ y.rev = s.rev + 1
  BY <1>3 DEF State
<1>5. s.rev \in Nat
  BY DEF State
<1>6. CASE s1 = s
  BY <1>1, <1>2, <1>6 DEF Applied, SameMesh
<1>7. CASE s1 # s
  <2> DEFINE y == [s1 EXCEPT !.rev = s.rev + 1]
  <2>1. ApplyStep(s, r, step) = y
    BY <1>2, <1>7
  <2>2. /\ y.type = StepType(s, r, step) /\ y.attached = StepAttached(s, r, step)
        /\ y.multi = StepMulti(s, step) /\ y.rev = s.rev + 1
    BY <1>1, <1>4
  <2> HIDE DEF y
  <2> QED BY <1>5, <2>1, <2>2 DEF Applied
<1> QED BY <1>6, <1>7

\* onComplete changes the baseline only.
LEMMA StepCompletedSame ==
    ASSUME NEW s \in State, NEW step
    PROVE  SameMesh(StepCompleted(s, step), s)
BY DEF StepCompleted, SameMesh, State

\* The confirmed transition t of r advanced: y has its next step applied and u is its
\* slot, or it is complete.
AdvancedTo(y, u, s, r, t) ==
    \/ IsLastStep(t) /\ SameMesh(y, s) /\ u = Idle
    \/ ~IsLastStep(t) /\ Applied(y, s, r, NextStep(t)) /\ u = AtStep(t.plan, t.step + 1, y)

\* Plan p was started on r: y has its first step applied and u is its slot.
StartedAs(y, u, s, r, p) ==
    Applied(y, s, r, Registry[p].steps[1]) /\ u = AtStep(p, 1, y)

\* Advancing a transition applies its next step, or empties its slot after the last.
LEMMA AdvancedApplied ==
    ASSUME EnvTyped, NEW s \in State, NEW r \in Replicas, NEW t \in Transition, Active(t)
    PROVE  AdvancedTo(Advanced(s, r, t), AdvancedSlot(s, r, t), s, r, t)
<1> DEFINE s1 == StepCompleted(s, StepOf(t))
<1>1. s1 \in State /\ SameMesh(s1, s)
  BY StepCompletedType, StepCompletedSame
<1>2. CASE IsLastStep(t)
  BY <1>1, <1>2 DEF Advanced, AdvancedSlot, AdvancedTo
<1>3. CASE ~IsLastStep(t)
  <2>1. NextStep(t) \in Step
    BY <1>3, StepsInPlan
  <2>2. Advanced(s, r, t) = ApplyStep(s1, r, NextStep(t))
    BY <1>3 DEF Advanced
  <2> HIDE DEF s1
  <2>3. Applied(Advanced(s, r, t), s1, r, NextStep(t))
    BY <1>1, <2>1, <2>2, ApplyStepApplied
  <2>4. Applied(Advanced(s, r, t), s, r, NextStep(t))
    BY <1>1, <2>3, Zenon DEF Applied, SameMesh, StepType, StepAttached, StepMulti
  <2> QED BY <1>3, <2>4 DEF AdvancedTo, AdvancedSlot
<1> QED BY <1>2, <1>3

\* Creating a transition applies the first step of its plan.
LEMMA CreatedApplied ==
    ASSUME NEW s \in State, NEW r \in Replicas, NEW p \in PlanID
    PROVE  StartedAs(Created(s, r, p), CreatedSlot(s, r, p), s, r, p)
BY FirstStep, ApplyStepApplied DEF Created, StartedAs, CreatedSlot

\* What was advanced or started stays so when only slots differ.
LEMMA SameAdvanced ==
    ASSUME NEW y, NEW x, SameMesh(y, x), NEW u, NEW s, NEW r
    PROVE  /\ \A t : AdvancedTo(x, u, s, r, t) => AdvancedTo(y, u, s, r, t)
           /\ \A p : StartedAs(x, u, s, r, p) => StartedAs(y, u, s, r, p)
BY Zenon DEF AdvancedTo, StartedAs, AtStep, Applied, SameMesh
============================================================================
