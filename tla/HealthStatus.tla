---------------------------- MODULE HealthStatus ----------------------------
(***************************************************************************)
(* What the rvr controller publishes of a replica: the status fields it    *)
(* mirrors from the DRBDResource, the conditions it derives from them, the *)
(* membership request, and the phase.  Every operator is one ensure helper *)
(* of the controller: r is the status as the helpers before it left it, d  *)
(* the DRBDResource of the pass, m the volume (stage: how far it is set    *)
(* up; mem: the type of this member; others: the types of the other        *)
(* members), view what the storage pool says of the node of the replica:   *)
(* "ok", "thin" or "lvg" when its thin pool or volume group is not listed, *)
(* "node" when the node is not, "none" when there is no pool.  A peer is   *)
(* seen as [type, conn, disk, repl]: conn "on" when every path is up,      *)
(* "part" when only some are, "off" otherwise.                             *)
(***************************************************************************)
EXTENDS Integers, Sequences, FiniteSets

\* The value of the first row of a decision table whose guard holds.
FirstOf(rows) ==
    rows[CHOOSE i \in 1..Len(rows) : rows[i][1] /\ \A j \in 1..i-1 : ~rows[j][1]][2]

Cond(st, why) == [st |-> st, why |-> why]
Absent == Cond("Absent", "")

IsMember(m) == m.mem # "none"

\* The volume exists and has its configuration; its datamesh has a revision and networks.
HasConfiguration(m) == m.stage \notin {"missing", "bare"}
Initialized(m) == m.stage = "ready"

NoPeers == [p \in {} |-> [type |-> "", conn |-> "off", disk |-> "", repl |-> "Off"]]
NoSummary == [diskful |-> 0, tieBreakers |-> 0, upToDate |-> 0]

\* The controller's finalizer is the only one left on a replica being deleted.
rvrShouldNotExist(r) == r.del /\ ~r.held

----------------------------------------------------------------------------
(* What the helpers take from the DRBDConfigured condition *)

agentReady(r) == r.cond \notin {"none", "AgentNotReady"}

drbdrConfigurationPending(r) == r.cond = "ApplyingConfiguration"

----------------------------------------------------------------------------
(* Status fields *)

ensureStatusAddressesAndType(r, d) ==
    [r EXCEPT !.addr = d.ex /\ d.addr, !.type = IF d.ex THEN d.type ELSE ""]

\* The attachment keeps its last value while nobody can tell.
ensureStatusAttachment(r, d) ==
    IF ~agentReady(r) \/ drbdrConfigurationPending(r) THEN r
    ELSE [r EXCEPT !.attach = FirstOf(<<
            <<~(d.ex /\ d.role = "Primary"), "none">>,
            <<d.susp, "suspended">>,
            <<TRUE, "serving">> >>)]

\* DRBD does not tell a tie-breaker from another peer without a disk; the datamesh does.
ensureStatusPeers(r, d, m) ==
    LET role(p) == FirstOf(<<
            <<d.peers[p].type = "Diskful", "D">>,
            <<p \in DOMAIN m.others /\ m.others[p] = "TB", "TB">>,
            <<TRUE, "A">> >>)
    IN  [r EXCEPT !.peers = IF d.ex THEN [p \in DOMAIN d.peers |-> [d.peers[p] EXCEPT !.type = role(p)]]
                            ELSE NoPeers]

ensureStatusBackingVolume(r, d) ==
    [r EXCEPT !.bv = IF d.ex /\ d.llv THEN d.disk ELSE "none"]

ensureStatusQuorum(r, d) ==
    LET connected == {p \in DOMAIN r.peers : r.peers[p].conn # "off"}
        summary == [diskful |-> Cardinality({p \in connected : r.peers[p].type = "D"}),
                    tieBreakers |-> Cardinality({p \in connected : r.peers[p].type = "TB"}),
                    upToDate |-> Cardinality({p \in connected : r.peers[p].disk = "UpToDate"})]
    IN  [r EXCEPT !.summary = IF d.ex THEN summary ELSE NoSummary,
                  !.quorum = IF d.ex THEN d.quorum ELSE "nil"]

\* A mutant: leaving the datamesh does not clear the latch.
ensureStatusInitialQuorumReachedAtKept(r) ==
    [r EXCEPT !.latch = @ \/ (r.dmRev # 0 /\ r.quorum = "yes")]

\* The latch of one membership epoch: quorum was seen while a member.
ensureStatusInitialQuorumReachedAt(r) ==
    [r EXCEPT !.latch = r.dmRev # 0 /\ (@ \/ r.quorum = "yes")]

----------------------------------------------------------------------------
(* Conditions *)

ensureConditionAttached(r, d, m) ==
    LET intended == IsMember(m) /\ m.att
        actual == d.ex /\ d.role = "Primary"
    IN  [r EXCEPT !.attached = FirstOf(<<
            <<~d.ex \/ ~(intended \/ actual), Absent>>,
            <<~agentReady(r), Cond("Unknown", "AgentNotReady")>>,
            <<drbdrConfigurationPending(r), Cond("Unknown", "ApplyingConfiguration")>>,
            <<~actual, Cond("False", "AttachmentFailed")>>,
            <<~intended, Cond("True", "DetachmentFailed")>>,
            <<d.susp, Cond("False", "IOSuspended")>>,
            <<TRUE, Cond("True", "Attached")>> >>)]

ensureConditionFullyConnected(r, d, m) ==
    LET all == DOMAIN r.peers
        are(s) == {p \in all : r.peers[p].conn \in s}
        sole == IsMember(m) /\ DOMAIN m.others = {}
    IN  [r EXCEPT !.fc = FirstOf(<<
            <<~d.ex \/ (~IsMember(m) /\ DOMAIN d.peers = {}) \/ ~r.addr, Absent>>,
            <<~agentReady(r), Cond("Unknown", "AgentNotReady")>>,
            <<all = {} /\ sole, Cond("True", "SoleMember")>>,
            <<all = {}, Cond("False", "NoPeers")>>,
            <<~IsMember(m) /\ are({"part", "on"}) # {}, Cond("False", "PartiallyConnected")>>,
            <<are({"on"}) = all, Cond("True", "FullyConnected")>>,
            <<are({"off"}) = all, Cond("False", "NotConnected")>>,
            <<are({"off"}) = {}, Cond("True", "ConnectedToAllPeers")>>,
            <<TRUE, Cond("False", "PartiallyConnected")>> >>)]

ensureConditionBackingVolumeUpToDate(r, d, m) ==
    LET needed == m.mem \in {"D", "D0"}
        some(ok(_)) == \E p \in DOMAIN r.peers : ok(r.peers[p])
        source(peer) == peer.repl = "SyncTarget" \/ (peer.disk = "UpToDate" /\ peer.repl = "Established")
    IN  [r EXCEPT !.bvu = FirstOf(<<
            <<~d.ex \/ ~IsMember(m) \/ ~(needed \/ r.bv # "none"), Absent>>,
            <<~agentReady(r), Cond("Unknown", "AgentNotReady")>>,
            <<drbdrConfigurationPending(r), Cond("Unknown", "ApplyingConfiguration")>>,
            <<~d.active, Cond("Error", "NoActiveConfiguration")>>,
            <<d.disk = "UpToDate", Cond("True", "UpToDate")>>,
            <<d.disk \in {"Diskless", "Attaching", "Detaching"}, Cond("False", "Absent")>>,
            <<d.disk = "Failed", Cond("False", "Failed")>>,
            <<d.disk = "Inconsistent" /\ some(source), Cond("False", "Synchronizing")>>,
            <<d.disk \in {"Inconsistent", "Outdated"}, Cond("False", "RequiresSynchronization")>>,
            <<TRUE, Cond("False", "Unknown")>> >>)]

\* The code panics when the resource is missing although nothing explains it.
ensureConditionReady(r, d, m) ==
    [r EXCEPT !.ready = FirstOf(<<
            <<rvrShouldNotExist(r), Cond("False", "Terminating")>>,
            <<~Initialized(m), Cond("Unknown", "WaitingForReplicatedVolume")>>,
            <<~r.node, Cond("False", "PendingScheduling")>>,
            <<~d.ex, Cond("Error", "Panic")>>,
            <<~agentReady(r), Cond("Unknown", "AgentNotReady")>>,
            <<drbdrConfigurationPending(r), Cond("Unknown", "ApplyingConfiguration")>>,
            <<~IsMember(m), Cond("False", IF r.del THEN "Terminating" ELSE "PendingDatameshJoin")>>,
            <<TRUE, Cond(IF d.quorum = "yes" THEN "True" ELSE "False",
                         IF r.type = "Diskless" THEN "QuorumViaPeers"
                         ELSE IF d.quorum = "yes" THEN "Ready" ELSE "QuorumLost")>> >>)]

\* The storage pool lists the node, and for a disk its volume group and thin pool.
ensureConditionSatisfyEligibleNodes(r, m, view) ==
    LET placed == r.spec = "D" /\ r.lvg
    IN  [r EXCEPT !.elig = FirstOf(<<
            <<~r.node, Absent>>,
            <<~HasConfiguration(m) \/ view = "none", Cond("Unknown", "WaitingForReplicatedVolume")>>,
            <<view = "node", Cond("False", "NodeMismatch")>>,
            <<view = "lvg" /\ placed, Cond("False", "LVMVolumeGroupMismatch")>>,
            <<view = "thin" /\ placed, Cond("False", "ThinPoolMismatch")>>,
            <<TRUE, Cond("True", "Satisfied")>> >>)]

----------------------------------------------------------------------------
(* Membership request and Configured condition *)

isStorageEligible(view) == view = "ok"


\* The type of the spec against the type DRBD reports.
typeInSync(r) == r.type = IF r.spec = "D" THEN "Diskful" ELSE "Diskless"

computeTargetDatameshRequest(r, m, view) ==
    LET ask(op, type) == [op |-> op, type |-> type]
        none == ask("none", "")
    IN  FirstOf(<<
            <<r.del /\ r.dmRev # 0, <<ask("Leave", ""), "PendingLeave">> >>,
            <<r.del, <<none, "">> >>,
            <<~Initialized(m), <<none, "WaitingForReplicatedVolume">> >>,
            <<~r.node \/ (r.spec = "D" /\ ~r.lvg), <<none, "PendingScheduling">> >>,
            <<view = "none", <<none, "WaitingForReplicatedVolume">> >>,
            <<view = "node", <<none, "NodeNotEligible">> >>,
            <<r.spec = "D" /\ ~isStorageEligible(view), <<none, "StorageNotEligible">> >>,
            <<r.dmRev = 0, <<ask("Join", r.spec), "PendingJoin">> >>,
            <<~typeInSync(r), <<ask("ChangeRole", r.spec), "PendingRoleChange">> >>,
            <<r.spec = "D" /\ r.bv = "none",
              <<ask("ChangeBackingVolume", ""), "PendingBackingVolumeChange">> >>,
            <<TRUE, <<none, "Configured">> >> >>)

ensureStatusDatameshRequestAndConfiguredCond(r, m, view) ==
    LET t == computeTargetDatameshRequest(r, m, view)
    IN  [r EXCEPT !.req = t[1], !.configured = t[2]]

----------------------------------------------------------------------------
(* Phase *)

None == 0
PartiallyDegraded == 1
Degraded == 2

\* An eligibility problem is told in the message only.
computeMemberProblemsAndSeverity(r) ==
    FirstOf(<<
        <<\/ r.attached = Cond("False", "AttachmentFailed")
          \/ r.fc = Cond("False", "NotConnected")
          \/ r.bvu = Cond("False", "Failed")
          \/ r.bvr \in {"ProvisioningFailed", "ResizeFailed"}
          \/ r.cond = "ConfigurationFailed", Degraded>>,
        <<\/ r.attached = Cond("True", "DetachmentFailed")
          \/ r.fc = Cond("False", "PartiallyConnected")
          \/ r.bvu.st = "False" /\ r.bvu.why \in {"RequiresSynchronization", "Unknown", "Absent"},
          PartiallyDegraded>>,
        <<TRUE, None>> >>)

computeMemberProgress(r) ==
    \/ r.bvr \in {"Provisioning", "Reprovisioning", "Resizing", "NotReady"}
    \/ r.cond \in {"ApplyingConfiguration", "WaitingForBackingVolume", "WaitingForDRBDResize"}

\* A mutant: only the latch counts.
memberEverHadQuorumLatched(r) == r.latch

\* The phase the last pass published stands in for the latch on replicas older than it.
memberEverHadQuorum(r) ==
    \/ r.latch
    \/ r.phase \in {"Healthy", "PartiallyDegraded", "Degraded", "Synchronizing", "Critical"}

computeMemberPhaseAndMessage(r) ==
    LET lost == r.ready.st = "False" /\ r.ready.why \in {"QuorumLost", "QuorumViaPeers"}
        severity == computeMemberProblemsAndSeverity(r)
        ready == r.ready.st = "True"
    IN  FirstOf(<<
            <<lost /\ ~memberEverHadQuorum(r), "Progressing">>,
            <<lost \/ r.attached = Cond("False", "IOSuspended"), "Critical">>,
            <<r.bvu = Cond("False", "Synchronizing"), "Synchronizing">>,
            <<ready /\ severity = Degraded, "Degraded">>,
            <<ready /\ severity = PartiallyDegraded, "PartiallyDegraded">>,
            <<computeMemberProgress(r), "Progressing">>,
            <<ready, "Healthy">>,
            <<TRUE, "PartiallyDegraded">> >>)

computeNormalPhaseAndMessage(r) ==
    FirstOf(<<
        <<r.cond = "AgentNotReady", "AgentNotReady">>,
        <<r.del /\ r.dmRev = 0, "Terminating">>,
        <<r.dmRev > 0, computeMemberPhaseAndMessage(r)>>,
        <<~r.node \/ r.sched = "False", "Pending">>,
        <<r.bvr \in {"Provisioning", "Reprovisioning", "Resizing", "ProvisioningFailed",
                     "ResizeFailed", "NotReady"}, "Provisioning">>,
        <<r.cond = "PendingDatameshJoin", "WaitingForDatamesh">>,
        <<TRUE, "Configuring">> >>)

computeRVRPhaseAndMessage(r) ==
    IF rvrShouldNotExist(r) THEN "Terminating" ELSE computeNormalPhaseAndMessage(r)

ensureStatusPhaseAndMessage(r) == [r EXCEPT !.phase = computeRVRPhaseAndMessage(r)]

----------------------------------------------------------------------------
(* The helpers in the order of Reconcile *)

EnsureFields(r, d, m) ==
    ensureStatusInitialQuorumReachedAt(ensureStatusQuorum(ensureStatusBackingVolume(
        ensureStatusPeers(ensureStatusAttachment(ensureStatusAddressesAndType(r, d), d), d, m), d), d))

EnsureConditions(r, d, m, view) ==
    ensureConditionSatisfyEligibleNodes(ensureConditionReady(
        ensureConditionBackingVolumeUpToDate(ensureConditionFullyConnected(
            ensureConditionAttached(r, d, m), d, m), d, m), d, m), m, view)

EnsureStatus(r, d, m, view) ==
    ensureStatusPhaseAndMessage(ensureStatusDatameshRequestAndConfiguredCond(
        EnsureConditions(EnsureFields(r, d, m), d, m, view), m, view))
=============================================================================
