---------------------------- MODULE ReplicaHealth ----------------------------
(***************************************************************************)
(* One replica of a volume whose other members have disks, from the        *)
(* DRBD kernel of its node to the phase its status shows: the agent copies *)
(* the kernel into the status of the DRBDResource, an informer copies that *)
(* to the controller, the controller writes the spec back and publishes    *)
(* the status of the replica, and the datamesh acts on the request in it.  *)
(* How the resource and its volume are created and deleted is the subject  *)
(* of Replica; here they matter for what the status says.                  *)
(***************************************************************************)
EXTENDS HealthStatus

CONSTANTS
    Scenarios,  \* the initial states to start from
    MaxRev      \* the largest datamesh revision

ASSUME MaxRevIsPositive == MaxRev \in Nat \ {0}

VARIABLES
    rv,      \* the volume: stage, revision, type of the member, attached or not, retype
             \* target, the other members
    rvr,     \* the replica: spec, finalizer of the volume, published status
    drbdr,   \* the DRBDResource
    seen,    \* the controller's copy of it
    kernel,  \* DRBD on the node
    vol,     \* the backing volume
    view,    \* what the storage pool says of the node
    alive,   \* the agent pod is ready
    had,     \* history: the kernel held quorum in this membership epoch
    queued,  \* the reconcilers with a pass to make
    budget   \* the disturbances left

vars == <<rv, rvr, drbdr, seen, kernel, vol, view, alive, had, queued, budget>>

Event(kind) ==
    /\ kind \in budget.kinds /\ budget.left > 0
    /\ budget' = [budget EXCEPT !.left = @ - 1]

Wake(s) == queued' = queued \cup s

----------------------------------------------------------------------------
(* The kernel *)

Peers == DOMAIN rv.others

Unlinked(peers) == [p \in peers |-> "off"]
Down == [mem |-> "down", prim |-> FALSE, disk |-> "Diskless", conn |-> Unlinked(Peers)]

Linked(k) == {p \in DOMAIN k.conn : k.conn[p] # "off"}
Votes(k) == Cardinality(Linked(k)) + (IF k.mem = "D" /\ k.disk \notin {"Diskless", "Failed"} THEN 1 ELSE 0)

\* A majority of the votes; outside the datamesh the quorum is out of reach.
Quorum(k) == k.mem \notin {"down", "alone"} /\ Votes(k) > Cardinality(DOMAIN k.conn) \div 2
Suspended(k) == k.prim /\ ~Quorum(k)

----------------------------------------------------------------------------
(* The agent *)

NoSpec == [mem |-> "none", disk |-> FALSE, prim |-> FALSE]
NoDRBDR == [ex |-> FALSE, spec |-> NoSpec, maint |-> FALSE, gen |-> 0, obs |-> 0, cond |-> "none",
            addr |-> FALSE, active |-> FALSE, type |-> "", role |-> "", llv |-> FALSE,
            quorum |-> "nil", disk |-> "", susp |-> FALSE, peers |-> NoPeers]

\* The kernel as the spec asks for it: the disk of a diskful member attached unless
\* that fails, primary as far as the quorum allows.
Converged(k, spec, attachFails) ==
    LET disk == IF spec.disk THEN IF k.disk # "Diskless" THEN k.disk
                                  ELSE IF attachFails THEN "Diskless" ELSE "Inconsistent"
                ELSE "Diskless"
        conn == IF spec.mem = "alone" THEN Unlinked(Peers) ELSE k.conn
        next == [mem |-> spec.mem, prim |-> FALSE, disk |-> disk, conn |-> conn]
    IN  [next EXCEPT !.prim = spec.prim /\ (k.prim \/ Quorum(next))]

Reached(k, spec) == k.prim = spec.prim /\ (spec.disk => k.disk # "Diskless")

\* A connected peer holds the data; a disk that lacks them is filled from one peer at a time.
PeerState(k, p) ==
    LET first == \A q \in Linked(k) : p <= q
    IN  [type |-> "Diskful", conn |-> k.conn[p],
         disk |-> IF p \in Linked(k) THEN "UpToDate" ELSE "DUnknown",
         repl |-> FirstOf(<<
            <<p \notin Linked(k), "Off">>,
            <<k.disk # "Inconsistent", "Established">>,
            <<first, "SyncTarget">>,
            <<TRUE, "PausedSyncT">> >>)]

\* The answer of the agent: its condition, and the state DRBD shows.  A resource
\* without a disk in drbdsetup show is Diskless, also when the disk is lost.
Reported(d, k, cond) ==
    [d EXCEPT !.obs = d.gen, !.cond = cond, !.addr = TRUE, !.active = TRUE,
              !.type = IF k.disk = "Diskless" THEN "Diskless" ELSE "Diskful",
              !.llv = k.disk # "Diskless",
              !.role = IF k.prim THEN "Primary" ELSE "Secondary",
              !.quorum = IF Quorum(k) THEN "yes" ELSE "no",
              !.disk = k.disk, !.susp = Suspended(k),
              !.peers = IF k.mem = "alone" THEN NoPeers ELSE [p \in DOMAIN k.conn |-> PeerState(k, p)]]

\* A pass that cannot query DRBD changes the condition and forgets the volume only.
Blind(d) == [d EXCEPT !.obs = d.gen, !.cond = "fail", !.addr = TRUE, !.active = TRUE, !.llv = FALSE]

\* The volume a pass detached and released goes when it was deleted.
Released(v, k) == IF v = "deleting" /\ k.disk = "Diskless" THEN "absent" ELSE v

AgentBusy == alive /\ "agent" \in queued

\* What a pass of the agent makes of the kernel, the resource and the volume.
AgentResult(attachFails) ==
    LET k == IF drbdr.maint THEN kernel ELSE Converged(kernel, drbdr.spec, attachFails)
        cond == IF drbdr.maint THEN "maint" ELSE IF Reached(k, drbdr.spec) THEN "ok" ELSE "fail"
    IN  [kernel |-> k, drbdr |-> Reported(drbdr, k, cond), vol |-> Released(vol, k),
         queued |-> IF cond = "fail" THEN queued ELSE queued \ {"agent"}]

AgentPass ==
    \E attachFails \in BOOLEAN :
        LET a == AgentResult(attachFails)
        IN  /\ AgentBusy /\ drbdr.ex
            /\ IF attachFails THEN drbdr.spec.disk /\ kernel.disk = "Diskless" /\ Event("attach")
               ELSE UNCHANGED budget
            /\ kernel' = a.kernel /\ drbdr' = a.drbdr /\ vol' = a.vol /\ queued' = a.queued
            /\ had' = (had \/ Quorum(a.kernel))
            /\ UNCHANGED <<rv, rvr, seen, view, alive>>

\* The pass dies after DRBD is configured and before the status is written.
AgentCrash ==
    LET k == Converged(kernel, drbdr.spec, FALSE)
    IN  /\ AgentBusy /\ drbdr.ex /\ ~drbdr.maint /\ Event("crash")
        /\ kernel' = k
        /\ vol' = Released(vol, k)
        /\ had' = (had \/ Quorum(k))
        /\ UNCHANGED <<rv, rvr, drbdr, seen, view, alive, queued>>

\* The query of the kernel fails: the pass reports that, and is repeated.
AgentBlind ==
    /\ AgentBusy /\ drbdr.ex /\ Event("blind")
    /\ drbdr' = Blind(drbdr)
    /\ UNCHANGED <<rv, rvr, seen, kernel, vol, view, alive, had, queued>>

\* Without its resource the kernel is taken down.
AgentTeardown ==
    /\ AgentBusy /\ ~drbdr.ex
    /\ kernel' = Down
    /\ vol' = Released(vol, Down)
    /\ queued' = queued \ {"agent"}
    /\ UNCHANGED <<rv, rvr, drbdr, seen, view, alive, had, budget>>

AgentDown ==
    /\ alive /\ Event("agent")
    /\ alive' = FALSE /\ Wake({"rvr"})
    /\ UNCHANGED <<rv, rvr, drbdr, seen, kernel, vol, view, had>>

\* The agent reconciles everything when it starts.
AgentUp ==
    /\ ~alive
    /\ alive' = TRUE /\ Wake({"rvr", "agent"})
    /\ UNCHANGED <<rv, rvr, drbdr, seen, kernel, vol, view, had, budget>>

----------------------------------------------------------------------------
(* DRBD moves by itself; the scanner wakes the agent *)

KernelMoves(k) ==
    /\ kernel' = k /\ had' = (had \/ (IsMember(rv) /\ Quorum(k)))
    /\ Wake({"agent"})
    /\ UNCHANGED <<rv, rvr, drbdr, seen, vol, view, alive>>

Connect == \E p \in Peers :
    /\ kernel.mem \notin {"down", "alone"} /\ kernel.conn[p] # "on"
    /\ KernelMoves([kernel EXCEPT !.conn[p] = "on"])
    /\ UNCHANGED budget

Disconnect == \E p \in Peers, c \in {"off", "part"} :
    /\ kernel.conn[p] = "on" /\ Event("link")
    /\ KernelMoves([kernel EXCEPT !.conn[p] = c])

Synchronized ==
    /\ kernel.disk = "Inconsistent" /\ Linked(kernel) # {}
    /\ KernelMoves([kernel EXCEPT !.disk = "UpToDate"])
    /\ UNCHANGED budget

DiskFails == \E s \in {"Failed", "Diskless"} :
    /\ kernel.disk \in {"Inconsistent", "UpToDate"} /\ Event("disk")
    /\ KernelMoves([kernel EXCEPT !.disk = s])

----------------------------------------------------------------------------
(* The controller *)

\* Why a replica has no volume, "" when it has one.  A member's datamesh entry, or the
\* spec it is heading for, needs the volume; outside the datamesh a replica that stays
\* and has its node and an eligible storage does.
computeIntendedBackingVolume ==
    FirstOf(<<
        <<IsMember(rv) /\ (rv.mem \in {"D", "D0"} \/ rvr.spec = "D"), "">>,
        <<IsMember(rv) \/ rvr.del \/ rvr.spec # "D", "NotApplicable">>,
        <<~rvr.node \/ ~rvr.lvg, "PendingScheduling">>,
        <<view = "none", "WaitingForReplicatedVolume">>,
        <<~isStorageEligible(view), "PendingScheduling">>,
        <<TRUE, "">> >>)

\* The volume after the pass, the BackingVolumeReady condition, whether DRBD may use the
\* volume, and whether the pass fails: the metadata of a volume being deleted cannot be set.
reconcileBackingVolume(refused) ==
    LET gone == IF vol = "absent" \/ kernel.disk = "Diskless" THEN "absent" ELSE "deleting"
        why == computeIntendedBackingVolume
        actual == seen.ex /\ seen.spec.disk /\ vol # "absent"
        result(v, cond, target) == [vol |-> v, cond |-> cond, target |-> target, fails |-> FALSE]
    IN  FirstOf(<<
            <<rvrShouldNotExist(rvr), result(gone, IF vol = "absent" THEN "" ELSE "NotApplicable", FALSE)>>,
            <<~Initialized(rv), result(vol, "WaitingForReplicatedVolume", actual)>>,
            <<why # "", result(gone, IF why = "NotApplicable" /\ vol = "absent" THEN "" ELSE why, FALSE)>>,
            <<vol = "deleting" /\ ~IsMember(rv), result("deleting", "Provisioning", actual)>>,
            <<vol = "absent" /\ refused, result("absent", "ProvisioningFailed", FALSE)>>,
            <<vol = "absent", result("creating", "Provisioning", FALSE)>>,
            <<vol = "deleting", [result("deleting", rvr.bvr, FALSE) EXCEPT !.fails = TRUE]>>,
            <<vol = "creating", result("creating", IF actual THEN "NotReady" ELSE "Provisioning", actual)>>,
            <<TRUE, result("ready", "Ready", TRUE)>> >>)

computeIntendedType ==
    FirstOf(<< <<IsMember(rv), rv.mem>>, <<rvr.del, "A">>, <<TRUE, rvr.spec>> >>)

computeTargetType(target) ==
    IF computeIntendedType = "D" /\ ~target THEN "D0" ELSE computeIntendedType

computeTargetDRBDRSpec(type) ==
    [mem |-> IF IsMember(rv) THEN type ELSE "alone", disk |-> type = "D", prim |-> IsMember(rv) /\ rv.att]

\* The resource after the writes of the pass, from the controller's copy.
writeDRBDR(type) ==
    LET spec == computeTargetDRBDRSpec(type)
    IN  FirstOf(<<
            <<~seen.ex, [NoDRBDR EXCEPT !.ex = TRUE, !.spec = spec, !.gen = 1]>>,
            <<seen.spec = spec, seen>>,
            <<TRUE, [seen EXCEPT !.spec = spec, !.gen = @ + 1]>> >>)

\* The DRBDConfigured condition, and the datamesh revision only when all is applied.
reconcileDRBDResource(r, d, type) ==
    LET is(c) == [r EXCEPT !.cond = c]
    IN  FirstOf(<<
            <<rvrShouldNotExist(r), is("NotApplicable")>>,
            <<~Initialized(rv), is("WaitingForReplicatedVolume")>>,
            <<~r.node, is("PendingScheduling")>>,
            <<~alive, is("AgentNotReady")>>,
            <<d.cond = "none" \/ d.obs # d.gen, is("ApplyingConfiguration")>>,
            <<d.cond = "maint", is("InMaintenance")>>,
            <<d.cond = "fail", is("ConfigurationFailed")>>,
            <<~d.addr, is("ApplyingConfiguration")>>,
            <<type # computeIntendedType, is("WaitingForBackingVolume")>>,
            <<~IsMember(rv) /\ r.dmRev # 0, [is("Configured") EXCEPT !.dmRev = 0]>>,
            <<~IsMember(rv), is(IF r.del THEN "Configured" ELSE "PendingDatameshJoin")>>,
            <<TRUE, [is("Configured") EXCEPT !.dmRev = rv.rev]>> >>)

\* A pass of the controller.  A write to a resource that has changed since it was copied
\* fails, and so does the publishing of a status whose volume the pass no longer finds.
Pass(refused) ==
    LET gone == rvrShouldNotExist(rvr)
        bv == reconcileBackingVolume(refused)
        touch == ~gone /\ ~bv.fails /\ Initialized(rv) /\ rvr.node
        type == computeTargetType(bv.target)
        d == IF gone THEN NoDRBDR ELSE IF touch THEN writeDRBDR(type) ELSE seen
        conflict == touch /\ d # seen /\ seen # drbdr
        s == EnsureStatus(reconcileDRBDResource([rvr EXCEPT !.bvr = bv.cond], d, type), d, rv, view)
        lost == d.ex /\ d.llv /\ bv.vol \in {"absent", "deleting"}
        broken == "Error" \in {s.ready.st, s.bvu.st}
        failed == bv.fails \/ conflict \/ lost \/ broken
        written == IF gone \/ (touch /\ ~conflict /\ d # seen) THEN d ELSE drbdr
    IN  [vol |-> bv.vol,
         drbdr |-> written,
         rvr |-> IF failed THEN rvr
                 ELSE [s EXCEPT !.ex = ~(gone /\ ~seen.ex /\ vol = "absent")],
         queued |-> (IF failed \/ refused \/ gone THEN queued ELSE queued \ {"rvr"})
                    \cup (IF written # drbdr THEN {"agent"} ELSE {})]

Reconcile ==
    \E refused \in BOOLEAN :
        LET p == Pass(refused)
        IN  /\ "rvr" \in queued /\ rvr.ex
            /\ IF refused THEN vol = "absent" /\ Initialized(rv) /\ computeIntendedBackingVolume = "" /\ Event("refused")
               ELSE UNCHANGED budget
            /\ vol' = p.vol /\ drbdr' = p.drbdr /\ rvr' = p.rvr /\ queued' = p.queued
            /\ had' = (had /\ (p.rvr.dmRev # 0 \/ rvr.dmRev = 0))
            /\ UNCHANGED <<rv, seen, kernel, view, alive>>

\* The informer delivers the resource.
Deliver ==
    /\ seen # drbdr
    /\ seen' = drbdr /\ Wake({"rvr"})
    /\ UNCHANGED <<rv, rvr, drbdr, kernel, vol, view, alive, had, budget>>

----------------------------------------------------------------------------
(* The datamesh, as far as it acts on this replica.  Every change of the    *)
(* member is a new revision and waits until the last one is confirmed.      *)

Confirmed == rvr.dmRev = IF IsMember(rv) THEN rv.rev ELSE 0

Publish(new) ==
    /\ rv.rev < MaxRev
    /\ rv' = [new EXCEPT !.rev = rv.rev + 1]
    /\ Wake({"rvr"})
    /\ UNCHANGED <<drbdr, seen, kernel, vol, view, alive, had>>

\* On the way to a disk, or away from it, a member is a liminal one in between.
TowardsRole(from, to) == IF from # to /\ "D" \in {from, to} /\ from # "D0" THEN "D0" ELSE to

Admit ==
    /\ ~IsMember(rv) /\ Confirmed /\ rvr.req.op = "Join"
    /\ Publish([rv EXCEPT !.mem = TowardsRole("A", rvr.req.type), !.goal = rvr.req.type])
    /\ UNCHANGED <<rvr, budget>>

ChangeRole ==
    /\ IsMember(rv) /\ Confirmed /\ rv.goal = rv.mem /\ rvr.req.op = "ChangeRole" /\ rvr.req.type # rv.mem
    /\ Publish([rv EXCEPT !.mem = TowardsRole(rv.mem, rvr.req.type), !.goal = rvr.req.type])
    /\ UNCHANGED <<rvr, budget>>

AdvanceRole ==
    /\ IsMember(rv) /\ Confirmed /\ rv.goal # rv.mem
    /\ Publish([rv EXCEPT !.mem = rv.goal])
    /\ UNCHANGED <<rvr, budget>>

Attach ==
    /\ IsMember(rv) /\ Confirmed /\ rv.goal = rv.mem /\ Event("attachment")
    /\ Publish([rv EXCEPT !.att = ~@])
    /\ UNCHANGED rvr

Remove ==
    /\ IsMember(rv) /\ Confirmed /\ rv.goal = rv.mem /\ rvr.req.op = "Leave" /\ ~rv.att
    /\ Publish([rv EXCEPT !.mem = TowardsRole(rv.mem, "none"), !.goal = "none"])
    /\ UNCHANGED <<rvr, budget>>

\* A member no peer reaches is forced out; the replica lives on and joins again.
ForceRemove ==
    /\ IsMember(rv) /\ ~rv.att /\ Linked(kernel) = {} /\ Event("force")
    /\ Publish([rv EXCEPT !.mem = "none", !.goal = "none"])
    /\ UNCHANGED rvr

\* The volume lets go of a deleted replica that has left.
CanRelease == rvr.ex /\ rvr.del /\ rvr.held /\ ~IsMember(rv) /\ rvr.dmRev = 0

ReleaseReplica ==
    /\ CanRelease
    /\ rvr' = [rvr EXCEPT !.held = FALSE] /\ Wake({"rvr"})
    /\ UNCHANGED <<rv, drbdr, seen, kernel, vol, view, alive, had, budget>>

----------------------------------------------------------------------------
(* The surroundings *)

VolumeReady ==
    /\ vol = "creating"
    /\ vol' = "ready" /\ Wake({"rvr"})
    /\ UNCHANGED <<rv, rvr, drbdr, seen, kernel, view, alive, had, budget>>

\* The volume is created, gets its configuration and then its datamesh.
VolumeSetUp ==
    LET next == [missing |-> "bare", bare |-> "configured", configured |-> "ready"]
    IN  /\ rv.stage # "ready"
        /\ rv' = [rv EXCEPT !.stage = next[@]] /\ Wake({"rvr"})
        /\ UNCHANGED <<rvr, drbdr, seen, kernel, vol, view, alive, had, budget>>

\* The scheduler places the replica among what the pool lists, or says that it cannot.
CanSchedule == ~rvr.node /\ HasConfiguration(rv) /\ view = "ok"

Schedule ==
    /\ CanSchedule
    /\ rvr' = [rvr EXCEPT !.node = TRUE, !.lvg = rvr.spec = "D", !.sched = "True"] /\ Wake({"rvr"})
    /\ UNCHANGED <<rv, drbdr, seen, kernel, vol, view, alive, had, budget>>

ScheduleFails ==
    /\ ~rvr.node /\ ~CanSchedule /\ rvr.sched # "False"
    /\ rvr' = [rvr EXCEPT !.sched = "False"] /\ Wake({"rvr"})
    /\ UNCHANGED <<rv, drbdr, seen, kernel, vol, view, alive, had, budget>>

PoolChanges == \E w \in {"ok", "thin", "lvg", "node", "none"} \ {view} :
    /\ Event("pool")
    /\ view' = w /\ Wake({"rvr"})
    /\ UNCHANGED <<rv, rvr, drbdr, seen, kernel, vol, alive, had>>

\* A disk is added, on a volume group of the node, or given up.  A change between the two types without a disk is not
\* among the inputs: the type DRBD reports is the same for both, and no request results.
Retype == \E t \in {"D", "TB"} \ {rvr.spec} :
    /\ rvr.ex /\ ~rvr.del /\ Event("retype")
    /\ rvr' = [rvr EXCEPT !.spec = t, !.lvg = t = "D" /\ rvr.node] /\ Wake({"rvr"})
    /\ UNCHANGED <<rv, drbdr, seen, kernel, vol, view, alive, had>>

Delete ==
    /\ rvr.ex /\ ~rvr.del /\ Event("delete")
    /\ rvr' = [rvr EXCEPT !.del = TRUE] /\ Wake({"rvr"})
    /\ UNCHANGED <<rv, drbdr, seen, kernel, vol, view, alive, had>>

Maintenance ==
    /\ drbdr.ex /\ Event("maintenance")
    /\ drbdr' = [drbdr EXCEPT !.maint = ~@, !.gen = @ + 1] /\ Wake({"agent"})
    /\ UNCHANGED <<rv, rvr, seen, kernel, vol, view, alive, had>>

----------------------------------------------------------------------------
NewReplica(type) ==
    [ex |-> TRUE, spec |-> type, node |-> FALSE, lvg |-> FALSE, sched |-> "none", del |-> FALSE, held |-> TRUE, dmRev |-> 0,
     cond |-> "none", bvr |-> "", addr |-> FALSE, type |-> "", attach |-> "none",
     peers |-> NoPeers, bv |-> "none", quorum |-> "nil", summary |-> NoSummary, latch |-> FALSE,
     attached |-> Absent, fc |-> Absent, bvu |-> Absent, ready |-> Absent, elig |-> Absent,
     req |-> [op |-> "none", type |-> ""], configured |-> "", phase |-> ""]

\* A replica that has settled as a member.  An old one was published by a controller
\* that had no latch yet.
SettledKernel(type, att, peers) ==
    [mem |-> type, prim |-> att, disk |-> IF type = "D" THEN "UpToDate" ELSE "Diskless",
     conn |-> [p \in peers |-> "on"]]

SettledDRBDR(type, att, peers) ==
    Reported([NoDRBDR EXCEPT !.ex = TRUE, !.gen = 1,
                             !.spec = [mem |-> type, disk |-> type = "D", prim |-> att]],
             SettledKernel(type, att, peers), "ok")

Volume(stage, mem, att, peers) ==
    [stage |-> stage, rev |-> 1, mem |-> mem, goal |-> mem, att |-> att, others |-> [p \in peers |-> "D"]]

SettledReplica(type, att, peers) ==
    EnsureStatus([NewReplica(type) EXCEPT !.node = TRUE, !.lvg = type = "D", !.sched = "True", !.dmRev = 1,
                                          !.cond = "Configured", !.bvr = IF type = "D" THEN "Ready" ELSE ""],
                 SettledDRBDR(type, att, peers), Volume("ready", type, att, peers), "ok")

Init == \E s \in Scenarios :
    /\ budget = [kinds |-> s.kinds, left |-> s.left]
    /\ view = "ok" /\ alive = TRUE
    /\ had = ~s.new
    /\ IF s.new
       THEN /\ rv = Volume("missing", "none", FALSE, s.peers)
            /\ rvr = NewReplica(s.type)
            /\ drbdr = NoDRBDR /\ kernel = Down /\ vol = "absent" /\ queued = {"rvr"}
       ELSE /\ rv = Volume("ready", s.type, s.att, s.peers)
            /\ rvr = [SettledReplica(s.type, s.att, s.peers) EXCEPT !.latch = ~s.old]
            /\ drbdr = SettledDRBDR(s.type, s.att, s.peers) /\ kernel = SettledKernel(s.type, s.att, s.peers)
            /\ vol = (IF s.type = "D" THEN "ready" ELSE "absent")
            /\ queued = IF s.old THEN {"rvr"} ELSE {}
    /\ seen = drbdr

Next ==
    \/ AgentPass \/ AgentCrash \/ AgentBlind \/ AgentTeardown \/ AgentDown \/ AgentUp
    \/ Connect \/ Disconnect \/ Synchronized \/ DiskFails
    \/ Reconcile \/ Deliver
    \/ Admit \/ ChangeRole \/ AdvanceRole \/ Attach \/ Remove \/ ForceRemove \/ ReleaseReplica
    \/ VolumeReady \/ VolumeSetUp \/ Schedule \/ ScheduleFails \/ PoolChanges \/ Retype \/ Delete \/ Maintenance

CanReconcile ==
    /\ "rvr" \in queued /\ rvr.ex
    /\ LET p == Pass(FALSE)
       IN  <<p.vol, p.drbdr, p.rvr, p.queued>> # <<vol, drbdr, rvr, queued>>

CanConfigure ==
    /\ AgentBusy /\ drbdr.ex
    /\ LET a == AgentResult(FALSE)
       IN  <<a.kernel, a.drbdr, a.vol, a.queued>> # <<kernel, drbdr, vol, queued>>

CanTransition ==
    /\ Confirmed /\ rv.rev < MaxRev
    /\ \/ ~IsMember(rv) /\ rvr.req.op = "Join"
       \/ IsMember(rv) /\ rv.goal # rv.mem
       \/ IsMember(rv) /\ rv.goal = rv.mem /\ rvr.req.op = "ChangeRole" /\ rvr.req.type # rv.mem
       \/ IsMember(rv) /\ rv.goal = rv.mem /\ rvr.req.op = "Leave" /\ ~rv.att

\* The controllers and the agent work through their queues, the informer delivers, the
\* scheduler and the node finish what they began.  Nothing makes a peer come back, a
\* disk synchronise or a dead agent start.  Each line is weak fairness of the action,
\* with the condition under which it takes a step written out.
Fairness ==
    /\ []<>~CanReconcile \/ []<><<Reconcile>>_vars
    /\ []<>(seen = drbdr) \/ []<><<Deliver>>_vars
    /\ []<>~CanConfigure \/ []<><<AgentPass>>_vars
    /\ []<>~(AgentBusy /\ ~drbdr.ex) \/ []<><<AgentTeardown>>_vars
    /\ []<>~CanTransition \/ []<><<Admit \/ ChangeRole \/ AdvanceRole \/ Remove>>_vars
    /\ []<>~CanRelease \/ []<><<ReleaseReplica>>_vars
    /\ []<>(vol # "creating") \/ []<><<VolumeReady>>_vars
    /\ []<>~CanSchedule \/ []<><<Schedule>>_vars

Spec == Init /\ [][Next]_vars /\ Fairness

----------------------------------------------------------------------------
(* Properties *)

\* A replica is shown as Critical, its I/O frozen, only when DRBD had quorum at some time
\* of this membership: one that joins, or joins again after it was forced out, is
\* Progressing until its peers are connected (the latch and the phase kept for replicas
\* older than it).
CriticalOnlyAfterQuorum == rvr.phase = "Critical" => had

\* A replica that was seen with quorum, or was shown as Healthy by a controller older
\* than the latch, and that loses it is shown as Critical,
\* unless quorum comes back, it leaves the datamesh or its agent is down.
LostQuorumIsCritical ==
    ((rvr.latch \/ rvr.phase = "Healthy") /\ ~Quorum(kernel)) ~>
        (rvr.phase = "Critical" \/ Quorum(kernel) \/ ~IsMember(rv) \/ ~alive)

=============================================================================
