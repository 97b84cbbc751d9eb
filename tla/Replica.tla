------------------------------ MODULE Replica ------------------------------
(***************************************************************************)
(* One replica of a volume, from the datamesh revision that describes it   *)
(* to the DRBD resource of its node: the volume publishes revisions, the   *)
(* rvr controller translates them, the agent applies them, and the replica *)
(* confirms the revision it runs.                                          *)
(***************************************************************************)
EXTENDS NodeAgent

CONSTANT Scenarios     \* where a run starts and what may happen in it

\* A replica just created, and the datamesh knows nothing of it.
NewReplica(s) ==
    /\ log = <<[mem |-> "none", lvg |-> 1, cfg |-> 0, size |-> 1]>>
    /\ rvr = NewRVR(s.type)
    /\ drbdr = NoDRBDR /\ kernel = Down
    /\ llv = [l \in LLVs |-> NoLV]
    /\ queued = {"rvr"}

\* A diskful member that runs the revision it confirmed.
SettledMember ==
    LET m == [mem |-> "D", lvg |-> 1, cfg |-> 0, size |-> 1]
    IN  /\ log = <<[m EXCEPT !.mem = "none"], m>>
        /\ rvr = [NewRVR("D") EXCEPT !.fins = {"rvr", "rv"}, !.dmRev = 2, !.obsRev = 2,
                     !.cond = "Configured", !.cache = [rev |-> 2, gen |-> 2, type |-> "D"]]
        /\ drbdr = [NoDRBDR EXCEPT !.ex = TRUE, !.fins = {"rvr", "agent"}, !.gen = 2,
                       !.spec = [type |-> "Diskful", llv |-> 1, size |-> 1, cfg |-> <<"D", 0>>,
                                 maint |-> FALSE],
                       !.obsGen = 2, !.cond = "ok", !.active = 1, !.owed = {1}, !.size = 1]
        /\ kernel = [up |-> TRUE, disk |-> 1, size |-> 1, cfg |-> <<"D", 0>>, hit |-> FALSE]
        /\ llv = [[l \in LLVs |-> NoLV] EXCEPT
                     ![1] = [ex |-> TRUE, del |-> FALSE, fins |-> {"rvr", "agent"}, ready |-> TRUE,
                             size |-> 1, act |-> 1]]
        /\ queued = {}

Init ==
    /\ \E s \in Scenarios :
         /\ budget = [kinds |-> s.kinds, left |-> s.left]
         /\ IF s.start = "member" THEN SettledMember ELSE NewReplica(s)
    /\ want = 1
    /\ seen = [rvr |-> rvr, rev |-> Rev, want |-> 1, drbdr |-> drbdr, llv |-> llv]
    /\ view = [drbdr |-> drbdr, llv |-> llv]
    /\ memo = [ok |-> FALSE, val |-> Down]
    /\ kev = FALSE /\ pass = Idle /\ alive = TRUE

----------------------------------------------------------------------------
(* The replicated volume *)

Current == log[Rev]

Publish(m) ==
    /\ Rev < MaxRev
    /\ log' = Append(log, m)
    /\ UNCHANGED <<want, rvr, drbdr, llv, kernel, seen, view, memo, kev, queued, pass, alive>>

Confirmed == rvr.ex /\ (IF IsMember(Current) THEN rvr.dmRev = Rev ELSE rvr.dmRev = 0)

\* The datamesh moves the replica one type at a time, after it confirmed the last.
Wanted == IF rvr.del THEN "none" ELSE rvr.type

Order == <<"none", "A", "D0", "D">>
Place(t) == CHOOSE i \in 1..4 : Order[i] = t

CanTransition ==
    /\ Current.mem # Wanted /\ Confirmed /\ Rev < MaxRev
    /\ Current.mem = "none" => rvr.cond = "PendingDatameshJoin"

Transition ==
    LET here == Place(Current.mem)
        there == Place(Wanted)
        next == IF here < there THEN Order[here + 1] ELSE Order[here - 1]
    IN  /\ CanTransition
        /\ Publish([Current EXCEPT !.mem = next, !.lvg = rvr.lvg])
        /\ UNCHANGED budget

\* A change that concerns other members: peers, quorum, role.
Reconfigure ==
    /\ IsMember(Current) /\ Event("cfg")
    /\ Publish([Current EXCEPT !.cfg = 1 - @])

\* The size in the spec grows first, the datamesh when the backing volumes have it.
Resize ==
    /\ want < MaxSize /\ Event("size")
    /\ want' = want + 1
    /\ UNCHANGED <<log, rvr, drbdr, llv, kernel, seen, view, memo, kev, queued, pass, alive>>

CanGrow ==
    /\ Current.mem = "D" /\ Current.size < want /\ llv[Current.lvg].act >= want /\ Confirmed
    /\ Rev < MaxRev

GrowDatamesh ==
    /\ CanGrow
    /\ Publish([Current EXCEPT !.size = want])
    /\ UNCHANGED budget

\* The volume's finalizer goes from a deleted replica that left the datamesh.
CanRelease == rvr.ex /\ rvr.del /\ "rv" \in rvr.fins /\ Current.mem = "none" /\ rvr.dmRev = 0

ReleaseRVR ==
    /\ CanRelease
    /\ rvr' = Settled([rvr EXCEPT !.fins = @ \ {"rv"}], NoRVR)
    /\ UNCHANGED <<log, want, drbdr, llv, kernel, seen, view, memo, kev, queued, pass, alive, budget>>

----------------------------------------------------------------------------
(* Users *)

EditRVR(o, kind) ==
    /\ rvr.ex /\ ~rvr.del /\ Event(kind)
    /\ rvr' = Settled(o, NoRVR)
    /\ UNCHANGED <<log, want, drbdr, llv, kernel, seen, view, memo, kev, queued, pass, alive>>

DeleteRVR == EditRVR([rvr EXCEPT !.del = TRUE], "delete")

Retype == EditRVR([rvr EXCEPT !.type = IF @ = "D" THEN "A" ELSE "D"], "retype")

\* Before membership another volume group may be chosen.
ChangeLVG ==
    Current.mem = "none" /\ rvr.type = "D" /\ EditRVR([rvr EXCEPT !.lvg = 3 - @], "lvg")

\* A replica of the same name is created once the old one is gone.
CreateRVR ==
    /\ ~rvr.ex /\ ~seen.rvr.ex /\ Current.mem = "none" /\ Event("create")
    /\ rvr' = NewRVR("D")
    /\ UNCHANGED <<log, want, drbdr, llv, kernel, seen, view, memo, kev, queued, pass, alive>>

ToggleMaintenance ==
    /\ drbdr.ex /\ (drbdr.spec.maint \/ Event("maint"))
    /\ drbdr' = [drbdr EXCEPT !.spec.maint = ~@, !.gen = @ + 1]
    /\ drbdr.spec.maint => UNCHANGED budget
    /\ UNCHANGED <<log, want, rvr, llv, kernel, seen, view, memo, kev, queued, pass, alive>>

----------------------------------------------------------------------------
(* Other controllers: sds-node-configurator and the garbage collector *)

othersVars == <<log, want, rvr, kernel, seen, view, memo, kev, queued, pass, alive, budget>>

CanProvision(l) == llv[l].ex /\ ~llv[l].del /\ (~llv[l].ready \/ llv[l].act < llv[l].size)

ProvisionLLV(l) ==
    /\ CanProvision(l)
    /\ llv' = [llv EXCEPT ![l].ready = TRUE, ![l].act = llv[l].size]
    /\ UNCHANGED <<drbdr, othersVars>>

\* Its own finalizer is the last to go.
CanRemove(l) == llv[l].ex /\ llv[l].del /\ llv[l].fins = {}

RemoveLLV(l) ==
    /\ CanRemove(l)
    /\ llv' = [llv EXCEPT ![l] = NoLV]
    /\ UNCHANGED <<drbdr, othersVars>>

Orphans == (drbdr.ex /\ ~drbdr.del) \/ \E l \in LLVs : llv[l].ex /\ ~llv[l].del

CollectGarbage ==
    /\ ~rvr.ex /\ Orphans
    /\ drbdr' = IF drbdr.ex THEN Settled([drbdr EXCEPT !.del = TRUE], NoDRBDR) ELSE drbdr
    /\ llv' = [l \in LLVs |-> [llv[l] EXCEPT !.del = llv[l].ex]]
    /\ UNCHANGED othersVars

----------------------------------------------------------------------------
(* The rvr controller *)

\* A mutant: of a new revision only a change of the member's type matters.
WakesOnType(old, new) ==
    \/ old.rvr.fins # new.rvr.fins \/ old.rvr.del # new.rvr.del \/ old.rvr.ex # new.rvr.ex
    \/ old.rvr.type # new.rvr.type \/ old.rvr.lvg # new.rvr.lvg
    \/ old.drbdr # new.drbdr \/ old.llv # new.llv \/ old.want # new.want
    \/ log[old.rev].mem # log[new.rev].mem

\* Which change of a copy brings the replica back: the spec and finalizers of the
\* replica, any change of its children, and of the volume what concerns it.
Wakes(old, new) ==
    \/ [old.rvr EXCEPT !.cache = new.rvr.cache, !.dmRev = new.rvr.dmRev,
                       !.obsRev = new.rvr.obsRev, !.cond = new.rvr.cond] # new.rvr
    \/ old.drbdr # new.drbdr \/ old.llv # new.llv
    \/ old.want # new.want
    \/ old.rev # new.rev /\ (IsMember(log[old.rev]) \/ IsMember(log[new.rev]))

Deliver(new) ==
    /\ new # seen /\ seen' = new
    /\ queued' = IF Wakes(seen, new) THEN queued \cup {"rvr"} ELSE queued
    /\ UNCHANGED <<log, want, rvr, drbdr, llv, kernel, view, memo, kev, pass, alive, budget>>

SeeRVR == Deliver([seen EXCEPT !.rvr = rvr])
SeeRV == Deliver([seen EXCEPT !.rev = Rev, !.want = want])
SeeDRBDR == Deliver([seen EXCEPT !.drbdr = drbdr])
SeeLLV == Deliver([seen EXCEPT !.llv = llv])

Fresh == seen = [rvr |-> rvr, rev |-> Rev, want |-> want, drbdr |-> drbdr, llv |-> llv]

\* Unless the scenario lets the informers fall behind, they bring the controller its
\* own writes before the next pass.
OwnWrites(p) ==
    IF "stale" \in budget.kinds THEN seen
    ELSE [seen EXCEPT !.rvr = IF p.api.rvr # rvr THEN p.api.rvr ELSE @,
                      !.drbdr = IF p.api.drbdr # drbdr THEN p.api.drbdr ELSE @,
                      !.llv = [l \in LLVs |-> IF p.api.llv[l] # llv[l] THEN p.api.llv[l] ELSE @[l]]]

Commit(p) ==
    /\ rvr' = p.api.rvr /\ drbdr' = p.api.drbdr /\ llv' = p.api.llv
    /\ seen' = OwnWrites(p)
    /\ queued' = CASE Wakes(seen, OwnWrites(p)) -> queued
                   [] \/ p.st \in {"fail", "requeue"} \/ p.again
                      \/ p.st = "go" /\ rvrShouldNotExist(p.v.rvr) /\ "rvr" \in p.v.rvr.fins ->
                        IF Fresh THEN (queued \ {"rvr"}) \cup {"rvrLater"} ELSE queued
                   [] OTHER -> queued \ {"rvr"}
    /\ UNCHANGED <<log, want, kernel, view, memo, kev, pass, alive>>

\* A failed or repeated request comes back after the delay of the rate limiter.
Backoff ==
    /\ "rvrLater" \in queued
    /\ queued' = (queued \ {"rvrLater"}) \cup {"rvr"}
    /\ UNCHANGED <<log, want, rvr, drbdr, llv, kernel, seen, view, memo, kev, pass, alive, budget>>

\* A whole pass; LLV writes may be refused as invalid.
Reconcile ==
    /\ "rvr" \in queued
    /\ IF seen.rvr.ex
       THEN \E refused \in BOOLEAN :
              /\ IF refused THEN Event("invalid") ELSE UNCHANGED budget
              /\ Commit(patchRVRStatus(AfterResource(seen, refused, alive)))
       ELSE UNCHANGED budget /\ Commit(ReleaseChildren(NewPass(seen)))

\* A pass that ends after some of its writes: an API error, or the controller restarts.
ReconcileInterrupted ==
    /\ "rvr" \in queued /\ seen.rvr.ex /\ Event("abort")
    /\ \E p \in {AfterMetadata(seen), AfterVolume(seen, FALSE), AfterResource(seen, FALSE, alive)} :
         Commit(Fail(p))

----------------------------------------------------------------------------

Next ==
    \/ Transition \/ Reconfigure \/ Resize \/ GrowDatamesh \/ ReleaseRVR
    \/ DeleteRVR \/ Retype \/ ChangeLVG \/ CreateRVR \/ ToggleMaintenance
    \/ \E l \in LLVs : ProvisionLLV(l) \/ RemoveLLV(l)
    \/ CollectGarbage
    \/ SeeRVR \/ SeeRV \/ SeeDRBDR \/ SeeLLV \/ Reconcile \/ ReconcileInterrupted
    \/ AgentBegin \/ reconcileOrphanDRBD \/ AgentConverge \/ AgentRelease \/ AgentReport
    \/ ScannerEvent \/ AgentSeesDRBDR \/ AgentSeesLLV
    \/ Backoff
    \/ Crash \/ Reboot \/ Restart \/ DiskFails

AgentBusy == alive /\ (pass.pc # "idle" \/ ("agent" \in queued /\ view.drbdr = drbdr))

Fairness ==
    /\ []<>(~CanTransition) \/ []<><<Transition>>_vars
    /\ []<>(~CanGrow) \/ []<><<GrowDatamesh>>_vars
    /\ []<>(~CanRelease) \/ []<><<ReleaseRVR>>_vars
    /\ []<>(~drbdr.spec.maint) \/ []<><<ToggleMaintenance>>_vars
    /\ \A l \in LLVs : /\ []<>(~CanProvision(l)) \/ []<><<ProvisionLLV(l)>>_vars
                       /\ []<>(~CanRemove(l)) \/ []<><<RemoveLLV(l)>>_vars
    /\ []<>(rvr.ex \/ ~Orphans) \/ []<><<CollectGarbage>>_vars
    /\ []<>(seen.rvr = rvr) \/ []<><<SeeRVR>>_vars
    /\ []<>(seen.rev = Rev /\ seen.want = want) \/ []<><<SeeRV>>_vars
    /\ []<>(seen.drbdr = drbdr) \/ []<><<SeeDRBDR>>_vars
    /\ []<>(seen.llv = llv) \/ []<><<SeeLLV>>_vars
    /\ []<>("rvr" \notin queued \/ ~Fresh) \/ []<><<Reconcile>>_vars
    /\ []<>("rvrLater" \notin queued) \/ []<><<Backoff>>_vars
    /\ []<>(~AgentBusy) \/ []<><<AgentStep>>_vars
    /\ []<>(~alive \/ ~kev) \/ []<><<ScannerEvent>>_vars
    /\ []<>(~alive \/ view.drbdr = drbdr) \/ []<><<AgentSeesDRBDR>>_vars
    /\ []<>alive \/ []<><<Restart>>_vars

Spec == Init /\ [][Next]_vars /\ Fairness

SafeSpec == Init /\ [][Next]_vars

----------------------------------------------------------------------------

\* The volume attached to DRBD is never removed under it: while the kernel has a disk
\* the LVMLogicalVolume exists and carries the agent's finalizer, across crashes,
\* reboots, failed commands and deletions at any step (phases 4, 5 and 7 of
\* reconcileDRBDR, reconcileLLVFinalizerAdd, reconcileLLVFinalizersToRelease).
DiskHeld ==
    kernel.disk # NoLLV => llv[kernel.disk].ex /\ "agent" \in llv[kernel.disk].fins

\* The detailed replica implements the abstract one: it confirms a datamesh revision
\* (status.datameshRevision, steps 11 to 15 of reconcileDRBDResource) only when the
\* kernel of its node runs that revision, and withdraws only when it takes no part.
Contract == INSTANCE ReplicaContract WITH running <- kernel, confirmed <- rvr.dmRev

KeepsContract == Contract!Spec

Stays == rvr.ex /\ ~rvr.del /\ rvr.lvg = 1

\* A replica that stays becomes a member of the type of its spec and confirms the last
\* revision, whatever interrupted the provisioning of its volume and the passes of the
\* controller and of the agent (their requeues, watches and the scanner); for a replica
\* whose volume group was not changed after its creation.
Converges == <>[](Stays => Current.mem = rvr.type /\ rvr.dmRev = Rev)

\* A deleted replica leaves the datamesh and takes everything with it: the DRBD resource
\* of the node, the DRBDResource and the backing volumes (rvrShouldNotExist, the
\* finalizers of the controller and of the agent).
DeletedReplicaGoes ==
    rvr.del ~> ~rvr.ex /\ ~drbdr.ex /\ ~kernel.up /\ \A l \in LLVs : ~llv[l].ex
=============================================================================
