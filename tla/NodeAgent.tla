----------------------------- MODULE NodeAgent -----------------------------
(***************************************************************************)
(* The agent's reconcile of a DRBDResource, in four steps between which    *)
(* others act and the agent may die: the write-ahead of what it will hold  *)
(* and the hold on the backing volume; the convergence of the kernel; the  *)
(* release of volumes no longer used; the report and the removal of the    *)
(* agent's finalizer.                                                      *)
(***************************************************************************)
EXTENDS ReplicaController

agentVars == <<view, memo, pass, alive>>

NoObs == [Down EXCEPT !.cfg = <<"unknown", 0>>]

Idle == [pc |-> "idle", d |-> NoDRBDR, obs |-> Down, disk |-> NoLLV, owed |-> {}, err |-> FALSE]

\* Deleted, with no finalizer left but the agent's.
isInCleanup(d) == d.del /\ d.fins \subseteq {"agent"}

isUpAndNotInCleanup(d) == ~isInCleanup(d)

\* Only outside maintenance is the backing volume of the spec taken hold of.
Holding(d) ==
    ~d.spec.maint /\ isUpAndNotInCleanup(d) /\ d.spec.type = "Diskful" /\ d.spec.llv # NoLLV

\* drbdsetup status and show through the cache; the commands may fail.
Observed == IF memo.ok THEN memo.val ELSE kernel

observeActualDRBDState(failing) ==
    IF failing THEN memo' = memo ELSE memo' = [ok |-> TRUE, val |-> Observed]

\* A merge patch with the whole finalizer list and no resource version: it replaces
\* the list, and is refused when it would add a finalizer to a deleting object.
PatchAccepted(l, fins) == llv[l].ex /\ (llv[l].del => fins \subseteq llv[l].fins)

\* The volumes the agent reads: its informer may lag behind.
LLVView == IF "lag" \in budget.kinds THEN view.llv ELSE llv

\* The finalizer on the backing volume.  A deleting volume that is already attached
\* stays the intended disk; one that is not attached cannot be taken.
reconcileLLVFinalizerAdd(l, attached) ==
    LET o == LLVView[l]
        fins == o.fins \cup {"agent"}
    IN  CASE ~o.ex -> [disk |-> NoLLV, err |-> TRUE, put |-> FALSE, fins |-> {}]
          [] o.ex /\ o.del -> [disk |-> attached, err |-> attached = NoLLV, put |-> FALSE,
                               fins |-> {}]
          [] o.ex /\ ~o.del /\ "agent" \in o.fins ->
               [disk |-> l, err |-> FALSE, put |-> FALSE, fins |-> {}]
          [] OTHER -> LET ok == PatchAccepted(l, fins)
                      IN  [disk |-> IF ok THEN l ELSE NoLLV, err |-> ~ok, put |-> ok,
                           fins |-> fins]

----------------------------------------------------------------------------

\* Phase 2: the agent's finalizer, under the optimistic lock.
finalizerMissing(d) == isUpAndNotInCleanup(d) /\ ~d.del /\ "agent" \notin d.fins

\* Phase 4: the volume is owed a release before anything holds it.
listGrows(d) == Holding(d) /\ d.spec.llv \notin d.owed

\* Phases 2 to 5.  Each write is refused when the copy is stale; a list that grew
\* ends the pass and brings another.
AgentBegin ==
    LET d0 == view.drbdr
        d1 == IF finalizerMissing(d0) THEN [d0 EXCEPT !.fins = @ \cup {"agent"}] ELSE d0
        d2 == IF listGrows(d1) THEN [d1 EXCEPT !.owed = @ \cup {d1.spec.llv}] ELSE d1
    IN  /\ alive /\ pass.pc = "idle" /\ "agent" \in queued /\ d0.ex
        /\ \E failing \in BOOLEAN :
             /\ IF failing THEN Event("query") ELSE UNCHANGED budget
             /\ IF d2 # d0 /\ d0 # drbdr
                THEN /\ IF d1 # d0 THEN UNCHANGED memo ELSE observeActualDRBDState(failing)
                     /\ UNCHANGED <<drbdr, llv, queued, pass>>
                ELSE /\ observeActualDRBDState(failing)
                     /\ drbdr' = IF d2 # d0 THEN d2 ELSE drbdr
                     /\ IF d2.owed # d0.owed
                        THEN UNCHANGED <<llv, queued, pass>>
                        ELSE LET obs == IF failing THEN NoObs ELSE Observed
                                 h == IF Holding(d2)
                                      THEN reconcileLLVFinalizerAdd(d2.spec.llv, obs.disk)
                                      ELSE [disk |-> NoLLV, err |-> FALSE, put |-> FALSE, fins |-> {}]
                             IN  /\ llv' = IF h.put THEN [llv EXCEPT ![d2.spec.llv].fins = h.fins]
                                           ELSE llv
                                 /\ pass' = [pc |-> "converge", d |-> d2, obs |-> obs,
                                             disk |-> h.disk, owed |-> d2.owed,
                                             err |-> h.err \/ failing]
                                 /\ queued' = queued \ {"agent"}
        /\ UNCHANGED <<log, want, rvr, kernel, seen, view, kev, alive>>

\* A resource of the node that no DRBDResource stands for is taken down.
reconcileOrphanDRBD ==
    /\ alive /\ pass.pc = "idle" /\ "agent" \in queued /\ ~view.drbdr.ex
    /\ observeActualDRBDState(FALSE)
    /\ kernel' = IF Observed.up THEN Down ELSE kernel
    /\ kev' = (kev \/ kernel' # kernel)
    /\ queued' = queued \ {"agent"}
    /\ UNCHANGED <<log, want, rvr, drbdr, llv, seen, view, pass, alive, budget>>

----------------------------------------------------------------------------
(* Phase 6.  The actions run in a fixed order and stop at the first error: *)
(* the resource and its minor, the disk, the peers and options, the size.  *)
(* A disk that differs is only detached; the next pass attaches.           *)

Diskful(d) == d.spec.type = "Diskful"

computeBringUpActions(k, obs, d, disk, n) ==
    LET k1 == [k EXCEPT !.up = TRUE]
        k2 == CASE n < 2 -> k1
                [] obs.disk = disk -> k1
                [] obs.disk # NoLLV -> [k1 EXCEPT !.disk = NoLLV, !.size = 0]
                [] OTHER -> [k1 EXCEPT !.disk = disk, !.size = IF @ = 0 THEN 1 ELSE @]
        k3 == IF n < 3 THEN k2 ELSE [k2 EXCEPT !.cfg = d.spec.cfg]
        k4 == IF n < 4 \/ ~Diskful(d) \/ k3.disk = NoLLV THEN k3
              ELSE [k3 EXCEPT !.size = IF d.spec.size > @ THEN d.spec.size ELSE @]
    IN  IF n < 1 THEN k ELSE k4

computeTargetDRBDActions(k, obs, d, disk, n) ==
    CASE obs = NoObs \/ d.spec.maint -> k
      [] isUpAndNotInCleanup(d) -> computeBringUpActions(k, obs, d, disk, n)
      [] OTHER -> IF n < 1 \/ ~obs.up THEN k ELSE Down

\* The kernel runs what the spec asks for.
Reached(k, d) ==
    /\ k.up /\ k.cfg = d.spec.cfg
    /\ Diskful(d) => k.disk = d.spec.llv /\ k.size >= d.spec.size
    /\ ~Diskful(d) => k.disk = NoLLV

AgentConverge ==
    /\ alive /\ pass.pc = "converge"
    /\ \E n \in 0..4, failing \in BOOLEAN :
         LET k == computeTargetDRBDActions(kernel, pass.obs, pass.d, pass.disk, n)
             full == computeTargetDRBDActions(kernel, pass.obs, pass.d, pass.disk, 4)
             failed == k # full
             ran == \/ k # kernel
                    \/ ~isUpAndNotInCleanup(pass.d) /\ pass.obs # NoObs /\ ~pass.d.spec.maint
         IN  /\ n # 4 => failed
             /\ failing => ran
             /\ IF failed THEN Event("action") ELSE IF failing THEN Event("query")
                ELSE UNCHANGED budget
             /\ kernel' = [k EXCEPT !.hit = @ /\ ~Reached(k, pass.d)]
             /\ kev' = (kev \/ k # kernel)
             /\ memo' = IF ran THEN [ok |-> ~failing, val |-> IF failing THEN Down ELSE k]
                        ELSE memo
             /\ pass' = [pass EXCEPT !.pc = "release", !.err = @ \/ failed \/ failing,
                                     !.obs = IF ~ran THEN @ ELSE IF failing THEN NoObs ELSE k]
    /\ UNCHANGED <<log, want, rvr, drbdr, llv, seen, view, queued, alive>>

----------------------------------------------------------------------------
(* Phase 7 *)

\* The volume behind the attached disk, looked up among the volumes of the node.
computeActualLLVName(obs) ==
    IF obs.disk # NoLLV /\ LLVView[obs.disk].ex THEN obs.disk ELSE NoLLV

\* A mutant: only the volume of the spec is kept, whatever is attached.
keptHeldBySpec(p) == {l \in p.owed : isUpAndNotInCleanup(p.d) /\ l = p.d.spec.llv}

keptHeld(p) ==
    {l \in p.owed : \/ isUpAndNotInCleanup(p.d) /\ l = p.d.spec.llv
                    \/ l = computeActualLLVName(p.obs)}

\* Release of one volume: nothing to do for one the cache does not show or shows
\* without the finalizer.
releaseLLVFinalizer(l) ==
    LET o == LLVView[l]
        fins == o.fins \ {"agent"}
    IN  CASE ~o.ex \/ "agent" \notin o.fins \/ ~llv[l].ex -> [fins |-> llv[l].fins, ok |-> TRUE]
          [] PatchAccepted(l, fins) -> [fins |-> fins, ok |-> TRUE]
          [] OTHER -> [fins |-> llv[l].fins, ok |-> FALSE]

AgentRelease ==
    LET kept == keptHeld(pass)
        gone == pass.owed \ kept
        failed == {l \in gone : ~releaseLLVFinalizer(l).ok}
    IN  /\ alive /\ pass.pc = "release"
        /\ llv' = [l \in LLVs |-> IF l \in gone THEN [llv[l] EXCEPT !.fins = releaseLLVFinalizer(l).fins]
                                  ELSE llv[l]]
        /\ pass' = [pass EXCEPT !.pc = "report", !.owed = kept \cup failed,
                                !.err = @ \/ failed # {}]
        /\ UNCHANGED <<log, want, rvr, drbdr, kernel, seen, view, memo, kev, queued, alive, budget>>

----------------------------------------------------------------------------
(* Phases 8 and 9 *)

ensureReportState(p) ==
    [p.d EXCEPT !.obsGen = p.d.gen, !.owed = p.owed,
                !.cond = IF p.err THEN "fail" ELSE IF p.d.spec.maint THEN "maint" ELSE "ok",
                !.active = computeActualLLVName(p.obs),
                !.size = IF p.obs = NoObs THEN @ ELSE IF p.obs.disk = NoLLV THEN 0 ELSE p.obs.size]

\* The changes of a DRBDResource that bring the agent: of its spec, a deletion, a
\* finalizer.  Status patches wake nobody.
drbdrPredicates(old, new) ==
    old.ex # new.ex \/ old.gen # new.gen \/ old.del # new.del \/ old.fins # new.fins

\* Every volume released and the resource gone from the node.
tornDown(p) == p.owed = {} /\ p.obs # NoObs /\ ~p.obs.up /\ ~isUpAndNotInCleanup(p.d)

\* As the controller, the agent reads its own report before its next pass, unless the
\* scenario lets the informers fall behind.
AgentReport ==
    LET d == ensureReportState(pass)
        conflict == d # pass.d /\ drbdr # pass.d
        base == IF conflict THEN pass.d ELSE d
        last == tornDown(pass)
        lastConflict == last /\ (conflict \/ (d = pass.d /\ drbdr # pass.d))
        end == IF last /\ ~lastConflict
               THEN Settled([base EXCEPT !.fins = @ \ {"agent"}], NoDRBDR) ELSE base
        written == ~conflict /\ ~lastConflict /\ end # pass.d
    IN  /\ alive /\ pass.pc = "report"
        /\ drbdr' = IF written THEN end ELSE drbdr
        /\ view' = IF written /\ "stale" \notin budget.kinds THEN [view EXCEPT !.drbdr = end] ELSE view
        /\ queued' = IF \/ pass.err \/ (conflict /\ drbdr.ex) \/ (lastConflict /\ drbdr.ex)
                        \/ drbdrPredicates(view.drbdr, view'.drbdr)
                     THEN queued \cup {"agent"} ELSE queued
        /\ pass' = Idle
        /\ UNCHANGED <<log, want, rvr, llv, kernel, seen, memo, kev, alive, budget>>

----------------------------------------------------------------------------
(* Events of the node *)

\* An event of the kernel: the caches of the resource go, and a request comes.
ScannerEvent ==
    /\ alive /\ kev
    /\ kev' = FALSE /\ memo' = [ok |-> FALSE, val |-> Down]
    /\ queued' = queued \cup {"agent"}
    /\ UNCHANGED <<log, want, rvr, drbdr, llv, kernel, seen, view, pass, alive, budget>>

AgentSeesDRBDR ==
    /\ alive /\ view.drbdr # drbdr
    /\ view' = [view EXCEPT !.drbdr = drbdr]
    /\ queued' = IF drbdrPredicates(view.drbdr, drbdr) THEN queued \cup {"agent"} ELSE queued
    /\ UNCHANGED <<log, want, rvr, drbdr, llv, kernel, seen, memo, kev, pass, alive, budget>>

AgentSeesLLV ==
    /\ "lag" \in budget.kinds /\ alive /\ view.llv # llv
    /\ view' = [view EXCEPT !.llv = llv]
    /\ UNCHANGED <<log, want, rvr, drbdr, llv, kernel, seen, memo, kev, queued, pass, alive, budget>>

\* The agent dies at any step of a pass.
Crash ==
    /\ alive /\ Event("crash")
    /\ alive' = FALSE /\ pass' = Idle
    /\ memo' = [ok |-> FALSE, val |-> Down] /\ kev' = FALSE
    /\ queued' = (queued \ {"agent"}) \cup {"rvr"}
    /\ UNCHANGED <<log, want, rvr, drbdr, llv, kernel, seen, view>>

\* The node reboots: DRBD is not persistent.
Reboot ==
    /\ alive /\ Event("reboot")
    /\ alive' = FALSE /\ pass' = Idle
    /\ memo' = [ok |-> FALSE, val |-> Down] /\ kev' = FALSE
    /\ kernel' = [Down EXCEPT !.hit = TRUE]
    /\ queued' = (queued \ {"agent"}) \cup {"rvr"}
    /\ UNCHANGED <<log, want, rvr, drbdr, llv, seen, view>>

\* A new agent lists the objects of its node and the scanner dumps the kernel.
Restart ==
    /\ ~alive
    /\ alive' = TRUE
    /\ view' = [drbdr |-> drbdr, llv |-> llv]
    /\ queued' = queued \cup {"agent", "rvr"}
    /\ UNCHANGED <<log, want, rvr, drbdr, llv, kernel, seen, memo, kev, pass, budget>>

\* DRBD drops a disk that fails.
DiskFails ==
    /\ kernel.disk # NoLLV /\ Event("disk")
    /\ kernel' = [kernel EXCEPT !.disk = NoLLV, !.size = 0, !.hit = TRUE]
    /\ kev' = TRUE
    /\ UNCHANGED <<log, want, rvr, drbdr, llv, seen, view, memo, queued, pass, alive>>

AgentStep == AgentBegin \/ reconcileOrphanDRBD \/ AgentConverge \/ AgentRelease \/ AgentReport
=============================================================================
