----------------------------- MODULE Migration -----------------------------
(***************************************************************************)
(* The move of LINSTOR volumes to this control plane: linstor-migrator, a  *)
(* job that goes through four stages, keeps only the stage in a ConfigMap, *)
(* and may stop anywhere; and rv_controller's adopt/v1 formation, by which *)
(* a volume takes over replicas that exist and hold data.                  *)
(***************************************************************************)
EXTENDS MemberTypes, FiniteSets

CONSTANTS
    Resources,    \* LINSTOR resources, each to become a ReplicatedVolume
    Replicas,     \* the replicas each of them has
    MaxIterations,\* stage4MaxIterations
    Scenarios     \* initial worlds and what may happen: see Init

\* LINSTOR is there or is not.
ASSUME LinstorKnown == \A s \in Scenarios : s.linstor \in BOOLEAN

VARIABLES
    cm,           \* the state recorded in the migration ConfigMap
    at,           \* where the migrator process is
    cur,          \* the resource it is migrating
    todo,         \* stage 1: resources not yet gone through; stage 2: remainingRVNames
    work,         \* work[r]: where stage 2's worker is with volume r
    iter,         \* iteration of stage 4
    blocked,      \* stage 4: the class was found to be non-convertible
    drbdr,        \* drbdr[r]: replicas that have their backing volume and DRBDResource objects
    maint,        \* maint[r]: those of them in maintenance
    rvr,          \* rvr[r]: replicas that have their ReplicatedVolumeReplica
    owned,        \* owned[r]: objects are owned by their replica
    rv,           \* rv[r]: the ReplicatedVolume
    rva,          \* rva[r]: the ReplicatedVolumeAttachment
    pv,           \* pv[r]: the PersistentVolume exists
    linstor,      \* LINSTOR's own database: [crd, backup]
    pool,         \* the pool named by the class's deprecated storagePool field
    auto,         \* the linstor-auto pool for it exists
    class,        \* the ReplicatedStorageClass: its phase, whether it still names a pool by the
                  \* deprecated field, whether LINSTOR volumes are in that pool, its final phase
    budget

procVars == <<at, cur, todo, work, iter, blocked>>
stage1Vars == <<drbdr, rvr, owned, rva, auto>>
vars == <<cm, procVars, stage1Vars, maint, rv, pv, linstor, pool, class, budget>>

Event(kind) ==
    /\ kind \in budget.kinds /\ budget.left > 0
    /\ budget' = [budget EXCEPT !.left = @ - 1]

NoVolume == [exists |-> FALSE, adopt |-> FALSE, mode |-> None, label |-> None,
             step |-> None, members |-> {}, observed |-> FALSE]

----------------------------------------------------------------------------
(* The process.  Only the ConfigMap survives it.                           *)

\* What Run does with the recorded state.
stageFor(state) ==
    CASE state = "all_completed" -> "done"
      [] state \in {"stage3_completed", "stage4_started"} -> "stage4"
      [] state \in {"stage3_started", "stage2_completed"} -> "stage3"
      [] state \in {"stage1_completed", "stage2_started"} -> "stage2"
      [] OTHER -> "stage1"

\* ensureConfigMap creates it where it is missing.
Run ==
    /\ at = "down"
    /\ at' = stageFor(cm) /\ cm' = IF cm = None THEN "not_started" ELSE cm
    /\ UNCHANGED <<cur, todo, work, iter, blocked, stage1Vars, maint, rv, pv, linstor, pool, class, budget>>

Idle == [r \in Resources |-> "idle"]

\* Stage 2 has ended the maintenance of volume r and not yet removed its annotations.
betweenPatches(r) == work[r] = "clear" /\ maint[r] = {}

\* The pod goes away, or a call fails for good; the job starts it again.
Crash ==
    /\ at \notin {"down", "done"}
    /\ Event(IF \E r \in Resources : betweenPatches(r) THEN "crash between" ELSE "crash")
    /\ at' = "down" /\ cur' = None /\ todo' = {} /\ work' = Idle /\ iter' = 0 /\ blocked' = FALSE
    /\ UNCHANGED <<cm, stage1Vars, maint, rv, pv, linstor, pool, class>>

----------------------------------------------------------------------------
(* Stage 1: every resource gets its objects, each created unless there.    *)

\* A pool is made for each LINSTOR pool that is in use.
ensureMigrationRSP == auto' = class.used

\* The state is recorded, LINSTOR's controller is gone, its database is read, one pool is
\* made for each LINSTOR pool in use.  Without LINSTOR there is nothing to migrate.
runStage1 ==
    /\ at = "stage1"
    /\ IF linstor.crd
       THEN /\ at' = "stage1.next" /\ todo' = Resources /\ cm' = "stage1_started" /\ ensureMigrationRSP
       ELSE /\ at' = "stage2" /\ cm' = "stage1_completed" /\ UNCHANGED <<todo, auto>>
    /\ UNCHANGED <<cur, work, iter, blocked, drbdr, rvr, owned, rva, maint, rv, pv, linstor, pool, class, budget>>

\* Resources with a PersistentVolume come first.
nextResource ==
    /\ at = "stage1.next"
    /\ \/ /\ todo # {}
          /\ \E r \in todo :
                /\ pv[r] \/ \A s \in todo : ~pv[s]
                /\ cur' = r /\ todo' = todo \ {r}
          /\ at' = "stage1.resource" /\ UNCHANGED cm
       \/ /\ todo = {}
          /\ cm' = "stage1_completed" /\ at' = "stage2" /\ UNCHANGED <<cur, todo>>
    /\ UNCHANGED <<work, iter, blocked, stage1Vars, maint, rv, pv, linstor, pool, class, budget>>

\* The volume as it is created: to adopt its replicas, with a manual configuration, and
\* marked either for the switch to its class or as having no PersistentVolume.
newVolume(r) ==
    [NoVolume EXCEPT !.exists = TRUE, !.adopt = TRUE, !.mode = "Manual",
                     !.label = IF pv[r] THEN "switch" ELSE "orphan"]

\* The backing volume and the DRBDResource, in maintenance, so that no agent touches what
\* runs.
createDRBDResource(r) ==
    /\ \E i \in Replicas \ drbdr[r] :
          drbdr' = [drbdr EXCEPT ![r] = @ \cup {i}] /\ maint' = [maint EXCEPT ![r] = @ \cup {i}]
    /\ UNCHANGED <<rvr, owned, rva, auto, rv, at, cur>>

createRVR(r) ==
    /\ \E i \in Replicas \ rvr[r] : rvr' = [rvr EXCEPT ![r] = @ \cup {i}]
    /\ UNCHANGED <<drbdr, owned, rva, auto, maint, rv, at, cur>>

setOwnerRefs(r) ==
    /\ owned' = [owned EXCEPT ![r] = TRUE]
    /\ UNCHANGED <<drbdr, rvr, rva, auto, maint, rv, at, cur>>

createRV(r) ==
    /\ rv' = [rv EXCEPT ![r] = newVolume(r)]
    /\ UNCHANGED <<stage1Vars, maint, at, cur>>

createRVAFromVolumeAttachments(r) ==
    /\ rva' = [rva EXCEPT ![r] = TRUE]
    /\ UNCHANGED <<drbdr, rvr, owned, auto, maint, rv, at, cur>>

\* What there is before the next kind of object is made.
hasDRBDResources(r) == drbdr[r] = Replicas
hasRVRs(r) == hasDRBDResources(r) /\ rvr[r] = Replicas
hasOwnedRVRs(r) == hasRVRs(r) /\ owned[r]
hasRV(r) == hasOwnedRVRs(r) /\ rv[r].exists

\* One object after the other, each unless it is there.
migrateResource(r) ==
    \/ createDRBDResource(r)
    \/ hasDRBDResources(r) /\ createRVR(r)
    \/ hasRVRs(r) /\ ~owned[r] /\ setOwnerRefs(r)
    \/ hasOwnedRVRs(r) /\ ~rv[r].exists /\ createRV(r)
    \/ hasRV(r) /\ pv[r] /\ ~rva[r] /\ createRVAFromVolumeAttachments(r)
    \/ hasRV(r) /\ (pv[r] => rva[r]) /\ at' = "stage1.next" /\ cur' = None /\ UNCHANGED <<stage1Vars, maint, rv>>

Migrate ==
    /\ at = "stage1.resource" /\ migrateResource(cur)
    /\ UNCHANGED <<cm, todo, work, iter, blocked, pv, linstor, pool, class, budget>>

----------------------------------------------------------------------------
(* Stage 2: volumes that have taken over their replicas leave maintenance. *)

listAdoptReplicatedVolumeNames == {r \in Resources : rv[r].exists /\ rv[r].adopt}

runStage2 ==
    /\ at = "stage2"
    /\ cm' = "stage2_started" /\ at' = "stage2.poll" /\ todo' = listAdoptReplicatedVolumeNames
    /\ UNCHANGED <<cur, work, iter, blocked, stage1Vars, maint, rv, pv, linstor, pool, class, budget>>

\* A bug: maintenance ends as soon as the volume knows its members.
matchesExitGateEarly(r) == rv[r].step \in {"verify", "populate", "exit"}

\* Adoption has come to the step that waits for the end of maintenance.
matchesExitGate(r) == rv[r].step = "exit"

\* One worker per volume: gate, DRBDResources one by one, then the annotations.
processStage2RV(r) ==
    /\ at = "stage2.poll" /\ r \in todo
    /\ \/ /\ work[r] = "idle" /\ matchesExitGate(r)
          /\ work' = [work EXCEPT ![r] = "clear"] /\ UNCHANGED <<todo, maint, rv>>
       \/ /\ work[r] = "clear" /\ maint[r] # {}
          /\ \E i \in maint[r] : maint' = [maint EXCEPT ![r] = @ \ {i}]
          /\ UNCHANGED <<work, todo, rv>>
       \/ /\ work[r] = "clear" /\ maint[r] = {}
          /\ rv' = [rv EXCEPT ![r].adopt = FALSE]
          /\ work' = [work EXCEPT ![r] = "idle"] /\ todo' = todo \ {r} /\ UNCHANGED maint
    /\ UNCHANGED <<cm, at, cur, iter, blocked, stage1Vars, pv, linstor, pool, class, budget>>

updateMigrationStateStage2Completed ==
    /\ at = "stage2.poll" /\ todo = {}
    /\ cm' = "stage2_completed" /\ at' = "stage3"
    /\ UNCHANGED <<cur, todo, work, iter, blocked, stage1Vars, maint, rv, pv, linstor, pool, class, budget>>

----------------------------------------------------------------------------
(* Stage 3: LINSTOR's database is backed up and removed.                   *)

\* A bug: what is gone is not written down any more.
runStage3DeleteFirst(step) ==
    \/ step = "stage3" /\ cm' = "stage3_started" /\ at' = "stage3.crds" /\ UNCHANGED <<linstor, pool>>
    \/ step = "stage3.crds" /\ linstor' = [linstor EXCEPT !.crd = FALSE] /\ at' = "stage3.backup" /\ UNCHANGED <<cm, pool>>
    \/ step = "stage3.backup" /\ linstor' = [linstor EXCEPT !.backup = @ \/ linstor.crd] /\ at' = "stage3.pools" /\ UNCHANGED <<cm, pool>>
    \/ step = "stage3.pools" /\ pool' = (IF pool = "legacy" THEN "terminating" ELSE pool)
       /\ at' = "stage4" /\ cm' = "stage3_completed" /\ UNCHANGED linstor

\* Backup, deletion of the CRDs (and with them of every object), deletion of the legacy
\* pool, which other finalizers may hold for a while.
runStage3(step) ==
    \/ step = "stage3" /\ cm' = "stage3_started" /\ UNCHANGED <<linstor, pool>>
       /\ at' = IF linstor.crd THEN "stage3.backup" ELSE "stage3.pools"
    \/ step = "stage3.backup" /\ linstor' = [linstor EXCEPT !.backup = TRUE] /\ at' = "stage3.crds" /\ UNCHANGED <<cm, pool>>
    \/ step = "stage3.crds" /\ linstor' = [linstor EXCEPT !.crd = FALSE] /\ at' = "stage3.pools" /\ UNCHANGED <<cm, pool>>
    \/ step = "stage3.pools" /\ pool' = (IF pool = "legacy" THEN "terminating" ELSE pool)
       /\ at' = "stage4" /\ cm' = "stage3_completed" /\ UNCHANGED linstor

Stage3 ==
    /\ runStage3(at)
    /\ UNCHANGED <<cur, todo, work, iter, blocked, stage1Vars, maint, rv, pv, class, budget>>

----------------------------------------------------------------------------
(* Stage 4: volumes follow their class again, once it is ready.            *)

\* ensureConversionRSPs: a pool for a class that still names one by the old field; a pool
\* of that name that is not the migrator's own is left alone.
ensureConversionRSPs ==
    /\ at \in {"stage4", "stage4.ensure"}
    /\ cm' = "stage4_started" /\ at' = "stage4.switch" /\ iter' = iter + 1
    /\ IF class.pool /\ pool = None
       THEN IF auto THEN pool' = "conversion" /\ blocked' = FALSE ELSE blocked' = TRUE /\ UNCHANGED pool
       ELSE blocked' = FALSE /\ UNCHANGED pool
    /\ UNCHANGED <<cur, todo, work, stage1Vars, maint, rv, pv, linstor, class, budget>>

isTerminalRSCPhase(phase) ==
    phase \in {"InsufficientNodes", "InvalidConfiguration", "PartiallyAligned", "Terminating"}


\* What becomes of a volume that is marked for the switch.
switchRVToAuto(r) ==
    CASE ~pv[r] -> [rv[r] EXCEPT !.label = "orphan"]
      [] pv[r] /\ class.phase = "Ready" -> [rv[r] EXCEPT !.label = None, !.mode = "Auto"]
      [] pv[r] /\ (isTerminalRSCPhase(class.phase) \/ (class.phase = "WaitingForStoragePool" /\ blocked)) ->
            [rv[r] EXCEPT !.label = "blocked"]
      [] OTHER -> rv[r]

switchRVsToAuto ==
    /\ at = "stage4.switch" /\ at' = "stage4.cleanup"
    /\ rv' = [r \in Resources |-> IF rv[r].label = "switch" THEN switchRVToAuto(r) ELSE rv[r]]
    /\ UNCHANGED <<cm, cur, todo, work, iter, blocked, stage1Vars, maint, pv, linstor, pool, class, budget>>

\* cleanupConversionRSPs: only the migrator's own pool, and only when no class needs it.
leftoverAfterCleanup(p) == p = "conversion" /\ class.pool

pendingVolumes == {r \in Resources : rv[r].label = "switch"}

\* Done when nothing is pending; the iterations are limited, the job's restarts are not.
finishIteration ==
    /\ at = "stage4.cleanup"
    /\ pool' = IF pool = "conversion" /\ ~leftoverAfterCleanup(pool) THEN None ELSE pool
    /\ \/ /\ pendingVolumes = {} /\ ~leftoverAfterCleanup(pool)
          /\ cm' = "all_completed" /\ at' = "done" /\ UNCHANGED iter
       \/ /\ pendingVolumes # {} \/ leftoverAfterCleanup(pool)
          /\ IF iter >= MaxIterations THEN at' = "down" /\ iter' = 0 ELSE at' = "stage4.ensure" /\ UNCHANGED iter
          /\ UNCHANGED cm
    /\ UNCHANGED <<cur, todo, work, blocked, stage1Vars, maint, rv, pv, linstor, class, budget>>

----------------------------------------------------------------------------
(* adopt/v1 formation of rv_controller.  It neither creates nor deletes.   *)

AdoptFrame == UNCHANGED <<cm, procVars, stage1Vars, maint, pv, linstor, pool, class, budget>>

\* Every replica there is is scheduled, in maintenance, with addresses and a disk.
verified(r) == rvr[r] \subseteq maint[r]

reconcileAdoptStepVerifyPrerequisites(r) ==
    /\ rv[r].exists /\ rv[r].adopt /\ rv[r].step \in {None, "verify"}
    /\ \/ verified(r) /\ rv' = [rv EXCEPT ![r].step = "populate"]
       \/ ~verified(r) /\ rv[r].step = None /\ rv' = [rv EXCEPT ![r].step = "verify"]
    /\ AdoptFrame

\* Members are the replicas there are; then their agents must have seen the revision, and
\* the replicas must be the members.
reconcileAdoptStepPopulateAndVerifyDatamesh(r) ==
    /\ rv[r].step = "populate"
    /\ \/ rv[r].members = {} /\ rvr[r] # {} /\ rv' = [rv EXCEPT ![r].members = rvr[r]]
       \/ rv[r].members # {} /\ rv[r].observed /\ rvr[r] = rv[r].members /\ rv' = [rv EXCEPT ![r].step = "exit"]
    /\ AdoptFrame

ObserveRevision(r) ==
    /\ rv[r].members # {} /\ ~rv[r].observed
    /\ rv' = [rv EXCEPT ![r].observed = TRUE]
    /\ AdoptFrame

\* The transition goes when no member is in maintenance any more.
reconcileAdoptStepExitMaintenance(r) ==
    /\ rv[r].step = "exit" /\ maint[r] \cap rv[r].members = {}
    /\ rv' = [rv EXCEPT ![r].step = "formed"]
    /\ AdoptFrame

Adopt(r) ==
    \/ reconcileAdoptStepVerifyPrerequisites(r)
    \/ reconcileAdoptStepPopulateAndVerifyDatamesh(r)
    \/ ObserveRevision(r)
    \/ reconcileAdoptStepExitMaintenance(r)

----------------------------------------------------------------------------
(* The rest of the world.                                                  *)

WorldFrame == UNCHANGED <<cm, procVars, stage1Vars, maint, rv, linstor>>

\* rsc_controller takes its pool from the one it names, then comes to a phase of its own.
ConvertClass ==
    /\ class.pool /\ pool # None
    /\ class' = [class EXCEPT !.pool = FALSE, !.phase = "RollingOut"]
    /\ WorldFrame /\ UNCHANGED <<pv, pool, budget>>

ClassSettles ==
    /\ ~class.pool /\ class.phase = "RollingOut"
    /\ class' = [class EXCEPT !.phase = class.end]
    /\ WorldFrame /\ UNCHANGED <<pv, pool, budget>>

PoolVanishes ==
    /\ pool = "terminating" /\ pool' = None
    /\ WorldFrame /\ UNCHANGED <<pv, class, budget>>

UserDeletesVolume(r) ==
    /\ Event("delete") /\ pv[r] /\ pv' = [pv EXCEPT ![r] = FALSE]
    /\ WorldFrame /\ UNCHANGED <<class, pool>>

\* A worker of stage 2 meets a transient error and leaves the volume for the next round.
TransientError(r) ==
    /\ work[r] # "idle" /\ Event(IF betweenPatches(r) THEN "error between" ELSE "error")
    /\ work' = [work EXCEPT ![r] = "idle"]
    /\ UNCHANGED <<cm, at, cur, todo, iter, blocked, stage1Vars, maint, rv, pv, linstor, pool, class>>

----------------------------------------------------------------------------
Migrator ==
    \/ Run \/ runStage1 \/ nextResource \/ Migrate
    \/ runStage2 \/ (\E r \in Resources : processStage2RV(r)) \/ updateMigrationStateStage2Completed
    \/ Stage3 \/ ensureConversionRSPs \/ switchRVsToAuto \/ finishIteration

World == ConvertClass \/ ClassSettles \/ PoolVanishes

Next ==
    \/ Migrator \/ World \/ Crash
    \/ \E r \in Resources : Adopt(r) \/ UserDeletesVolume(r) \/ TransientError(r)

Init ==
    /\ cm = None /\ at = "down" /\ cur = None /\ todo = {} /\ work = Idle /\ iter = 0 /\ blocked = FALSE
    /\ drbdr = [r \in Resources |-> {}] /\ maint = drbdr /\ rvr = drbdr
    /\ owned = [r \in Resources |-> FALSE] /\ rva = owned /\ auto = FALSE
    /\ rv = [r \in Resources |-> NoVolume]
    /\ \E s \in Scenarios :
          /\ pv = [r \in Resources |-> r \in s.pvs]
          /\ linstor = [crd |-> s.linstor, backup |-> FALSE]
          /\ pool = s.pool
          /\ class = [pool |-> s.pool # None \/ s.waits, end |-> s.end, used |-> s.used,
                      phase |-> IF s.pool # None \/ s.waits THEN "WaitingForStoragePool" ELSE "RollingOut"]
          /\ budget = [kinds |-> s.kinds, left |-> s.left]

Fairness == WF_vars(Migrator) /\ WF_vars(World) /\ \A r \in Resources : WF_vars(Adopt(r)) /\ WF_vars(processStage2RV(r))

Spec == Init /\ [][Next]_vars /\ Fairness

----------------------------------------------------------------------------
(* Properties.                                                             *)

\* LINSTOR's database, where there was one, is never removed before it is backed up and
\* every volume made from it has its replicas for members and works without maintenance.
LinstorOutlivesItsUse ==
    (\E r \in Resources : drbdr[r] # {}) /\ ~linstor.crd =>
        linstor.backup /\ \A r \in Resources : rv[r].members = Replicas /\ maint[r] = {}

\* An agent may touch a running replica only when the volume that owns it has all its
\* replicas for members: maintenance ends after adoption, wherever the migrator stopped.
MaintenanceCoversAdoption ==
    \A r \in Resources : drbdr[r] # maint[r] => rv[r].members = Replicas /\ rv[r].observed

=============================================================================
