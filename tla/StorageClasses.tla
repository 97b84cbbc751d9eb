--------------------------- MODULE StorageClasses ---------------------------
(***************************************************************************)
(* Storage classes: rsc_controller with the storage pools it creates,      *)
(* shares and releases, the Kubernetes StorageClass it keeps beside each   *)
(* class, and the volumes that take a class's configuration.  One step is  *)
(* one API call; a reconcile acts on the objects it read when it started,  *)
(* under the optimistic lock of every patch.                               *)
(***************************************************************************)
EXTENDS StoragePools, EligibleNodes

CONSTANTS
    Volumes,
    Layouts,       \* the [ftt, gmdr] a class may ask for
    Policies,      \* the reclaim policies a class may ask for
    NewSpecs,      \* the pool, layout and policy of a class created later
    Scenarios      \* what there is at the start, and what may happen: see Start

VARIABLES
    sc,       \* sc[c]: the StorageClass of c
    rv,       \* rv[v]: a volume, its class and the pool of its configuration
    vw,       \* vw[v]: the pool a volume's reconcile in flight will write
    w,        \* w[c]: the reconcile of class c in flight
    legacy    \* the pools that also exist as user-made pools of the deprecated API

poolVars == <<lvg, node, rw, nw, timer, qn, legacy>>
vars == <<rsc, rsp, lvg, node, rw, nw, timer, qc, qp, qn, fresh, budget, sc, rv, vw, w, legacy>>

NoLayout == [ftt |-> 0, gmdr |-> 0]

NoConfiguration == [lay |-> NoLayout, pool |-> "nil"]

\* A status.configuration of the old format: it names no pool.
OldFormat == [lay |-> NoLayout, pool |-> None]

NoClass ==
    [ex |-> FALSE, uid |-> 0, del |-> FALSE, fin |-> FALSE, gen |-> 0, legacy |-> None,
     storage |-> None, dflt |-> FALSE, lay |-> NoLayout, pol |-> None,
     stPool |-> None, stGen |-> 0, cfg |-> NoConfiguration, cfgGen |-> 0, rev |-> 0,
     spReady |-> "Unknown", ready |-> FALSE, used |-> {}]

\* A class as its user creates it.
NewClass(uid, p, lay, pol) ==
    [NoClass EXCEPT !.ex = TRUE, !.uid = uid, !.gen = 1, !.storage = p, !.lay = lay, !.pol = pol]

\* A class of an older release: deprecated spec.storagePool, old-format status.
LegacyClass(pool, storage, lay, pol) ==
    [NewClass(0, storage, lay, pol) EXCEPT !.legacy = pool, !.cfg = OldFormat, !.cfgGen = 1]

NoSC == [ex |-> FALSE, pol |-> None, fin |-> FALSE]

volumesOf(c) == {v \in Volumes : rv[v].ex /\ rv[v].class = c}

getUsedStoragePoolNames(c) == {p \in Pools : rsp[p].ex /\ c \in rsp[p].usedBy}

----------------------------------------------------------------------------
(* The reconcile of a class: its object.                                   *)

At(c, pc) == w[c].pc = pc

DropHeld(c) == {f \in fresh : f[1] # c}

\* A reconcile that returns an error, or is cut short, is queued again.
Requeue(c) ==
    /\ w' = [w EXCEPT ![c] = Idle]
    /\ qc' = qc \cup {c}
    /\ fresh' = DropHeld(c)
    /\ UNCHANGED <<poolVars, rsc, rsp, qp, sc, rv, vw>>

rscShouldBeDeleted(c) == ~rsc[c].ex \/ (rsc[c].del /\ volumesOf(c) = {})

\* The first of the steps on the class object that still has something to do.
FirstStep(obj) ==
    IF obj.legacy # None THEN "migrate"
    ELSE IF obj.storage = None THEN "invalid"
    ELSE IF ~obj.dflt THEN "defaults"
    ELSE IF obj.cfg = OldFormat THEN "format"
    ELSE IF ~obj.fin THEN "metadata"
    ELSE "rsp"

ClassRead(c) ==
    /\ c \in qc /\ w[c] = Idle
    /\ qc' = qc \ {c}
    /\ w' = [w EXCEPT ![c] =
                [pc |-> IF rscShouldBeDeleted(c) THEN "deletion" ELSE FirstStep(rsc[c]),
                 obj |-> rsc[c], rvs |-> {rv[v].pool : v \in volumesOf(c)} \ {None},
                 used |-> getUsedStoragePoolNames(c), rsp |-> NoPool, rel |-> None,
                 deleting |-> rscShouldBeDeleted(c), failed |-> FALSE]]
    /\ UNCHANGED <<poolVars, rsc, rsp, qp, fresh, budget, sc, rv, vw>>

\* A patch of the class under its optimistic lock; the controller watches
\* classes without a predicate, so every change wakes the class again.
PatchRSC(c, new, pc) ==
    /\ rsc[c] = w[c].obj
    /\ rsc' = [rsc EXCEPT ![c] = new]
    /\ w' = [w EXCEPT ![c] = IF pc = "done" THEN Idle ELSE [@ EXCEPT !.obj = new, !.pc = pc]]
    /\ qc' = IF new = rsc[c] THEN qc ELSE qc \cup {c}
    /\ UNCHANGED <<poolVars, rsp, qp, fresh, budget, sc, rv, vw>>

PatchConflict(c) ==
    /\ w[c].pc \in {"migrate", "conflict", "invalid", "defaults", "format", "metadata", "status", "finalizer"}
    /\ rsc[c] # w[c].obj
    /\ Requeue(c)
    /\ UNCHANGED budget

\* A legacy storage pool that does not exist is waited for.
reconcileMigrationFromRSP(c) ==
    /\ At(c, "migrate")
    /\ LET obj == w[c].obj
           migrated == [obj EXCEPT !.legacy = None, !.gen = @ + 1,
                                   !.storage = IF @ = None THEN obj.legacy ELSE @]
       IN IF obj.legacy \notin legacy
          THEN PatchRSC(c, [obj EXCEPT !.ready = FALSE, !.spReady = "False"], "done")
          ELSE PatchRSC(c, migrated, IF obj.storage \in {None, obj.legacy} THEN FirstStep(migrated)
                                     ELSE "conflict")

\* Conflicting content, or no storage at all: Ready=False, and the reconcile ends.
InvalidConfiguration(c) ==
    /\ w[c].pc \in {"conflict", "invalid"}
    /\ PatchRSC(c, [w[c].obj EXCEPT !.ready = FALSE], "done")

reconcileDefaults(c) ==
    /\ At(c, "defaults")
    /\ LET new == [w[c].obj EXCEPT !.dflt = TRUE, !.gen = @ + 1] IN PatchRSC(c, new, FirstStep(new))

reconcileMigrationConfigurationFormat(c) ==
    /\ At(c, "format")
    /\ LET new == [w[c].obj EXCEPT !.cfg = NoConfiguration, !.cfgGen = 0] IN PatchRSC(c, new, FirstStep(new))

reconcileMetadata(c) ==
    /\ At(c, "metadata")
    /\ PatchRSC(c, [w[c].obj EXCEPT !.fin = TRUE], "rsp")

----------------------------------------------------------------------------
(* Its storage pool.                                                       *)

\* The name is cached in the status for the generation it was computed for.
computeTargetStoragePool(obj) ==
    IF obj.stGen = obj.gen /\ obj.stPool # None THEN obj.stPool ELSE obj.storage

newRSP == [NoPool EXCEPT !.ex = TRUE, !.fin = TRUE]

PoolStepAfter(c, pool) ==
    IF ~pool.fin THEN "rspFinalizer" ELSE IF c \notin pool.usedBy THEN "usedBy" ELSE "sc"

getRSP(c) ==
    /\ At(c, "rsp")
    /\ LET p == computeTargetStoragePool(w[c].obj) IN
       /\ w' = [w EXCEPT ![c].pc = IF rsp[p].ex THEN PoolStepAfter(c, rsp[p]) ELSE "create",
                         ![c].rsp = rsp[p]]
       /\ fresh' = fresh \cup (IF rsp[p].ex THEN {<<c, p>>} ELSE {})
    /\ UNCHANGED <<poolVars, rsc, rsp, qc, qp, budget, sc, rv, vw>>

\* A write of pool p by the class controller: create, patch or delete.
ClassWritesPool(c, p, new, pc) ==
    /\ WritePool(c, p, new)
    /\ w' = [w EXCEPT ![c].pc = pc, ![c].rsp = new]
    /\ UNCHANGED <<lvg, node, rw, nw, timer, legacy, rsc, budget, sc, rv, vw>>

\* Create, unless another class was first; add the finalizer; add the class to usedBy.
reconcileRSP(c) ==
    LET p == computeTargetStoragePool(w[c].obj) IN
    \/ /\ At(c, "create")
       /\ IF rsp[p].ex THEN Requeue(c) /\ UNCHANGED budget
          ELSE ClassWritesPool(c, p, newRSP, "usedBy")
    \/ /\ w[c].pc \in {"rspFinalizer", "usedBy"}
       /\ IF <<c, p>> \notin fresh THEN Requeue(c) /\ UNCHANGED budget
          ELSE LET new == IF At(c, "usedBy") THEN [rsp[p] EXCEPT !.usedBy = @ \cup {c}]
                          ELSE [rsp[p] EXCEPT !.fin = TRUE]
               IN ClassWritesPool(c, p, new, PoolStepAfter(c, new))

----------------------------------------------------------------------------
(* Its Kubernetes StorageClass: nobody else writes it.                     *)

WriteSC(c, new, pc) ==
    /\ sc' = [sc EXCEPT ![c] = new]
    /\ w' = [w EXCEPT ![c].pc = pc]
    /\ UNCHANGED <<poolVars, rsc, rsp, qc, qp, fresh, budget, rv, vw>>

\* An immutable field differs: finalizer off, delete, create; a StorageClass that
\* lost its finalizer gets it back.
reconcileStorageClass(c) ==
    LET target == [ex |-> TRUE, pol |-> w[c].obj.pol, fin |-> TRUE] IN
    \/ /\ At(c, "sc")
       /\ CASE ~sc[c].ex -> WriteSC(c, target, "status")
            [] sc[c].ex /\ sc[c].pol # target.pol /\ sc[c].fin ->
                  WriteSC(c, [sc[c] EXCEPT !.fin = FALSE], "scDelete")
            [] sc[c].ex /\ sc[c].pol # target.pol /\ ~sc[c].fin -> WriteSC(c, NoSC, "scCreate")
            [] sc[c].ex /\ sc[c].pol = target.pol -> WriteSC(c, target, "status")
    \/ At(c, "scDelete") /\ WriteSC(c, NoSC, "scCreate")
    \/ At(c, "scCreate") /\ WriteSC(c, target, "status")

----------------------------------------------------------------------------
(* Its status.                                                             *)

isConfigurationInSync(obj) == obj.cfg # NoConfiguration /\ obj.cfgGen = obj.gen

ensureStoragePool(obj, pool) ==
    [obj EXCEPT !.stPool = computeTargetStoragePool(obj), !.stGen = obj.gen, !.spReady = pool.ready]

makeConfiguration(obj) == [lay |-> obj.lay, pool |-> obj.stPool]

Candidates(pool) == {[name |-> n, zone |-> None, disks |-> TRUE] : n \in eligibleNames(pool)}

ensureConfiguration(obj, pool) ==
    LET needsValidation == pool.rev # obj.rev \/ ~isConfigurationInSync(obj)
        valid == validateEligibleNodes(Candidates(pool), "Ignored", obj.lay)
        seen == IF needsValidation THEN [obj EXCEPT !.rev = pool.rev] ELSE obj
    IN IF obj.spReady # "True" \/ (needsValidation /\ ~valid) THEN [obj EXCEPT !.ready = FALSE]
       ELSE IF isConfigurationInSync(seen) THEN [seen EXCEPT !.ready = TRUE]
       ELSE [seen EXCEPT !.cfg = makeConfiguration(seen), !.cfgGen = seen.gen, !.ready = TRUE]

Status(c) ==
    [ensureConfiguration(ensureStoragePool(w[c].obj, w[c].rsp), w[c].rsp) EXCEPT !.used = w[c].rvs]

patchRSCStatus(c) ==
    /\ At(c, "status")
    /\ PatchRSC(c, Status(c), "release")

----------------------------------------------------------------------------
(* Releasing pools.                                                        *)

toRelease(c) ==
    IF w[c].deleting THEN w[c].used ELSE w[c].used \ ({w[c].obj.stPool} \cup w[c].obj.used)

\* One pool: the class leaves usedBy; the last one removes the finalizer and deletes.
ReleasePool(c) ==
    /\ At(c, "release")
    /\ \E p \in toRelease(c) :
          /\ w' = [w EXCEPT ![c].used = @ \ {p},
                            ![c].pc = IF rsp[p].ex /\ rsp[p].usedBy = {c} THEN "lastUser" ELSE "release",
                            ![c].rel = p]
          /\ IF rsp[p].ex /\ c \in rsp[p].usedBy
             THEN WritePool(c, p, [rsp[p] EXCEPT !.usedBy = @ \ {c}])
             ELSE UNCHANGED <<rsp, qc, qp, qn, fresh>>
    /\ UNCHANGED <<lvg, node, rw, nw, timer, legacy, rsc, budget, sc, rv, vw>>

\* A bug: the calls of the last user carry no precondition on the version read.
DeletePoolUnlocked(c) ==
    /\ w[c].pc \in {"lastUser", "deletePool"}
    /\ LET p == w[c].rel IN
       IF At(c, "lastUser") /\ rsp[p].fin
       THEN /\ WritePool(c, p, [rsp[p] EXCEPT !.fin = FALSE])
            /\ w' = [w EXCEPT ![c].pc = "deletePool"]
       ELSE /\ WritePool(c, p, NoPool)
            /\ w' = [w EXCEPT ![c].pc = "release"]
    /\ UNCHANGED <<lvg, node, rw, nw, timer, legacy, rsc, budget, sc, rv, vw>>

\* The two calls of the last user; a conflict is remembered and the next pool tried.
DeletePool(c) ==
    /\ w[c].pc \in {"lastUser", "deletePool"}
    /\ LET p == w[c].rel IN
       IF <<c, p>> \notin fresh
       THEN /\ w' = [w EXCEPT ![c].pc = "release", ![c].failed = TRUE]
            /\ UNCHANGED <<rsp, qc, qp, qn, fresh>>
       ELSE IF At(c, "lastUser") /\ rsp[p].fin
       THEN /\ WritePool(c, p, [rsp[p] EXCEPT !.fin = FALSE])
            /\ w' = [w EXCEPT ![c].pc = "deletePool"]
       ELSE /\ WritePool(c, p, NoPool)
            /\ w' = [w EXCEPT ![c].pc = "release"]
    /\ UNCHANGED <<lvg, node, rw, nw, timer, legacy, rsc, budget, sc, rv, vw>>

ReleaseDone(c) ==
    /\ At(c, "release") /\ toRelease(c) = {}
    /\ IF w[c].failed THEN Requeue(c) /\ UNCHANGED budget
       ELSE /\ w' = [w EXCEPT ![c] = IF w[c].deleting /\ w[c].obj.fin
                                     THEN [@ EXCEPT !.pc = "finalizer"] ELSE Idle]
            /\ fresh' = DropHeld(c)
            /\ UNCHANGED <<poolVars, rsc, rsp, qc, qp, budget, sc, rv, vw>>

\* Deletion: the StorageClass, then every pool, then the class's own finalizer.
DeleteSC(c) ==
    \/ At(c, "deletion") /\ IF sc[c].fin THEN WriteSC(c, [sc[c] EXCEPT !.fin = FALSE], "scDeletion")
                            ELSE WriteSC(c, NoSC, "release")
    \/ At(c, "scDeletion") /\ WriteSC(c, NoSC, "release")

RemoveFinalizer(c) == At(c, "finalizer") /\ PatchRSC(c, NoClass, "done")

ClassStep(c) ==
    \/ ClassRead(c) \/ PatchConflict(c)
    \/ reconcileMigrationFromRSP(c) \/ InvalidConfiguration(c) \/ reconcileDefaults(c)
    \/ reconcileMigrationConfigurationFormat(c) \/ reconcileMetadata(c)
    \/ getRSP(c) \/ reconcileRSP(c) \/ reconcileStorageClass(c) \/ patchRSCStatus(c)
    \/ ReleasePool(c) \/ DeletePool(c) \/ ReleaseDone(c)
    \/ DeleteSC(c) \/ RemoveFinalizer(c)

----------------------------------------------------------------------------
(* Volumes: reconcileRVConfiguration reads the class, the status patch     *)
(* comes later.  A class that has not published its configuration for its  *)
(* current generation is waited for.                                       *)

VolumeRead(v) ==
    /\ rv[v].ex /\ vw[v] = Idle
    /\ LET obj == rsc[rv[v].class] IN
       /\ obj.ex /\ obj.cfg # NoConfiguration /\ obj.cfgGen = obj.gen
       /\ obj.cfg.pool # rv[v].pool
       /\ vw' = [vw EXCEPT ![v] = [pc |-> "write", pool |-> obj.cfg.pool]]
    /\ UNCHANGED <<poolVars, rsc, rsp, qc, qp, fresh, budget, sc, rv, w>>

VolumeWrite(v) ==
    /\ vw[v] # Idle
    /\ vw' = [vw EXCEPT ![v] = Idle]
    /\ rv' = IF rv[v].ex THEN [rv EXCEPT ![v].pool = vw[v].pool] ELSE rv
    /\ qc' = IF rv[v].ex THEN qc \cup {rv[v].class} ELSE qc
    /\ UNCHANGED <<poolVars, rsc, rsp, qp, fresh, budget, sc, w>>

----------------------------------------------------------------------------
(* Users, and the failures of the API server or the controller process.    *)

WriteClass(c, new) ==
    /\ rsc' = [rsc EXCEPT ![c] = new]
    /\ qc' = qc \cup {c}
    /\ UNCHANGED <<poolVars, rsp, qp, fresh, sc, rv, vw, w>>

CreateClass(c) ==
    /\ Event("create") /\ ~rsc[c].ex
    /\ \E spec \in NewSpecs : WriteClass(c, NewClass(budget.left, spec.pool, spec.lay, spec.pol))

\* The fields that name the pool are immutable; the layout and the policy are not.
EditClass(c) ==
    /\ Event("edit") /\ rsc[c].ex
    /\ \E lay \in Layouts, pol \in Policies :
          /\ <<lay, pol>> # <<rsc[c].lay, rsc[c].pol>>
          /\ WriteClass(c, [rsc[c] EXCEPT !.lay = lay, !.pol = pol, !.gen = @ + 1])

\* The API server counts a deletion as a new generation.
DeleteClass(c) ==
    /\ Event("delete") /\ rsc[c].ex /\ ~rsc[c].del
    /\ WriteClass(c, IF rsc[c].fin THEN [rsc[c] EXCEPT !.del = TRUE, !.gen = @ + 1] ELSE NoClass)

CreateVolume(v) ==
    /\ Event("volume") /\ ~rv[v].ex /\ rv[v].class = None
    /\ \E c \in Classes :
          /\ rv' = [rv EXCEPT ![v] = [ex |-> TRUE, class |-> c, pool |-> None]]
          /\ qc' = qc \cup {c}
    /\ UNCHANGED <<poolVars, rsc, rsp, qp, fresh, sc, vw, w>>

DeleteVolume(v) ==
    /\ Event("volume") /\ rv[v].ex
    /\ rv' = [rv EXCEPT ![v].ex = FALSE, ![v].pool = None]
    /\ qc' = qc \cup {rv[v].class}
    /\ UNCHANGED <<poolVars, rsc, rsp, qp, fresh, sc, vw, w>>

CreateLegacyPool(p) ==
    /\ Event("legacy") /\ p \notin legacy
    /\ legacy' = legacy \cup {p}
    /\ qc' = qc \cup {c \in Classes : rsc[c].legacy = p}
    /\ UNCHANGED <<lvg, node, rw, nw, timer, qn, rsc, rsp, qp, fresh, sc, rv, vw, w>>

\* An API call fails, or the controller restarts in the middle of the reconcile.
ReconcileFails(c) == Event("fail") /\ w[c] # Idle /\ Requeue(c)

----------------------------------------------------------------------------
\* A class with its pool and StorageClass as the controllers leave them.
SettledClass(p, lay, pol) ==
    [NewClass(0, p, lay, pol) EXCEPT
        !.dflt = TRUE, !.fin = TRUE, !.stPool = p, !.stGen = 1, !.rev = 1, !.spReady = "True",
        !.cfg = [lay |-> lay, pool |-> p], !.cfgGen = 1, !.ready = TRUE]

SettledPool(users) ==
    [NoPool EXCEPT !.ex = TRUE, !.fin = TRUE, !.usedBy = users, !.ready = "True", !.rev = 1,
                   !.elig = [n \in Nodes |-> EligibleNode(TRUE, TRUE, TRUE)]]

\* The controllers start: every existing object is reconciled once.  A scenario
\* gives the classes, and the events that may follow.
Start(s) ==
    LET users(p) == {c \in Classes : s.rsc[c].stPool = p}
        used == \E p \in Pools : users(p) # {}
    IN
    /\ rsc = s.rsc
    /\ rsp = [p \in Pools |-> IF users(p) = {} THEN NoPool ELSE SettledPool(users(p))]
    /\ node = [n \in Nodes |-> [st |-> "ready", label |-> used, agent |-> used, drbd |-> FALSE]]
    /\ sc = [c \in Classes |-> IF rsc[c].stPool = None THEN NoSC
                               ELSE [ex |-> TRUE, pol |-> rsc[c].pol, fin |-> TRUE]]
    /\ budget = [kinds |-> s.kinds, left |-> s.left]

Init ==
    /\ \E s \in Scenarios : Start(s)
    /\ lvg = [p \in Pools |-> "ready"]
    /\ rw = [p \in Pools |-> Idle] /\ nw = [n \in Nodes |-> Idle]
    /\ timer = {}
    /\ qc = {c \in Classes : rsc[c].ex} /\ qp = {p \in Pools : rsp[p].ex} /\ qn = Nodes
    /\ fresh = {}
    /\ rv = [v \in Volumes |-> [ex |-> FALSE, class |-> None, pool |-> None]]
    /\ vw = [v \in Volumes |-> Idle]
    /\ w = [c \in Classes |-> Idle]
    /\ legacy = {}

Next ==
    \/ \E c \in Classes : \/ ClassStep(c) \/ ReconcileFails(c)
                          \/ CreateClass(c) \/ EditClass(c) \/ DeleteClass(c)
    \/ \E v \in Volumes : VolumeRead(v) \/ VolumeWrite(v) \/ CreateVolume(v) \/ DeleteVolume(v)
    \/ \E p \in Pools : CreateLegacyPool(p)
    \/ PoolsNext /\ UNCHANGED <<sc, rv, vw, w, legacy>>

Fairness ==
    /\ \A c \in Classes : WF_vars(ClassStep(c))
    /\ \A p \in Pools : /\ WF_vars(PoolStep(p) /\ UNCHANGED <<sc, rv, vw, w, legacy>>)
                        /\ WF_vars(RequeueFires(p) /\ UNCHANGED <<sc, rv, vw, w, legacy>>)
    /\ \A n \in Nodes : /\ WF_vars(NodeStep(n) /\ UNCHANGED <<sc, rv, vw, w, legacy>>)
                        /\ WF_vars(AgentPod(n) /\ UNCHANGED <<sc, rv, vw, w, legacy>>)
    /\ \A v \in Volumes : WF_vars(VolumeRead(v) \/ VolumeWrite(v))

Spec == Init /\ [][Next]_vars /\ Fairness

----------------------------------------------------------------------------
(* Properties.                                                             *)

\* A class that is not being deleted keeps the pool it has announced in its
\* status: the pool exists, carries the controller's finalizer and names the class.
\* Other classes share and release the same pool at the same time.
PoolHeldWhileUsed ==
    \A c \in Classes :
        LET p == rsc[c].stPool IN
        rsc[c].ex /\ ~rsc[c].del /\ p # None => rsp[p].ex /\ rsp[p].fin /\ c \in rsp[p].usedBy

\* A pool without users is on its way: somebody has just created it or is about to delete it.
UnusedPoolGoes ==
    \A p \in Pools : rsp[p].ex /\ rsp[p].usedBy = {} => \E c \in Classes : w[c] # Idle \/ c \in qc

Quiet(c) == rsc[c].ex /\ ~rsc[c].del /\ rsc[c].legacy = None /\ rsc[c].storage # None

\* The StorageClass of a class is as the class asks, and goes with it.
StorageClassSettled(c) ==
    /\ Quiet(c) => sc[c].ex /\ sc[c].fin /\ sc[c].pol = rsc[c].pol
    /\ ~rsc[c].ex => ~sc[c].ex

\* The status of a class describes its pool.
ClassFollowsPool(c) ==
    LET pool == rsp[rsc[c].storage] IN
    Quiet(c) => (rsc[c].ready <=> pool.ready = "True" /\ validateEligibleNodes(Candidates(pool), "Ignored", rsc[c].lay))

\* A class deleted by its user, with no volume left, has gone and left no trace in any pool.
DeletedClassGone(c) ==
    /\ rsc[c].del => volumesOf(c) # {}
    /\ ~rsc[c].ex => getUsedStoragePoolNames(c) = {}

\* A node NotReady for longer than its grace period is in no pool that is in order.
ExpiredNodeLeft(n) ==
    \A p \in Pools : rsp[p].ex /\ validateRSPAndLVGs(p) /\ node[n].st = "expired" => n \notin eligibleNames(rsp[p])

\* The three controllers, woken only by the differences their predicates let through and by
\* requeues, bring everything to rest in agreement: StorageClasses, the status of classes,
\* the traces of deleted classes, eligible nodes and the agent labels of nodes.
StorageSettles ==
    <>[](/\ \A c \in Classes : StorageClassSettled(c) /\ ClassFollowsPool(c) /\ DeletedClassGone(c)
         /\ \A n \in Nodes : ExpiredNodeLeft(n) /\ node[n].label = shouldHaveLabel(n))
============================================================================
