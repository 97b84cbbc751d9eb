------------------------------ MODULE Rollout ------------------------------
(***************************************************************************)
(* Rolling a storage class's configuration out to its volumes              *)
(* (reconcileRVConfiguration and reconciler_rollout.go of rv_controller)   *)
(* and the aggregate the class reports about it (rsc_controller).  Volumes *)
(* are reconciled concurrently; each decides from the shared informer      *)
(* cache whether it may take the new configuration, and writes later.      *)
(***************************************************************************)
EXTENDS MemberTypes, FiniteSets, Sequences

CONSTANTS
    Volumes,      \* volume names: a set of numbers, names are compared
    Stuck,        \* configurations no volume can converge to
    Scenarios     \* what there is at the start and what may happen: see Init

VARIABLES
    cls,      \* the class: spec (gen, content, strategy, max) and status (cfg, cfgGen, phase)
    rv,       \* rv[v]: the volume objects in the API server
    cache,    \* cache[v]: the informer cache of rv_controller
    stream,   \* the watch events still to be delivered, in order
    vw,       \* vw[v]: the reconcile of volume v in flight
    qv, qc,   \* work queues
    timer,    \* volumes waiting for configurationRolloutRequeueInterval
    budget    \* what users may still do, and how often

vars == <<cls, rv, cache, stream, vw, qv, qc, timer, budget>>

Idle == [pc |-> "idle"]

Event(kind) ==
    /\ kind \in budget.kinds /\ budget.left > 0
    /\ budget' = [budget EXCEPT !.left = @ - 1]

ASSUME NamesAreOrdered == Volumes \subseteq Nat

----------------------------------------------------------------------------
(* The rollout budget.                                                     *)

\* The published verdict on the volume's own configuration.
computeActualRolloutConvergence(obj) == IF obj.conv = "True" THEN "converged" ELSE "active"

\* Role of a volume in the rollout of configuration cfg published as generation gen.
computeActualRolloutRole(obj, cfg, gen) ==
    IF ~obj.ex \/ obj.del \/ obj.manual \/ obj.cfg = None \/ obj.forming THEN "excluded"
    ELSE IF obj.cfg # cfg THEN "pending"
    ELSE IF obj.cfgGen # gen THEN "active" ELSE computeActualRolloutConvergence(obj)

\* The class as v sees it: the listing, with v's own object in place of its listed copy.
computeActualRolloutCohort(v, obj, listed, cfg, gen) ==
    LET role(u) == computeActualRolloutRole(IF u = v THEN obj ELSE listed[u], cfg, gen)
    IN [active |-> {u \in Volumes : role(u) = "active"},
        pending |-> {u \in Volumes : role(u) = "pending"}]

\* No parameter reads as the default the class controller is about to write.
computeIntendedRolloutMaxParallel(c) == IF c.max = 0 THEN 5 ELSE c.max

\* A bug: the volumes that are already migrating hold no slot.
computeTargetRolloutAdmissionFirst(v, cohort, maxParallel) ==
    v \in cohort.pending => Cardinality({u \in cohort.pending : u < v}) < maxParallel

\* The free slots go to the first pending names.
computeTargetRolloutAdmission(v, cohort, maxParallel) ==
    v \in cohort.pending =>
        Cardinality({u \in cohort.pending : u < v}) < maxParallel - Cardinality(cohort.active)

----------------------------------------------------------------------------
(* The reconcile of a volume.                                              *)

\* reconcileLayoutStatus: the verdict on the configuration, in the same patch.
reconcileLayoutStatus(obj) ==
    [obj EXCEPT !.conv = IF obj.del THEN "Unknown" ELSE IF obj.lay = obj.cfg THEN "True" ELSE "False"]

Adopt(obj, cfg, gen) ==
    [obj EXCEPT !.cfg = cfg, !.cfgGen = gen, !.obs = gen, !.cready = "True"]

Hold(obj, gen) == [obj EXCEPT !.obs = gen, !.cready = "False"]

\* Whether the class-wide budget keeps this volume from taking the configuration now.
Throttled(v, obj, c) ==
    /\ obj.cfg \notin {None, c.cfg} /\ c.strategy # "NewVolumesOnly"
    /\ ~computeTargetRolloutAdmission(v, computeActualRolloutCohort(v, obj, cache, c.cfg, c.cfgGen),
                                      computeIntendedRolloutMaxParallel(c))

reconcileRVConfiguration(v, obj, c) ==
    IF obj.manual THEN Adopt(obj, "manual", 0)
    ELSE IF c.cfg = None \/ c.cfgGen # c.gen THEN [obj EXCEPT !.cready = "False"]
    ELSE IF obj.cfg = c.cfg THEN Adopt(obj, c.cfg, c.cfgGen)
    ELSE IF obj.cfg # None /\ c.strategy = "NewVolumesOnly" THEN Hold(obj, c.cfgGen)
    ELSE IF Throttled(v, obj, c) THEN Hold(obj, c.cfgGen)
    ELSE Adopt(obj, c.cfg, c.cfgGen)

\* Reconcile: a new volume takes its configuration and starts to form; a forming
\* one keeps it unless its formation is restarted; a formed one goes through
\* configuration and layout status.
Reconcile(v, obj, c) ==
    IF obj.cfg = None
    THEN LET new == reconcileRVConfiguration(v, obj, c) IN
         {IF new.cfg = None THEN new ELSE [new EXCEPT !.forming = TRUE]}
    ELSE IF obj.forming THEN {obj, reconcileRVConfiguration(v, obj, c)}
    ELSE {reconcileLayoutStatus(reconcileRVConfiguration(v, obj, c))}

VolumeRead(v) ==
    /\ v \in qv /\ vw[v] = Idle
    /\ qv' = qv \ {v}
    /\ vw' = [vw EXCEPT ![v] = IF cache[v].ex THEN [pc |-> "decide", obj |-> cache[v], cls |-> cls] ELSE Idle]
    /\ UNCHANGED <<cls, rv, cache, stream, qc, timer, budget>>

\* The listing of the class comes after the reads of the volume and of the class.
VolumeDecide(v) ==
    /\ vw[v].pc = "decide"
    /\ \E new \in Reconcile(v, vw[v].obj, vw[v].cls) :
       vw' = [vw EXCEPT ![v] = [pc |-> "patch", obj |-> vw[v].obj, new |-> new,
                                wait |-> /\ ~vw[v].obj.forming /\ ~vw[v].obj.manual
                                         /\ vw[v].cls.cfg # None /\ vw[v].cls.cfgGen = vw[v].cls.gen
                                         /\ Throttled(v, vw[v].obj, vw[v].cls)]]
    /\ UNCHANGED <<cls, rv, cache, stream, qv, qc, timer, budget>>

WriteRV(v, new) ==
    /\ rv' = [rv EXCEPT ![v] = new]
    /\ stream' = Append(stream, <<v, new>>)

\* A bug: a throttled volume waits for an event that never comes.
VolumePatchNoRequeue(v) ==
    /\ vw[v].pc = "patch"
    /\ vw' = [vw EXCEPT ![v] = Idle]
    /\ IF rv[v] # vw[v].obj
       THEN qv' = qv \cup {v} /\ UNCHANGED <<rv, stream>>
       ELSE /\ IF vw[v].new = rv[v] THEN UNCHANGED <<rv, stream>> ELSE WriteRV(v, vw[v].new)
            /\ UNCHANGED qv
    /\ UNCHANGED <<cls, cache, qc, timer, budget>>

\* The status patch, under its optimistic lock; a throttled volume asks again later.
VolumePatch(v) ==
    /\ vw[v].pc = "patch"
    /\ vw' = [vw EXCEPT ![v] = Idle]
    /\ IF rv[v] # vw[v].obj
       THEN qv' = qv \cup {v} /\ UNCHANGED <<rv, stream, timer>>
       ELSE /\ IF vw[v].new = rv[v] THEN UNCHANGED <<rv, stream>> ELSE WriteRV(v, vw[v].new)
            /\ timer' = IF vw[v].wait THEN timer \cup {v} ELSE timer
            /\ UNCHANGED qv
    /\ UNCHANGED <<cls, cache, qc, budget>>

RolloutRequeue(v) ==
    /\ v \in timer
    /\ timer' = timer \ {v}
    /\ qv' = qv \cup {v}
    /\ UNCHANGED <<cls, rv, cache, stream, vw, qc, budget>>

\* The datamesh reaches the layout of the configuration, or the volume is formed;
\* this is a reconcile of the same volume, driven by its replicas.
LayoutReached(v) ==
    /\ vw[v] = Idle /\ rv[v].ex /\ rv[v].cfg # None /\ rv[v].cfg \notin Stuck /\ ~rv[v].del
    /\ rv[v].forming \/ rv[v].lay # rv[v].cfg
    /\ LET obj == [rv[v] EXCEPT !.lay = rv[v].cfg, !.forming = FALSE]
       IN WriteRV(v, IF rv[v].forming THEN obj ELSE reconcileLayoutStatus(obj))
    /\ qv' = qv \cup {v}
    /\ UNCHANGED <<cls, cache, vw, qc, timer, budget>>

\* The watch delivers one event: the cache moves on, and rsc_controller is woken
\* by a change it has a predicate for.
CacheDeliver ==
    /\ stream # <<>>
    /\ LET v == Head(stream)[1]  new == Head(stream)[2]  old == cache[v] IN
       /\ cache' = [cache EXCEPT ![v] = new]
       /\ qc' = (qc \/ <<old.ex, old.cfgGen, old.obs, old.cready, old.conv, old.del>>
                        # <<new.ex, new.cfgGen, new.obs, new.cready, new.conv, new.del>>)
       /\ qv' = IF <<old.ex, old.del>> = <<new.ex, new.del>> THEN qv ELSE qv \cup {v}
    /\ stream' = Tail(stream)
    /\ UNCHANGED <<cls, rv, vw, timer, budget>>

----------------------------------------------------------------------------
(* The class: publishing a configuration and aggregating the volumes.      *)

isRVConfigurationPending(obj, cfgGen) ==
    obj.obs # cfgGen \/ obj.cready = "none" \/ obj.conv \in {"none", "Unknown"}

isRVConfigurationStale(obj, cfgGen) ==
    obj.cfgGen # cfgGen \/ obj.cready = "False" \/ obj.conv = "False"

computeActualRVConfigurationCategory(obj, cfgGen) ==
    CASE isRVConfigurationPending(obj, cfgGen) -> "pending"
      [] ~isRVConfigurationPending(obj, cfgGen) /\ isRVConfigurationStale(obj, cfgGen) -> "stale"
      [] OTHER -> "aligned"

computeActualVolumesSummary(listed, cfgGen) ==
    [k \in {"pending", "stale", "aligned"} |->
        {v \in Volumes : listed[v].ex /\ ~listed[v].manual
                          /\ computeActualRVConfigurationCategory(listed[v], cfgGen) = k}]

computePhaseAndMessage(summary, strategy) ==
    IF summary["pending"] = {} /\ summary["stale"] = {} THEN "Ready"
    ELSE IF summary["pending"] # {} \/ strategy # "NewVolumesOnly" THEN "RollingOut"
    ELSE "PartiallyAligned"

\* ensureConfiguration publishes the spec and ensureVolumeSummaryAndConditions the
\* aggregate over the cached volumes, in one patch: its optimistic lock makes a
\* reconcile that an edit overtakes start again.  The volumes of the class are
\* woken by a new configuration generation.
ClassReconcile ==
    /\ qc
    /\ qc' = FALSE
    /\ cls' = [cls EXCEPT !.cfg = cls.content, !.cfgGen = cls.gen,
                          !.phase = computePhaseAndMessage(computeActualVolumesSummary(cache, cls.gen), cls.strategy)]
    /\ qv' = IF cls.cfgGen = cls.gen THEN qv ELSE qv \cup {v \in Volumes : cache[v].ex}
    /\ UNCHANGED <<rv, cache, stream, vw, timer, budget>>

----------------------------------------------------------------------------
(* Users.                                                                  *)

EditClass ==
    /\ Event("edit")
    /\ \E e \in budget.edits :
          /\ <<e.content, e.strategy>> # <<cls.content, cls.strategy>>
          /\ cls' = [cls EXCEPT !.gen = @ + 1, !.content = e.content, !.strategy = e.strategy]
    /\ qc' = TRUE
    /\ UNCHANGED <<rv, cache, stream, vw, qv, timer>>

CreateVolume(v) ==
    /\ Event("create") /\ ~rv[v].ex /\ rv[v].cfg = None
    /\ WriteRV(v, [rv[v] EXCEPT !.ex = TRUE])
    /\ UNCHANGED <<cls, cache, vw, qv, qc, timer>>

DeleteVolume(v) ==
    /\ Event("delete") /\ rv[v].ex /\ ~rv[v].del
    /\ WriteRV(v, [rv[v] EXCEPT !.del = TRUE, !.conv = IF @ = "none" THEN @ ELSE "Unknown"])
    /\ UNCHANGED <<cls, cache, vw, qv, qc, timer>>

VolumeGone(v) ==
    /\ rv[v].ex /\ rv[v].del
    /\ WriteRV(v, [rv[v] EXCEPT !.ex = FALSE])
    /\ UNCHANGED <<cls, cache, vw, qv, qc, timer, budget>>

----------------------------------------------------------------------------
NewVolume(v) ==
    [ex |-> FALSE, del |-> FALSE, manual |-> FALSE, cfg |-> None, cfgGen |-> 0, obs |-> 0,
     forming |-> FALSE, lay |-> None, conv |-> "none", cready |-> "none"]

\* A volume that runs the first configuration of the class.
FormedVolume(v, cfg) ==
    [NewVolume(v) EXCEPT !.ex = TRUE, !.cfg = cfg, !.lay = cfg, !.conv = "True", !.cready = "True",
                         !.cfgGen = 1, !.obs = 1]

FormingVolume(v, cfg) == [FormedVolume(v, cfg) EXCEPT !.forming = TRUE, !.lay = None, !.conv = "none"]

FirstClass(cfg, max) ==
    [gen |-> 1, content |-> cfg, strategy |-> "RollingUpdate", max |-> max,
     cfg |-> cfg, cfgGen |-> 1, phase |-> "RollingOut"]

Init ==
    /\ \E s \in Scenarios : /\ rv = s.rv
                            /\ cls = FirstClass("A", s.max)
                            /\ budget = [kinds |-> s.kinds, edits |-> s.edits, left |-> s.left]
    /\ cache = rv /\ stream = <<>>
    /\ vw = [v \in Volumes |-> Idle]
    /\ qv = {} /\ qc = TRUE /\ timer = {}

VolumeStep(v) == VolumeRead(v) \/ VolumeDecide(v) \/ VolumePatch(v)

Next ==
    \/ \E v \in Volumes : \/ VolumeStep(v) \/ RolloutRequeue(v) \/ LayoutReached(v)
                          \/ CreateVolume(v) \/ DeleteVolume(v) \/ VolumeGone(v)
    \/ CacheDeliver \/ ClassReconcile \/ EditClass

Fairness ==
    /\ \A v \in Volumes : /\ WF_vars(VolumeStep(v)) /\ WF_vars(RolloutRequeue(v))
                          /\ WF_vars(LayoutReached(v)) /\ WF_vars(VolumeGone(v))
    /\ WF_vars(CacheDeliver) /\ WF_vars(ClassReconcile)

Spec == Init /\ [][Next]_vars /\ Fairness

----------------------------------------------------------------------------
(* Properties.                                                             *)

\* Volumes that carry the configuration the class publishes now and have not
\* reached its layout.
Migrating ==
    {v \in Volumes : /\ rv[v].ex /\ ~rv[v].del /\ ~rv[v].manual /\ ~rv[v].forming
                     /\ rv[v].cfg = cls.cfg /\ rv[v].cfgGen = cls.cfgGen /\ rv[v].lay # rv[v].cfg}

\* At most maxParallel volumes are migrating to the class's configuration.
RolloutBudget == Cardinality(Migrating) <= computeIntendedRolloutMaxParallel(cls)

\* With RollingUpdate every volume ends up with the class's configuration and the
\* class reports it.
RolloutCompletes ==
    <>[](cls.strategy = "RollingUpdate" /\ cls.content \notin Stuck =>
            /\ cls.phase = "Ready"
            /\ \A v \in Volumes : rv[v].ex /\ ~rv[v].manual => rv[v].cfg = cls.content /\ rv[v].lay = cls.content)
============================================================================
