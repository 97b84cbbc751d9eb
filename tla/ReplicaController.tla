------------------------- MODULE ReplicaController -------------------------
(***************************************************************************)
(* One pass of the rvr controller over its cached copies.  The pass is     *)
(* threaded through a record p: api, the objects in the API as the writes  *)
(* of the pass change them; v, the copies the pass works on; st, "go"      *)
(* until the pass returns.  Every patch carries the resource version of    *)
(* its copy, so it fails when the object has changed since.                *)
(***************************************************************************)
EXTENDS ReplicaObjects

NoBV == [llv |-> NoLLV, size |-> 0]

Fail(p) == [p EXCEPT !.st = "fail"]

patchRVR(p, o) ==
    IF p.api.rvr # p.v.rvr THEN Fail(p)
    ELSE [p EXCEPT !.api.rvr = Settled(o, NoRVR), !.v.rvr = o]

patchDRBDR(p, o) ==
    IF p.api.drbdr # p.v.drbdr THEN Fail(p)
    ELSE [p EXCEPT !.api.drbdr = Settled(o, NoDRBDR), !.v.drbdr = o]

patchLLV(p, l, o) ==
    IF p.api.llv[l] # p.v.llv[l] THEN Fail(p)
    ELSE [p EXCEPT !.api.llv[l] = o, !.v.llv[l] = o]

\* Only the controller's own finalizer is left on a replica being deleted.
rvrShouldNotExist(o) == o.ex /\ o.del /\ o.fins \subseteq {"rvr"}

DropLLVFinalizer(p, l) ==
    IF "rvr" \in p.v.llv[l].fins
    THEN patchLLV(p, l, [p.v.llv[l] EXCEPT !.fins = @ \ {"rvr"}])
    ELSE p

\* Deletes are unconditional, and skipped for a copy that is already deleting.
deleteLLV(p, l) ==
    IF p.st # "go" THEN p
    ELSE [p EXCEPT !.api.llv[l].del = @ \/ (p.api.llv[l].ex /\ ~p.v.llv[l].del),
                   !.v.llv[l] = NoLV]

deleteOne(p, l) == deleteLLV(DropLLVFinalizer(p, l), l)

\* From the end of the list, all but the one kept, until a write fails.
reconcileLLVsDeletion(p, keep) ==
    LET doomed(q) == {l \in LLVs \ {keep} : q.v.llv[l].ex}
        one(q) == IF q.st # "go" \/ doomed(q) = {} THEN q
                  ELSE deleteOne(q, CHOOSE l \in doomed(q) : \A k \in doomed(q) : k <= l)
    IN  one(one(p))

----------------------------------------------------------------------------
(* Metadata *)

\* The controller's finalizer stays while the replica should exist or has children,
\* and is never added to a replica that is already deleting.
targetFinalizerPresent(v) ==
    /\ ~rvrShouldNotExist(v.rvr) \/ v.drbdr.ex \/ \E l \in LLVs : v.llv[l].ex
    /\ ~v.rvr.del \/ "rvr" \in v.rvr.fins

reconcileMetadata(p) ==
    LET keep == targetFinalizerPresent(p.v)
        fins == IF keep THEN p.v.rvr.fins \cup {"rvr"} ELSE p.v.rvr.fins \ {"rvr"}
        q == patchRVR(p, [p.v.rvr EXCEPT !.fins = fins])
    IN  CASE fins = p.v.rvr.fins -> p
          [] q.st = "fail" \/ keep -> q
          [] OTHER -> [q EXCEPT !.st = "done"]

----------------------------------------------------------------------------
(* Backing volume *)

\* The volume the DRBDResource names, when it still exists.
computeActualBackingVolume(v) ==
    LET l == v.drbdr.spec.llv
    IN  IF v.drbdr.ex /\ l # NoLLV /\ v.llv[l].ex
        THEN [llv |-> l, size |-> v.llv[l].act] ELSE NoBV

\* A member's datamesh entry decides; a member without a disk keeps the volume its
\* spec is heading for; a replica outside the datamesh follows its spec.
computeIntendedBackingVolume(v) ==
    LET m == log[v.rev]
        size == IF v.want > m.size THEN v.want ELSE m.size
        wanted == IF IsMember(m) THEN NeedsBackingVolume(m.mem) \/ NeedsBackingVolume(v.rvr.type)
                  ELSE ~v.rvr.del /\ v.rvr.type = "D"
        lvg == IF IsMember(m) /\ NeedsBackingVolume(m.mem) THEN m.lvg ELSE v.rvr.lvg
    IN  IF wanted THEN [llv |-> lvg, size |-> size] ELSE NoBV

newLLV(size) == [NoLV EXCEPT !.ex = TRUE, !.fins = {"rvr"}, !.size = size]

With(p, target, intended) == [p EXCEPT !.target = target, !.intended = intended]

\* The API refuses the volume: the pass goes on and comes back after five minutes.
createLLV(p, bv, actual, refused) ==
    CASE p.api.llv[bv.llv].ex -> [p EXCEPT !.st = "requeue"]
      [] refused -> [With(p, actual, bv) EXCEPT !.again = TRUE]
      [] OTHER -> [With(p, actual, bv) EXCEPT !.api.llv[bv.llv] = newLLV(bv.size),
                                              !.v.llv[bv.llv] = newLLV(bv.size)]

\* The rvr finalizer back on a volume that lost it; none is accepted on a deleting one.
EnsureLLVMetadata(p, l) ==
    IF "rvr" \in p.v.llv[l].fins THEN p
    ELSE IF p.v.llv[l].del THEN Fail(p)
    ELSE patchLLV(p, l, [p.v.llv[l] EXCEPT !.fins = @ \cup {"rvr"}])

growLLV(p, bv, actual, refused) ==
    CASE p.v.llv[bv.llv].size = bv.size -> With(p, actual, bv)
      [] refused -> [With(p, actual, bv) EXCEPT !.again = TRUE]
      [] OTHER -> With(patchLLV(p, bv.llv, [p.v.llv[bv.llv] EXCEPT !.size = bv.size]), actual, bv)

\* Until the intended volume is ready and large enough the DRBDResource keeps the
\* actual one; then every other volume is deleted and the intended one is the target.
useLLV(p, bv, actual, refused) ==
    LET q == EnsureLLVMetadata(p, bv.llv)
        o == q.v.llv[bv.llv]
    IN  CASE q.st # "go" -> q
          [] ~o.ready -> With(q, actual, bv)
          [] o.act < bv.size -> growLLV(q, bv, actual, refused)
          [] OTHER -> With(reconcileLLVsDeletion(q, bv.llv), bv, bv)

reconcileBackingVolume(p, refused) ==
    LET actual == computeActualBackingVolume(p.v)
        bv == computeIntendedBackingVolume(p.v)
        o == p.v.llv[bv.llv]
    IN  CASE p.st # "go" -> p
          [] rvrShouldNotExist(p.v.rvr) -> With(reconcileLLVsDeletion(p, NoLLV), NoBV, NoBV)
          [] p.v.rev = 0 -> With(p, actual, NoBV)
          [] OTHER ->
             CASE bv = NoBV -> With(reconcileLLVsDeletion(p, NoLLV), NoBV, NoBV)
               [] bv # NoBV /\ o.ex /\ o.del /\ ~IsMember(log[p.v.rev]) ->
                    With(DropLLVFinalizer(p, bv.llv), actual, bv)
               [] bv # NoBV /\ ~o.ex -> createLLV(p, bv, actual, refused)
               [] OTHER -> useLLV(p, bv, actual, refused)

----------------------------------------------------------------------------
(* DRBD resource *)

computeIntendedType(v) ==
    LET m == log[v.rev]
    IN  CASE IsMember(m) -> m.mem
          [] v.rvr.del -> "A"
          [] OTHER -> v.rvr.type

computeTargetType(intendedType, target) ==
    IF HasBackingVolume(intendedType) /\ target = NoBV THEN ToLiminal(intendedType)
    ELSE intendedType

\* Role, quorum and peers follow from the revision and the type; a replica outside
\* the datamesh has no peer and an unreachable quorum.  The size never shrinks.
computeTargetDRBDRSpec(v, target, type) ==
    LET m == log[v.rev]
        old == IF v.drbdr.ex THEN v.drbdr.spec ELSE NoSpec
        diskful == HasBackingVolume(type)
    IN  [type |-> IF diskful THEN "Diskful" ELSE "Diskless",
         llv |-> IF diskful THEN target.llv ELSE NoLLV,
         size |-> IF ~diskful THEN 0 ELSE IF m.size > old.size THEN m.size ELSE old.size,
         cfg |-> IF IsMember(m) THEN <<type, m.cfg>> ELSE <<"alone", 0>>,
         maint |-> old.maint]

\* What the previous pass wrote the spec for: revision, generation and type.
newDRBDRReconciliationCache(rev, gen, type) == [rev |-> rev, gen |-> gen, type |-> type]

writeDRBDR(p, type) ==
    LET spec == computeTargetDRBDRSpec(p.v, p.target, type)
        new == [NoDRBDR EXCEPT !.ex = TRUE, !.spec = spec, !.gen = 1, !.fins = {"rvr"}]
    IN  IF ~p.v.drbdr.ex
        THEN IF p.api.drbdr.ex THEN [p EXCEPT !.st = "requeue"]
             ELSE [p EXCEPT !.api.drbdr = new, !.v.drbdr = new,
                            !.cache = newDRBDRReconciliationCache(p.v.rev, 1, type)]
        ELSE LET cache == newDRBDRReconciliationCache(p.v.rev, p.v.drbdr.gen, type)
                 q == [p EXCEPT !.cache = cache]
             IN  IF p.v.rvr.cache = cache \/ p.v.drbdr.spec = spec THEN q
                 ELSE patchDRBDR(q, [p.v.drbdr EXCEPT !.spec = spec, !.gen = @ + 1])

EnsureDRBDRMetadata(p) ==
    IF p.st # "go" \/ "rvr" \in p.v.drbdr.fins THEN p
    ELSE IF p.v.drbdr.del THEN Fail(p)
    ELSE patchDRBDR(p, [p.v.drbdr EXCEPT !.fins = @ \cup {"rvr"}])

\* A mutant: an answer to an older generation counts.
ReportAnyGeneration(p, intendedType, type, agentReady) ==
    LET d == p.v.drbdr
        r == [p.v.rvr EXCEPT !.cache = p.cache]
        o == [r EXCEPT !.obsRev = p.v.rev]
    IN  CASE ~agentReady -> [r EXCEPT !.cond = "AgentNotReady"]
          [] d.cond = "none" -> [r EXCEPT !.cond = "ApplyingConfiguration"]
          [] d.cond \in {"maint", "fail"} -> [o EXCEPT !.cond = "ConfigurationFailed"]
          [] type # intendedType -> [o EXCEPT !.cond = "WaitingForBackingVolume"]
          [] ~IsMember(log[p.v.rev]) ->
                 [o EXCEPT !.dmRev = 0, !.cond = IF r.del THEN "Configured" ELSE "PendingDatameshJoin"]
          [] OTHER -> [o EXCEPT !.dmRev = p.v.rev, !.cond = "Configured"]

\* What the replica reports of its DRBD configuration: the answer of the agent to
\* the current generation, and only for a complete one the datamesh revision.
Report(p, intendedType, type, agentReady) ==
    LET d == p.v.drbdr
        r == [p.v.rvr EXCEPT !.cache = p.cache]
        o == [r EXCEPT !.obsRev = p.v.rev]
        member == IsMember(log[p.v.rev])
    IN  CASE ~agentReady -> [r EXCEPT !.cond = "AgentNotReady"]
          [] d.cond = "none" \/ d.obsGen # d.gen -> [r EXCEPT !.cond = "ApplyingConfiguration"]
          [] d.cond = "maint" -> [o EXCEPT !.cond = "InMaintenance"]
          [] d.cond = "fail" -> [o EXCEPT !.cond = "ConfigurationFailed"]
          [] type # intendedType -> [o EXCEPT !.cond = "WaitingForBackingVolume"]
          [] p.intended # NoBV /\ p.target # NoBV
               /\ (p.target.llv # p.intended.llv \/ p.target.size < p.intended.size) ->
                 [o EXCEPT !.cond = "WaitingForBackingVolume"]
          [] d.spec.type = "Diskful" /\ d.size < d.spec.size -> [o EXCEPT !.cond = "WaitingForDRBDResize"]
          [] ~member /\ r.dmRev # 0 -> [o EXCEPT !.dmRev = 0, !.obsRev = 0, !.cond = "Configured"]
          [] ~member /\ r.dmRev = 0 ->
                 [o EXCEPT !.cond = IF r.del THEN "Configured" ELSE "PendingDatameshJoin"]
          [] OTHER -> [o EXCEPT !.dmRev = p.v.rev, !.cond = "Configured"]

\* A mutant: the controller's finalizer stays on the resource it deletes.
deleteDRBDRHeld(p) ==
    IF ~p.v.drbdr.ex THEN p
    ELSE [p EXCEPT !.api.drbdr.del = @ \/ p.api.drbdr.ex, !.v.drbdr = NoDRBDR]

\* The resource is deleted at once; the agent's finalizer keeps it until the node is clean.
deleteDRBDR(p) ==
    LET q == IF "rvr" \in p.v.drbdr.fins
             THEN patchDRBDR(p, [p.v.drbdr EXCEPT !.fins = @ \ {"rvr"}]) ELSE p
        gone == Settled([q.api.drbdr EXCEPT !.del = TRUE], NoDRBDR)
    IN  IF ~p.v.drbdr.ex \/ q.st # "go" THEN q
        ELSE [q EXCEPT !.api.drbdr = IF q.api.drbdr.ex /\ ~p.v.drbdr.del THEN gone ELSE @,
                       !.v.drbdr = NoDRBDR]

reconcileDRBDResource(p, agentReady) ==
    IF p.st # "go" THEN p
    ELSE IF rvrShouldNotExist(p.v.rvr)
         THEN LET q == deleteDRBDR(p)
              IN  [q EXCEPT !.status = [p.v.rvr EXCEPT !.cond = "NotApplicable"]]
    ELSE IF p.v.rev = 0
         THEN [p EXCEPT !.status = [p.v.rvr EXCEPT !.cond = "WaitingForReplicatedVolume"]]
    ELSE LET it == computeIntendedType(p.v)
             type == computeTargetType(it, p.target)
             q == EnsureDRBDRMetadata(writeDRBDR(p, type))
         IN  IF q.st # "go" THEN q
             ELSE [q EXCEPT !.status = Report(q, it, type, agentReady)]

----------------------------------------------------------------------------
(* The status patch: refused while the volume the agent reports as active  *)
(* is not among the volumes of the replica.                                *)
patchRVRStatus(p) ==
    LET l == p.v.drbdr.active
    IN  CASE p.st # "go" \/ p.status = p.v.rvr -> p
          [] p.v.drbdr.ex /\ l # NoLLV /\ ~p.v.llv[l].ex -> Fail(p)
          [] OTHER -> patchRVR(p, p.status)

\* Without the replica in the cache only the finalizers of deleting children go.
ReleaseChildren(p) ==
    LET one(q, l) == IF q.v.llv[l].del THEN DropLLVFinalizer(q, l) ELSE q
        q1 == one(p, 1)
        q2 == IF q1.st = "go" THEN one(q1, 2) ELSE q1
    IN  IF q2.st = "go" /\ q2.v.drbdr.del /\ "rvr" \in q2.v.drbdr.fins
        THEN patchDRBDR(q2, [q2.v.drbdr EXCEPT !.fins = @ \ {"rvr"}]) ELSE q2

NewPass(v) ==
    [api |-> [rvr |-> rvr, drbdr |-> drbdr, llv |-> llv], v |-> v, st |-> "go",
     again |-> FALSE, target |-> NoBV, intended |-> NoBV,
     cache |-> v.rvr.cache, status |-> v.rvr]

\* The stages of a pass, in the order of Reconcile; each may be the last one reached.
AfterMetadata(v) == reconcileMetadata(NewPass(v))
AfterVolume(v, refused) == reconcileBackingVolume(AfterMetadata(v), refused)
AfterResource(v, refused, agentReady) == reconcileDRBDResource(AfterVolume(v, refused), agentReady)
=============================================================================
