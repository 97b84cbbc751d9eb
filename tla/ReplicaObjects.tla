--------------------------- MODULE ReplicaObjects ---------------------------
(***************************************************************************)
(* The objects one replica consists of: the ReplicatedVolumeReplica (rvr), *)
(* the DRBDResource the rvr controller writes for the agent of its node    *)
(* (drbdr), the LVMLogicalVolumes that back its disk (llv, one per volume  *)
(* group, which is what their names are computed from), and the DRBD       *)
(* resource in the kernel of the node.  The datamesh the replicated volume *)
(* publishes is the sequence log: its n-th element is what revision n says *)
(* of this replica.                                                        *)
(***************************************************************************)
EXTENDS Integers, Sequences, FiniteSets

CONSTANTS
    MaxRev,        \* bound on the revisions the volume publishes
    MaxSize        \* bound on the size of the volume

NoLLV == 0
LLVs == 1..2

VARIABLES
    log,           \* what each revision of the datamesh says of this replica
    want,          \* size in the spec of the ReplicatedVolume
    rvr,           \* the ReplicatedVolumeReplica
    drbdr,         \* the DRBDResource
    llv,           \* the LVMLogicalVolumes
    kernel,        \* the DRBD resource in the kernel
    seen,          \* informer cache of the controller
    view,          \* informer cache of the agent
    memo,          \* the agent's cache of drbdsetup output
    kev,           \* a kernel event has not reached the scanner
    queued,        \* who has a request in its queue: "rvr", "agent"
    pass,          \* the agent's reconcile in progress
    alive,         \* the agent's pod is ready
    budget         \* events that may still happen

vars == <<log, want, rvr, drbdr, llv, kernel, seen, view, memo, kev, queued, pass, alive,
          budget>>

\* An event of the environment: one of the kinds of the scenario, from its allowance.
Event(kind) ==
    /\ kind \in budget.kinds /\ budget.left > 0
    /\ budget' = [budget EXCEPT !.left = @ - 1]

----------------------------------------------------------------------------
(* Objects of the API.  An object whose field ex is FALSE does not exist. *)

NoRVR == [ex |-> FALSE, type |-> "D", lvg |-> 1, del |-> FALSE, fins |-> {},
          cache |-> [rev |-> 0, gen |-> 0, type |-> "none"],
          dmRev |-> 0, obsRev |-> 0, cond |-> "none"]

NewRVR(type) == [NoRVR EXCEPT !.ex = TRUE, !.type = type, !.fins = {"rv"}]

NoSpec == [type |-> "none", llv |-> NoLLV, size |-> 0, cfg |-> <<"alone", 0>>,
           maint |-> FALSE]

NoDRBDR == [ex |-> FALSE, spec |-> NoSpec, gen |-> 0, del |-> FALSE, fins |-> {},
            obsGen |-> 0, cond |-> "none", active |-> NoLLV, owed |-> {}, size |-> 0]

NoLV == [ex |-> FALSE, del |-> FALSE, fins |-> {}, ready |-> FALSE, size |-> 0, act |-> 0]

Down == [up |-> FALSE, disk |-> NoLLV, size |-> 0, cfg |-> <<"alone", 0>>, hit |-> FALSE]

\* The API server drops a deleted object when its last finalizer goes.
Settled(o, none) == IF o.del /\ o.fins = {} THEN none ELSE o

Rev == Len(log)

\* api/v1alpha1: what a member type keeps and attaches.
NeedsBackingVolume(t) == t \in {"D", "D0"}
HasBackingVolume(t) == t = "D"
ToLiminal(t) == IF t = "D" THEN "D0" ELSE t
IsMember(m) == m.mem # "none"
=============================================================================
