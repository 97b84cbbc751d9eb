---------------------------- MODULE StoragePools ----------------------------
(***************************************************************************)
(* Storage pools (ReplicatedStoragePool) and the nodes they offer:         *)
(* rsp_controller, which keeps the eligible nodes of a pool, and           *)
(* node_controller, which keeps the agent label of a node.  The controllers*)
(* talk through the API server only: each has a work queue, filled by the  *)
(* watch predicates and mapping functions of its controller.go, reads a    *)
(* snapshot and writes it back later.                                      *)
(***************************************************************************)
EXTENDS MemberTypes, FiniteSets

CONSTANTS
    Classes,     \* names of storage classes
    Pools,       \* names of storage pools
    Nodes

VARIABLES
    rsc,      \* storage classes (StorageClasses.tla)
    rsp,      \* rsp[p]: the pool object
    lvg,      \* lvg[p]: whether the LVMVolumeGroups of the pool are missing, unready or ready
    node,     \* node[n]: Ready state, agent label, agent pod, DRBD resources
    rw,       \* rw[p]: what the reconcile of pool p in flight has computed
    nw,       \* nw[n]: the label the reconcile of node n in flight will write
    timer,    \* the pools with a pending requeue
    qc, qp, qn,   \* the work queues: classes, pools, nodes
    fresh,    \* <<h, p>>: holder h has the current version of pool p
    budget    \* what the world around the controllers may still do, and how often

\* ReplicatedStoragePoolEligibleNode: whether the node, its agent and its volume
\* group are ready.
EligibleNode(ready, agent, disk) == [in |-> TRUE, ready |-> ready, agent |-> agent, disk |-> disk]

NotEligible == [in |-> FALSE, ready |-> FALSE, agent |-> FALSE, disk |-> FALSE]

NoPool ==
    [ex |-> FALSE, fin |-> FALSE, usedBy |-> {}, ready |-> "Unknown",
     elig |-> [n \in Nodes |-> NotEligible], rev |-> 0]

eligibleNames(pool) == {n \in Nodes : pool.elig[n].in}

Idle == [pc |-> "idle"]

Event(kind) ==
    /\ kind \in budget.kinds /\ budget.left > 0
    /\ budget' = [budget EXCEPT !.left = @ - 1]

----------------------------------------------------------------------------
(* Watches.  Every write of a pool goes through these.                     *)

\* rsc_controller reacts to the pool's revision and Ready condition, its
\* creation and its deletion, for the classes that name the pool or are named by it.
mapRSPToRSC(p, old, new) ==
    IF old.ex = new.ex /\ old.rev = new.rev /\ old.ready = new.ready THEN {}
    ELSE {c \in Classes : c \in old.usedBy \cup new.usedBy \/ rsc[c].stPool = p}

\* node_controller reacts to nodes entering or leaving the eligible nodes.
enqueueEligibleNodesDelta(old, new) ==
    (eligibleNames(old) \ eligibleNames(new)) \cup (eligibleNames(new) \ eligibleNames(old))

\* rsp_controller reacts to any Node change that matters to it, for every pool ...
mapNodeToRSP(n) == {p \in Pools : rsp[p].ex}

mapLVGToRSP(p) == {p} \cap {q \in Pools : rsp[q].ex}

\* ... and to an agent pod for the pools in which its node is eligible already.
mapAgentPodToRSP(n) == {p \in Pools : n \in eligibleNames(rsp[p])}

WritePool(h, p, new) ==
    /\ rsp' = [rsp EXCEPT ![p] = new]
    /\ qc' = qc \cup mapRSPToRSC(p, rsp[p], new)
    /\ qn' = qn \cup enqueueEligibleNodesDelta(rsp[p], new)
    /\ qp' = IF rsp[p].ex = new.ex THEN qp ELSE qp \cup {p}
    /\ fresh' = {f \in fresh : f[2] # p} \cup {<<h, p>>}

----------------------------------------------------------------------------
(* rsp_controller.                                                         *)

\* A node that is NotReady beyond its grace period is left out.
isNodeReadyOrWithinGrace(n) == node[n].st # "expired"

isLVGReady(p) == lvg[p] = "ready"

computeActualEligibleNodes(p) ==
    [n \in Nodes |-> IF isNodeReadyOrWithinGrace(n)
                     THEN EligibleNode(node[n].st = "ready", node[n].agent, isLVGReady(p))
                     ELSE NotEligible]

\* Whether every volume group the pool names exists.
validateRSPAndLVGs(p) == lvg[p] # "missing"

InGrace == {n \in Nodes : node[n].st = "grace"}

applyEligibleNodes(pool, elig) ==
    IF pool.elig = elig THEN pool ELSE [pool EXCEPT !.elig = elig, !.rev = @ + 1]

\* Reconcile up to the patch: with LVMVolumeGroups missing the eligible nodes
\* stay as they are.
RspRead(p) ==
    /\ p \in qp /\ rw[p].pc = "idle"
    /\ qp' = qp \ {p}
    /\ IF ~rsp[p].ex
       THEN UNCHANGED <<rw, fresh>>
       ELSE /\ rw' = [rw EXCEPT ![p] =
                   IF validateRSPAndLVGs(p)
                   THEN [pc |-> "patch", expires |-> InGrace,
                         new |-> [applyEligibleNodes(rsp[p], computeActualEligibleNodes(p))
                                    EXCEPT !.ready = "True"]]
                   ELSE [pc |-> "patch", expires |-> {}, new |-> [rsp[p] EXCEPT !.ready = "False"]]]
            /\ fresh' = fresh \cup {<<p, p>>}
    /\ UNCHANGED <<rsc, rsp, lvg, node, nw, timer, qc, qn, budget>>

\* A bug: no requeue for the end of the grace period.
RequeueNever(p) == UNCHANGED <<qp, timer>>

\* A requeue delay that is not positive is a panic; controller-runtime recovers
\* it and retries.
RequeueAfter(p) ==
    IF \E n \in rw[p].expires : node[n].st = "expired"
    THEN qp' = qp \cup {p} /\ UNCHANGED timer
    ELSE /\ timer' = IF rw[p].expires = {} THEN timer ELSE timer \cup {p}
         /\ UNCHANGED qp

RspPatch(p) ==
    /\ rw[p].pc = "patch"
    /\ rw' = [rw EXCEPT ![p] = Idle]
    /\ \/ /\ rsp[p].ex /\ <<p, p>> \in fresh /\ rw[p].new # rsp[p]
          /\ rsp' = [rsp EXCEPT ![p] = rw[p].new]
          /\ qc' = qc \cup mapRSPToRSC(p, rsp[p], rw[p].new)
          /\ qn' = qn \cup enqueueEligibleNodesDelta(rsp[p], rw[p].new)
          /\ fresh' = {f \in fresh : f[2] # p}
          /\ RequeueAfter(p)
       \/ /\ <<p, p>> \in fresh /\ rw[p].new = rsp[p]
          /\ fresh' = fresh \ {<<p, p>>}
          /\ RequeueAfter(p)
          /\ UNCHANGED <<rsp, qc, qn>>
       \/ /\ <<p, p>> \notin fresh
          /\ qp' = IF rsp[p].ex THEN qp \cup {p} ELSE qp
          /\ UNCHANGED <<rsp, qc, qn, fresh, timer>>
    /\ UNCHANGED <<rsc, lvg, node, nw, budget>>

\* The requeue scheduled for the end of the earliest grace period.
RequeueFires(p) ==
    /\ p \in timer
    /\ InGrace = {} \/ \E n \in Nodes : node[n].st = "expired"
    /\ timer' = timer \ {p}
    /\ qp' = qp \cup {p}
    /\ UNCHANGED <<rsc, rsp, lvg, node, rw, nw, qc, qn, fresh, budget>>

----------------------------------------------------------------------------
(* node_controller: the label a node should have, from its DRBD resources  *)
(* and the pools it is eligible in; written later, without a lock.         *)

shouldHaveLabel(n) == node[n].drbd \/ \E p \in Pools : rsp[p].ex /\ n \in eligibleNames(rsp[p])

NodeRead(n) ==
    /\ n \in qn /\ nw[n].pc = "idle"
    /\ qn' = qn \ {n}
    /\ nw' = [nw EXCEPT ![n] = IF shouldHaveLabel(n) = node[n].label THEN Idle
                               ELSE [pc |-> "patch", label |-> shouldHaveLabel(n)]]
    /\ UNCHANGED <<rsc, rsp, lvg, node, rw, timer, qc, qp, fresh, budget>>

NodePatch(n) ==
    /\ nw[n].pc = "patch"
    /\ node' = [node EXCEPT ![n].label = nw[n].label]
    /\ nw' = [nw EXCEPT ![n] = Idle]
    /\ qn' = IF node[n].label = nw[n].label THEN qn ELSE qn \cup {n}
    /\ qp' = IF node[n].label = nw[n].label THEN qp ELSE qp \cup mapNodeToRSP(n)
    /\ UNCHANGED <<rsc, rsp, lvg, rw, timer, qc, fresh, budget>>

----------------------------------------------------------------------------
(* The world: nodes, agent pods, DRBD resources, volume groups.            *)

\* The agent DaemonSet follows the label.
AgentPod(n) ==
    /\ node[n].agent # node[n].label
    /\ node' = [node EXCEPT ![n].agent = node[n].label]
    /\ qp' = qp \cup mapAgentPodToRSP(n)
    /\ UNCHANGED <<rsc, rsp, lvg, rw, nw, timer, qc, qn, fresh, budget>>

AgentRestarts(n) ==
    /\ Event("agent")
    /\ node[n].agent
    /\ node' = [node EXCEPT ![n].agent = FALSE]
    /\ qp' = qp \cup mapAgentPodToRSP(n)
    /\ UNCHANGED <<rsc, rsp, lvg, rw, nw, timer, qc, qn, fresh>>

SetReady(n, from, to) ==
    /\ node[n].st \in from
    /\ node' = [node EXCEPT ![n].st = to]
    /\ UNCHANGED <<rsc, rsp, lvg, rw, nw, timer, qc, qn, fresh>>

NodeNotReady(n) == Event("node") /\ SetReady(n, {"ready"}, "grace") /\ qp' = qp \cup mapNodeToRSP(n)

NodeReady(n) == Event("node") /\ SetReady(n, {"grace", "expired"}, "ready") /\ qp' = qp \cup mapNodeToRSP(n)

\* Time passes the grace period: nothing is written, so no watch fires.
GraceExpires(n) == SetReady(n, {"grace"}, "expired") /\ UNCHANGED <<qp, budget>>

DRBDResource(n) ==
    /\ Event("drbd")
    /\ node' = [node EXCEPT ![n].drbd = ~@]
    /\ qn' = qn \cup {n}
    /\ UNCHANGED <<rsc, rsp, lvg, rw, nw, timer, qc, qp, fresh>>

LvmVolumeGroups(p) ==
    /\ Event("lvg")
    /\ \E st \in {"missing", "unready", "ready"} \ {lvg[p]} : lvg' = [lvg EXCEPT ![p] = st]
    /\ qp' = qp \cup mapLVGToRSP(p)
    /\ UNCHANGED <<rsc, rsp, node, rw, nw, timer, qc, qn, fresh>>

PoolStep(p) == RspRead(p) \/ RspPatch(p)

NodeStep(n) == NodeRead(n) \/ NodePatch(n)

PoolsNext ==
    \/ \E p \in Pools : PoolStep(p) \/ RequeueFires(p) \/ LvmVolumeGroups(p)
    \/ \E n \in Nodes : \/ NodeStep(n) \/ AgentPod(n) \/ AgentRestarts(n) \/ NodeNotReady(n) \/ NodeReady(n)
                        \/ GraceExpires(n) \/ DRBDResource(n)
============================================================================
