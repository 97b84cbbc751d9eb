----------------------------- MODULE DrbdActions -----------------------------
(***************************************************************************)
(* The DRBD commands of the agent: which of them bring the kernel from     *)
(* what was observed to what the DRBDResource asks for                     *)
(* (target_drbd_state.go), and what each does (drbd_actions.go,            *)
(* pkg/drbdutils).  Kernel states are records; a name without a resource   *)
(* has the state NoRes.                                                    *)
(***************************************************************************)
EXTENDS Integers, FiniteSets, Sequences, SequencesExt

CONSTANTS
    Peers,        \* node ids of peers: 1..n
    MaxMinor      \* MaxDeviceMinor

None == -1        \* no minor

NoRes == [up |-> FALSE, minor |-> None, opts |-> 0, disk |-> "", nv |-> FALSE, client |-> FALSE,
          peers |-> <<>>, primary |-> FALSE, open |-> FALSE]

NewPeer == [conn |-> "StandAlone", paths |-> {}, est |-> {}, bitmap |-> TRUE, multi |-> FALSE]

PeerIds(k) == DOMAIN k.peers

PortsOf(k) == UNION {k.peers[p].paths : p \in PeerIds(k)}

Without(f, x) == [y \in DOMAIN f \ {x} |-> f[y]]

----------------------------------------------------------------------------
(* The action list.  i is the intended state: the spec of the DRBDResource *)
(* with its listening port and the device-uuid of its status; a is the     *)
(* observed state, and m the metadata found on the intended disk.          *)

Action(op) == [op |-> op, peer |-> 0, port |-> 0, uuid |-> 0, val |-> FALSE]
PeerAction(op, p) == [Action(op) EXCEPT !.peer = p]

If(cond, actions) == IF cond THEN actions ELSE <<>>


\* The device-uuid decision table: a disk of another resource is refused, a disk without
\* an identity gets the one of the status or a fresh one.  (ApplyAL replays the activity
\* log and has no other effect.)
computeAttachActions(i, m, fresh) ==
    IF m.has /\ m.uuid # 0 /\ i.uuid # 0 /\ m.uuid # i.uuid
    THEN <<Action("Fail")>>
    ELSE If(~m.has, <<Action("CreateMetadata")>>)
         \o If(m.uuid = 0, <<[Action("WriteDeviceUUID") EXCEPT !.uuid = IF i.uuid # 0 THEN i.uuid ELSE fresh]>>)
         \o <<Action("Attach")>>

computeDiskOptionsAction(i) == <<[Action("DiskOptions") EXCEPT !.val = i.nv]>>

computeDiskOptionsActionReconcile(i, a) == If(a.disk # "" /\ a.nv # i.nv, computeDiskOptionsAction(i))

\* A disk that is not the intended one is detached, and nothing else in this pass.
computeDiskActions(i, a, m, fresh) ==
    IF a.disk # "" /\ a.disk # i.disk
    THEN <<[Action("Detach") EXCEPT !.val = (i.disk = "")]>>
    ELSE IF a.disk = "" /\ i.disk # ""
    THEN computeAttachActions(i, m, fresh) \o computeDiskOptionsAction(i)
    ELSE computeDiskOptionsActionReconcile(i, a)

\* Paths are told apart by the local port.  An established path of an active connection
\* stays while no established path is kept.
computePathActions(i, p, q) ==
    LET kept == q.est \cap {i.port} # {}
        gone == SetToSeq({x \in q.paths \ {i.port} :
                    ~(q.conn # "StandAlone" /\ x \in q.est /\ ~kept)})
    IN  If(i.port \notin q.paths, <<[PeerAction("NewPath", p) EXCEPT !.port = i.port]>>)
        \o [x \in DOMAIN gone |-> [PeerAction("DelPath", p) EXCEPT !.port = gone[x]]]

computeNetOptionsAction(i, p) == <<[PeerAction("NetOptions", p) EXCEPT !.val = i.multi]>>

computeNetOptionsActionReconcile(i, p, q) == If(q.multi # i.multi, computeNetOptionsAction(i, p))

\* The bitmap is off for diskless peers and on for every other.
computePeerDeviceOptionsAction(i, p, q) ==
    LET bitmap == i.peers[p] # "L"
    IN  If(q.bitmap # bitmap, <<[PeerAction("PeerDeviceOptions", p) EXCEPT !.val = bitmap]>>)

\* A new peer: its peer-device options follow in a later pass.
newPeerActions(i, p) ==
    <<PeerAction("NewPeer", p)>> \o computeNetOptionsAction(i, p) \o computePathActions(i, p, NewPeer)
    \o <<PeerAction("Connect", p)>>

\* A bug: only a peer that was just added is connected.
peerActionsOnce(i, p, q) ==
    computeNetOptionsActionReconcile(i, p, q) \o computePeerDeviceOptionsAction(i, p, q)
    \o computePathActions(i, p, q)

\* A peer the kernel already has.
peerActions(i, p, q) ==
    peerActionsOnce(i, p, q) \o If(q.conn = "StandAlone", <<PeerAction("Connect", p)>>)

removedPeerActions(p) ==
    <<PeerAction("Disconnect", p), PeerAction("DelPeer", p), PeerAction("ForgetPeer", p)>>

\* The actions on different peers commute; the code runs them in the order of a map.
ForPeers(ids, actions) ==
    FlattenSeq([x \in DOMAIN SetToSeq(ids) |-> actions[SetToSeq(ids)[x]]])

computeResourceOptions(i, a) == If(a.opts # i.opts, <<[Action("ResourceOptions") EXCEPT !.uuid = i.opts]>>)

computeMinorActions(i, a) == If(a.minor = None, <<[Action("NewMinor") EXCEPT !.val = (i.disk = "")]>>)

computeRoleAction(i, a) == If(i.primary # a.primary, <<Action(IF i.primary THEN "Primary" ELSE "Secondary")>>)

computeBringUpActions(i, a, m, fresh) ==
    LET wanted == DOMAIN i.peers
        toAdd == wanted \ PeerIds(a)
        existing == wanted \cap PeerIds(a)
        toRemove == PeerIds(a) \ wanted
    IN  If(~a.up, <<Action("NewResource")>>)
        \o computeResourceOptions(i, a)
        \o computeMinorActions(i, a)
        \o <<Action("EnsureDeviceSymlink")>>
        \o computeDiskActions(i, a, m, fresh)
        \o ForPeers(toAdd, [p \in toAdd |-> newPeerActions(i, p)])
        \o ForPeers(existing, [p \in existing |-> peerActions(i, p, a.peers[p])])
        \o ForPeers(toRemove, [p \in toRemove |-> removedPeerActions(p)])
        \o computeRoleAction(i, a)

\* The symlink goes first, so that it never names a device that is gone.
teardownActions(exists) == <<Action("RemoveDeviceSymlink")>> \o If(exists, <<Action("Down")>>)

\* A bug: the symlink of an orphan outlives its device.
orphanActionsDownOnly(exists) == If(exists, <<Action("Down")>>)

orphanActions(exists) == If(exists, teardownActions(TRUE))

computeTargetDRBDActions(i, a, m, fresh) ==
    IF i.up THEN computeBringUpActions(i, a, m, fresh) ELSE teardownActions(a.up)

----------------------------------------------------------------------------
(* What the kernel makes of a command.                                     *)

\* advanceMinorPastUsed: past the largest minor in use or, at the limit, the first gap.
advanceMinorPastUsed(next, used) ==
    LET past == Max({next} \cup {x + 1 : x \in used})
    IN  IF past <= MaxMinor THEN past ELSE Min(0..MaxMinor \ used)

\* The next candidate, or after a collision the first one past those in use.
ExecuteNewAutoMinor(next, used) ==
    IF next \notin used THEN next
    ELSE advanceMinorPastUsed(IF next = MaxMinor THEN 0 ELSE next + 1, used)

\* The answer to a command that fails; otherwise the answer is the new resource state.
Refusal == [NoRes EXCEPT !.minor = None - 1]

Unless(refused, k) == IF refused THEN Refusal ELSE k

SetPeer(k, p, field, value) == [k EXCEPT !.peers[p] = [@ EXCEPT ![field] = value]]

ExecuteNewResource(k) == Unless(k.up, [NoRes EXCEPT !.up = TRUE])

ExecuteResourceOptions(k, opts) == Unless(~k.up, [k EXCEPT !.opts = opts])

ExecuteNewMinor(k, minor, diskless) == Unless(~k.up, [k EXCEPT !.minor = minor, !.client = diskless])

\* A device is attached once, to a minor that has none, and only with metadata.
ExecuteAttach(k, d, m, inUse) ==
    Unless(k.minor = None \/ k.disk # "" \/ ~m.has \/ inUse, [k EXCEPT !.disk = d, !.client = FALSE])

ExecuteDiskOptions(k, nv) == Unless(k.disk = "", [k EXCEPT !.nv = nv])

ExecuteDetach(k, diskless) == Unless(k.minor = None, [k EXCEPT !.disk = "", !.nv = FALSE, !.client = diskless])

ExecuteNewPeer(k, p) ==
    Unless(~k.up \/ p \in PeerIds(k),
           [k EXCEPT !.peers = [q \in PeerIds(k) \cup {p} |-> IF q = p THEN NewPeer ELSE k.peers[q]]])

ExecuteNetOptions(k, p, multi) == Unless(p \notin PeerIds(k), SetPeer(k, p, "multi", multi))

ExecutePeerDeviceOptions(k, p, bitmap) == Unless(p \notin PeerIds(k), SetPeer(k, p, "bitmap", bitmap))

\* taken: the ports of other resources.
ExecuteNewPath(k, p, port, taken) ==
    Unless(p \notin PeerIds(k) \/ port \in taken, SetPeer(k, p, "paths", k.peers[p].paths \cup {port}))

\* The last established path of an active connection is not given up.
ExecuteDelPath(k, p, port) ==
    Unless(\/ p \notin PeerIds(k) \/ port \notin k.peers[p].paths
           \/ k.peers[p].conn # "StandAlone" /\ k.peers[p].est = {port},
           SetPeer(SetPeer(k, p, "paths", k.peers[p].paths \ {port}), p, "est", k.peers[p].est \ {port}))

\* To connect what is configured already counts as success.
ExecuteConnect(k, p) ==
    Unless(p \notin PeerIds(k),
           IF k.peers[p].conn = "StandAlone" THEN SetPeer(k, p, "conn", "Connecting") ELSE k)

ExecuteDisconnect(k, p) ==
    Unless(p \notin PeerIds(k), SetPeer(SetPeer(k, p, "conn", "StandAlone"), p, "est", {}))

ExecuteDelPeer(k, p) ==
    Unless(p \notin PeerIds(k) \/ k.peers[p].conn # "StandAlone", [k EXCEPT !.peers = Without(@, p)])

ExecutePrimary(k) == Unless(~k.up, [k EXCEPT !.primary = TRUE])

ExecuteSecondary(k) == Unless(~k.up \/ k.open, [k EXCEPT !.primary = FALSE])

ExecuteDown(k) == Unless(~k.up \/ k.open, NoRes)

\* The Execute methods of the actions.  env: the minor a NewMinor gets, the intended disk d
\* with its metadata m, whether it is in use, and the ports of the other resources.
ResourceAnswer(k, x, env) ==
    CASE x.op = "NewResource" -> ExecuteNewResource(k)
      [] x.op = "ResourceOptions" -> ExecuteResourceOptions(k, x.uuid)
      [] x.op = "NewMinor" -> ExecuteNewMinor(k, env.minor, x.val)

DiskAnswer(k, x, env) ==
    CASE x.op = "Fail" -> Refusal
      [] x.op \in {"CreateMetadata", "WriteDeviceUUID"} -> k
      [] x.op = "Attach" -> ExecuteAttach(k, env.d, env.m, env.inUse)
      [] x.op = "DiskOptions" -> ExecuteDiskOptions(k, x.val)

PeerAnswer(k, x, env) ==
    CASE x.op = "NewPeer" -> ExecuteNewPeer(k, x.peer)
      [] x.op = "NetOptions" -> ExecuteNetOptions(k, x.peer, x.val)
      [] x.op = "PeerDeviceOptions" -> ExecutePeerDeviceOptions(k, x.peer, x.val)
      [] x.op = "NewPath" -> ExecuteNewPath(k, x.peer, x.port, env.taken)
      [] x.op = "Connect" -> ExecuteConnect(k, x.peer)
      [] x.op = "Disconnect" -> ExecuteDisconnect(k, x.peer)

\* Peers that are forgotten keep no state here, and symlinks are not the kernel's.
OtherAnswer(k, x, env) ==
    CASE x.op = "DelPath" -> ExecuteDelPath(k, x.peer, x.port)
      [] x.op = "DelPeer" -> ExecuteDelPeer(k, x.peer)
      [] x.op = "ForgetPeer" -> Unless(~k.up, k)
      [] x.op = "Detach" -> ExecuteDetach(k, x.val)
      [] x.op = "Primary" -> ExecutePrimary(k)
      [] x.op = "Secondary" -> ExecuteSecondary(k)
      [] x.op = "Down" -> ExecuteDown(k)
      [] x.op \in {"EnsureDeviceSymlink", "RemoveDeviceSymlink"} -> k

Answer(k, x, env) ==
    CASE x.op \in {"NewResource", "ResourceOptions", "NewMinor"} -> ResourceAnswer(k, x, env)
      [] x.op \in {"Fail", "CreateMetadata", "WriteDeviceUUID", "Attach", "DiskOptions"} -> DiskAnswer(k, x, env)
      [] x.op \in {"NewPeer", "NetOptions", "PeerDeviceOptions", "NewPath", "Connect", "Disconnect"} ->
            PeerAnswer(k, x, env)
      [] OTHER -> OtherAnswer(k, x, env)

\* The metadata of the intended disk after an accepted command.
MetadataAfter(m, x) ==
    CASE x.op = "CreateMetadata" -> [has |-> TRUE, uuid |-> 0]
      [] x.op = "WriteDeviceUUID" -> [m EXCEPT !.uuid = x.uuid]
      [] OTHER -> m

=============================================================================
