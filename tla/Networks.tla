------------------------------ MODULE Networks ------------------------------
(***************************************************************************)
(* The addresses the members of a volume reach each other at: the network  *)
(* plans of the datamesh (datamesh/network_*.go), which change the set of  *)
(* system networks in steps and repair addresses that moved, and the paths *)
(* the agents build from them in the DRBD kernels of the nodes             *)
(* (reconciler_addresses.go, computePathActions).  Every node is           *)
(* configured, and reports, in its own time.                               *)
(***************************************************************************)
EXTENDS Integers, FiniteSets, Sequences

CONSTANTS
    Ids,          \* replica ids
    FullMesh,     \* the ids of replicas whose member type connects to all peers
    Nets,         \* system networks
    MaxIP,        \* bound: a node has had this many addresses on a network
    Scenarios     \* the members, the networks and what may happen: see Init

ASSUME FullMeshAreIds == FullMesh \subseteq Ids

VARIABLES
    pool,         \* systemNetworkNames of the ReplicatedStoragePool
    dm,           \* the datamesh: revision, networks, members and their addresses
    trans,        \* the active transition of the Network group
    rvr,          \* rvr[i]: what the replica's status reports
    kern,         \* kern[i]: the DRBD resource of the replica on its node
    node,         \* node[i]: its addresses, the networks that work, whether the agent runs
    budget        \* what may still happen, and how often

vars == <<pool, dm, trans, rvr, kern, node, budget>>

Event(kind) ==
    /\ kind \in budget.kinds /\ budget.left > 0
    /\ budget' = [budget EXCEPT !.left = @ - 1]

----------------------------------------------------------------------------
(* Addresses: one per network, 0 where there is none.                      *)

Any == "any network"

NoTransition == [plan |-> "none", from |-> {}, to |-> {}, step |-> 0, rev |-> 0]

NetsOf(addr) == {n \in Nets : addr[n] # 0}

Filtered(addr, nets) == [n \in Nets |-> IF n \in nets THEN addr[n] ELSE 0]

\* The peers member i of datamesh d has connections to.
expectedPeerIDs(d, i) == (IF i \in FullMesh THEN d.mem ELSE d.mem \cap FullMesh) \ {i}

Pairs(d) == {<<i, j>> \in d.mem \X d.mem : j \in expectedPeerIDs(d, i)}

addedNetworks(t) == t.to \ t.from

removedNetworks(t) == t.from \ t.to

----------------------------------------------------------------------------
(* The kernel: a path carries traffic when the peer has its mirror image,  *)
(* both addresses are still the nodes' own and the network works.          *)

Established(i, j, p) ==
    /\ [n |-> p.n, l |-> p.r, r |-> p.l] \in kern[j].paths[i]
    /\ node[i].ip[p.n] = p.l /\ node[j].ip[p.n] = p.r
    /\ p.n \in node[i].up \cap node[j].up

Linked(i, j) == \E p \in kern[i].paths[j] : Established(i, j, p)

\* The agent listens on the networks of the spec its node has an address on.
computeIntendedIPs(i) == Filtered(node[i].ip, dm.nets)

\* The paths the datamesh asks for between i, listening on own, and its peer j.
IntendedPaths(own, j) ==
    {[n |-> n, l |-> own[n], r |-> dm.addr[j][n]] : n \in NetsOf(own) \cap NetsOf(dm.addr[j])}

\* A bug: paths no longer asked for go at once.
computePathActionsAtOnce(i, j, intended) == intended

\* Paths are added, and those no longer asked for removed, but not an established one
\* while no established path stays.
computePathActions(i, j, intended) ==
    LET actual == kern[i].paths[j]
        retained == \E p \in actual \cap intended : Established(i, j, p)
    IN  intended \cup {p \in actual \ intended : Established(i, j, p) /\ ~retained}

\* One configuration of the replica's DRBD resource from the datamesh, by rvr_controller
\* and the agent (module Replica has the exchange between the two).
Configured(i) ==
    LET own == computeIntendedIPs(i)
        peers == IF i \in dm.mem THEN expectedPeerIDs(dm, i) ELSE {}
    IN  [rev |-> IF i \in dm.mem THEN dm.rev ELSE 0,
         own |-> own,
         paths |-> [j \in Ids |-> IF j \in peers
                                  THEN computePathActions(i, j, IntendedPaths(own, j)) ELSE {}]]

Configure(i) ==
    /\ node[i].agent
    /\ Configured(i) # kern[i]
    /\ kern' = [kern EXCEPT ![i] = Configured(i)]
    /\ UNCHANGED <<pool, dm, trans, rvr, node, budget>>

\* reportPeers: a path is reported under the network of the listening address it starts at.
EstablishedOn(i, j) ==
    {p.n : p \in {p \in kern[i].paths[j] : Established(i, j, p) /\ kern[i].own[p.n] = p.l}}

\* The status of the replica; without its agent it keeps what was last reported.
Reported(i) ==
    IF ~node[i].agent THEN [rvr[i] EXCEPT !.ready = FALSE]
    ELSE [rev |-> kern[i].rev, addr |-> kern[i].own, ready |-> TRUE,
          conn |-> {j \in Ids : Linked(i, j)}, est |-> [j \in Ids |-> EstablishedOn(i, j)]]

Report(i) ==
    /\ Reported(i) # rvr[i]
    /\ rvr' = [rvr EXCEPT ![i] = Reported(i)]
    /\ UNCHANGED <<pool, dm, trans, kern, node, budget>>

----------------------------------------------------------------------------
(* What rv_controller verifies: a connection counts when one of its ends,  *)
(* with a ready agent and at the revision asked for, reports it.           *)

peerConnected(i, j) == j \in rvr[i].conn

peerConnectedOnNetwork(i, j, net) == net \in rvr[i].est[j]

\* The check the caller passes down: on any network, or on a given one.
peerCheck(i, j, net) == IF net = Any THEN peerConnected(i, j) ELSE peerConnectedOnNetwork(i, j, net)

peerConnectionVerified(i, j, minRevision, net) ==
    \/ rvr[i].ready /\ rvr[i].rev >= minRevision /\ peerCheck(i, j, net)
    \/ rvr[j].ready /\ rvr[j].rev >= minRevision /\ peerCheck(j, i, net)

allConnectionsOfMemberVerified(d, i, minRevision, net) ==
    \A j \in expectedPeerIDs(d, i) : peerConnectionVerified(i, j, minRevision, net)

allMembersHaveFullConnectivity(d, minRevision, net) ==
    \A i \in d.mem : allConnectionsOfMemberVerified(d, i, minRevision, net)

confirmed(i, rev) == rvr[i].rev >= rev

confirmAllConnected(d, i, t) == allConnectionsOfMemberVerified(d, i, t.rev, Any)

confirmAddedAddressesAvailable(i, t) == addedNetworks(t) \subseteq NetsOf(rvr[i].addr)

confirmAllConnectedOnAddedNetworks(d, i, t) ==
    \A net \in addedNetworks(t) : allConnectionsOfMemberVerified(d, i, t.rev, net)

----------------------------------------------------------------------------
(* The plans: their steps, what a step applies and what confirms it.       *)

registerNetworkPlans(plan) ==
    CASE plan = "repair"  -> <<"Repair">>
      [] plan = "add"     -> <<"Listen", "Connect">>
      [] plan = "remove"  -> <<"Disconnect">>
      [] plan = "update"  -> <<"ListenAndDisconnect", "Connect">>
      [] plan = "migrate" -> <<"Listen", "Connect", "Disconnect">>

Step(t) == registerNetworkPlans(t.plan)[t.step]

repairAddresses(d) ==
    [d EXCEPT !.addr = [i \in Ids |-> IF i \in d.mem THEN Filtered(rvr[i].addr, d.nets) ELSE @[i]]]

addNewNetworks(d, t) == [d EXCEPT !.nets = @ \cup addedNetworks(t)]

removeOldNetworksAndAddresses(d, t) ==
    [d EXCEPT !.nets = @ \ removedNetworks(t),
              !.addr = [i \in Ids |-> Filtered(@[i], Nets \ removedNetworks(t))]]

\* An address the replica does not report leaves the member's as it is.
addNewAddresses(d, t) ==
    [d EXCEPT !.addr = [i \in Ids |->
        [n \in Nets |-> IF i \in d.mem /\ n \in addedNetworks(t) /\ rvr[i].addr[n] # 0
                        THEN rvr[i].addr[n] ELSE @[i][n]]]]

Applied(d, t) ==
    CASE Step(t) = "Repair"     -> repairAddresses(d)
      [] Step(t) = "Listen"     -> addNewNetworks(d, t)
      [] Step(t) = "Connect"    -> addNewAddresses(d, t)
      [] Step(t) = "Disconnect" -> removeOldNetworksAndAddresses(d, t)
      [] Step(t) = "ListenAndDisconnect" -> addNewNetworks(removeOldNetworksAndAddresses(d, t), t)

Confirmed(d, t) ==
    \A i \in d.mem :
        /\ confirmed(i, t.rev)
        /\ CASE Step(t) = "Repair"     -> confirmAllConnected(d, i, t)
             [] Step(t) = "Connect"    -> confirmAllConnectedOnAddedNetworks(d, i, t)
             [] Step(t) = "Disconnect" -> TRUE
             [] OTHER                  -> confirmAddedAddressesAvailable(i, t)

\* applyStep: the revision moves only if the step changed something.
applyStep(d, t) ==
    LET a == Applied(d, t)
        rev == IF a = d THEN d.rev ELSE d.rev + 1
    IN  [d |-> [a EXCEPT !.rev = rev], t |-> [t EXCEPT !.rev = rev]]

----------------------------------------------------------------------------
(* The dispatcher and its guards.                                          *)


\* Some member's addresses are not those its replica reports for the networks in use.
needsAddressRepair(d) ==
    \E i \in d.mem : d.addr[i] # Filtered(rvr[i].addr, d.nets)

guardReplicasMatchTargetNetworks(d) ==
    \A i \in d.mem : NetsOf(rvr[i].addr) \in {{}, d.nets}

guardRemainingNetworksConnected(d) ==
    \E net \in d.nets \cap pool : allMembersHaveFullConnectivity(d, 0, net)

PlanFor(d) ==
    CASE needsAddressRepair(d)                      -> "repair"
      [] pool = d.nets                              -> "none"
      [] pool \cap d.nets = {}                      -> "migrate"
      [] d.nets \subseteq pool                      -> "add"
      [] pool \subseteq d.nets                      -> "remove"
      [] OTHER                                      -> "update"

Guarded(d, plan) ==
    /\ plan = "repair" => guardReplicasMatchTargetNetworks(d)
    /\ plan \in {"remove", "update"} => guardRemainingNetworksConnected(d)

networkDispatcher(d) ==
    LET plan == PlanFor(d)
        t == [plan |-> plan, step |-> 1, rev |-> 0,
              from |-> IF plan = "repair" THEN {} ELSE d.nets,
              to |-> IF plan = "repair" THEN {} ELSE pool]
    IN  IF plan = "none" \/ ~Guarded(d, plan) THEN [d |-> d, t |-> NoTransition] ELSE applyStep(d, t)

\* The engine's pass, one round of it: a confirmed step gives way to the next one; the
\* Network group holds one transition, so a new one starts only when there is none.
Process(d, t) ==
    CASE t.plan = "none"      -> networkDispatcher(d)
      [] ~Confirmed(d, t)     -> [d |-> d, t |-> t]
      [] t.step = Len(registerNetworkPlans(t.plan)) -> [d |-> d, t |-> NoTransition]
      [] OTHER                -> applyStep(d, [t EXCEPT !.step = @ + 1])

Reconcile ==
    LET p == Process(dm, trans)
    IN  /\ <<p.d, p.t>> # <<dm, trans>>
        /\ dm' = p.d /\ trans' = p.t
        /\ UNCHANGED <<pool, rvr, kern, node, budget>>

\* AddReplica for a star member, of the NonVotingMembership group, which an active network
\* change does not hold back: it is added with the addresses its replica reports.
\* Kind "join": they are those of the datamesh's networks; "early": they may not be.
Join(i) ==
    /\ i \notin dm.mem \cup FullMesh /\ NetsOf(rvr[i].addr) # {}
    /\ Event(IF NetsOf(rvr[i].addr) = dm.nets THEN "join" ELSE "early")
    /\ dm' = [dm EXCEPT !.mem = @ \cup {i}, !.addr[i] = rvr[i].addr, !.rev = @ + 1]
    /\ UNCHANGED <<pool, trans, rvr, kern, node>>

----------------------------------------------------------------------------
(* What happens around it.                                                 *)

ChangePool(nets) ==
    /\ nets # pool /\ Event("pool")
    /\ pool' = nets
    /\ UNCHANGED <<dm, trans, rvr, kern, node>>

\* Every member is recorded at the address its node has, and nothing is under way.
Recorded == /\ trans = NoTransition /\ dm.nets = pool
            /\ \A i \in dm.mem : dm.addr[i] = Filtered(node[i].ip, pool)

\* A node gets another address on a network.  Kind "ip": while nothing else is being
\* changed; "moving": at any time.
ChangeIP(i, n) ==
    /\ node[i].ip[n] < MaxIP
    /\ \/ Recorded /\ Event("ip")
       \/ Event("moving")
    /\ node' = [node EXCEPT ![i].ip[n] = @ + 1]
    /\ UNCHANGED <<pool, dm, trans, rvr, kern>>

LinkFails(i, n) ==
    /\ n \in node[i].up /\ Event("link")
    /\ node' = [node EXCEPT ![i].up = @ \ {n}]
    /\ UNCHANGED <<pool, dm, trans, rvr, kern>>

LinkReturns(i) ==
    /\ node[i].up # Nets
    /\ node' = [node EXCEPT ![i].up = Nets]
    /\ UNCHANGED <<pool, dm, trans, rvr, kern, budget>>

AgentStops(i) ==
    /\ node[i].agent /\ Event("agent")
    /\ node' = [node EXCEPT ![i].agent = FALSE]
    /\ UNCHANGED <<pool, dm, trans, rvr, kern>>

AgentStarts(i) ==
    /\ ~node[i].agent
    /\ node' = [node EXCEPT ![i].agent = TRUE]
    /\ UNCHANGED <<pool, dm, trans, rvr, kern, budget>>

----------------------------------------------------------------------------
(* Init: a volume whose members are connected on every network it uses,    *)
(* and the replicas that are not members yet.                              *)

InitAddr(nets) == Filtered([n \in Nets |-> 1], nets)

InitPaths(s, i, j) ==
    IF i \in s.mem /\ j \in expectedPeerIDs(s, i)
    THEN {[n |-> n, l |-> 1, r |-> 1] : n \in s.nets} ELSE {}

Init == \E s \in Scenarios :
    /\ pool = s.nets
    /\ dm = [rev |-> 1, nets |-> s.nets, mem |-> s.mem,
             addr |-> [i \in Ids |-> InitAddr(IF i \in s.mem THEN s.nets ELSE {})]]
    /\ trans = NoTransition
    /\ node = [i \in Ids |-> [ip |-> InitAddr(Nets), up |-> Nets, agent |-> TRUE]]
    /\ kern = [i \in Ids |-> [rev |-> IF i \in s.mem THEN 1 ELSE 0, own |-> InitAddr(s.nets),
                              paths |-> [j \in Ids |-> InitPaths(s, i, j)]]]
    /\ rvr = [i \in Ids |-> [rev |-> IF i \in s.mem THEN 1 ELSE 0, addr |-> InitAddr(s.nets),
                             ready |-> TRUE,
                             conn |-> {j \in Ids : InitPaths(s, i, j) # {}},
                             est |-> [j \in Ids |-> {p.n : p \in InitPaths(s, i, j)}]]]
    /\ budget = [kinds |-> s.kinds, left |-> s.left]

Next ==
    \/ Reconcile
    \/ \E i \in Ids : \/ Configure(i) \/ Report(i) \/ Join(i)
                      \/ LinkReturns(i) \/ AgentStops(i) \/ AgentStarts(i)
                      \/ \E n \in Nets : ChangeIP(i, n) \/ LinkFails(i, n)
    \/ \E nets \in SUBSET Nets \ {{}} : ChangePool(nets)

\* Agents and controllers come to every change in time (watches, the scanner's events and
\* the periodic resync); links and agents that failed come back.
Fairness ==
    /\ WF_vars(Reconcile)
    /\ \A i \in Ids : /\ WF_vars(Configure(i)) /\ WF_vars(Report(i))
                      /\ WF_vars(LinkReturns(i)) /\ WF_vars(AgentStarts(i))

SafeSpec == Init /\ [][Next]_vars

Spec == SafeSpec /\ Fairness

----------------------------------------------------------------------------
(* Properties.                                                             *)

\* No step of a controller or an agent cuts off two members that can talk to each other:
\* whatever the statuses the network plans acted on were worth by the time a node carries
\* the change out, two connected members stay connected until a network or an address
\* fails under them (computePathActions keeps the last established path).
NeverCutOff ==
    [][node' = node => \A pair \in Pairs(dm) : Linked(pair[1], pair[2]) => Linked(pair[1], pair[2])']_vars

=============================================================================
