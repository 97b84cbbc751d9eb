----------------------------- MODULE DrbdQuorum -----------------------------
(***************************************************************************)
(* What a replica configures in DRBD for its place in the datamesh         *)
(* (rvr_controller, computeTargetDRBDRSpec and computeTargetDRBDRPeers),   *)
(* and the quorum DRBD derives from it.  The quorum rule itself belongs to *)
(* the kernel module, outside this repository; it is stated here the way   *)
(* the controller relies on it.                                            *)
(*                                                                         *)
(* A configuration is [own, peers, q, qmr, pri, two]: the node's own       *)
(* effective member type, how it sees every peer, the quorum options, the  *)
(* role and AllowTwoPrimaries.                                             *)
(***************************************************************************)
EXTENDS DatameshEngine

DrbdConfiguration ==
    [own : MemberType \cup {None},
     peers : [Replicas -> {"voter", "shadow", "TB", "A", None}],
     q : 0 .. 255, qmr : 0 .. 255, pri : BOOLEAN, two : BOOLEAN]

\* How a peer entry distinguishes members: diskful peers that vote, diskful
\* peers without AllowRemoteRead, diskless tie-breakers and diskless clients.
PeerKind(t) ==
    IF IsVoter(t) THEN "voter"
    ELSE IF t \in {"sD", "sD0"} THEN "shadow" ELSE t

NoPeers == [p \in Replicas |-> None]

Unconfigured ==
    [own |-> None, peers |-> NoPeers, q |-> 32, qmr |-> 32, pri |-> FALSE, two |-> FALSE]

computeTargetDRBDRPeers(s, r) ==
    [p \in Replicas |->
        IF /\ p # r /\ p \in Members(s)
           /\ ConnectsToAllPeers(s.type[r]) \/ ConnectsToAllPeers(s.type[p])
        THEN PeerKind(s.type[p]) ELSE None]

computeIntendedType(s, r) ==
    IF r \in Members(s) THEN s.type[r]
    ELSE IF rvr[r].ex = "deleting" THEN "A" ELSE rvr[r].type

\* A disk-bearing member without a volume group waits for storage assignment
\* for ever (computeIntendedBackingVolume).
LacksVolumeGroup(s, r) == r \in Members(s) /\ s.bv[r] = None

\* The type the replica ends up with: without a backing volume a disk-bearing
\* type runs as its liminal form (computeTargetType).
computeTargetType(s, r) ==
    LET t == computeIntendedType(s, r)
    IN  IF HasBackingVolume(t) /\ LacksVolumeGroup(s, r) THEN ToLiminal(t) ELSE t

\* On the way there its backing volume may not be ready yet.
TargetTypes(s, r) ==
    LET t == computeTargetType(s, r)
    IN  IF HasBackingVolume(t) THEN {t, ToLiminal(t)} ELSE {t}

computeTargetDRBDRSpec(s, r, t) ==
    IF r \in Members(s)
    THEN [own   |-> t,
          peers |-> computeTargetDRBDRPeers(s, r),
          q     |-> IF IsVoter(t) THEN s.q ELSE 32,
          qmr   |-> s.qmr,
          pri   |-> r \in s.attached,
          two   |-> s.multi]
    ELSE [Unconfigured EXCEPT !.own = t]

\* The replica runs exactly what s intends for it.
Configured(s, r) == conf[r] = computeTargetDRBDRSpec(s, r, computeIntendedType(s, r))

----------------------------------------------------------------------------
(* The kernel's quorum rule (external) *)

\* A connection needs both ends to have each other as peer.
Connected(a, b) == a # b /\ conf[a].peers[b] # None /\ conf[b].peers[a] # None

ConnectedVoters(a, G) == {b \in G : Connected(a, b) /\ conf[a].peers[b] = "voter"}

PresentVoters(a, G) == {a} \cup ConnectedVoters(a, G)

ConfiguredVoters(a) == {a} \cup {b \in Replicas : conf[a].peers[b] = "voter"}

UpToDateVoters(a, G) == PresentVoters(a, G) \cap utd

TieBreakersOf(a) == {b \in Replicas : conf[a].peers[b] = "TB"}

PresentTieBreakers(a, G) == {b \in TieBreakersOf(a) \cap G : Connected(a, b)}

MainQuorum(a, G) ==
    /\ Cardinality(PresentVoters(a, G)) >= conf[a].q
    /\ Cardinality(UpToDateVoters(a, G)) >= conf[a].qmr

\* The tie-breaker path also needs the node to have had quorum before; taking
\* that for granted only makes quorum easier to get.
TieBreakerQuorum(a, G) ==
    /\ Cardinality(ConfiguredVoters(a)) % 2 = 0
    /\ Cardinality(PresentVoters(a, G)) = conf[a].q - 1
    /\ Cardinality(UpToDateVoters(a, G)) >= conf[a].qmr
    /\ TieBreakersOf(a) # {}
    /\ Cardinality(PresentTieBreakers(a, G)) >= Majority(Cardinality(TieBreakersOf(a)))

\* Whether the diskful voter a has quorum when exactly the nodes G of its
\* partition can talk to each other.
HasQuorum(a, G) ==
    /\ conf[a].own = "D" /\ conf[a].q # 32
    /\ MainQuorum(a, G) \/ TieBreakerQuorum(a, G)

\* Any node: a diskless one has quorum through enough quorate UpToDate peers.
ReplicaQuorum(a, G) ==
    \/ HasQuorum(a, G)
    \/ /\ conf[a].own \notin {"D", None}
       /\ Cardinality({b \in G \cap utd : Connected(a, b) /\ HasQuorum(b, G)})
              >= conf[a].qmr
============================================================================
