--------------------------- MODULE EffectiveLayout ---------------------------
(***************************************************************************)
(* The protection a volume really has (rv.status.effectiveLayout), derived *)
(* by the rv-controller from what the agents of the members report: how    *)
(* many more failures the volume survives, and how many copies are         *)
(* guaranteed.  ready is the set of replicas whose agent is ready, so that *)
(* their own report is fresh; the others are judged by what ready ones see *)
(* of them.                                                                *)
(***************************************************************************)
EXTENDS DatameshDispatch

\* The conversion of a byte to int8.
Int8(n) == IF n < 128 THEN n ELSE n - 256

layoutVoters == {r \in Voters(rv) : Exists(r)}

layoutTieBreakers == {r \in Members(rv) : rv.type[r] = "TB" /\ Exists(r)}

\* Members whose report is fresh.
freshMembers(ready) == (layoutVoters \cup layoutTieBreakers) \cap ready

peerConnected(ready) ==
    {p \in Replicas \ lost : \E r \in freshMembers(ready) : Connected(r, p)}

\* Defective variant: a voter nobody hears from counts as reachable.
reachableVotersUnchecked(ready) ==
    {r \in layoutVoters \cap ready : ReplicaQuorum(r, Replicas \ lost)}
      \cup (layoutVoters \ ready)

reachableVoters(ready) ==
    {r \in layoutVoters \cap ready : ReplicaQuorum(r, Replicas \ lost)}
      \cup ((layoutVoters \ ready) \cap peerConnected(ready))

upToDateVoters(ready) == layoutVoters \cap utd \cap (ready \cup peerConnected(ready))

reachableTieBreakers(ready) == layoutTieBreakers \cap (ready \cup peerConnected(ready))

canCompute(ready) == layoutVoters # {} /\ freshMembers(ready) # {}

\* updateEffectiveLayout: the failures the volume still tolerates.
FailuresToTolerate(ready) ==
    LET reachable == Cardinality(reachableVoters(ready))
        tbBonus == IF reachable % 2 = 0 /\ reachableTieBreakers(ready) # {} THEN 1 ELSE 0
    IN  Minimum(reachable - Int8(rv.q) + tbBonus,
                Cardinality(upToDateVoters(ready)) - Int8(rv.qmr))
============================================================================
