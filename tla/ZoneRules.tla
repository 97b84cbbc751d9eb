----------------------------- MODULE ZoneRules -----------------------------
(***************************************************************************)
(* Where voters and tie-breakers may be: the zone guards of the datamesh   *)
(* membership plans (datamesh/membership_helpers_guards.go) and the copy   *)
(* of them that layout convergence asks before it retypes a replica        *)
(* (rv_controller/reconciler.go).  A mesh m maps the ids of its members to *)
(* [typ, node]; c is the configuration [ftt, gmdr, topo]; utd is the set   *)
(* of members whose disk is up to date.                                    *)
(***************************************************************************)
EXTENDS MemberTypes, FiniteSetsExt

CONSTANT ZoneOf     \* node -> zone

Zone(m, i) == ZoneOf[m[i].node]

voters(m) == {i \in DOMAIN m : IsVoter(m[i].typ)}

tieBreakers(m) == {i \in DOMAIN m : m[i].typ = "TB"}

In(m, S, z) == {i \in S : Zone(m, i) = z}

computeTargetQ(n) == n \div 2 + 1

\* d voters and tb tie-breakers are left of a mesh whose quorum is q.
KeepsQuorum(d, q, tb) == d >= q \/ (d = q - 1 /\ tb > 0)

----------------------------------------------------------------------------
(* Guards on gaining a voter or a tie-breaker, in zone z.                  *)

guardZonalSameZone(c, m, z) ==
    c.topo = "Zonal" /\ voters(m) # {} =>
        LET count(y) == Cardinality(In(m, voters(m), y))
        IN  \A i \in voters(m) : count(Zone(m, i)) <= count(z)

guardTransZonalVoterPlacement(c, m, z) ==
    c.topo = "TransZonal" =>
        LET after == Cardinality(voters(m)) + 1
        IN  \A y \in {z} \cup {Zone(m, i) : i \in voters(m)} :
                LET d == after - Cardinality(In(m, voters(m), y)) - (IF y = z THEN 1 ELSE 0)
                    tb == Cardinality(tieBreakers(m) \ In(m, tieBreakers(m), y))
                IN  KeepsQuorum(d, computeTargetQ(after), tb) /\ d >= QuorumMinimumRedundancy(c)

guardTransZonalTBPlacement(c, m, z) ==
    c.topo = "TransZonal" => Cardinality(In(m, voters(m), z)) <= 1

gainVoterGuards(c, m, z) == guardZonalSameZone(c, m, z) /\ guardTransZonalVoterPlacement(c, m, z)

gainTBGuards(c, m, z) == guardZonalSameZone(c, m, z) /\ guardTransZonalTBPlacement(c, m, z)

----------------------------------------------------------------------------
(* Guards on losing voter i or tie-breaker i.                              *)

guardGMDRPreserved(c, utd, i) == Cardinality(utd \ {i}) > c.gmdr

guardFTTPreserved(c, m) == Cardinality(voters(m)) > IntendedDiskfulCount(c)

guardZoneGMDRPreserved(c, m, utd, i) ==
    c.topo = "TransZonal" =>
        \A z \in {Zone(m, j) : j \in utd} :
            Cardinality((utd \ {i}) \ In(m, utd, z)) > c.gmdr

\* Shared by the two zone FTT guards: what the loss of a zone leaves once i
\* is no longer a voter, and is a tie-breaker if becomesTB.
evaluateZoneFTT(c, m, i, becomesTB) ==
    c.topo = "TransZonal" =>
        LET rest == voters(m) \ {i}
        IN  \A z \in {Zone(m, j) : j \in voters(m)} :
                LET tb == tieBreakers(m) \cup (IF becomesTB THEN {i} ELSE {})
                IN  KeepsQuorum(Cardinality(rest \ In(m, rest, z)),
                                computeTargetQ(Cardinality(rest)),
                                Cardinality(tb \ In(m, tb, z)))

loseVoterGuards(c, m, utd, i, becomesTB) ==
    /\ guardGMDRPreserved(c, utd, i)
    /\ guardFTTPreserved(c, m)
    /\ guardZoneGMDRPreserved(c, m, utd, i)
    /\ evaluateZoneFTT(c, m, i, becomesTB)

\* Tie-breakers the present voters need.
required(c, m) == TieBreakersForDiskful(Cardinality(voters(m)), c.ftt)

\* Defective variant: a tie-breaker that is a member counts, working or not.
guardTBSufficientMembers(c, m, operational, i) ==
    Cardinality(tieBreakers(m) \ {i}) >= required(c, m)

guardTBSufficient(c, m, operational, i) ==
    Cardinality((tieBreakers(m) \cap operational) \ {i}) >= required(c, m)

guardZoneTBSufficient(c, m) ==
    c.topo = "TransZonal" /\ required(c, m) > 0 => Cardinality(tieBreakers(m)) > 1

loseTBGuards(c, m, operational, i) ==
    guardTBSufficient(c, m, operational, i) /\ guardZoneTBSufficient(c, m)

----------------------------------------------------------------------------
(* Layout convergence's own copy.                                          *)

isRetypeToTieBreakerZoneQuorumSafe(m, i) ==
    LET rest == voters(m) \ {i}
        outside(S, z) == Cardinality(S \ In(m, S, z))
    IN  \A z \in {Zone(m, j) : j \in voters(m)} :
            KeepsQuorum(outside(rest, z), computeTargetQ(Cardinality(rest)),
                        outside(tieBreakers(m), z) + (IF z = Zone(m, i) THEN 0 ELSE 1))

\* Diskful members that may become the missing tie-breaker: the replica r[i]
\* still asks to be diskful, no attachment keeps it, and its zone allows it.
RetypeCandidates(c, m, r, attached) ==
    {i \in voters(m) :
        /\ i \in DOMAIN r /\ r[i].typ = "D"
        /\ m[i].node \notin attached
        /\ c.topo = "TransZonal" =>
              /\ Cardinality(In(m, voters(m), Zone(m, i))) <= 1
              /\ isRetypeToTieBreakerZoneQuorumSafe(m, i)
        /\ guardZonalSameZone(c, m, Zone(m, i))}

\* The last of them by name; {} when there is none.
selectRetypeCandidate(c, m, r, attached) ==
    LET S == RetypeCandidates(c, m, r, attached)
    IN  IF S = {} THEN {} ELSE {Max(S)}
============================================================================
