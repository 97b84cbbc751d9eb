--------------------------- MODULE EligibleNodes ---------------------------
(***************************************************************************)
(* What the eligible nodes of a pool must offer for a class's layout, and  *)
(* which zone counts a TransZonal layout accepts.                          *)
(***************************************************************************)
EXTENDS MemberTypes, FiniteSets

\* A node of a pool: its zone and whether it has a volume group of the pool.
Zones(nodes) == {n.zone : n \in nodes}

WithDisks(nodes) == {n \in nodes : n.disks}

InZone(nodes, z) == {n \in nodes : n.zone = z}

\* Zones a TransZonal layout needs, and how many of them with disks.
computeTransZonalMinZones(c) ==
    CASE c.ftt = 0 /\ c.gmdr = 1 -> [zones |-> 2, disks |-> 2]
      [] c.ftt = 1 /\ c.gmdr = 0 -> [zones |-> 3, disks |-> 2]
      [] c.ftt = 1 /\ c.gmdr = 1 -> [zones |-> 3, disks |-> 3]
      [] c.ftt = 1 /\ c.gmdr = 2 -> [zones |-> 3, disks |-> 3]
      [] c.ftt = 2 /\ c.gmdr = 1 -> [zones |-> 4, disks |-> 4]
      [] c.ftt = 2 /\ c.gmdr = 2 -> [zones |-> 3, disks |-> 3]

Diskful(c) == IntendedDiskfulCount(c)

Replicas(c) == Diskful(c) + TieBreakersForDiskful(Diskful(c), c.ftt)

Enough(nodes, c) ==
    Cardinality(nodes) >= Replicas(c) /\ Cardinality(WithDisks(nodes)) >= Diskful(c)

validateEligibleNodes(nodes, topology, c) ==
    /\ nodes # {}
    /\ CASE topology = "TransZonal" ->
              LET need == computeTransZonalMinZones(c) IN
              /\ Cardinality(Zones(nodes)) >= need.zones
              /\ Cardinality(Zones(WithDisks(nodes))) >= need.disks
         [] topology = "Zonal" -> \A z \in Zones(nodes) : Enough(InZone(nodes, z), c)
         [] OTHER -> Enough(nodes, c)
============================================================================
