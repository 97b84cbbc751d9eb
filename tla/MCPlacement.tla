---------------------------- MODULE MCPlacement ----------------------------
(***************************************************************************)
(* Three zones of two nodes each, and the layouts 2D+1TB (r2), 3D (r3) and *)
(* 5D in them.                                                             *)
(***************************************************************************)
EXTENDS Placement

MCIds == 0..4

\* Nodes 1 and 4 are in zone 1, 2 and 5 in zone 2, 3 and 6 in zone 3.
MCZoneOf == [n \in 1..6 |-> ((n - 1) % 3) + 1]

Cfg(ftt, gmdr, topo, nodes) == [ftt |-> ftt, gmdr |-> gmdr, topo |-> topo, nodes |-> nodes]

On(types, nodes) == [i \in 0..(Len(types) - 1) |-> [typ |-> types[i + 1], node |-> nodes[i + 1]]]

Nowhere(types) == On(types, [i \in 1..Len(types) |-> NoNode])

r2 == <<"D", "D", "TB">>
r3 == <<"D", "D", "D">>

Scenario(cfg_, formed_, reps, kinds, left, settles) ==
    [cfg |-> cfg_, formed |-> formed_, reps |-> reps, kinds |-> kinds, left |-> left, settles |-> settles]

MCScenarios ==
    { \* r2, nodes to spare, the tie-breaker deleted once or twice
      Scenario(Cfg(1, 0, "Ignored", 1..5), TRUE, On(r2, <<1, 2, 3>>), {"deleteTB", "lost", "crash"}, 2, TRUE),
      \* r3 in three zones becomes r2, with an attachment
      Scenario(Cfg(1, 1, "TransZonal", 1..3), TRUE, On(r3, <<1, 2, 3>>), {"config", "attach", "lost"}, 3, TRUE),
      \* a new r2 volume over three zones
      Scenario(Cfg(1, 0, "TransZonal", 1..6), FALSE, Nowhere(r2), {"extender", "node", "crash"}, 2, FALSE),
      \* a new 5D volume over three zones
      Scenario(Cfg(2, 2, "TransZonal", 1..6), FALSE, Nowhere(<<"D", "D", "D", "D", "D">>), {}, 0, TRUE),
      \* a new r2 volume in one of two zones, one of which is too small
      Scenario(Cfg(1, 0, "Zonal", {1, 2, 4, 5} \cup {3}), FALSE, Nowhere(r2), {"attach", "deleteD"}, 1, FALSE),
      \* replicas come and go in r3 over three zones
      Scenario(Cfg(1, 1, "TransZonal", 1..6), TRUE, On(r3, <<1, 2, 3>>), {"createD", "deleteD", "createA"}, 3, FALSE),
      \* the same with one node to spare, so that a replica waits for another to go
      Scenario(Cfg(1, 1, "Ignored", 1..4), TRUE, On(r3, <<1, 2, 3>>), {"createD", "deleteD"}, 3, FALSE),
      \* one node in each zone: the tie-breaker cannot be replaced
      Scenario(Cfg(1, 0, "TransZonal", 1..3), TRUE, On(r2, <<1, 2, 3>>), {"deleteTB", "promote"}, 2, FALSE) }

\* The tie-breaker of r2 over three zones is deleted, with a spare node in
\* every zone.
ReplacedTieBreaker ==
    { Scenario(Cfg(1, 0, "TransZonal", 1..6), TRUE, On(r2, <<1, 2, 3>>), {"deleteTB"}, 1, FALSE) }
============================================================================
