-------------------------- MODULE MCReplicaHealth --------------------------
(***************************************************************************)
(* A replica that joins, one that has settled, and one published by a      *)
(* controller that had no quorum latch; each with a few disturbances.      *)
(***************************************************************************)
EXTENDS ReplicaHealth

New(type, kinds, left) ==
    [new |-> TRUE, old |-> FALSE, peers |-> {1, 2}, type |-> type, att |-> FALSE, kinds |-> kinds, left |-> left]
Settled(type, att, kinds, left) ==
    [new |-> FALSE, old |-> FALSE, peers |-> {1, 2}, type |-> type, att |-> att, kinds |-> kinds, left |-> left]
Old(type, kinds, left) ==
    [new |-> FALSE, old |-> TRUE, peers |-> {1, 2}, type |-> type, att |-> TRUE, kinds |-> kinds, left |-> left]
Sole(kinds, left) ==
    [new |-> FALSE, old |-> FALSE, peers |-> {}, type |-> "D", att |-> TRUE, kinds |-> kinds, left |-> left]

MCScenarios == {
    Sole({"disk", "attachment", "agent"}, 2),
    New("D", {"link", "blind", "refused", "agent", "pool"}, 1),
    New("TB", {"link", "crash", "pool"}, 2),
    Old("D", {"link", "agent"}, 2),
    Settled("D", TRUE, {"link", "disk", "maintenance"}, 2),
    Settled("D", FALSE, {"retype", "disk", "attach", "agent"}, 3),
    Settled("D", FALSE, {"link", "force", "delete"}, 3),
    Settled("D", FALSE, {"delete", "agent", "crash"}, 3),
    Settled("D", TRUE, {"pool", "retype", "attachment"}, 2),
    Settled("TB", FALSE, {"attachment", "retype", "refused", "blind"}, 2) }
=============================================================================
