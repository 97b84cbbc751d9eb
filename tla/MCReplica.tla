----------------------------- MODULE MCReplica -----------------------------
(* One replica under TLC: where it starts, and which events may happen.     *)
EXTENDS Replica

New(type, kinds, n) == [start |-> "new", type |-> type, kinds |-> kinds, left |-> n]
Mem(kinds, n) == [start |-> "member", type |-> "D", kinds |-> kinds, left |-> n]

\* Joining, leaving and changing, each with the faults that cut into it.
MCScenarios ==
    {New("D", {"crash"}, 1), New("D", {"lvg"}, 1), New("A", {"retype"}, 1),
     New("A", {"delete", "crash"}, 2), New("D", {"delete"}, 1),
     Mem({"delete", "create"}, 2), Mem({"delete", "abort"}, 2), Mem({"delete", "action"}, 2),
     Mem({"reboot", "delete"}, 2), Mem({"disk", "delete"}, 2), Mem({"retype"}, 2),
     Mem({"size", "crash"}, 2), Mem({"size", "invalid"}, 2), Mem({"size", "lag"}, 1),
     Mem({"size", "query"}, 2), Mem({"cfg", "action"}, 2), Mem({"maint"}, 1)}

\* The controller's informers fall behind its own writes.
StaleScenarios == {Mem({"stale", "cfg", "retype"}, 2)}

\* A drbdsetup query fails while the replica is taken down.
QueryScenarios == {Mem({"delete", "query"}, 2)}

\* The agent's informer of the backing volumes lags.
LagScenarios == {Mem({"lag", "retype"}, 2)}

\* The volume group changes after a volume was attached.
MovedScenarios == {New("D", {"lvg"}, 1)}
=============================================================================
