-------------------------- MODULE MCStorageClasses --------------------------
(***************************************************************************)
(* StorageClasses for TLC: two classes, two pools, one node, one volume.   *)
(* A scenario says what exists at the start and which events may follow,   *)
(* and how many of them.                                                   *)
(***************************************************************************)
EXTENDS StorageClasses

CONSTANTS c1, c2, p1, p2

Lay == [ftt |-> 0, gmdr |-> 0]
MCLayouts == {Lay}
MCNewSpecs == {[pool |-> p1, lay |-> Lay, pol |-> "Delete"]}

Only(obj) == [c \in Classes |-> IF c = c1 THEN obj ELSE NoClass]
Settled == SettledClass(p1, Lay, "Delete")
Fresh == NewClass(0, p1, Lay, "Delete")

Scenario(objs, kinds, left) == [rsc |-> objs, kinds |-> kinds, left |-> left]

\* A class comes while another one releases the pool they share.
Sharing == Scenario(Only(Settled), {"create", "delete"}, 2)

\* Nodes, agents, DRBD resources and volume groups come and go.
Churn == Scenario(Only(Settled), {"node", "drbd", "lvg", "agent"}, 2)

\* An edit or a failure in the middle of the migration of an older class.
Migration == Scenario(Only(LegacyClass(p1, None, Lay, "Delete")), {"legacy", "edit", "fail"}, 2)

\* An older class whose two descriptions of the storage disagree.
Conflict == Scenario(Only(LegacyClass(p2, p1, Lay, "Delete")), {"legacy"}, 1)

\* A class without storage, and two new classes for one pool.
Invalid == Scenario(Only(NewClass(0, None, Lay, "Delete")), {}, 0)
Race == Scenario([c \in Classes |-> Fresh], {}, 0)

\* A class deleted around the life of a volume.
Lifecycle == Scenario(Only(Settled), {"delete", "volume"}, 3)

\* An edit, and a failure in the middle of following it.
Edit == Scenario(Only(Settled), {"edit", "fail"}, 2)

MCScenarios == {Edit, Sharing, Churn, Migration, Conflict, Invalid, Race, Lifecycle}

\* A node changes its state while a class is deleted.
MCOrphan == {Scenario(Only(Settled), {"delete", "node"}, 2)}
============================================================================
