----------------------------- MODULE MCRollout -----------------------------
(***************************************************************************)
(* Rollout for TLC: up to three volumes, configurations A and B, a slot or *)
(* two, and a configuration X no volume can reach.                         *)
(***************************************************************************)
EXTENDS Rollout

Rolling(contents) == [content : contents, strategy : {"RollingUpdate"}]
NewOnly(contents) == [content : contents, strategy : {"NewVolumesOnly"}]

Volume(k, v) ==
    CASE k = "formed" -> FormedVolume(v, "A")
      [] k = "forming" -> FormingVolume(v, "A")
      [] k = "new" -> NewVolume(v)
      [] k = "manual" -> [FormedVolume(v, "manual") EXCEPT !.manual = TRUE, !.cfgGen = 0, !.obs = 0]

Scenario(ks, max, kinds, edits, left) ==
    [rv |-> [v \in Volumes |-> Volume(ks[v], v)], max |-> max, kinds |-> kinds, edits |-> edits, left |-> left]

\* A, B, A on two volumes with one slot; one edit on three volumes; an edit during a
\* formation, with a slot for every volume; volumes that come and go.
MCScenarios ==
    { Scenario(<<"formed", "formed", "new">>, 1, {"edit"}, Rolling({"A", "B"}), 2),
      Scenario(<<"formed", "formed", "formed">>, 1, {"edit"}, Rolling({"B", "X"}), 1),
      Scenario(<<"forming", "formed", "new">>, 0, {"edit"}, Rolling({"B"}) \cup NewOnly({"B"}), 1),
      Scenario(<<"formed", "new", "manual">>, 1, {"create", "delete"}, {}, 2) }

\* An edit during a formation, with one slot.
MCForming == { Scenario(<<"forming", "formed", "new">>, 1, {"edit"}, Rolling({"B"}), 1) }
============================================================================
