---------------------------- MODULE MCMigration ----------------------------
EXTENDS Migration
CONSTANTS r1, r2

World0 == [pvs |-> {r1, r2}, linstor |-> TRUE, pool |-> "legacy", waits |-> TRUE, end |-> "Ready", used |-> TRUE,
           kinds |-> {"crash", "error"}, left |-> 2]

\* A class that names a legacy pool; one whose pool is gone; one that is refused; volumes
\* without PersistentVolumes, at the start or on the way; a cluster without LINSTOR.
MCScenarios ==
    { World0, [World0 EXCEPT !.pool = None, !.pvs = {r1}],
      [World0 EXCEPT !.pool = None, !.used = FALSE],
      [World0 EXCEPT !.end = "InsufficientNodes", !.kinds = {"delete"}],
      [World0 EXCEPT !.linstor = FALSE, !.pool = None] }

\* The migrator stops, or meets an error, between two patches of stage 2.
MCStopped == { [World0 EXCEPT !.kinds = {"crash between", "error between"}, !.left = 1] }
=============================================================================
