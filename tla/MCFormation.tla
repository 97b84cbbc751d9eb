---------------------------- MODULE MCFormation ----------------------------
EXTENDS Formation

Scenario(ftt, gmdr, kinds, left) ==
    [cfg |-> [ftt |-> ftt, gmdr |-> gmdr], thin |-> TRUE, kinds |-> kinds, left |-> left]

MCIds == 0..3

\* Two diskful replicas and a tie-breaker with one disturbance, two diskful replicas
\* with up to two, a thick pool, and a class edited while its volume is forming.
MCScenarios ==
    { Scenario(1, 0, {"misplace"}, 1), Scenario(1, 0, {"link"}, 1), Scenario(1, 0, {"crash"}, 1),
      Scenario(0, 1, {"tick", "link"}, 2), Scenario(0, 1, {"misplace", "delete"}, 2),
      Scenario(0, 1, {"create"}, 1), Scenario(0, 1, {"unfit"}, 1),
      [Scenario(0, 1, {"delete"}, 1) EXCEPT !.thin = FALSE],
      Scenario(0, 0, {"edit", "delete"}, 2) }

\* A controller that stops in the middle of a restart.
MCInterrupted == { Scenario(0, 1, {"crash", "delete"}, 2) }

\* Caches that lag behind the controller's own writes.
MCLagging == { Scenario(0, 0, {"lag"}, 0) }
=============================================================================
