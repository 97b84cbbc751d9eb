---------------------------- MODULE MCDatamesh ----------------------------
(***************************************************************************)
(* Small instances of Datamesh for TLC: the formed volumes a run starts    *)
(* from, what may happen to them and the configurations they may switch    *)
(* between.                                                                *)
(***************************************************************************)
EXTENDS Datamesh

Config(ftt, gmdr, max) ==
    [ftt |-> ftt, gmdr |-> gmdr, local |-> FALSE, max |-> max, shadow |-> FALSE]

Layout(types, c) ==
    [type     |-> [r \in Replicas |-> IF r < Len(types) THEN types[r + 1] ELSE None],
     cfg      |-> c,
     attached |-> {}]

\* The same volumes with the ShadowDiskful feature, and attached on their last node.
Shadow(layouts) == {[l EXCEPT !.cfg.shadow = TRUE] : l \in layouts}
InUse(layouts, r) == {[l EXCEPT !.attached = {r}] : l \in layouts}

NoBound == 1000

\* One to three voters, with and without tie-breaker and access replicas.
SmallLayouts ==
    {Layout(<<"D">>, Config(0, 0, 1)), Layout(<<"D", "D", "D">>, Config(0, 0, 1)),
     Layout(<<"D", "D", "TB">>, Config(1, 0, 1))}

\* Volumes two nodes may be attached to at once.
SharedPair == {Layout(<<"D", "A">>, Config(0, 0, 2)), Layout(<<"D", "D">>, Config(0, 0, 2))}

\* Volumes whose members change under fair controllers.
ProgressLayouts ==
    {Layout(<<"D">>, Config(0, 0, 1)), Layout(<<"D", "D", "TB">>, Config(1, 0, 1)),
     Layout(<<"D", "A", "TB">>, Config(0, 0, 1))}

\* What the storage class may ask for.
RedundancyConfigs == {Config(0, 0, 1), Config(0, 1, 1), Config(1, 1, 1)}

SafetyScenarios ==
    [membership |->
        [layouts |-> SmallLayouts \cup Shadow({Layout(<<"D", "D">>, Config(0, 0, 1))}),
         kinds   |-> {"Create", "Delete", "Retype"},
         types   |-> {"D", "A"}, cfgs |-> {}, max |-> 2, maxRev |-> NoBound],
     faults |->
        [layouts |-> {Layout(<<"D">>, Config(0, 0, 1))},
         kinds   |-> {"UserCreate", "Delete", "Crash", "Eligible"},
         types   |-> {"D"}, cfgs |-> {}, max |-> 2, maxRev |-> NoBound],
     redundancy |->
        [layouts |-> {Layout(<<"D">>, Config(0, 0, 1)), Layout(<<"D", "D">>, Config(0, 1, 1))},
         kinds   |-> {"Create", "Configure", "Delete"},
         types   |-> {"D"}, cfgs |-> RedundancyConfigs, max |-> 3, maxRev |-> NoBound],
     inUse |->
        [layouts |-> InUse({Layout(<<"D", "D", "A">>, Config(0, 0, 1))}, 2)
                       \cup InUse({Layout(<<"D", "D", "A">>, Config(0, 0, 1))}, 1),
         kinds   |-> {"Delete", "Retype"},
         types   |-> {"D"}, cfgs |-> {}, max |-> 2, maxRev |-> NoBound],
     attachment |->
        [layouts |-> SharedPair \cup InUse(SharedPair, 1)
                       \cup InUse({Layout(<<"D", "D", "TB">>, Config(1, 0, 2))}, 0),
         kinds   |-> {"Attach", "Detach", "Lose", "ForceDetach", "Open"},
         types   |-> {}, cfgs |-> {}, max |-> 2, maxRev |-> 12],
     emergency |->
        [layouts |-> {Layout(<<"D", "D", "D">>, Config(0, 0, 1))},
         kinds   |-> {"Delete", "Lose", "ForceDelete"},
         types   |-> {}, cfgs |-> {}, max |-> 3, maxRev |-> NoBound],
     forcedOut |->
        [layouts |-> {Layout(<<"D", "D", "D">>, Config(0, 0, 1))},
         kinds   |-> {"Delete", "Lose", "ForceDelete", "ForceLeave"},
         types   |-> {}, cfgs |-> {}, max |-> 2, maxRev |-> NoBound],
     lossWhileGrowing |->
        [layouts |-> {Layout(<<"D">>, Config(0, 0, 1))},
         kinds   |-> {"Create", "Lose", "ForceDelete"},
         types   |-> {"D"}, cfgs |-> {}, max |-> 3, maxRev |-> NoBound]]

ProgressScenarios ==
    [membership |->
        [layouts |-> ProgressLayouts,
         kinds   |-> {"Create", "Delete", "Retype"},
         types   |-> {"D", "A"}, cfgs |-> {}, max |-> 2, maxRev |-> NoBound],
     attachment |->
        [layouts |-> SharedPair,
         kinds   |-> {"Attach", "Detach", "Open"},
         types   |-> {}, cfgs |-> {}, max |-> 3, maxRev |-> NoBound],
     loss |->
        [layouts |-> {Layout(<<"D", "D">>, Config(0, 0, 1))},
         kinds   |-> {"Delete", "Lose", "ForceDelete"},
         types   |-> {}, cfgs |-> {}, max |-> 3, maxRev |-> NoBound],
     lossOfThree |->
        [layouts |-> {Layout(<<"D", "D", "D">>, Config(0, 0, 1))},
         kinds   |-> {"Delete", "Lose", "ForceDelete"},
         types   |-> {}, cfgs |-> {}, max |-> 2, maxRev |-> NoBound]]
============================================================================
