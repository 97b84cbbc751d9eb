----------------------------- MODULE MCNetworks -----------------------------
(***************************************************************************)
(* Replica 1 connects to every peer, 2 and 3 only to it.  Each scenario    *)
(* gives the members and networks to begin with, the kinds of events that  *)
(* may happen and how many.                                                *)
(***************************************************************************)
EXTENDS Networks

S(mem, nets, kinds, left) == [mem |-> mem, nets |-> nets, kinds |-> kinds, left |-> left]

MCScenarios ==
    { S({1, 2}, {"a", "b"}, {"pool", "link"}, 2),
      S({1, 2}, {"a", "b"}, {"pool", "agent"}, 2),
      S({1, 2, 3}, {"a", "b"}, {"pool"}, 1),
      S({1, 2, 3}, {"a"}, {"ip", "link", "agent"}, 2),
      S({1, 2}, {"a"}, {"pool", "ip", "join"}, 2) }

\* Two nodes get new addresses, one soon after the other.
MovingScenarios == { S({1, 2}, {"a"}, {"moving"}, 2) }
=============================================================================
