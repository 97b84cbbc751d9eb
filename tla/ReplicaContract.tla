-------------------------- MODULE ReplicaContract --------------------------
(***************************************************************************)
(* What the datamesh relies on when it reads a replica's confirmed         *)
(* revision, with no word on how the replica gets there: a revision is     *)
(* confirmed only when the node runs what that revision says of the        *)
(* replica, confirmations go forward, and a replica that withdraws its     *)
(* confirmation no longer takes part in the volume.                        *)
(***************************************************************************)
EXTENDS Integers, Sequences

VARIABLES
    log,           \* what each revision of the datamesh says of this replica
    running,       \* the DRBD resource of the node
    confirmed      \* the revision the replica confirms, 0 for none

contractVars == <<log, running, confirmed>>

\* The node runs what a revision asks for, or the hardware failed under it.
Meets(k, m) ==
    \/ k.hit
    \/ /\ k.up /\ k.cfg = <<m.mem, m.cfg>>
       /\ IF m.mem = "D" THEN k.disk = m.lvg /\ k.size >= m.size ELSE k.disk = 0

TakesNoPart(k) == k.hit \/ ~k.up \/ k.cfg = <<"alone", 0>>

Init == confirmed # 0 => confirmed = Len(log) /\ Meets(running, log[confirmed])

Publish ==
    /\ Len(log') = Len(log) + 1 /\ SubSeq(log', 1, Len(log)) = log
    /\ UNCHANGED <<running, confirmed>>

Run == UNCHANGED <<log, confirmed>>

Confirm ==
    /\ \E r \in (confirmed + 1)..Len(log) :
         log[r].mem # "none" /\ Meets(running, log[r]) /\ confirmed' = r
    /\ UNCHANGED <<log, running>>

Withdraw ==
    /\ \E r \in (confirmed + 1)..Len(log) : log[r].mem = "none"
    /\ TakesNoPart(running)
    /\ confirmed' = 0
    /\ UNCHANGED <<log, running>>

Next == Publish \/ Run \/ Confirm \/ Withdraw

Spec == Init /\ [][Next]_contractVars
=============================================================================
