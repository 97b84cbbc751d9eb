----------------------------- MODULE MCNodeDrbd -----------------------------
(* Instances of NodeDrbd: two DRBDResources, two peers, five ports. *)
EXTENDS NodeDrbd

Base == [up |-> TRUE, opts |-> 1, disk |-> "", nv |-> FALSE, peers |-> <<>>, multi |-> FALSE,
         primary |-> FALSE, adopted |-> FALSE]

Diskful == [Base EXCEPT !.disk = "d1", !.peers = [p \in {1} |-> "D"]]
Client == [Base EXCEPT !.peers = [p \in {1} |-> "D"]]
Lone == Base

\* What the kernel looks like once spec s is in place on a port and a minor.
Running(s, port, minor) ==
    [NoRes EXCEPT !.up = TRUE, !.minor = minor, !.opts = s.opts, !.disk = s.disk, !.nv = s.nv,
                  !.client = (s.disk = ""), !.primary = s.primary,
                  !.peers = [p \in DOMAIN s.peers |->
                               [conn |-> "Connected", paths |-> {port}, est |-> {port},
                                bitmap |-> (s.peers[p] # "L"), multi |-> s.multi]]]

Nothing == [n \in Names |-> NoRes]
Blank == [d \in Disks |-> [has |-> FALSE, uuid |-> 0]]

\* r1 and r2 are created at once on an empty node.
Fresh(s1, s2, kinds, left, next) ==
    [obj |-> [r \in R |-> "present"], spec |-> [r \in R |-> IF r = "r1" THEN s1 ELSE s2],
     kernel |-> Nothing, symlink |-> [r \in R |-> None], md |-> Blank,
     status |-> [r \in R |-> NoStatus], nextMinor |-> 0, kinds |-> kinds, left |-> left, next |-> next]

\* r1 runs and r2 does not exist yet.
Settled(s1, s2, kinds, left, next) ==
    [obj |-> [r \in R |-> IF r = "r1" THEN "present" ELSE "gone"],
     spec |-> [r \in R |-> IF r = "r1" THEN s1 ELSE s2],
     kernel |-> [Nothing EXCEPT !["r1"] = Running(s1, 1, 0)],
     symlink |-> [r \in R |-> IF r = "r1" THEN 0 ELSE None],
     md |-> [Blank EXCEPT !["d1"] = [has |-> TRUE, uuid |-> 1]],
     status |-> [r \in R |-> IF r = "r1" THEN [port |-> 1, uuid |-> 1, conf |-> TRUE] ELSE NoStatus],
     nextMinor |-> 1, kinds |-> kinds, left |-> left, next |-> next]

\* r1 names the running resource Old as its own; its peers are at ports of their own.
Adopting(s1, kinds, left) ==
    [Settled([s1 EXCEPT !.adopted = TRUE], Lone, kinds \cup {"adopt"}, left, {}) EXCEPT
        !.kernel = [Nothing EXCEPT ![Old] =
            [Running(s1, 2, 0) EXCEPT !.opts = 2, !.peers = [p \in DOMAIN s1.peers |->
                [conn |-> "Connected", paths |-> {p}, est |-> {p}, bitmap |-> TRUE, multi |-> FALSE]]]],
        !.symlink = [r \in R |-> None],
        !.status = [r \in R |-> NoStatus]]

Two == [Diskful EXCEPT !.peers = [p \in {1, 2} |-> "D"]]

One(s) == [s EXCEPT !.obj["r2"] = "gone"]

\* r1 and r2 are created together.
Creation == {Fresh(Diskful, Lone, {}, 0, {})}
\* A creation, and any change of a running resource, with failures.
InterruptedCreation == {One(Fresh(Diskful, Lone, {"fail", "crash", "reboot"}, 2, {}))}
Reconfiguration == {Settled(Diskful, Lone, {"spec", "fail", "crash", "reboot"}, 2,
        {[Diskful EXCEPT !.disk = "d2", !.nv = TRUE], [Diskful EXCEPT !.disk = "", !.peers = [p \in {2} |-> "L"]],
         [Diskful EXCEPT !.up = FALSE], [Diskful EXCEPT !.primary = TRUE, !.multi = TRUE, !.peers = [p \in {1} |-> "L"]]})}
\* r1 goes while r2 comes: minors and ports are handed out again.
Replacement == {Settled(Diskful, Lone, {"delete", "create", "crash"}, 3, {})}
\* The finalizer of r1 is removed by hand after a restart of the agent.
Orphan == {[Settled(Diskful, Lone, {"delete", "strip"}, 2, {}) EXCEPT !.obj["r2"] = "present", !.nextMinor = 0]}
\* d2 carries the identity of another resource.
ForeignDisk == {[Settled(Diskful, Lone, {"spec"}, 2, {[Diskful EXCEPT !.disk = "d2"], [Diskful EXCEPT !.disk = ""]})
          EXCEPT !.md["d2"] = [has |-> TRUE, uuid |-> 7]]}
OpenDevice == {Settled([Diskful EXCEPT !.primary = TRUE], Lone, {"open", "delete", "spec"}, 2, {[Diskful EXCEPT !.up = FALSE]})}
\* A resource of other origin is taken over.
Adoption == {Adopting(Two, {"crash", "reboot", "fail"}, 1)}
AbandonedAdoption == {Adopting(Diskful, {"delete"}, 1)}
NameTaken == {LET s == Adopting(Diskful, {}, 0) IN [s EXCEPT !.kernel["r1"] = [s.kernel[Old] EXCEPT !.disk = "", !.minor = 1, !.peers = <<>>]]}
\* A port the agent believes free is taken by a resource that is not its own.
PortTaken == {Settled(Diskful, Client, {"create", "foreign"}, 2, {}), Settled(Diskful, Client, {"reboot", "foreign"}, 2, {})}
LostEvents == {Settled(Diskful, Lone, {"create", "scanner", "drop"}, 2, {})}
PortReuse == {Settled(Diskful, Lone, {"create", "spec"}, 3, {[Diskful EXCEPT !.up = FALSE]})}
\* A connection goes down between the start and the end of a dump.
StaleDumpScenarios == {Settled(Diskful, Lone, {"scanner", "drop", "window"}, 2, {})}

PassScenarios ==
    UNION {Creation, InterruptedCreation, Reconfiguration, Replacement, OpenDevice, Orphan, ForeignDisk,
           Adoption, AbandonedAdoption, NameTaken, PortTaken, LostEvents, PortReuse}

=============================================================================
