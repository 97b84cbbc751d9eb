----------------------------- MODULE Placement -----------------------------
(***************************************************************************)
(* Where the replicas of one volume go: the scheduler                      *)
(* (rvr_scheduling_controller) picks a node for each replica object, the   *)
(* datamesh takes the placed ones in or lets them go when its zone guards  *)
(* agree, and layout convergence (rv_controller) retypes or creates        *)
(* replicas until the members are the layout the class asks for.  Both     *)
(* controllers run in one process and read the replicas from one informer  *)
(* cache, which lags behind the API server.                                *)
(*                                                                         *)
(* The scheduler decides one replica at a time, so its pass is several     *)
(* steps over the snapshot it began with.  A membership transition is two  *)
(* steps here, admitted and confirmed; module Datamesh has the plans.      *)
(***************************************************************************)
EXTENDS ZoneRules, SequencesExt, TLC

CONSTANTS
    Ids,          \* replica ids; 0..31 in the code
    Scenarios     \* see Init

NoNode == 0       \* nodes are numbered from 1, in the order of their names

VARIABLES
    rvr,          \* the replicas that exist: id -> [typ, node, lvg, del, born, sched]
    seen,         \* what the informer cache shows of them
    mem,          \* the datamesh: id -> [typ, node]
    trans,        \* membership transitions: [id, leaving, done]
    oper,         \* tie-breakers that are connected to the voters
    formed,       \* formation is over
    cfg,          \* the volume's configuration, [ftt, gmdr, topo], and its pool's eligible nodes
    up,           \* the eligible nodes that are ready and schedulable
    rva,          \* nodes the volume is to be attached to
    q,            \* the volume is in the scheduler's work queue
    qv,           \* the volume is in the volume controller's work queue
    pass,         \* the scheduler's pass: [on, snap, todo]
    budget        \* what may still happen, and how often

vars == <<rvr, seen, mem, trans, oper, formed, cfg, up, rva, q, qv, pass, budget>>

Event(kind) ==
    /\ kind \in budget.kinds /\ budget.left > 0
    /\ budget' = [budget EXCEPT !.left = @ - 1]

Without(f, S) == [j \in DOMAIN f \ S |-> f[j]]

With(f, i, v) == (i :> v) @@ f

NewReplica(typ, node, born) ==
    [typ |-> typ, node |-> node, lvg |-> FALSE, del |-> FALSE, born |-> born, sched |-> None]

----------------------------------------------------------------------------
(* The scheduler.  s is the snapshot a pass works on.                      *)

\* A diskful replica needs a volume group besides its node.
isReplicaScheduled(r) == r.node # NoNode /\ (r.typ = "TB" \/ (r.typ = "D" /\ r.lvg))

OccupiedNodes(s) == {s[i].node : i \in DOMAIN s} \ {NoNode}

\* Replicas of the given types in zone z, those that are being deleted included.
ReplicasByZone(s, types, z) ==
    {i \in DOMAIN s : s[i].typ \in types /\ s[i].node # NoNode /\ ZoneOf[s[i].node] = z}

Zones == {ZoneOf[n] : n \in cfg.nodes}

\* Zones that no other zone beats; <<y, z>> \in beats says that y beats z.
computePreferredZones(beats) == {z \in Zones : \A y \in Zones : <<y, z>> \notin beats}

FewestDiskful(s) ==
    {p \in Zones \X Zones :
        Cardinality(ReplicasByZone(s, {"D"}, p[1])) < Cardinality(ReplicasByZone(s, {"D"}, p[2]))}

MostDiskful(s) == {p \in Zones \X Zones : <<p[2], p[1]>> \in FewestDiskful(s)}

\* Fewest replicas; among equals, fewest tie-breakers.
Lightest(s) ==
    LET all(z) == Cardinality(ReplicasByZone(s, {"D", "TB"}, z))
        tbs(z) == Cardinality(ReplicasByZone(s, {"TB"}, z))
    IN  {p \in Zones \X Zones :
            all(p[1]) < all(p[2]) \/ (all(p[1]) = all(p[2]) /\ tbs(p[1]) < tbs(p[2]))}

\* Defective variant: tie-breakers are not spread over the zones.
PreferredZonesOfDisks(s, typ) ==
    IF cfg.topo = "TransZonal" /\ typ = "D" THEN computePreferredZones(FewestDiskful(s)) ELSE Zones

PreferredZones(s, typ) ==
    CASE cfg.topo = "Zonal"                    -> computePreferredZones(MostDiskful(s))
      [] cfg.topo = "TransZonal" /\ typ = "D"  -> computePreferredZones(FewestDiskful(s))
      [] cfg.topo = "TransZonal" /\ typ = "TB" -> computePreferredZones(Lightest(s))
      [] OTHER                                 -> Zones

\* Nodes that pass the predicates of the pipeline for replica i.
Candidates(s, i) ==
    LET zones == PreferredZones(s, s[i].typ) IN
    {n \in up :
        /\ IF s[i].node = NoNode THEN n \notin OccupiedNodes(s) ELSE n = s[i].node
        /\ ZoneOf[n] \in zones}

\* Zones with too few free nodes for the diskful replicas still to place.
PenalizedZones(s, cands) ==
    LET demand == IntendedDiskfulCount(cfg)
                    - Cardinality({i \in DOMAIN s : s[i].typ = "D" /\ isReplicaScheduled(s[i])})
    IN  {z \in {ZoneOf[n] : n \in cands} :
            cfg.topo = "Zonal" /\ Cardinality({n \in cands : ZoneOf[n] = z}) < demand}

\* The best candidates.  The extender's scores, 1 to 10, decide among those
\* with the same bonuses, so any of them may win; a tie-breaker has no score
\* and takes the first node by name.
SelectBest(s, i) ==
    LET cands == Candidates(s, i)
        tight == PenalizedZones(s, cands)
        score(n) == (IF n \in rva THEN 1000 ELSE 0) - (IF ZoneOf[n] \in tight THEN 800 ELSE 0)
    IN  IF s[i].typ = "D" THEN {n \in cands : \A k \in cands : score(k) <= score(n)}
        ELSE IF cands = {} THEN {} ELSE {Min(cands)}

\* Replicas in the order getRVRsByRVName gives them: those being deleted
\* last, then the oldest first, then by name.
Before(s, i, j) ==
    LET key(k) == <<IF s[k].del THEN 1 ELSE 0, s[k].born, k>>
    IN  \E n \in 1..3 : key(i)[n] < key(j)[n] /\ \A l \in 1..(n - 1) : key(i)[l] = key(j)[l]

\* The order of one pass: the placed replicas whose condition is to change,
\* then the diskful ones without a place, then the tie-breakers.
Phases(s) ==
    LET ordered(S) == SetToSortSeq(S, LAMBDA i, j : Before(s, i, j))
        placed == {i \in DOMAIN s : isReplicaScheduled(s[i]) /\ s[i].sched # "True"}
        open(t) == {i \in DOMAIN s : s[i].typ = t /\ ~isReplicaScheduled(s[i])}
    IN  ordered(placed) \o ordered(open("D")) \o ordered(open("TB"))

Idle == [on |-> FALSE, snap |-> <<>>, todo |-> <<>>]

SchedBegin ==
    /\ q /\ ~pass.on
    /\ q' = FALSE
    /\ pass' = [on |-> TRUE, snap |-> seen, todo |-> Phases(seen)]
    /\ UNCHANGED <<rvr, seen, mem, trans, oper, formed, cfg, up, rva, budget, qv>>

\* What the pass writes for the replica that is next: its condition, or a
\* place and the condition.
Decided(s, i) ==
    LET best == SelectBest(s, i)
    IN  IF isReplicaScheduled(s[i]) THEN {[s[i] EXCEPT !.sched = "True"]}
        ELSE IF best = {} THEN {[s[i] EXCEPT !.sched = "False"]}
        ELSE {[s[i] EXCEPT !.node = n, !.lvg = (s[i].typ = "D"), !.sched = "True"] : n \in best}

\* One replica: the write succeeds if the snapshot is current, is skipped
\* when the replica is gone, and otherwise fails and ends the pass.
SchedStep ==
    /\ pass.on /\ pass.todo # <<>>
    /\ LET i == Head(pass.todo)
           s == pass.snap
       IN  \E r \in Decided(s, i) :
             IF r = s[i] \/ i \notin DOMAIN rvr \/ rvr[i] = s[i]
             THEN /\ rvr' = IF i \in DOMAIN rvr /\ r # s[i] THEN With(rvr, i, r) ELSE rvr
                  /\ pass' = [pass EXCEPT !.snap = With(s, i, r), !.todo = Tail(@)]
                  /\ UNCHANGED q
             ELSE pass' = Idle /\ q' = TRUE /\ UNCHANGED rvr
    /\ UNCHANGED <<seen, mem, trans, oper, formed, cfg, up, rva, budget, qv>>

\* The extender does not answer for a diskful replica: the condition says so
\* and the pass fails.
ExtenderUnavailable ==
    /\ pass.on /\ pass.todo # <<>>
    /\ LET i == Head(pass.todo)
           s == pass.snap
       IN  /\ s[i].typ = "D" /\ ~isReplicaScheduled(s[i]) /\ Candidates(s, i) # {}
           /\ Event("extender")
           /\ rvr' = IF i \in DOMAIN rvr /\ rvr[i] = s[i]
                     THEN [rvr EXCEPT ![i].sched = "Unavailable"] ELSE rvr
    /\ pass' = Idle /\ q' = TRUE
    /\ UNCHANGED <<seen, mem, trans, oper, formed, cfg, up, rva, qv>>

SchedEnd ==
    /\ pass.on /\ pass.todo = <<>>
    /\ pass' = Idle
    /\ UNCHANGED <<rvr, seen, mem, trans, oper, formed, cfg, up, rva, q, budget, qv>>

\* rvrPredicates: replicas that appear, go or change in their spec.
rvrEvent(old, new) ==
    \/ DOMAIN new # DOMAIN old
    \/ \E i \in DOMAIN new : [new[i] EXCEPT !.sched = None] # [old[i] EXCEPT !.sched = None]

\* The cache catches up with the API server.
Deliver ==
    /\ seen # rvr
    /\ seen' = rvr
    /\ q' = (q \/ rvrEvent(seen, rvr))
    /\ qv' = TRUE
    /\ UNCHANGED <<rvr, mem, trans, oper, formed, cfg, up, rva, pass, budget>>

----------------------------------------------------------------------------
(* The datamesh: which membership requests the guards let through.         *)

Moving(t) == {x.id : x \in t}

\* Members whose data the mesh can count on.
UpToDate(m, t) == voters(m) \ Moving(t)

\* Tie-breakers that work and are not on their way out.
Operational == {i \in oper : i \in DOMAIN seen /\ ~seen[i].del}

\* One voter may change at a time; tie-breakers come and go beside it.
VoterMoves(m, t, i) == (i \in DOMAIN m /\ m[i].typ = "D") \/ (i \in DOMAIN seen /\ seen[i].typ = "D")

CanAdmit(m, t, i) ==
    /\ i \notin Moving(t)
    /\ VoterMoves(m, t, i) => ~\E j \in Moving(t) : VoterMoves(m, t, j)

CanJoin(m, t, i) ==
    LET r == seen[i] IN
    /\ i \notin DOMAIN m /\ ~r.del /\ isReplicaScheduled(r)
    /\ \A j \in DOMAIN m : m[j].node # r.node
    /\ IF r.typ = "D" THEN gainVoterGuards(cfg, m, ZoneOf[r.node])
       ELSE gainTBGuards(cfg, m, ZoneOf[r.node])

CanChangeRole(m, t, i) ==
    LET r == seen[i] IN
    /\ i \in DOMAIN m /\ ~r.del /\ isReplicaScheduled(r) /\ r.typ # m[i].typ
    /\ IF r.typ = "D"
       THEN loseTBGuards(cfg, m, Operational, i) /\ gainVoterGuards(cfg, m, Zone(m, i))
       ELSE /\ loseVoterGuards(cfg, m, UpToDate(m, t), i, TRUE)
            /\ gainTBGuards(cfg, m, Zone(m, i))

CanLeave(m, t, i) ==
    /\ i \in DOMAIN m /\ seen[i].del
    /\ IF m[i].typ = "D" THEN loseVoterGuards(cfg, m, UpToDate(m, t), i, FALSE) /\ m[i].node \notin rva
       ELSE loseTBGuards(cfg, m, Operational, i)

Transition(i, leaving) == [id |-> i, leaving |-> leaving, done |-> FALSE]

\* Members whose replica is gone are removed by force, whatever else moves them.
Orphans(m) == {i \in DOMAIN m : i \notin DOMAIN seen}

\* What admitting one request makes of the mesh: [m, t].  A tie-breaker is
\* taken out at once, a voter at the end of its transition.
Admissions(m, t) ==
    {[m |-> With(m, i, [typ |-> seen[i].typ, node |-> seen[i].node]), t |-> t \cup {Transition(i, FALSE)}] :
        i \in {j \in DOMAIN seen : CanAdmit(m, t, j) /\ (CanJoin(m, t, j) \/ CanChangeRole(m, t, j))}}
    \cup
    {[m |-> IF m[i].typ = "TB" THEN Without(m, {i}) ELSE m, t |-> t \cup {Transition(i, TRUE)}] :
        i \in {j \in DOMAIN seen : CanAdmit(m, t, j) /\ CanLeave(m, t, j)}}
    \cup
    {[m |-> Without(m, {i}), t |-> {x \in t : x.id # i}] : i \in Orphans(m)}

----------------------------------------------------------------------------
(* Layout convergence.  r is what the cache shows of the replicas.         *)

IntendedLayout(c) ==
    [D |-> IntendedDiskfulCount(c), TB |-> TieBreakersForDiskful(IntendedDiskfulCount(c), c.ftt)]

computeActualLayout(m) == [D |-> Cardinality(voters(m)), TB |-> Cardinality(tieBreakers(m))]

pendingRetypes(m, r) == {i \in voters(m) : i \in DOMAIN r /\ r[i].typ = "TB"}

\* Defective variant: a deleted tie-breaker is waited for, not replaced.
deletingTieBreakersNone(m, r) == {}

deletingTieBreakers(m, r) == {i \in tieBreakers(m) : i \in DOMAIN r /\ r[i].del}

countPendingTieBreakerCreations(m, r) ==
    Cardinality({i \in DOMAIN r \ DOMAIN m : r[i].typ = "TB" /\ ~r[i].del})

\* The one thing convergence does in a pass: "retype" a diskful replica,
\* "create" a tie-breaker, or None.
computeTargetLayoutAction(m, t, r) ==
    LET want     == IntendedLayout(cfg)
        have     == computeActualLayout(m)
        leaving  == Cardinality(deletingTieBreakers(m, r))
        staying  == have.TB - leaving
        missing(n) == want.TB - n > countPendingTieBreakerCreations(m, r)
        replaces == leaving > 0 /\ have.D = want.D /\ staying <= want.TB
    IN  CASE t # {} \/ pendingRetypes(m, r) # {}        -> None
          [] replaces                                   -> IF missing(staying) THEN "create" ELSE None
          [] have.D > want.D /\ have.TB < want.TB       ->
                 IF selectRetypeCandidate(cfg, m, r, rva) # {} THEN "retype" ELSE None
          [] have.D = want.D /\ have.TB < want.TB       -> IF missing(have.TB) THEN "create" ELSE None
          [] OTHER                                      -> None

\* The replica takes the first id the cache shows as free; if it exists, the
\* create is refused and the next pass looks again.
createTieBreaker(r) ==
    LET i == Min(Ids \ DOMAIN r) IN
    IF i \in DOMAIN rvr THEN rvr ELSE With(rvr, i, NewReplica("TB", NoNode, 1))

\* A retype is one patch of the type and the volume group, under a lock.
retypeToTieBreaker(m, r) ==
    [rvr EXCEPT ![Max(selectRetypeCandidate(cfg, m, r, rva))] = [@ EXCEPT !.typ = "TB", !.lvg = FALSE]]

\* There is no free id, or the replica to retype has changed: the pass fails
\* and writes nothing more.
ConvergenceFails(m, t, r) ==
    LET action == computeTargetLayoutAction(m, t, r) IN
    \/ action = "create" /\ Ids \subseteq DOMAIN r
    \/ /\ action = "retype"
       /\ LET i == Max(selectRetypeCandidate(cfg, m, r, rva)) IN i \notin DOMAIN rvr \/ rvr[i] # r[i]

reconcileLayoutConvergence(m, t, r) ==
    CASE computeTargetLayoutAction(m, t, r) = "create" -> createTieBreaker(r)
      [] computeTargetLayoutAction(m, t, r) = "retype" -> retypeToTieBreaker(m, r)
      [] OTHER                                         -> rvr

----------------------------------------------------------------------------
(* The volume controller.                                                  *)

AllPlaced == \A i \in DOMAIN seen : seen[i].sched = "True" /\ isReplicaScheduled(seen[i])

\* Formation, in one step: every replica of the layout has its place.
Form ==
    /\ ~formed
    /\ AllPlaced
    /\ formed' = TRUE
    /\ mem' = [i \in DOMAIN seen |-> [typ |-> seen[i].typ, node |-> seen[i].node]]
    /\ oper' = {i \in DOMAIN seen : seen[i].typ = "TB"}
    /\ qv' = TRUE
    /\ UNCHANGED <<rvr, seen, trans, cfg, up, rva, q, pass, budget>>

\* Confirmed transitions end, and the members they remove are gone.
Settled ==
    LET gone == {x.id : x \in {y \in trans : y.leaving /\ y.done}}
    IN  [m |-> Without(mem, gone), t |-> {x \in trans : ~x.done}]

\* reconcileNormalOperation: transitions are settled and admitted, then the
\* layout is brought closer to the intended one.
Pass(next) == reconcileLayoutConvergence(next.m, next.t, seen)

Nexts == LET all == Admissions(Settled.m, Settled.t) IN IF all = {} THEN {Settled} ELSE all

reconcileNormalOperation ==
    /\ formed /\ qv
    /\ \E next \in Nexts :
           \/ /\ ~ConvergenceFails(next.m, next.t, seen)
              /\ mem' = next.m /\ trans' = next.t
              /\ rvr' = Pass(next)
              /\ oper' = oper \cap DOMAIN next.m
              /\ qv' = (<<mem', trans', rvr'>> # <<mem, trans, rvr>>)
           \/ ConvergenceFails(next.m, next.t, seen) /\ UNCHANGED <<mem, trans, rvr, oper, qv>>
    /\ UNCHANGED <<seen, formed, cfg, up, rva, q, pass, budget>>

\* The same pass, but the write of the volume's status at its end is lost.
StatusLost ==
    /\ formed /\ qv
    /\ Event("lost")
    /\ \E next \in Nexts : ~ConvergenceFails(next.m, next.t, seen) /\ rvr' = Pass(next)
    /\ rvr' # rvr
    /\ UNCHANGED <<seen, mem, trans, oper, formed, cfg, up, rva, q, pass, qv>>

\* The nodes carry a transition out; a replica that joins has to be there.
Unconfirmed == {x \in trans : ~x.done /\ (x.leaving \/ x.id \in DOMAIN rvr)}

Confirm ==
    /\ \E x \in Unconfirmed : trans' = (trans \ {x}) \cup {[x EXCEPT !.done = TRUE]}
    /\ qv' = TRUE
    /\ UNCHANGED <<rvr, seen, mem, oper, formed, cfg, up, rva, q, pass, budget>>

\* A tie-breaker is connected to the voters.
Unconnected == (tieBreakers(mem) \cap DOMAIN rvr) \ oper

Connect ==
    /\ \E i \in Unconnected : oper' = oper \cup {i}
    /\ qv' = TRUE
    /\ UNCHANGED <<rvr, seen, mem, trans, formed, cfg, up, rva, q, pass, budget>>

\* A deleted replica that is no member loses its finalizers and is gone.
Vanishing ==
    {i \in DOMAIN rvr \ DOMAIN mem : formed /\ rvr[i].del /\ i \notin Moving(trans)}

Vanish ==
    /\ \E i \in Vanishing : rvr' = Without(rvr, {i})
    /\ qv' = TRUE
    /\ UNCHANGED <<seen, mem, trans, oper, formed, cfg, up, rva, q, pass, budget>>

----------------------------------------------------------------------------
(* What users and the cluster do.                                          *)

Delete(kind, typ) ==
    /\ Event(kind)
    /\ \E i \in DOMAIN rvr : rvr[i].typ = typ /\ ~rvr[i].del /\ rvr' = [rvr EXCEPT ![i].del = TRUE]
    /\ UNCHANGED <<seen, mem, trans, oper, formed, cfg, up, rva, q, pass, qv>>

\* A new diskful replica, or an Access replica on a node without one.  Users
\* take a name that was not just in use.
Create ==
    /\ formed /\ ~(Ids \subseteq DOMAIN rvr \cup DOMAIN seen)
    /\ LET i == Min(Ids \ (DOMAIN rvr \cup DOMAIN seen)) IN
       \/ /\ Event("createD")
          /\ rvr' = With(rvr, i, NewReplica("D", NoNode, 1))
       \/ /\ Event("createA")
          /\ \E n \in cfg.nodes \ OccupiedNodes(rvr) : rvr' = With(rvr, i, NewReplica("A", n, 1))
    /\ UNCHANGED <<seen, mem, trans, oper, formed, cfg, up, rva, q, pass, qv>>

\* A tie-breaker is asked to become diskful, on the node it has.
Promote ==
    /\ Event("promote")
    /\ \E i \in DOMAIN rvr : rvr[i].typ = "TB" /\ rvr' = [rvr EXCEPT ![i].typ = "D"]
    /\ UNCHANGED <<seen, mem, trans, oper, formed, cfg, up, rva, q, pass, qv>>

\* The class changes; the volume's configurationGeneration wakes the scheduler.
Reconfigure ==
    /\ Event("config") /\ formed
    /\ \E c \in {[ftt |-> 1, gmdr |-> 0], [ftt |-> 1, gmdr |-> 1]} :
           cfg' = [cfg EXCEPT !.ftt = c.ftt, !.gmdr = c.gmdr]
    /\ cfg' # cfg
    /\ q' = TRUE
    /\ qv' = TRUE
    /\ UNCHANGED <<rvr, seen, mem, trans, oper, formed, up, rva, pass>>

\* A node stops or starts being ready; the pool's eligibleNodesRevision
\* wakes the scheduler.
NodeChanges ==
    /\ Event("node")
    /\ \E n \in cfg.nodes : up' = IF n \in up THEN up \ {n} ELSE up \cup {n}
    /\ q' = TRUE
    /\ UNCHANGED <<rvr, seen, mem, trans, oper, formed, cfg, rva, pass, qv>>

Attach ==
    /\ Event("attach")
    /\ \E n \in cfg.nodes : rva' = IF n \in rva THEN rva \ {n} ELSE rva \cup {n}
    /\ qv' = TRUE
    /\ UNCHANGED <<rvr, seen, mem, trans, oper, formed, cfg, up, q, pass>>

\* The controller's process is replaced; it lists everything anew.
Crash ==
    /\ Event("crash")
    /\ pass' = Idle /\ q' = TRUE
    /\ seen' = rvr
    /\ qv' = TRUE
    /\ UNCHANGED <<rvr, mem, trans, oper, formed, cfg, up, rva>>

----------------------------------------------------------------------------
(* A scenario has a configuration, the replicas of the layout with their   *)
(* nodes (NoNode: not placed yet), and what may happen.                      *)

Init ==
    \E sc \in Scenarios :
        /\ cfg = sc.cfg
        /\ formed = sc.formed
        /\ rvr = [i \in DOMAIN sc.reps |->
                     [NewReplica(sc.reps[i].typ, sc.reps[i].node, 0) EXCEPT
                         !.lvg = (sc.formed /\ sc.reps[i].typ = "D"),
                         !.sched = IF sc.formed THEN "True" ELSE None]]
        /\ seen = rvr
        /\ mem = IF sc.formed THEN sc.reps ELSE <<>>
        /\ trans = {}
        /\ oper = IF sc.formed THEN tieBreakers(sc.reps) ELSE {}
        /\ up = sc.cfg.nodes
        /\ rva = {}
        /\ q = ~sc.formed
        /\ qv = TRUE
        /\ pass = Idle
        /\ budget = [kinds |-> sc.kinds, left |-> sc.left, settles |-> sc.settles]

Next ==
    \/ SchedBegin \/ SchedStep \/ ExtenderUnavailable \/ SchedEnd \/ Deliver
    \/ Form \/ reconcileNormalOperation \/ StatusLost
    \/ Confirm \/ Connect \/ Vanish
    \/ Delete("deleteTB", "TB") \/ Delete("deleteD", "D")
    \/ Create \/ Promote \/ Reconfigure \/ NodeChanges \/ Attach \/ Crash

\* The work queues hand out what is in them, the informer delivers, and the
\* nodes carry out what they are told: weak fairness, with the condition
\* under which each action is enabled written out.
Fairness ==
    /\ []<>~(q /\ ~pass.on) \/ []<><<SchedBegin>>_vars
    /\ []<>~pass.on \/ []<><<SchedStep \/ SchedEnd \/ ExtenderUnavailable>>_vars
    /\ []<>(seen = rvr) \/ []<><<Deliver>>_vars
    /\ []<>~(~formed /\ AllPlaced) \/ []<><<Form>>_vars
    /\ []<>~(formed /\ qv) \/ []<><<reconcileNormalOperation>>_vars
    /\ []<>(Unconfirmed = {}) \/ []<><<Confirm>>_vars
    /\ []<>(Unconnected = {}) \/ []<><<Connect>>_vars
    /\ []<>(Vanishing = {}) \/ []<><<Vanish>>_vars

Spec == Init /\ [][Next]_vars /\ Fairness

----------------------------------------------------------------------------
(* Properties.                                                             *)

\* Losing any one zone leaves a TransZonal volume with a quorum, counting a
\* tie-breaker for an even split, and, if it has the voters its configuration
\* asks for, with the copies that guarantees, whenever no membership
\* transition is under way
\* (guardTransZonalVoterPlacement, evaluateZoneFTT, guardZoneTBSufficient and
\* the scheduler's choice of zones for a new volume).
ZoneLossKeepsQuorum ==
    formed /\ cfg.topo = "TransZonal" /\ trans = {} =>
        \A z \in Zones :
            LET V == voters(mem)
                T == tieBreakers(mem)
                left == Cardinality(V \ In(mem, V, z))
            IN  /\ KeepsQuorum(left, computeTargetQ(Cardinality(V)), Cardinality(T \ In(mem, T, z)))
                /\ Cardinality(V) >= IntendedDiskfulCount(cfg) => left > cfg.gmdr

\* A working tie-breaker is let go only when another one works, while
\* tie-breakers are deleted, replaced and retyped and the cache lags
\* (guardTBSufficient and computeTargetTieBreakerReplacement: strict
\* create-first).
TieBreakerHandover ==
    [][(tieBreakers(mem) \cap oper) \ tieBreakers(mem') # {} /\ required(cfg', mem') > 0 =>
           tieBreakers(mem') \cap oper' # {}]_vars

\* A volume with enough nodes whose configuration asks for a tie-breaker
\* ends up with the layout it asks for and without the replicas that were
\* deleted, after a switch from three diskful replicas, the deletion of
\* tie-breakers, lost writes and crashes (reconcileLayoutConvergence).
LayoutConverges ==
    budget.settles =>
        <>[](IntendedLayout(cfg).TB > 0 =>
                /\ trans = {} /\ computeActualLayout(mem) = IntendedLayout(cfg)
                /\ \A i \in DOMAIN rvr : ~rvr[i].del)
============================================================================
