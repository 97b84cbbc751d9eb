----------------------------- MODULE Formation -----------------------------
(***************************************************************************)
(* How a new volume comes to be: the create/v1 formation of rv_controller  *)
(* (reconciler_formation.go), one volume, with the agent's controller for  *)
(* the formation operation (drbdrop).  The controller decides from three   *)
(* informer caches that lag behind the API server each in its own way,     *)
(* makes API calls as it goes and writes the volume's status at the end,   *)
(* under an optimistic lock; an attempt that does not get anywhere is torn *)
(* down after a timeout and started again.                                 *)
(***************************************************************************)
EXTENDS MemberTypes, FiniteSetsExt, TLC

CONSTANTS
    Ids,          \* replica ids; 0..31 in the code
    MaxClock,     \* bound: how often the timeout may pass in one behaviour
    Scenarios     \* the layouts wanted and what may happen: see Init

VARIABLES
    rv,           \* the ReplicatedVolume: revision, formation transition, members
    rvr,          \* rvr[i]: the replica objects, with the status their node reports
    op,           \* the DRBDResourceOperation <volume>-formation
    rvSeen, seen, opSeen,   \* what rv_controller's caches show of the three
    want,         \* the configuration the storage class publishes
    clock,        \* time, in units of the 30 s timeout
    timer,        \* the controller asked to be called when the timeout has passed
    q,            \* whether the volume is in the controller's work queue: "no", "yes", or "poll",
                  \* in it again and again with nothing new to see
    gens,         \* how often a new data generation was created
    budget        \* what may still go wrong, and how often

vars == <<rv, rvr, op, rvSeen, seen, opSeen, want, clock, timer, q, gens, budget>>

ASSUME IdsAreNumbers == Ids \subseteq Nat

Event(kind) ==
    /\ kind \in budget.kinds /\ budget.left > 0
    /\ budget' = [budget EXCEPT !.left = @ - 1]

----------------------------------------------------------------------------
(* Objects.                                                                *)

NoMembers == [i \in Ids |-> None]

NoReplica == [st |-> None, typ |-> None, fin |-> FALSE, sched |-> "no", elig |-> TRUE, fit |-> TRUE,
              pre |-> FALSE, rev |-> 0, conn |-> {}, disk |-> None, gen |-> 0]

\* A new replica carries the finalizer of rv_controller and has no node yet.
newRVR(typ) == [NoReplica EXCEPT !.st = "live", !.typ = typ, !.fin = TRUE]

NoOp == [st |-> None, created |-> 0, target |-> 0, fast |-> FALSE]

\* computeTargetDiskful/TieBreaker counts of the configuration.
IntendedLayout(c) ==
    [D |-> IntendedDiskfulCount(c), TB |-> TieBreakersForDiskful(IntendedDiskfulCount(c), c.ftt)]

Members(v, t) == {i \in Ids : v.mem[i] = t}

\* Replicas of type t that are not being deleted.
Active(s, t) == {i \in Ids : s[i].st = "live" /\ s[i].typ = t}

Existing(s) == {i \in Ids : s[i].st # None}

isFormationInProgress(v) == v.rev = 0 \/ v.plan # None

----------------------------------------------------------------------------
(* One pass of the controller.  Its result: the status v to write, the     *)
(* replicas to create and to delete, whether to delete the operation, the  *)
(* one to make, and when to come back.                                     *)

NoneNew == [D |-> {}, TB |-> {}]

Pass(v, next) == [v |-> v, new |-> NoneNew, del |-> {}, drop |-> FALSE, make |-> NoOp, next |-> next]

\* Formation state goes; the configuration is derived again.
ResetFormation(v) ==
    [v EXCEPT !.rev = 0, !.plan = None, !.step = 0, !.start = 0, !.mem = NoMembers, !.cfg = want]

\* A bug: the replicas of the failed attempt are left in place.
reconcileFormationRestartKeeping(v, s, o, timeout) ==
    IF clock - v.start < timeout THEN Pass(v, "after")
    ELSE [Pass(ResetFormation(v), "now") EXCEPT !.drop = (o.st # None)]

reconcileFormationRestartIfTimeoutPassed(v, s, o, timeout) ==
    IF clock - v.start < timeout THEN Pass(v, "after")
    ELSE [Pass(ResetFormation(v), "now") EXCEPT !.del = Existing(s), !.drop = (o.st # None)]

\* datamesh.IsTieBreakerOperational for every tie-breaker, after the check that the
\* datamesh knows exactly the tie-breakers that exist.
computeActualTieBreakerReadiness(v, s) ==
    /\ Members(v, "TB") = Active(s, "TB")
    /\ \A t \in Members(v, "TB") :
          s[t].rev = v.rev /\ \A d \in Members(v, "D") : d \in s[t].conn \/ t \in s[d].conn

\* Fast mode: data is assumed identical, no synchronisation.
drbdrOpFast(v) == Cardinality(Members(v, "D")) = 1 \/ v.thin

dataBootstrapTimeout(v) == IF drbdrOpFast(v) THEN 2 ELSE 3

\* An operation created before this attempt started is stale.
currentOp(v, o) == IF o.created < v.start THEN NoOp ELSE o

\* A bug: the operation's success is taken for the end of the synchronisation.
bootstrapPhaseInitiated(v, s, o) ==
    CASE o.st = "Failed" -> "restart"
      [] o.st # "Succeeded" -> "wait"
      [] ~computeActualTieBreakerReadiness(v, s) -> "requeue"
      [] OTHER -> "formed"

\* The operation only initiates the bootstrap; the disks tell when it is over.
bootstrapPhase(v, s, o) ==
    CASE o.st = "Failed" -> "restart"
      [] o.st # "Succeeded" -> "wait"
      [] \E i \in Members(v, "D") : s[i].disk # "UpToDate" -> "wait"
      [] ~computeActualTieBreakerReadiness(v, s) -> "requeue"
      [] OTHER -> "formed"

reconcileFormationStepBootstrapData(v, s, o) ==
    LET cur == currentOp(v, o)
        dm == Members(v, "D")
        made == [st |-> "Pending", created |-> clock, target |-> Min(dm), fast |-> drbdrOpFast(v)]
        phase == bootstrapPhase(v, s, IF cur.st = None THEN made ELSE cur)
        res == CASE cur.st = None /\ s[Min(dm)].st = None -> Pass(v, "error")
                 [] cur.st # None /\ (cur.target \notin dm \/ cur.fast # drbdrOpFast(v)) ->
                       reconcileFormationRestartIfTimeoutPassed(v, s, o, 1)
                 [] phase = "restart" -> reconcileFormationRestartIfTimeoutPassed(v, s, o, 1)
                 [] phase = "wait" -> reconcileFormationRestartIfTimeoutPassed(v, s, o, dataBootstrapTimeout(v))
                 [] phase = "requeue" -> Pass(v, "now")
                 [] phase = "formed" -> Pass([v EXCEPT !.plan = None, !.step = 0, !.start = 0], "now")
    IN IF cur.st # None \/ res.next = "error" \/ res.drop THEN res
       ELSE [res EXCEPT !.drop = (o.st # None), !.make = made]

\* Bulk add: every active replica joins at once, by its own request.
addMembers(v, s) ==
    [v EXCEPT !.mem = [i \in Ids |-> IF i \in Active(s, "D") \cup Active(s, "TB") THEN s[i].typ ELSE None],
              !.rev = @ + 1]

\* Members match the replicas, all are configured and connected, the tie-breakers
\* work and every disk is as fresh as it was created.
connectivityEstablished(v, s) ==
    /\ Members(v, "D") = Active(s, "D")
    /\ \A i \in Members(v, "D") : s[i].rev = v.rev /\ s[i].conn \cap Members(v, "D") = Members(v, "D") \ {i}
    /\ computeActualTieBreakerReadiness(v, s)
    /\ \A i \in Members(v, "D") : s[i].disk = "Inconsistent"

reconcileFormationStepEstablishConnectivity(v, s, o) ==
    IF v.mem = NoMembers
    THEN IF \E i \in Active(s, "D") \cup Active(s, "TB") : ~s[i].pre
         THEN reconcileFormationRestartIfTimeoutPassed(v, s, o, 1)
         ELSE Pass(addMembers(v, s), "none")
    ELSE IF ~connectivityEstablished(v, s) THEN reconcileFormationRestartIfTimeoutPassed(v, s, o, 1)
         ELSE reconcileFormationStepBootstrapData([v EXCEPT !.step = 2], s, o)

----------------------------------------------------------------------------
(* Preconfigure: create what is missing, trim what is too much, wait.      *)

\* ChooseNewName, n times: the first free ids.
FirstFree(s, n) ==
    LET free == Ids \ Existing(s)
    IN {i \in free : Cardinality({j \in free : j < i}) < n}

\* Replicas that count: placed on eligible nodes and not being deleted.
Placed(s, t) == {i \in Active(s, t) : s[i].elig}

Lacking(v, s, t) ==
    LET missing == IntendedLayout(v.cfg)[t] - Cardinality(Placed(s, t))
    IN IF missing > 0 THEN missing ELSE 0

\* Nothing is created while anything is being deleted or is misplaced.
missingReplicas(v, s) ==
    LET d == FirstFree(s, Lacking(v, s, "D"))
        all == FirstFree(s, Lacking(v, s, "D") + Lacking(v, s, "TB"))
    IN IF \E i \in Existing(s) : s[i].st = "deleting" \/ ~s[i].elig THEN NoneNew ELSE [D |-> d, TB |-> all \ d]

\* The replicas with the new ones among them.
withNew(s, new) == [i \in new.D |-> newRVR("D")] @@ [i \in new.TB |-> newRVR("TB")] @@ s

\* The n replicas of a set that are kept: scheduled before unscheduled,
\* preconfigured before the rest, low ids before high ones.
trimExcess(s, set, n) ==
    LET rank(i) == IF s[i].sched # "yes" THEN 2 ELSE IF ~s[i].pre THEN 1 ELSE 0
        before(i, j) == rank(i) < rank(j) \/ (rank(i) = rank(j) /\ i < j)
    IN {i \in set : Cardinality({j \in set : before(j, i)}) < n}

\* A new transition starts the clock.
ensureFormationTransition(v) ==
    IF v.plan # None THEN v
    ELSE [v EXCEPT !.plan = "create/v1", !.step = 0, !.start = clock, !.rev = 1]

\* Scheduled, with a request to join and DRBD waiting for membership.
arePreconfigured(s, set) == \A i \in set : s[i].sched = "yes" /\ s[i].pre

\* Addresses on every network, an eligible node, a backing volume that matches the
\* replica's specification and is large enough.
passSafetyChecks(s, set) == \A i \in set : s[i].fit

reconcileFormationStepPreconfigure(v0, s0, o) ==
    LET v == ensureFormationTransition(v0)
        new == missingReplicas(v, s0)
        s == withNew(s0, new)
        keep == trimExcess(s, Placed(s, "D"), IntendedLayout(v.cfg).D)
                \cup trimExcess(s, Placed(s, "TB"), IntendedLayout(v.cfg).TB)
        others == Existing(s) \ keep
        res == IF others = {} /\ arePreconfigured(s, keep) /\ passSafetyChecks(s, keep)
               THEN reconcileFormationStepEstablishConnectivity([v EXCEPT !.step = 1], s, o)
               ELSE reconcileFormationRestartIfTimeoutPassed(v, s, o, 1)
    IN [res EXCEPT !.new = new, !.del = @ \cup others]

reconcileFormation(v, s, o) ==
    CASE v.step = 0 -> reconcileFormationStepPreconfigure(v, s, o)
      [] v.step = 1 -> reconcileFormationStepEstablishConnectivity(v, s, o)
      [] v.step = 2 -> reconcileFormationStepBootstrapData(v, s, o)

----------------------------------------------------------------------------
(* What the API server makes of a pass.                                    *)

\* deleteRVRWithForcedFinalizerRemoval: the finalizer goes by a patch under an
\* optimistic lock, which a replica that changed meanwhile makes fail.
DeleteConflicts(i) == seen[i].fin /\ rvr[i].st # None /\ rvr[i] # seen[i]

deleteRVR(r, s) ==
    IF r.st = None \/ (s.st = "deleting" /\ ~s.fin) THEN r
    ELSE [r EXCEPT !.st = "deleting", !.fin = @ /\ ~s.fin]

\* A replica is held by the finalizer while it lives, and let go once it is being
\* deleted and is no member.
reconcileRVRFinalizers(r, v, i) ==
    CASE r.st = "live" -> [r EXCEPT !.fin = TRUE]
      [] r.st = "deleting" /\ v.mem[i] = None -> [r EXCEPT !.fin = FALSE]
      [] OTHER -> r

\* That patch is made under an optimistic lock as well.
FinalizerConflicts(p, i) ==
    /\ i \notin p.del \cup p.new.D \cup p.new.TB /\ rvr[i].st # None
    /\ rvr[i] # seen[i] /\ reconcileRVRFinalizers(seen[i], p.v, i) # seen[i]

\* createRVR: the name is taken, the cache is behind.
AlreadyExists(i) == rvr[i].st # None

\* The operation is deleted by its name and made anew.
opAfter(drop, make) == IF make.st # None THEN make ELSE IF drop THEN NoOp ELSE op

\* A pass that got through: all its calls, then the status, unless the volume changed
\* since it was read.
ReconcilePatch(v) ==
    IF v = rvSeen THEN UNCHANGED rv
    ELSE rv' = IF rv = rvSeen THEN v ELSE rv

Created(p) == p.new.D \cup p.new.TB

\* A call of the pass fails.
Refused(p) ==
    \/ \E i \in Created(p) : AlreadyExists(i)
    \/ \E i \in p.del \ Created(p) : DeleteConflicts(i)
    \/ \E i \in Ids : FinalizerConflicts(p, i)
    \/ p.make.st # None /\ ~p.drop /\ op.st # None
    \/ p.next = "error"

ReconcileWhole(p) ==
    LET made == withNew(rvr, p.new)
        known == withNew(seen, p.new)
    IN /\ ~Refused(p)
       /\ rvr' = [i \in Ids |->
                    LET r == IF i \in p.del THEN deleteRVR(made[i], known[i]) ELSE made[i]
                    IN IF known[i] = made[i] \/ i \in p.del THEN reconcileRVRFinalizers(r, p.v, i) ELSE r]
       /\ op' = opAfter(p.drop, p.make)
       /\ ReconcilePatch(p.v)
       /\ q' = CASE p.v # rvSeen /\ rv # rvSeen -> "yes"
                 [] p.next = "now" -> IF p = Pass(rvSeen, "now") THEN "poll" ELSE "yes"
                 [] OTHER -> "no"
       /\ timer' = (timer \/ p.next = "after")
       /\ UNCHANGED <<gens, budget>>

\* A pass that did not: a name was taken, a lock was lost, or the controller stopped.
\* Some of its calls were made, the status was not written, and it is tried again.
Stopped(p) == IF Refused(p) THEN UNCHANGED budget ELSE Event("crash")

ReconcilePart(p) ==
    /\ Stopped(p)
    /\ \E last \in {0} \cup {i + 1 : i \in Created(p)}, del \in SUBSET (p.del \ Created(p)), drop \in {FALSE, p.drop} :
          LET new == [t \in {"D", "TB"} |-> {i \in p.new[t] : i < last}]
          IN /\ \A i \in Created([new |-> new]) : ~AlreadyExists(i)
             /\ \A i \in del : ~DeleteConflicts(i)
             /\ del # {} => new = p.new
             /\ rvr' = [i \in Ids |-> IF i \in del THEN deleteRVR(rvr[i], seen[i]) ELSE withNew(rvr, new)[i]]
             /\ op' = opAfter(drop, NoOp)
    /\ q' = IF rvr' = rvr /\ op' = op THEN "poll" ELSE "yes"
    /\ UNCHANGED <<rv, timer, gens>>

\* The caches of the volume and of the operation show the controller's own writes by its
\* next pass, except where they lag.
ShownAfter(shown, old, new) ==
    IF old = new THEN {shown} ELSE IF "lag" \in budget.kinds THEN {shown, new} ELSE {new}

Reconcile ==
    /\ q = "yes" 
    /\ IF isFormationInProgress(rvSeen)
       THEN \E p \in {reconcileFormation(rvSeen, seen, opSeen)} : ReconcileWhole(p) \/ ReconcilePart(p)
       ELSE q' = "no" /\ UNCHANGED <<rv, rvr, op, timer, gens, budget>>
    /\ rvSeen' \in ShownAfter(rvSeen, rv, rv')
    /\ opSeen' \in ShownAfter(opSeen, op, op')
    /\ UNCHANGED <<seen, want, clock>>

----------------------------------------------------------------------------
(* The caches.  A change of the volume's status does not wake the          *)
(* controller (rvPredicates); changes of replicas and of the operation do. *)

Deliver ==
    /\ rvSeen' \in {rvSeen, rv} /\ seen' \in {seen, rvr} /\ opSeen' \in {opSeen, op}
    /\ <<rvSeen, seen, opSeen>>' # <<rvSeen, seen, opSeen>>
    /\ q' = IF seen' # seen \/ opSeen' # opSeen \/ q = "poll" THEN "yes" ELSE q
    /\ UNCHANGED <<rv, rvr, op, want, clock, timer, gens, budget>>

----------------------------------------------------------------------------
(* The nodes: scheduler, rvr_controller and DRBD as far as formation sees. *)

Env == UNCHANGED <<rv, op, rvSeen, seen, opSeen, want, clock, timer, q, gens>>

\* Configured at the current revision, hence part of the DRBD mesh.
Linked(i, j) ==
    /\ i # j /\ "D" \in {rv.mem[i], rv.mem[j]}
    /\ \A k \in {i, j} : rvr[k].st # None /\ rv.mem[k] # None /\ rvr[k].rev = rv.rev

\* Scheduled, on an eligible node.
Schedule(i) ==
    /\ rvr[i].st = "live" /\ rvr[i].sched = "no"
    /\ rvr' = [rvr EXCEPT ![i].sched = "yes"]
    /\ Env /\ UNCHANGED budget

\* Preconfigured: the disk exists, the request to join is there.
BecomeReady(i) ==
    /\ rvr[i].st = "live" /\ rvr[i].sched = "yes" /\ ~rvr[i].pre /\ rv.mem[i] = None
    /\ rvr' = [rvr EXCEPT ![i].pre = TRUE, ![i].disk = IF rvr[i].typ = "D" THEN "Inconsistent" ELSE None]
    /\ Env /\ UNCHANGED budget

\* A member is configured for the current revision.
Configure(i) ==
    /\ rvr[i].st # None /\ rv.mem[i] # None /\ rvr[i].rev # rv.rev
    /\ rvr' = [rvr EXCEPT ![i].rev = rv.rev, ![i].pre = FALSE]
    /\ Env /\ UNCHANGED budget

\* The connections a replica reports become those there are.
Connect(i) ==
    /\ rvr[i].st # None
    /\ LET now == {j \in Ids : Linked(i, j)}
       IN now # rvr[i].conn /\ rvr' = [rvr EXCEPT ![i].conn = now]
    /\ Env /\ UNCHANGED budget

\* A disk that is not current synchronises from a connected one that is.
Synchronise(i) ==
    /\ rvr[i].disk = "Inconsistent"
    /\ \E j \in rvr[i].conn : rvr[j].disk = "UpToDate" /\ i \in rvr[j].conn
                              /\ rvr' = [rvr EXCEPT ![i].disk = "UpToDate", ![i].gen = rvr[j].gen]
    /\ Env /\ UNCHANGED budget

\* The last finalizer is gone; the name is free again.
Vanish(i) ==
    /\ rvr[i].st = "deleting" /\ ~rvr[i].fin
    /\ rvr' = [j \in Ids |-> IF j = i THEN NoReplica ELSE [rvr[j] EXCEPT !.conn = @ \ {i}]]
    /\ Env /\ UNCHANGED budget

\* A replica that failed a check of Preconfigure passes it after all.
BecomeFit(i) ==
    /\ rvr[i].st = "live" /\ ~rvr[i].fit
    /\ rvr' = [rvr EXCEPT ![i].fit = TRUE]
    /\ Env /\ UNCHANGED budget

----------------------------------------------------------------------------
(* drbdrop on the node the operation names.                                *)

\* executeCreateNewUUID: drbdsetup makes a new data generation on the target; with
\* clear-bitmap its connected peers are taken to be identical.
NewCurrentUUID ==
    LET t == op.target
        same == {t} \cup (IF op.fast THEN {j \in rvr[t].conn : rvr[j].typ = "D"} ELSE {})
    IN /\ rvr[t].st # None /\ rvr[t].disk = "Inconsistent"
       /\ gens' = gens + 1
       /\ rvr' = [j \in Ids |-> IF j \in same THEN [rvr[j] EXCEPT !.disk = "UpToDate", !.gen = gens + 1] ELSE rvr[j]]

\* succeedOperationAndPatch, failOperationAndPatch.
operationEnds(phase) == op' = [op EXCEPT !.st = phase]

\* The operation runs to its end, or the agent stops between the command and the report
\* and runs it again.  Without its resource, or where there is data already, it fails.
ExecuteOperation ==
    /\ op.st = "Pending"
    /\ \/ NewCurrentUUID /\ operationEnds("Succeeded") /\ UNCHANGED budget
       \/ NewCurrentUUID /\ Event("crash") /\ UNCHANGED op
       \/ /\ rvr[op.target].st = None \/ rvr[op.target].disk # "Inconsistent"
          /\ operationEnds("Failed") /\ UNCHANGED <<rvr, gens, budget>>
    /\ UNCHANGED <<rv, rvSeen, seen, opSeen, want, clock, timer, q>>

----------------------------------------------------------------------------
(* What may go wrong.                                                      *)

\* Someone deletes a replica.
UserDeletes(i) ==
    /\ Event("delete") /\ rvr[i].st = "live"
    /\ rvr' = [rvr EXCEPT ![i].st = "deleting"] /\ Env

\* Someone creates one that formation did not ask for, under a free name.
UserCreates(i, t) ==
    /\ Event("create") /\ rvr[i].st = None
    /\ rvr' = [rvr EXCEPT ![i] = [newRVR(t) EXCEPT !.fin = FALSE]] /\ Env

\* The node of a replica leaves the pool.
Misplace(i) ==
    /\ Event("misplace") /\ rvr[i].st = "live" /\ rvr[i].sched = "yes" /\ rvr[i].elig
    /\ rvr' = [rvr EXCEPT ![i].elig = FALSE] /\ Env

\* A replica lacks an address, or its volume is too small.
BecomeUnfit(i) ==
    /\ Event("unfit") /\ rvr[i].st = "live" /\ rvr[i].fit
    /\ rvr' = [rvr EXCEPT ![i].fit = FALSE] /\ Env

\* A node loses its connections for a while.
LoseLinks(i) ==
    /\ Event("link") /\ rvr[i].conn # {}
    /\ rvr' = [j \in Ids |-> [rvr[j] EXCEPT !.conn = IF j = i THEN {} ELSE @ \ {i}]] /\ Env

\* The storage class changes.
EditClass(c) ==
    /\ Event("edit") /\ c # want /\ want' = c
    /\ UNCHANGED <<rv, rvr, op, rvSeen, seen, opSeen, clock, timer, q, gens>>

----------------------------------------------------------------------------
Agents ==
    \/ \E i \in Ids : \/ Schedule(i) \/ BecomeReady(i) \/ Configure(i) \/ Connect(i)
                      \/ Synchronise(i) \/ Vanish(i) \/ BecomeFit(i)
    \/ ExecuteOperation

Controller == Reconcile \/ Deliver

Fresh == rvSeen = rv /\ seen = rvr /\ opSeen = op

\* Time passes when everyone waits for it, and, once in a while, when nobody does.
Idle == q # "yes" /\ Fresh /\ ~ENABLED Agents

Tick ==
    /\ clock < MaxClock /\ clock' = clock + 1
    /\ \/ Idle /\ (timer \/ q = "poll") /\ UNCHANGED budget
       \/ Event("tick")
    /\ q' = IF timer \/ q = "poll" THEN "yes" ELSE q
    /\ timer' = FALSE
    /\ UNCHANGED <<rv, rvr, op, rvSeen, seen, opSeen, want, gens>>

Disturbance(configs) ==
    \/ \E i \in Ids : \/ UserDeletes(i) \/ Misplace(i) \/ BecomeUnfit(i) \/ LoseLinks(i)
                      \/ \E t \in {"D", "A"} : UserCreates(i, t)
    \/ \E c \in configs : EditClass(c)

Next == Agents \/ Controller \/ Tick \/ Disturbance({s.cfg : s \in Scenarios})

\* A volume that was just created, with the configuration of its class.
Init ==
    /\ \E s \in Scenarios :
          /\ want = s.cfg /\ budget = [kinds |-> s.kinds, left |-> s.left]
          /\ rv = [rev |-> 0, plan |-> None, step |-> 0, start |-> 0, mem |-> NoMembers,
                   cfg |-> s.cfg, thin |-> s.thin]
    /\ rvSeen = rv
    /\ rvr = [i \in Ids |-> NoReplica] /\ seen = rvr
    /\ op = NoOp /\ opSeen = NoOp
    /\ clock = 0 /\ timer = FALSE /\ q = "yes" /\ gens = 0

\* A volume in the queue is reconciled, and the controller does not always run while its
\* caches are behind: WF_vars(Reconcile) and SF_vars(Reconcile /\ Fresh), with what ENABLED
\* comes to written out.
QueueIsServed ==
    /\ []<>(q # "yes") \/ []<><<Reconcile>>_vars
    /\ <>[](q # "yes" \/ ~Fresh) \/ []<><<Reconcile /\ Fresh>>_vars

Fairness ==
    /\ QueueIsServed
    /\ WF_vars(Deliver /\ rvSeen' = rv /\ seen' = rvr /\ opSeen' = op)
    /\ WF_vars(Agents) /\ WF_vars(Tick)

Spec == Init /\ [][Next]_vars /\ Fairness

----------------------------------------------------------------------------
(* Properties.                                                             *)

Formed(v) == v.rev > 0 /\ v.plan = None

\* A volume whose formation is over has exactly the layout its configuration asks for,
\* every diskful member is there with a current disk, and they all hold the same data.
FormedIsWhole ==
    Formed(rv) =>
        /\ Cardinality(Members(rv, "D")) = IntendedLayout(rv.cfg).D
        /\ Cardinality(Members(rv, "TB")) = IntendedLayout(rv.cfg).TB
        /\ \A i \in Members(rv, "D") : rvr[i].st # None /\ rvr[i].disk = "UpToDate"
        /\ \A i, j \in Members(rv, "D") : rvr[i].gen = rvr[j].gen

\* The replica that the bootstrap starts from is there when it is needed: no operation of
\* this attempt yet, and the lowest diskful member has its object.
BootstrapSourceExists ==
    rv.step = 2 /\ op.st = None => rvr[Min(Members(rv, "D"))].st # None

\* Every volume is formed eventually, whatever happened a finite number of times.
FormationCompletes == <>[]Formed(rv)
============================================================================
