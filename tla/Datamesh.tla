------------------------------ MODULE Datamesh ------------------------------
(***************************************************************************)
(* The replicated volume in normal operation: the rv-controller's          *)
(* reconcile loop around the transition engine, and around it the replicas *)
(* (rvr-controller and node agent), the users and the failures.            *)
(*                                                                         *)
(* A reconcile reads a snapshot, computes on the copy mem and publishes it *)
(* with one status patch.  The computation runs as the engine does:        *)
(* settle until nothing progresses, then the dispatchers in order, again   *)
(* while something was dispatched.  Nothing else moves during that         *)
(* computation; everything may move between it and the patch.              *)
(***************************************************************************)
EXTENDS EffectiveLayout

CONSTANT
    Scenarios   \* what a run explores, by name: the volumes it starts from, the kinds of
                \* external events that may happen, at most max of them, the replica
                \* types and configurations users may ask for, and a bound on the
                \* revision a reconcile starts from

ASSUME ScenarioAssumption ==
    \A n \in DOMAIN Scenarios :
        /\ \A l \in Scenarios[n].layouts :
              /\ l.type \in [Replicas -> {"D", "A", "TB", None}]
              /\ l.cfg \in Configuration
              /\ l.attached \subseteq {r \in Replicas : l.type[r] # None}
              /\ \A a, b \in l.attached : a = b     \* multiattach starts off
        /\ Scenarios[n].types \subseteq ReplicaType
        /\ Scenarios[n].cfgs \subseteq Configuration
        /\ Scenarios[n].max \in Nat /\ Scenarios[n].maxRev \in Nat

VARIABLES
    mem,    \* the reconcile's working copy of rv
    pc,     \* where the reconcile is
    cur,    \* next replica id of the membership dispatcher
    iter,   \* iteration of Process' outer loop
    disp,   \* something was dispatched in this iteration
    pot,    \* gctx.potentiallyAttached
    open,   \* nodes where a process holds the volume's device open
    budget  \* the scenario and the external events left: [scenario, left]

ctrl == <<mem, pc, cur, iter, disp, pot>>
env == <<rvr, conf, utd, lost, cfg, elig, rva, open, budget>>
vars == <<rv, ctrl, env>>

scenario == Scenarios[budget.scenario]

maxOuter == 10

\* A formed volume, attached or not: every member has confirmed the revision.
FormedState(l) ==
    LET s0 == [rev |-> 1, type |-> l.type,
               bv |-> [r \in Replicas |-> IF l.type[r] = "D" THEN "vg" ELSE None],
               attached |-> l.attached, multi |-> FALSE,
               q |-> 0, qmr |-> l.cfg.gmdr + 1, base |-> l.cfg.gmdr,
               mt |-> [r \in Replicas |-> Idle], at |-> [r \in Replicas |-> Idle],
               qt |-> Idle, xt |-> Idle]
    IN  [s0 EXCEPT !.q = CorrectQ(s0)]

NoRVR == [ex |-> None, type |-> None, fin |-> FALSE, rev |-> 0, req |-> NoRequest,
          use |-> FALSE]

StartFrom(n, l) ==
    /\ budget = [scenario |-> n, left |-> Scenarios[n].max]
    /\ cfg = l.cfg
    /\ rv = FormedState(l)
    /\ rvr = [r \in Replicas |->
                IF l.type[r] = None THEN NoRVR
                ELSE [ex |-> "live", type |-> l.type[r], fin |-> TRUE,
                      rev |-> 1, req |-> NoRequest, use |-> FALSE]]
    /\ conf = [r \in Replicas |->
                IF l.type[r] = None THEN Unconfigured
                ELSE computeTargetDRBDRSpec(FormedState(l), r, l.type[r])]
    /\ utd = {r \in Replicas : l.type[r] = "D"}
    /\ lost = {} /\ rva = l.attached /\ open = {} /\ elig = Replicas
    /\ mem = rv /\ pc = "idle" /\ cur = 0 /\ iter = 0 /\ disp = FALSE /\ pot = {}

Init == \E n \in DOMAIN Scenarios : \E l \in Scenarios[n].layouts : StartFrom(n, l)

----------------------------------------------------------------------------
(* Settling confirmed transitions, at the start of every iteration *)

MembershipConfirmed(s, r) == Active(s.mt[r]) /\ StepConfirmed(s, r, s.mt[r])

AttachmentConfirmed(s, r) == Active(s.at[r]) /\ StepConfirmed(s, r, s.at[r])

GlobalConfirmed(s, t) == Active(t) /\ StepConfirmed(s, 0, t)

CanSettle(s) ==
    \/ \E r \in Replicas : MembershipConfirmed(s, r) \/ AttachmentConfirmed(s, r)
    \/ GlobalConfirmed(s, s.qt) \/ GlobalConfirmed(s, s.xt)

\* The next step reads the membership request, and there is none.
RequestMissing(s, r) ==
    /\ ~IsLastStep(s.mt[r]) /\ NeedsRequest(NextStep(s.mt[r]))
    /\ rvr[r].req = NoRequest

SettleMembership(r) ==
    /\ MembershipConfirmed(mem, r) /\ ~RequestMissing(mem, r)
    /\ mem' = [Advanced(mem, r, mem.mt[r])
                 EXCEPT !.mt[r] = AdvancedSlot(mem, r, mem.mt[r])]
    /\ UNCHANGED <<rv, pc, cur, iter, disp, pot, env>>

SettleAttachment(r) ==
    /\ AttachmentConfirmed(mem, r)
    /\ mem' = [Advanced(mem, r, mem.at[r])
                 EXCEPT !.at[r] = AdvancedSlot(mem, r, mem.at[r])]
    /\ pot' = IF mem.at[r].plan = "Detach" THEN pot \ {r} ELSE pot
    /\ UNCHANGED <<rv, pc, cur, iter, disp, env>>

SettleQuorum ==
    /\ GlobalConfirmed(mem, mem.qt)
    /\ mem' = [Advanced(mem, 0, mem.qt) EXCEPT !.qt = AdvancedSlot(mem, 0, mem.qt)]
    /\ UNCHANGED <<rv, pc, cur, iter, disp, pot, env>>

SettleMultiattach ==
    /\ GlobalConfirmed(mem, mem.xt)
    /\ mem' = [Advanced(mem, 0, mem.xt) EXCEPT !.xt = AdvancedSlot(mem, 0, mem.xt)]
    /\ UNCHANGED <<rv, pc, cur, iter, disp, pot, env>>

Discard == mem' = rv /\ pc' = "idle" /\ cur' = 0 /\ iter' = 0 /\ disp' = FALSE /\ pot' = {}

\* A nil dereference ends the reconcile; what it computed is lost.
Panic ==
    /\ \E r \in Replicas : MembershipConfirmed(mem, r) /\ RequestMissing(mem, r)
    /\ Discard
    /\ UNCHANGED <<rv, env>>

----------------------------------------------------------------------------
(* Dispatching.  The decisions of the dispatchers are visited in a fixed   *)
(* order, once per iteration: quorum, membership by replica id, forced     *)
(* detach by replica id, multiattach toggle, attachments.  cur is the      *)
(* place of the next one.                                                  *)

QuorumPlace == 0
MembershipPlace(r) == 1 + r
ForceDetachPlace(r) == 1 + N + r
TogglePlace == 1 + 2 * N
AttachPlace == 2 + 2 * N
EndPlace == 3 + 2 * N

QuorumDispatchable(s) == QuorumPlan(s) # None /\ CanAdmit(s, {}, 0, QuorumPlan(s))

IsForced(plan) == plan \in {"ForceRemove", "ForceRemoveDiskfulQDown"}

\* cancelActiveOnCreate empties the slot before the guards are evaluated.
Cancelled(s, r, plan) == IF IsForced(plan) THEN [s EXCEPT !.mt[r] = Idle] ELSE s

MembershipAdmitted(s, r, plan) ==
    LET s1 == Cancelled(s, r, plan)
    IN  ~Active(s1.mt[r]) /\ MembershipGuards(s1, r, plan) /\ CanAdmit(s1, {}, r, plan)

MembershipDispatchable(s, r) ==
    LET plan == MembershipPlan(s, r)
    IN  plan # None /\ (MembershipAdmitted(s, r, plan) \/ Cancelled(s, r, plan) # s)

ForceDetachable(s, r) == r \in s.attached /\ rvr[r].req.op = "ForceDetach"

ToggleDispatchable(s, p0) == decideMultiattachToggle(s, p0) # None

AttachmentDispatchable(s, p0, r) ==
    LET plan == decideAttachmentForReplica(s, r)
    IN  /\ plan # None /\ ~Active(s.at[r])
        /\ AttachmentGuards(s, p0, r, plan) /\ CanAdmit(s, p0, r, plan)

\* The decision at place k would change something.
Dispatchable(s, p0, k) ==
    \/ k = QuorumPlace /\ QuorumDispatchable(s)
    \/ \E r \in Replicas :
          \/ k = MembershipPlace(r)  /\ MembershipDispatchable(s, r)
          \/ k = ForceDetachPlace(r) /\ ForceDetachable(s, r)
          \/ k = AttachPlace         /\ AttachmentDispatchable(s, p0, r)
    \/ k = TogglePlace /\ ToggleDispatchable(s, p0)

\* Where the engine does something next.
NextPlace ==
    LET places == {k \in cur .. AttachPlace : Dispatchable(mem, pot, k)} \cup {EndPlace}
    IN  CHOOSE k \in places : \A j \in places : k <= j

DispatchQuorum ==
    /\ QuorumDispatchable(mem)
    /\ mem' = [Created(mem, 0, QuorumPlan(mem))
                 EXCEPT !.qt = CreatedSlot(mem, 0, QuorumPlan(mem))]
    /\ disp' = TRUE /\ cur' = QuorumPlace + 1
    /\ UNCHANGED <<rv, pc, iter, pot, env>>

DispatchMembership(r) ==
    LET plan == MembershipPlan(mem, r)
        s1   == Cancelled(mem, r, plan)
    IN  /\ MembershipDispatchable(mem, r)
        /\ IF MembershipAdmitted(mem, r, plan)
           THEN /\ mem' = [Created(s1, r, plan) EXCEPT !.mt[r] = CreatedSlot(s1, r, plan)]
                /\ disp' = TRUE
           ELSE mem' = s1 /\ UNCHANGED disp
        /\ cur' = MembershipPlace(r) + 1
        /\ UNCHANGED <<rv, pc, iter, pot, env>>

\* ForceDetach takes the slot of a running Attach, and the slot is empty even
\* when the guard then blocks it.  It never meets a Detach, which clears
\* attached when it is created.
DispatchForceDetach(r) ==
    LET s1 == [mem EXCEPT !.at[r] = Idle]
    IN  /\ ForceDetachable(mem, r)
        /\ IF guardMemberUnreachable(s1, r)
           THEN /\ mem' = [Created(s1, r, "ForceDetach")
                             EXCEPT !.at[r] = CreatedSlot(s1, r, "ForceDetach")]
                /\ disp' = TRUE
           ELSE mem' = s1 /\ UNCHANGED disp
        /\ cur' = ForceDetachPlace(r) + 1
        /\ UNCHANGED <<rv, pc, iter, pot, env>>

DispatchToggle ==
    LET plan == decideMultiattachToggle(mem, pot)
    IN  /\ ToggleDispatchable(mem, pot)
        /\ mem' = [Created(mem, 0, plan) EXCEPT !.xt = CreatedSlot(mem, 0, plan)]
        /\ disp' = TRUE /\ cur' = TogglePlace + 1
        /\ UNCHANGED <<rv, pc, iter, pot, env>>

\* Candidates without an active RVA sort first, the others by age.
DispatchAttachment(r) ==
    LET plan == decideAttachmentForReplica(mem, r)
    IN  /\ AttachmentDispatchable(mem, pot, r)
        /\ plan = "Attach" =>
              \A p \in Replicas \ rva : ~AttachmentDispatchable(mem, pot, p)
        /\ mem' = [Created(mem, r, plan) EXCEPT !.at[r] = CreatedSlot(mem, r, plan)]
        /\ pot' = pot \cup {r}
        /\ disp' = TRUE /\ cur' = AttachPlace
        /\ UNCHANGED <<rv, pc, iter, env>>

\* The outer loop of Process starts over while something was dispatched.
NextIteration ==
    /\ disp /\ iter < maxOuter
    /\ cur' = 0 /\ iter' = iter + 1 /\ disp' = FALSE
    /\ UNCHANGED <<rv, mem, pc, pot, env>>

----------------------------------------------------------------------------
(* The reconcile around the engine *)

\* Defective variant: a replica that is no member has left.
isRVRMember(s, r) == r \in Members(s)

\* A finalizer guards an RVR until it has left the datamesh, judged by the
\* state the reconcile is about to publish.
isRVRMemberOrLeavingDatamesh(s, r) ==
    r \in Members(s) \/ (Active(s.mt[r]) /\ PlanOf(s.mt[r]).type = "RemoveReplica")

TargetFinalizer(s, r) ==
    IF rvr[r].ex = "live" THEN TRUE
    ELSE rvr[r].fin /\ isRVRMemberOrLeavingDatamesh(s, r)

\* There is something for a reconcile to do; any other changes nothing.
Work(s) ==
    \/ CanSettle(s)
    \/ \E k \in QuorumPlace .. AttachPlace : Dispatchable(s, potentiallyAttached(s), k)
    \/ \E r \in Replicas : Exists(r) /\ rvr[r].fin # TargetFinalizer(s, r)

Begin ==
    /\ pc = "idle" /\ rv.rev <= scenario.maxRev /\ Work(rv)
    /\ pc' = "process" /\ iter' = 1 /\ pot' = potentiallyAttached(rv)
    /\ UNCHANGED <<rv, mem, cur, disp, env>>

\* Process is done; the RVR finalizers are patched before rv.status.
reconcileRVRFinalizers ==
    /\ disp => iter = maxOuter
    /\ rvr' = [r \in Replicas |->
                 IF Exists(r) THEN [rvr[r] EXCEPT !.fin = TargetFinalizer(mem, r)]
                 ELSE rvr[r]]
    /\ pc' = "patch" /\ cur' = 0 /\ iter' = 0 /\ disp' = FALSE /\ pot' = {}
    /\ UNCHANGED <<rv, mem, conf, utd, lost, cfg, elig, rva, open, budget>>

patchRVStatus ==
    /\ pc = "patch"
    /\ rv' = mem /\ pc' = "idle"
    /\ UNCHANGED <<mem, cur, iter, disp, pot, env>>

\* An external event the scenario allows.
Event(kind) ==
    /\ budget.left > 0 /\ kind \in scenario.kinds
    /\ budget' = [budget EXCEPT !.left = @ - 1]

\* The controller crashes, or the patch conflicts or fails: the finalizers
\* already patched stay as they are.
AbortReconcile ==
    /\ Event("Crash")
    /\ pc = "patch" /\ mem # rv
    /\ Discard
    /\ UNCHANGED <<rv, rvr, conf, utd, lost, cfg, elig, rva, open>>

Settle ==
    /\ pc = "process" /\ cur = 0
    /\ \/ \E r \in Replicas : SettleMembership(r) \/ SettleAttachment(r)
       \/ SettleQuorum \/ SettleMultiattach \/ Panic

Dispatch ==
    /\ pc = "process" /\ (cur = 0 => ~CanSettle(mem))
    /\ \E k \in {NextPlace} :
          \/ k = QuorumPlace /\ DispatchQuorum
          \/ k = TogglePlace /\ DispatchToggle
          \/ \E r \in Replicas :
                \/ k = MembershipPlace(r)  /\ DispatchMembership(r)
                \/ k = ForceDetachPlace(r) /\ DispatchForceDetach(r)
                \/ k = AttachPlace         /\ DispatchAttachment(r)
          \/ k = EndPlace /\ (NextIteration \/ reconcileRVRFinalizers)

Controller == Begin \/ Settle \/ Dispatch \/ patchRVStatus

----------------------------------------------------------------------------
(* The replicas: rvr-controller and agent of every node, and the disks.    *)
(* They run between reconciles and while one has yet to patch its result.  *)

rvrShouldNotExist(r) == rvr[r].ex = "deleting" /\ ~rvr[r].fin

Outside == pc \in {"idle", "patch"}

\* The node's DRBD takes over the target configuration, at first without the
\* disk while its backing volume is not ready.  A disk that is detached or new
\* has to synchronise, and an open device cannot be demoted.
Adopt(r, t) ==
    /\ Outside /\ Exists(r) /\ r \notin lost /\ ~rvrShouldNotExist(r)
    /\ t \in TargetTypes(rv, r)
    /\ t # computeTargetType(rv, r) => conf[r].own # computeTargetType(rv, r)
    /\ conf[r] # computeTargetDRBDRSpec(rv, r, t)
    /\ r \in open => computeTargetDRBDRSpec(rv, r, t).pri
    /\ conf' = [conf EXCEPT ![r] = computeTargetDRBDRSpec(rv, r, t)]
    /\ utd' = IF HasBackingVolume(conf[r].own) /\ HasBackingVolume(t)
              THEN utd ELSE utd \ {r}
    /\ UNCHANGED <<rv, ctrl, rvr, lost, cfg, elig, rva, open, budget>>

\* computeTargetDatameshRequest; rev is the revision the replica reports,
\* 0 when it is not a member.
computeTargetDatameshRequest(r, rev) ==
    LET type == rvr[r].type
        own  == conf[r].own
    IN  CASE rvr[r].ex = "deleting" ->
                IF rev # 0 THEN [NoRequest EXCEPT !.op = "Leave"] ELSE NoRequest
          [] r \notin elig -> NoRequest
          [] rev = 0 ->
                [op |-> "Join", type |-> type, bv |-> IF type = "D" THEN "vg" ELSE None]
          [] type = "D" /\ ~HasBackingVolume(own) ->
                [op |-> "ChangeRole", type |-> "D", bv |-> "vg"]
          [] type \in {"A", "TB"} /\ HasBackingVolume(own) ->
                [op |-> "ChangeRole", type |-> type, bv |-> None]
          [] type = "sD" -> [op |-> "ChangeRole", type |-> "sD", bv |-> None]
          [] OTHER -> NoRequest

\* ensureStatusAttachment keeps what it last reported while the agent is not
\* ready or still applies a configuration; one that failed to apply is no
\* reason to wait.
ReportedUse(r) ==
    IF r \in lost \/ rvrShouldNotExist(r) THEN {rvr[r].use}
    ELSE {r \in open} \cup {u \in {rvr[r].use} : ~Configured(rv, r)}

ReportedRevision(r) ==
    IF r \in lost \/ rvrShouldNotExist(r) \/ ~Configured(rv, r) THEN rvr[r].rev
    ELSE IF r \in Members(rv) THEN rv.rev ELSE 0

\* The rvr-controller reports the configured revision and the use of the device,
\* and asks for membership.
Report(r) ==
    /\ Outside /\ Exists(r)
    /\ LET rev == ReportedRevision(r)
       IN  \E use \in ReportedUse(r) :
              rvr' = [rvr EXCEPT ![r].rev = rev, ![r].use = use,
                                 ![r].req = computeTargetDatameshRequest(r, rev)]
    /\ rvr' # rvr
    /\ UNCHANGED <<rv, ctrl, conf, utd, lost, cfg, elig, rva, open, budget>>

\* Resynchronisation from an UpToDate peer (external).
Sync(r) ==
    /\ Outside /\ HasBackingVolume(conf[r].own)
    /\ r \notin utd \cup lost
    /\ \E p \in utd \ lost : Connected(r, p)
    /\ utd' = utd \cup {r}
    /\ UNCHANGED <<rv, ctrl, rvr, conf, lost, cfg, elig, rva, open, budget>>

\* The last finalizer is gone: DRBD is torn down with the RVR.
GoneRVR(r) ==
    /\ Outside /\ rvrShouldNotExist(r) /\ r \notin lost \cup open
    /\ rvr' = [rvr EXCEPT ![r] = NoRVR]
    /\ conf' = [conf EXCEPT ![r] = Unconfigured]
    /\ utd' = utd \ {r}
    /\ UNCHANGED <<rv, ctrl, lost, cfg, elig, rva, open, budget>>

ReplicaStep(r) ==
    (\E t \in MemberType : Adopt(r, t)) \/ Report(r) \/ Sync(r) \/ GoneRVR(r)

----------------------------------------------------------------------------
(* Users, other controllers and failures *)

Command(kind) ==
    /\ Outside /\ Event(kind)
    /\ UNCHANGED <<rv, ctrl>>

\* newRVR sets the finalizer; an RVR created by a user comes without it.
CreateRVR(r, type, kind) ==
    /\ Command(kind) /\ ~Exists(r) /\ r \notin lost
    /\ rvr' = [rvr EXCEPT ![r] = [NoRVR EXCEPT !.ex = "live", !.type = type,
                                               !.fin = (kind = "Create")]]
    /\ UNCHANGED <<conf, utd, lost, cfg, elig, rva, open>>

DeleteRVR(r) ==
    /\ Command("Delete") /\ rvr[r].ex = "live"
    /\ rvr' = [rvr EXCEPT ![r].ex = "deleting"]
    /\ UNCHANGED <<conf, utd, lost, cfg, elig, rva, open>>

RetypeRVR(r, type) ==
    /\ Command("Retype") /\ rvr[r].ex = "live" /\ rvr[r].type # type
    /\ rvr' = [rvr EXCEPT ![r].type = type]
    /\ UNCHANGED <<conf, utd, lost, cfg, elig, rva, open>>

LoseNode(r) ==
    /\ Command("Lose") /\ r \notin lost
    /\ lost' = lost \cup {r}
    /\ UNCHANGED <<rvr, conf, utd, cfg, elig, rva, open>>

\* An administrator strips the finalizers of an RVR on a lost node; whatever
\* DRBD runs there goes on running.
ForceDeleteRVR(r) ==
    /\ Command("ForceDelete") /\ r \in lost /\ Exists(r)
    /\ rvr' = [rvr EXCEPT ![r] = NoRVR]
    /\ UNCHANGED <<conf, utd, lost, cfg, elig, rva, open>>

\* The forced operations of the request API; only a hand-written request uses
\* them, and the rvr-controller overwrites it at its next report.
ForceRequest(r, op) ==
    /\ Command(op) /\ Exists(r)
    /\ rvr' = [rvr EXCEPT ![r].req = [NoRequest EXCEPT !.op = op]]
    /\ UNCHANGED <<conf, utd, lost, cfg, elig, rva, open>>

AttachRVA(r) ==
    /\ Command("Attach") /\ r \notin rva
    /\ rva' = rva \cup {r}
    /\ UNCHANGED <<rvr, conf, utd, lost, cfg, elig, open>>

DetachRVA(r) ==
    /\ Command("Detach") /\ r \in rva
    /\ rva' = rva \ {r}
    /\ UNCHANGED <<rvr, conf, utd, lost, cfg, elig, open>>

\* A process opens or closes the device; DRBD lets it do so on a primary only
\* (auto-promote is off).
OpenDevice(r) ==
    /\ Command("Open") /\ conf[r].pri /\ r \notin lost \cup open
    /\ open' = open \cup {r}
    /\ UNCHANGED <<rvr, conf, utd, lost, cfg, elig, rva>>

CloseDevice(r) ==
    /\ Outside /\ r \in open \ lost
    /\ open' = open \ {r}
    /\ UNCHANGED <<rv, ctrl, rvr, conf, utd, lost, cfg, elig, rva, budget>>

SetEligible(r) ==
    /\ Command("Eligible")
    /\ elig' = IF r \in elig THEN elig \ {r} ELSE elig \cup {r}
    /\ UNCHANGED <<rvr, conf, utd, lost, cfg, rva, open>>

\* reconcileRVConfiguration takes over a changed storage class.
ChangeConfiguration(c) ==
    /\ pc = "idle" /\ Command("Configure")
    /\ cfg' = [c EXCEPT !.shadow = cfg.shadow] /\ cfg' # cfg
    /\ UNCHANGED <<rvr, conf, utd, lost, elig, rva, open>>

Environment ==
    \/ \E r \in Replicas :
          \/ DeleteRVR(r) \/ LoseNode(r) \/ ForceDeleteRVR(r)
          \/ AttachRVA(r) \/ DetachRVA(r) \/ OpenDevice(r) \/ CloseDevice(r)
          \/ SetEligible(r)
          \/ \E t \in scenario.types :
                RetypeRVR(r, t) \/ \E k \in {"Create", "UserCreate"} : CreateRVR(r, t, k)
          \/ \E op \in {"ForceLeave", "ForceDetach"} : ForceRequest(r, op)
    \/ \E c \in scenario.cfgs : ChangeConfiguration(c)
    \/ AbortReconcile

Next == Controller \/ (\E r \in Replicas : ReplicaStep(r)) \/ Environment

Spec == Init /\ [][Next]_vars

CanBegin == rv.rev <= scenario.maxRev /\ Work(rv)

AdoptTarget(r) == Adopt(r, computeTargetType(rv, r))

CanAdopt(r) ==
    LET t == computeTargetType(rv, r)
    IN  /\ Outside /\ Exists(r) /\ r \notin lost /\ ~rvrShouldNotExist(r)
        /\ conf[r] # computeTargetDRBDRSpec(rv, r, t)
        /\ r \in open => computeTargetDRBDRSpec(rv, r, t).pri

CanReport(r) ==
    LET rev == ReportedRevision(r)
    IN  /\ Outside /\ Exists(r)
        /\ \/ rvr[r].rev # rev \/ rvr[r].req # computeTargetDatameshRequest(r, rev)
           \/ ReportedUse(r) # {rvr[r].use}

CanSync(r) ==
    /\ Outside /\ HasBackingVolume(conf[r].own) /\ r \notin utd \cup lost
    /\ \E p \in utd \ lost : Connected(r, p)

CanGo(r) == Outside /\ rvrShouldNotExist(r) /\ r \notin lost \cup open

\* Controllers and agents are requeued until they have nothing left to do, and
\* a resynchronisation completes: weak fairness of every step of theirs, with the
\* states in which it is enabled written out.
Fairness ==
    /\ []<>(pc = "idle" /\ ~CanBegin) \/ []<><<Controller>>_vars
    /\ \A r \in Replicas :
          /\ []<>~CanAdopt(r)  \/ []<><<AdoptTarget(r)>>_vars
          /\ []<>~CanReport(r) \/ []<><<Report(r)>>_vars
          /\ []<>~CanSync(r)   \/ []<><<Sync(r)>>_vars
          /\ []<>~CanGo(r)     \/ []<><<GoneRVR(r)>>_vars

FairSpec == Spec /\ Fairness

----------------------------------------------------------------------------
(* Properties *)

\* Type invariant: the stored and the working datamesh state, the objects
\* around them and the reconcile's own bookkeeping have the shape of the API
\* types and of globalContext; every running transition is at a step of its plan.
TypeOK ==
    /\ rv \in State /\ mem \in State
    /\ rvr \in [Replicas -> RVR] /\ conf \in [Replicas -> DrbdConfiguration]
    /\ cfg \in Configuration
    /\ utd \in SUBSET Replicas /\ lost \in SUBSET Replicas
    /\ elig \in SUBSET Replicas /\ rva \in SUBSET Replicas
    /\ open \in SUBSET Replicas
    /\ pc \in {"idle", "process", "patch"}
    /\ cur \in Nat /\ iter \in 0 .. maxOuter /\ disp \in BOOLEAN
    /\ pot \in SUBSET Replicas /\ budget \in [scenario : DOMAIN Scenarios, left : Nat]

\* No split brain: however the network splits the reachable nodes in two, with
\* every lost node on its own, at most one part holds a diskful voter with
\* quorum, at whatever revision each node is.
NoSplitBrain ==
    \A G \in SUBSET (Replicas \ lost) :
        LET parts   == {G, (Replicas \ lost) \ G} \cup {{l} : l \in lost}
            quorate == {P \in parts : \E a \in P : HasQuorum(a, P)}
        IN  Cardinality(quorate) <= 1

\* Two nodes that both run as primary, and neither of which is on its way out, both allow
\* two primaries (guardSlotAvailable, CanAdmit and confirmMultiattach together).  A diskless
\* member whose Detach is unconfirmed is excepted: EnableMultiattach does not wait for it.
NoDualPrimary ==
    \A a, b \in {r \in Replicas \ lost : conf[r].pri /\ rv.at[r].plan # "Detach"} :
        a # b => conf[a].two /\ conf[b].two

\* The quorum published with a member list is the majority of its voters.
QuorumIsMajority == rv.q = Majority(voterCount(rv))

\* At most one transition touches voters or quorum at a time (CanAdmit).
VotingExclusive ==
    \A s \in {rv, mem} :
        /\ \A a, b \in votingMembershipTransitions(s) : a = b
        /\ hasQuorumTransition(s) => votingMembershipTransitions(s) = {}

\* A quorate voter never accepts writes on fewer copies than the baseline
\* published in rv.status guarantees.
BaselineHonoured ==
    \A r \in Members(rv) \ lost :
        conf[r].own = "D" /\ conf[r].q # 32 => conf[r].qmr > rv.base

\* A volume all of whose nodes are up keeps quorum on every attached member.
HealthyKeepsQuorum ==
    lost = {} => \A r \in rv.attached : conf[r].pri => ReplicaQuorum(r, Replicas)

\* A copy is given up only while enough others exist: when a patch demotes an UpToDate
\* voter, more UpToDate copies remain at that moment than the baseline promises
\* (guardGMDRPreserved is evaluated once, when the plan is created; VotingMembership
\* transitions are serialised until done).
CopiesAreKept ==
    [][\A r \in upToDateDiskful(rv) :
          lost = {} /\ rv'.type[r] \notin {"D", None} => upToDateDiskfulCount(rv)' > rv'.base]_vars

\* Nothing is in flight and every node that is up runs what is published.
AtRest ==
    /\ ~Active(rv.qt) /\ ~Active(rv.xt)
    /\ \A r \in Replicas : ~Active(rv.mt[r]) /\ ~Active(rv.at[r])
    /\ \A r \in Members(rv) \ lost : Exists(r) /\ Configured(rv, r)

\* A volume at rest survives as many further failures of any nodes as its effective
\* layout reports, whichever agents were ready when updateEffectiveLayout computed it:
\* some diskful voter among the nodes left keeps quorum.
EffectiveLayoutHonest ==
    AtRest /\ pc = "idle" =>
        LET up == Replicas \ lost
        IN  \A ready \in SUBSET up : canCompute(ready) =>
                \A F \in SUBSET up :
                    Cardinality(F) <= FailuresToTolerate(ready) =>
                        \E a \in up \ F : HasQuorum(a, up \ F)

\* "removes [the finalizer] from deleting RVRs when safe (not a datamesh member
\* and no RemoveReplica transition in progress)" (reconcileRVRFinalizers), as
\* seen from the published state whenever no reconcile is under way.  A member whose RVR is
\* let go has never run the volume: it was admitted from a request older than its deletion.
FinalizerHeldUntilLeft ==
    pc = "idle" =>
        \A r \in Replicas :
            rvrShouldNotExist(r) =>
                /\ r \in Members(rv) => rvr[r].rev = 0
                /\ Active(rv.mt[r]) => PlanOf(rv.mt[r]).type # "RemoveReplica"

\* "Backing volume is needed for all Diskful members, including liminal ones":
\* every voter is published with the volume group to put it in.
VotersHaveVolumeGroup == \A r \in Voters(rv) : rv.bv[r] # None

\* A joining voter whose request changed under the transition: its volume group
\* is still to be copied from a request that is gone, or was copied from one
\* that names none.
RequestChanged ==
    ~VotersHaveVolumeGroup \/ \E r \in Replicas : Active(rv.mt[r]) /\ RequestMissing(rv, r)

\* Every membership transition ends, as long as the requests the transitions read stay
\* what they were when the plan was chosen and no node is lost.
UndisturbedMembershipEnds ==
    \A r \in Replicas :
        Active(rv.mt[r]) ~> (~Active(rv.mt[r]) \/ RequestChanged \/ lost # {})

\* After emergencies the published quorum returns to the majority of the voters,
\* unless a lost member nobody has force-removed keeps a transition waiting.
QuorumRestored ==
    ~QuorumIsMajority ~> (QuorumIsMajority \/ Members(rv) \cap lost # {})

\* While nodes ask for the volume, one that asks for it gets it, and a member nobody
\* wants attached any more is detached, unless a device is kept open: by a node that no
\* longer asks, or by one that opened it while its Detach was decided, which is then
\* served again only after it closed it.
AttachmentServed ==
    /\ (rva \cap Members(rv) # {})
           ~> (rva \cap rv.attached # {} \/ rva \cap Members(rv) = {} \/ open # {})
    /\ \A r \in Replicas :
           (r \in rv.attached \ rva) ~> (r \notin rv.attached \ rva \/ r \in open)
============================================================================
