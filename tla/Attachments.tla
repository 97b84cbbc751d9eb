---------------------------- MODULE Attachments ----------------------------
(* Attaching one ReplicatedVolume (RV) to nodes, from the CSI call to the kernel and    *)
(* back.  Four parties share nothing but API objects.  The CSI driver creates the RV    *)
(* and one ReplicatedVolumeAttachment (RVA) per published node, waits for its Ready     *)
(* condition, and deletes it to unpublish.  The rv-controller loads the objects, creates*)
(* and deletes the diskless Access replicas (RVRs) that attachments need, computes the  *)
(* next datamesh in memory, writes the RVA conditions, then the RVA and RVR finalizers, *)
(* and publishes the datamesh last; every write but a Delete carries the version it     *)
(* loaded and fails the pass on a conflict.  The replicas report the revision they run. *)
(* Users may make RVAs by hand.                                                         *)
(*                                                                                      *)
(* The controller runs only when an event its predicates let through has queued the     *)
(* volume.  What the datamesh engine decides about voters, quorum and shared resources  *)
(* is in Datamesh; here it adds and removes Access members and sets attached flags.     *)
EXTENDS Naturals, FiniteSets

CONSTANTS
    Nodes,
    Scenarios       \* name -> [disk, elig, pref, on, local, max, formed, kinds, events]

\* A volume has a diskful replica.
ASSUME ScenariosAssumption ==
    \A name \in DOMAIN Scenarios :
       /\ Scenarios[name].disk \subseteq Nodes /\ Scenarios[name].disk # {}
       /\ Scenarios[name].events \in Nat

VARIABLES
    rv,             \* the ReplicatedVolume object
    old,            \* the version of it a lagging informer cache still holds
    rva, rvr,       \* the attachment objects by name, the replica objects by node
    pri, open,      \* nodes where DRBD is primary; nodes where the device is open
    call, vol,      \* the CSI calls in progress: per node, and for the volume
    queued,         \* the controller's work queue holds the volume
    pc, view, mem,  \* the controller's pass: objects it loaded, datamesh it computes
    budget          \* the scenario and how many more things happen

apis == <<rv, old, rva, rvr>>
kernel == <<pri, open>>
ctrl == <<pc, view, mem>>
vars == <<apis, kernel, call, vol, queued, ctrl, budget>>

None == "none"
Idle == [plan |-> None, rev |-> 0]
Active(t) == t.plan # None

Sc == Scenarios[budget.scenario]

\* One unit of the scenario's budget pays for something of the given kind.
Event(kind) ==
    /\ kind \in Sc.kinds /\ budget.left > 0
    /\ budget' = [budget EXCEPT !.left = @ - 1]

----------------------------------------------------------------------------
(* API objects. *)

\* An RVA name: the one CSI derives from the node, or one chosen by a user.
Names == Nodes \X {"csi", "user"}
NodeOf(x) == x[1]
OnNode(n) == {n} \X {"csi", "user"}

NoMesh == [rev |-> 0, type |-> [n \in Nodes |-> None], att |-> {}, multi |-> FALSE,
           at |-> [n \in Nodes |-> Idle], mt |-> [n \in Nodes |-> Idle], xt |-> Idle]

NoRV == [ex |-> FALSE, del |-> FALSE, csi |-> FALSE, ctl |-> FALSE, dm |-> NoMesh]
NewRV == [NoRV EXCEPT !.ex = TRUE, !.csi = TRUE]

NoStatus == [reason |-> None, ready |-> FALSE, use |-> FALSE]
NoRVA == [ex |-> FALSE, del |-> FALSE, csi |-> FALSE, ctl |-> FALSE, status |-> NoStatus]
NewRVA(csi) == [NoRVA EXCEPT !.ex = TRUE, !.csi = csi]

NoRVR == [ex |-> None, fin |-> FALSE, rev |-> 0, ready |-> FALSE, use |-> FALSE]
NewRVR == [NoRVR EXCEPT !.ex = "live", !.fin = TRUE]

\* The API server drops an object that is marked for deletion and has no finalizer left.
Kept(o, gone) == IF o.del /\ ~o.csi /\ ~o.ctl THEN gone ELSE o
Marked(o, gone) == Kept([o EXCEPT !.del = TRUE], gone)

\* A lagging cache can still answer with the version before the last write.
WriteRV(v) ==
    /\ rv' = v
    /\ old' = IF "Lag" \in Sc.kinds THEN rv ELSE old

\* The controllers of one process share the cache, and it never goes back.
Cached(v) == old' = IF "Lag" \in Sc.kinds THEN v ELSE old

\* The events that queue the volume.  An RV update counts when its metadata or spec
\* changed, not when its status did; an RVA update when its finalizers, its deletion mark
\* or the status of its Attached condition changed.
ObjectMeta(v) == [v EXCEPT !.dm = NoMesh]
rvPredicates == ObjectMeta(rv') # ObjectMeta(rv)
AttachedStatus(o) == o.status.reason = "Attached"
rvaPredicates ==
    \E x \in Names : \/ [rva'[x] EXCEPT !.status = NoStatus] # [rva[x] EXCEPT !.status = NoStatus]
                     \/ AttachedStatus(rva'[x]) # AttachedStatus(rva[x])

\* Defective variant: an update that only reports a revision does not count.
rvrPredicatesButRevision ==
    \E n \in Nodes : [rvr'[n] EXCEPT !.rev = 0] # [rvr[n] EXCEPT !.rev = 0]

rvrPredicates == rvr' # rvr
Wake(again) == queued' = (again \/ rvPredicates \/ rvaPredicates \/ rvrPredicates)

----------------------------------------------------------------------------
(* The datamesh engine, on the objects the pass loaded. *)

Formed(m) == m.rev > 0
Members(m) == {n \in Nodes : m.type[n] # None}
DiskMembers(m) == {n \in Nodes : m.type[n] = "D"}
potentiallyAttached(m) == m.att \cup {n \in Nodes : Active(m.at[n])}

HasRVR(n) == view.rvr[n].ex # None
Confirmed(n, k) == HasRVR(n) /\ view.rvr[n].rev >= k
LeavingOrGone(n) == HasRVR(n) => view.rvr[n].rev = 0

\* A node wants the volume while it has an RVA that is not being deleted.
hasActiveRVA(n) == \E x \in OnNode(n) : view.rva[x].ex /\ ~view.rva[x].del

AttachmentConfirmed(m, n) ==
    LET t == m.at[n] IN
    Active(t) /\ (Confirmed(n, t.rev) \/ (t.plan = "Detach" /\ LeavingOrGone(n)))

MembershipConfirmed(m, n) ==
    LET t == m.mt[n] IN
    /\ Active(t)
    /\ \A p \in DiskMembers(m) : Confirmed(p, t.rev)
    /\ t.plan = "Add" => Confirmed(n, t.rev)
    /\ t.plan = "Remove" => Confirmed(n, t.rev) \/ (HasRVR(n) /\ LeavingOrGone(n))

ToggleConfirmed(m) ==
    Active(m.xt) /\ \A p \in DiskMembers(m) \cup m.att : Confirmed(p, m.xt.rev)

\* Some transition's confirmations are in.
Settling(m) ==
    ToggleConfirmed(m) \/ \E n \in Nodes : AttachmentConfirmed(m, n) \/ MembershipConfirmed(m, n)

\* What the replica asks for: to join while it is not a member, to leave once it is
\* being deleted and has run the volume.  (The report of its addresses, which a join also
\* waits for, is taken as made.)
computeTargetDatameshRequest(n) ==
    CASE view.rvr[n].ex = "live" /\ view.rvr[n].rev = 0     -> "Join"
      [] view.rvr[n].ex = "deleting" /\ view.rvr[n].rev > 0 -> "Leave"
      [] OTHER                                              -> None

addAccess(m, n) ==
    /\ m.type[n] = None /\ ~Active(m.mt[n]) /\ computeTargetDatameshRequest(n) = "Join"
    /\ n \in Sc.elig /\ ~Sc.local /\ ~view.rv.del

removeAccess(m, n) ==
    /\ m.type[n] = "A" /\ ~Active(m.mt[n]) /\ computeTargetDatameshRequest(n) = "Leave"
    /\ n \notin potentiallyAttached(m)

\* Multiattach is wanted while two members' nodes want the volume and two may have it.
decideMultiattachToggle(m) ==
    Cardinality({n \in Members(m) : hasActiveRVA(n)}) > 1 /\ Sc.max > 1
enableMultiattach(m) == decideMultiattachToggle(m) /\ ~m.multi /\ ~Active(m.xt)
disableMultiattach(m) ==
    /\ ~decideMultiattachToggle(m) /\ m.multi /\ ~Active(m.xt)
    /\ Cardinality(potentiallyAttached(m)) <= 1

\* Beside another node that may be primary, attached flags change only under multiattach.
multiattachReady(m, n) == potentiallyAttached(m) \ {n} # {} => m.multi /\ ~Active(m.xt)

\* Why an Attach does not start: the first of the plan's guards that blocks, None if none.
AttachBlocked(m, n) ==
    IF view.rv.del THEN "Terminating"
    ELSE IF n \notin Sc.elig THEN "NodeNotEligible"
    ELSE IF ~HasRVR(n) \/ ~view.rvr[n].ready \/ m.type[n] = None \/ Active(m.mt[n])
         THEN "WaitingForReplica"
    ELSE IF \/ \A p \in DiskMembers(m) : ~view.rvr[p].ready
            \/ Cardinality(potentiallyAttached(m)) >= Sc.max
         THEN "Pending"
    ELSE IF Sc.local /\ m.type[n] # "D" THEN "NotLocal"
    ELSE IF ~multiattachReady(m, n) THEN "Attaching"
    ELSE None

\* Why a Detach does not start.
DetachBlocked(m, n) ==
    IF view.rvr[n].use THEN "Detaching"
    ELSE IF ~multiattachReady(m, n) THEN "Attaching"
    ELSE None

attach(m, n) ==
    hasActiveRVA(n) /\ n \notin m.att /\ ~Active(m.at[n]) /\ AttachBlocked(m, n) = None
detach(m, n) ==
    ~hasActiveRVA(n) /\ n \in m.att /\ ~Active(m.at[n]) /\ DetachBlocked(m, n) = None

\* Defective variant: an Attach counts before its node has confirmed it.
AttachmentConditionReasonEarly(m, n) ==
    IF n \in m.att
    THEN IF hasActiveRVA(n) THEN "Attached" ELSE DetachBlocked(m, n)
    ELSE IF Active(m.at[n]) THEN "Detaching"
    ELSE IF hasActiveRVA(n) THEN AttachBlocked(m, n)
    ELSE "Detached"

\* The reason of the Attached condition that the slot of node n ends up with.
AttachmentConditionReason(m, n) ==
    IF Active(m.at[n]) THEN IF m.at[n].plan = "Attach" THEN "Attaching" ELSE "Detaching"
    ELSE IF n \in m.att
         THEN IF hasActiveRVA(n) THEN "Attached" ELSE DetachBlocked(m, n)
    ELSE IF hasActiveRVA(n) THEN AttachBlocked(m, n)
    ELSE "Detached"

----------------------------------------------------------------------------
(* The controller's pass. *)

\* What a pass begins with.
Loaded(v) == [rv |-> v, rva |-> rva, rvr |-> rvr, dropped |-> {}, err |-> FALSE]
NoView == [rv |-> NoRV, rva |-> [x \in Names |-> NoRVA], rvr |-> [n \in Nodes |-> NoRVR],
           dropped |-> {}, err |-> FALSE]

\* The pass is over: an error, or a wish to come back, queues the volume again.
Ended(again) ==
    /\ pc' = "idle" /\ view' = NoView /\ mem' = NoMesh
    /\ Wake(queued \/ again)

rvShouldNotExist(v, m) ==
    /\ v.del /\ ~v.csi
    /\ Formed(m) => m.att = {} /\ \A n \in Nodes : m.at[n].plan # "Detach"

\* The volume has no members any more.
Cleared(m) == [m EXCEPT !.type = [n \in Nodes |-> None], !.att = {}]

SomeRVR(o) == \E n \in Nodes : o[n].ex # None

\* Defective variant: the finalizer goes as soon as the volume is being deleted.
WithFinalizerUntilDeleted(v) == [v EXCEPT !.ctl = ~v.del]

\* Our finalizer is on the volume while it should exist or has RVRs.
WithFinalizer(v) == [v EXCEPT !.ctl = ~v.del \/ SomeRVR(rvr)]

\* Load the volume, its RVAs and its RVRs, and decide what the pass is about; with the
\* finalizer as it should be.  An event the cache has not seen is still to come.
Begins(v) ==
    /\ pc' = IF Formed(v.dm) THEN "process" ELSE "form"
    /\ view' = Loaded(v) /\ mem' = v.dm
BeginWith(v) ==
    /\ pc = "idle" /\ queued /\ queued' = (ObjectMeta(v) # ObjectMeta(rv))
    /\ UNCHANGED <<rv, rva, rvr, kernel, call, vol>> /\ Cached(v)
    /\ \/ ~v.ex /\ pc' = "orphan" /\ view' = Loaded(v) /\ mem' = NoMesh
       \/ v.ex /\ rvShouldNotExist(v, v.dm) /\ pc' = "deletion" /\ view' = Loaded(v) /\ mem' = v.dm
       \/ v.ex /\ ~rvShouldNotExist(v, v.dm) /\ WithFinalizer(v) = v /\ Begins(v)

\* The finalizer is put on, or taken off, which ends the pass.
reconcileMetadata ==
    LET w == WithFinalizer(rv) IN
    /\ pc = "idle" /\ queued /\ queued' = TRUE
    /\ rv.ex /\ ~rvShouldNotExist(rv, rv.dm) /\ w # rv
    /\ WriteRV(Kept(w, NoRV))
    /\ IF w.ctl THEN Begins(w) ELSE UNCHANGED ctrl
    /\ UNCHANGED <<rva, rvr, kernel, call, vol, budget>>

\* The pass begins with the current volume, or with what a lagging cache holds; writing the
\* finalizer then fails.
Begin == BeginWith(rv) /\ UNCHANGED budget
BeginStale ==
    /\ old # rv /\ Event("Lag")
    /\ \/ BeginWith(old)
       \/ /\ pc = "idle" /\ queued
          /\ old.ex /\ ~rvShouldNotExist(old, old.dm) /\ WithFinalizer(old) # old
          /\ UNCHANGED <<apis, kernel, call, vol, queued, ctrl>>

\* An Access RVR for every node that wants the volume and has no RVR.
accessWanted(n) ==
    /\ hasActiveRVA(n) /\ ~HasRVR(n) /\ n \in Sc.elig
    /\ ~view.rv.del /\ ~Sc.local

reconcileCreateAccessReplicas ==
    /\ UNCHANGED <<rv, old, rva, kernel, call, vol, pc, mem, budget>>
    /\ pc = "process" /\ \E n \in Nodes : accessWanted(n)
    /\ rvr' = [n \in Nodes |-> IF accessWanted(n) THEN NewRVR ELSE rvr[n]]
    /\ view' = [view EXCEPT !.rvr = [n \in Nodes |-> IF accessWanted(n) THEN NewRVR ELSE @[n]]]
    /\ Wake(queued)

\* One step of the engine's computation on the working copy.
Computed(m) ==
    /\ pc = "process" /\ ~\E n \in Nodes : accessWanted(n)
    /\ mem' = m
    /\ UNCHANGED <<apis, kernel, call, vol, queued, pc, view, budget>>

SettleAttachment(n) ==
    AttachmentConfirmed(mem, n) /\ Computed([mem EXCEPT !.at[n] = Idle])
SettleMembership(n) ==
    MembershipConfirmed(mem, n) /\ Computed([mem EXCEPT !.mt[n] = Idle])
SettleToggle ==
    ToggleConfirmed(mem) /\ Computed([mem EXCEPT !.xt = Idle])

\* A new transition: its one step is applied under the next revision.
Begun(m, plan) == [plan |-> plan, rev |-> m.rev + 1]

DispatchMembership(n) ==
    /\ ~Settling(mem)
    /\ \/ /\ addAccess(mem, n)
          /\ Computed([mem EXCEPT !.rev = @ + 1, !.type[n] = "A", !.mt[n] = Begun(mem, "Add")])
       \/ /\ removeAccess(mem, n)
          /\ Computed([mem EXCEPT !.rev = @ + 1, !.type[n] = None, !.mt[n] = Begun(mem, "Remove")])

MembershipDue(m) == \E n \in Nodes : addAccess(m, n) \/ removeAccess(m, n)

DispatchToggle ==
    /\ ~Settling(mem) /\ ~MembershipDue(mem)
    /\ \/ /\ enableMultiattach(mem)
          /\ Computed([mem EXCEPT !.rev = @ + 1, !.multi = TRUE, !.xt = Begun(mem, "Enable")])
       \/ /\ disableMultiattach(mem)
          /\ Computed([mem EXCEPT !.rev = @ + 1, !.multi = FALSE, !.xt = Begun(mem, "Disable")])

ToggleDue(m) == enableMultiattach(m) \/ disableMultiattach(m)

\* Detach decisions come before attach decisions, and those by the age of the RVA.
DispatchAttachment(n) ==
    /\ ~Settling(mem) /\ ~MembershipDue(mem) /\ ~ToggleDue(mem)
    /\ \/ /\ detach(mem, n)
          /\ Computed([mem EXCEPT !.rev = @ + 1, !.att = @ \ {n}, !.at[n] = Begun(mem, "Detach")])
       \/ /\ attach(mem, n) /\ ~\E p \in Nodes : detach(mem, p)
          /\ Computed([mem EXCEPT !.rev = @ + 1, !.att = @ \cup {n}, !.at[n] = Begun(mem, "Attach")])

AttachmentDue(m) == \E n \in Nodes : attach(m, n) \/ detach(m, n)

\* Nothing is left to settle or to start.
Finalize ==
    /\ pc = "process" /\ ~\E n \in Nodes : accessWanted(n)
    /\ ~Settling(mem) /\ ~MembershipDue(mem) /\ ~ToggleDue(mem) /\ ~AttachmentDue(mem)
    /\ pc' = "conditions"
    /\ UNCHANGED <<apis, kernel, call, vol, queued, view, mem, budget>>

\* Writing RVAs one by one: what is due is written unless the RVA changed since it was
\* loaded; the loop stops at the first such conflict, so how far it got depends on the
\* order the RVAs are listed in.
Stale(x) == rva[x] # view.rva[x]
Written(due, conflicts, done) ==
    /\ done \subseteq {x \in due : ~Stale(x)}
    /\ conflicts = {} => done = {x \in due : ~Stale(x)}

\* The conditions of the RVAs after the engine ran, and while there is no datamesh.
rvaStatus(m) ==
    [x \in Names |->
        LET n == NodeOf(x)
            reason == AttachmentConditionReason(m, n) IN
        [reason |-> reason, use |-> view.rvr[n].use,
         ready |-> ~view.rva[x].del /\ HasRVR(n) /\ view.rvr[n].ready /\ reason = "Attached"]]
Waiting == [x \in Names |-> [reason |-> "WaitingForReplicatedVolume", use |-> FALSE, ready |-> FALSE]]

StatusDue(st) == {x \in Names : view.rva[x].ex /\ view.rva[x].status # st[x]}
StatusConflicts(st) == {x \in StatusDue(st) : rva[x].ex /\ Stale(x)}
WithStatus(o, st, done) ==
    [x \in Names |-> IF x \in done THEN [o[x] EXCEPT !.status = st[x]] ELSE o[x]]

\* Defective variant: an RVR is unused as soon as nobody wants the volume on its node.
accessUnusedAtOnce(n) ==
    /\ view.rvr[n].ex = "live" /\ n \notin Sc.disk
    /\ mem.mt[n].plan # "Add" /\ ~hasActiveRVA(n)

\* An Access RVR nobody needs: not attached, neither detaching nor joining, no active RVA.
accessUnused(n) ==
    /\ view.rvr[n].ex = "live" /\ n \notin Sc.disk
    /\ n \notin mem.att /\ mem.at[n].plan # "Detach" /\ mem.mt[n].plan # "Add"
    /\ ~hasActiveRVA(n)

\* Normal operation: the conditions, then the Access RVRs that are not needed any more.
Conditions ==
    LET st == rvaStatus(mem)
        unused == {n \in Nodes : accessUnused(n)} IN
    /\ UNCHANGED <<rv, old, kernel, call, vol, budget>>
    /\ pc = "conditions"
    /\ \E done \in SUBSET StatusDue(st) :
          /\ Written(StatusDue(st), StatusConflicts(st), done)
          /\ rva' = WithStatus(rva, st, done)
          /\ rvr' = [n \in Nodes |-> IF n \in unused /\ rvr[n].ex # None
                                     THEN [rvr[n] EXCEPT !.ex = "deleting"] ELSE rvr[n]]
          /\ IF StatusConflicts(st) # {} THEN Ended(TRUE)
             ELSE /\ pc' = "metadata" /\ UNCHANGED mem /\ Wake(queued)
                  /\ view' = [view EXCEPT !.rva = WithStatus(@, st, done), !.dropped = unused]

\* Formation, whose steps are in module Formation: the diskful RVRs are created first and
\* are the members once they are there.
reconcileFormation ==
    /\ UNCHANGED <<rv, old, kernel, call, vol, budget>>
    /\ pc = "form"
    /\ \E done \in SUBSET StatusDue(Waiting) :
          /\ Written(StatusDue(Waiting), StatusConflicts(Waiting), done)
          /\ rva' = WithStatus(rva, Waiting, done)
          /\ rvr' = [n \in Nodes |-> IF n \in Sc.disk /\ ~HasRVR(n) THEN NewRVR ELSE rvr[n]]
          /\ IF StatusConflicts(Waiting) # {} THEN Ended(TRUE)
             ELSE /\ pc' = "metadata" /\ Wake(queued)
                  /\ view' = [view EXCEPT !.rva = WithStatus(@, Waiting, done)]
                  /\ mem' = IF \A n \in Sc.disk : HasRVR(n)
                            THEN [NoMesh EXCEPT !.rev = 1,
                                     !.type = [n \in Nodes |-> IF n \in Sc.disk THEN "D" ELSE None]]
                            ELSE mem

\* The volume is gone: its RVAs wait for it to appear.
reconcileOrphaned ==
    /\ pc = "orphan"
    /\ \E done \in SUBSET StatusDue(Waiting) :
          /\ Written(StatusDue(Waiting), StatusConflicts(Waiting), done)
          /\ rva' = WithStatus(rva, Waiting, done)
          /\ view' = [view EXCEPT !.rva = WithStatus(@, Waiting, done),
                                  !.err = StatusConflicts(Waiting) # {}]
    /\ pc' = "metadata"
    /\ UNCHANGED <<rv, old, rvr, kernel, call, vol, mem, budget>>
    /\ Wake(queued)

\* The volume should not exist: its RVAs wait, its RVRs are deleted without their
\* finalizer, and its members are cleared; an error stops this but not the rest of the pass.
changedRVRs == {n \in Nodes : HasRVR(n) /\ view.rvr[n].fin /\ rvr[n].ex # None /\ rvr[n] # view.rvr[n]}
deletionFails == StatusConflicts(Waiting) # {} \/ changedRVRs # {}
clearsMembers == ~deletionFails /\ Members(mem) # {}
reconcileDeletion ==
    LET loaded == {n \in Nodes : HasRVR(n)} IN
    /\ pc = "deletion" /\ pc' = "purge"
    /\ UNCHANGED <<kernel, call, vol, mem, budget>>
    /\ IF clearsMembers /\ rv = view.rv THEN WriteRV([rv EXCEPT !.dm = Cleared(mem)])
                                        ELSE UNCHANGED <<rv, old>>
    /\ \E done \in SUBSET StatusDue(Waiting) :
          /\ Written(StatusDue(Waiting), StatusConflicts(Waiting), done)
          /\ rva' = WithStatus(rva, Waiting, done)
          /\ view' = [view EXCEPT !.rva = WithStatus(@, Waiting, done),
                                  !.err = deletionFails \/ (clearsMembers /\ rv # view.rv),
                                  !.rv = IF clearsMembers /\ rv = view.rv THEN rv' ELSE @]
    /\ \E gone \in SUBSET (loaded \ changedRVRs) :
          /\ StatusConflicts(Waiting) # {} => gone = {}
          /\ ~deletionFails => gone = loaded
          /\ rvr' = [n \in Nodes |-> IF n \in gone /\ rvr[n].ex # None
                                     THEN [rvr[n] EXCEPT !.ex = "deleting", !.fin = FALSE]
                                     ELSE rvr[n]]
    /\ Wake(queued)

\* Defective variant: a node being detached counts as detached.
isNodeAttached(m, n) == n \in m.att

\* The node is attached in m, or m is detaching it.
isNodeAttachedOrDetaching(m, n) ==
    n \in m.att \/ (m.at[n].plan = "Detach" /\ m.type[n] # None)
hasOtherNonDeletingRVAOnNode(x) ==
    \E y \in OnNode(NodeOf(x)) \ {x} : view.rva[y].ex /\ ~view.rva[y].del

\* Whether an RVA should carry the controller's finalizer: while it is not being deleted,
\* and after that until its node is detached or another RVA keeps the node attached.
finalizerWanted(m, x) ==
    \/ ~view.rva[x].del
    \/ /\ view.rva[x].ctl
       /\ ~hasOtherNonDeletingRVAOnNode(x) /\ isNodeAttachedOrDetaching(m, NodeOf(x))

MetadataDue(m) == {x \in Names : view.rva[x].ex /\ view.rva[x].ctl # finalizerWanted(m, x)}
MetadataConflicts(m) == {x \in MetadataDue(m) : Stale(x)}
reconcileRVAMetadata(m, done) ==
    /\ Written(MetadataDue(m), MetadataConflicts(m), done)
    /\ rva' = [x \in Names |-> IF x \in done
                               THEN Kept([rva[x] EXCEPT !.ctl = finalizerWanted(m, x)], NoRVA)
                               ELSE rva[x]]

\* The finalizers of the RVRs.  An RVR this pass deleted is written under the version it
\* was loaded with, which the deletion has made stale.
rvrDeleting(n) == view.rvr[n].ex = "deleting" \/ n \in view.dropped
rvrFinalizerWanted(n) ==
    ~rvrDeleting(n) \/ (view.rvr[n].fin /\ (mem.type[n] # None \/ mem.mt[n].plan = "Remove"))
RVRDue == {n \in Nodes : HasRVR(n) /\ view.rvr[n].fin # rvrFinalizerWanted(n)}
RVRConflicts == {n \in RVRDue : rvr[n] # view.rvr[n]}
reconcileRVRFinalizers(done) ==
    /\ done \subseteq RVRDue \ RVRConflicts
    /\ RVRConflicts = {} => done = RVRDue
    /\ rvr' = [n \in Nodes |-> IF n \in done THEN [rvr[n] EXCEPT !.fin = rvrFinalizerWanted(n)]
                                             ELSE rvr[n]]

Metadata ==
    /\ UNCHANGED <<rv, old, kernel, call, vol, budget>>
    /\ pc = "metadata"
    /\ \E done \in SUBSET MetadataDue(mem) : reconcileRVAMetadata(mem, done)
    /\ \E done \in SUBSET RVRDue : reconcileRVRFinalizers(done)
    /\ IF view.err \/ MetadataConflicts(mem) # {} \/ RVRConflicts # {} THEN Ended(TRUE)
       ELSE pc' = "publish" /\ UNCHANGED <<view, mem>> /\ Wake(queued)

\* The rest of a deletion: the finalizers of the RVAs, and the volume's once no RVR was left.
Purge ==
    LET drop == ~SomeRVR(view.rvr) /\ view.rv.ctl IN
    /\ UNCHANGED <<rvr, kernel, call, vol, budget>>
    /\ pc = "purge"
    /\ \E done \in SUBSET MetadataDue(mem) : reconcileRVAMetadata(mem, done)
    /\ IF drop /\ rv = view.rv THEN WriteRV(Kept([rv EXCEPT !.ctl = FALSE], NoRV))
                               ELSE UNCHANGED <<rv, old>>
    /\ Ended(view.err \/ MetadataConflicts(mem) # {} \/ (drop /\ rv # view.rv))

\* The computed datamesh is published; a volume that may now go is looked at again.
Publish ==
    LET same == mem = view.rv.dm IN
    /\ UNCHANGED <<rva, rvr, kernel, call, vol, budget>>
    /\ pc = "publish"
    /\ IF ~same /\ rv = view.rv THEN WriteRV([rv EXCEPT !.dm = mem]) ELSE UNCHANGED <<rv, old>>
    /\ Ended((~same /\ rv # view.rv) \/ rvShouldNotExist(view.rv, mem))

\* The controller is restarted and reconciles every volume.
Crash ==
    /\ UNCHANGED <<apis, kernel, call, vol>>
    /\ pc # "idle" /\ Event("Crash") /\ Ended(TRUE)

----------------------------------------------------------------------------
(* The nodes. *)

\* The replica follows the published volume and reports: a member promotes where it is
\* attached, everybody else demotes unless the device is open, and the revision is
\* reported once that is done.
Report(n) ==
    LET member == rv.dm.type[n] # None
        want == n \in rv.dm.att
        up == want \/ (n \in pri /\ n \in open) IN
    /\ UNCHANGED <<rv, rva, open, call, vol, ctrl, budget>>
    /\ rvr[n].ex = "live" \/ (rvr[n].ex = "deleting" /\ rvr[n].fin)
    /\ Cached(rv)
    /\ pri' = IF up THEN pri \cup {n} ELSE pri \ {n}
    /\ rvr' = [rvr EXCEPT ![n].ready = member, ![n].use = n \in open,
                          ![n].rev = IF up # want THEN @ ELSE IF member THEN rv.dm.rev ELSE 0]
    /\ rvr' # rvr \/ pri' # pri
    /\ Wake(queued)

\* An RVR nobody holds any more is torn down and its object goes.
Teardown(n) ==
    /\ UNCHANGED <<rv, old, rva, open, call, vol, ctrl, budget>>
    /\ rvr[n].ex = "deleting" /\ ~rvr[n].fin /\ n \notin open
    /\ rvr' = [rvr EXCEPT ![n] = NoRVR] /\ pri' = pri \ {n}
    /\ Wake(queued)

\* The kubelet stages the device of a published volume, and unstages it.
Stage(n) ==
    /\ "Stage" \in Sc.kinds /\ call[n] = "attached" /\ n \in pri /\ n \notin open
    /\ open' = open \cup {n}
    /\ UNCHANGED <<apis, pri, call, vol, queued, ctrl, budget>>
Unstage(n) ==
    /\ n \in open
    /\ open' = open \ {n}
    /\ UNCHANGED <<apis, pri, call, vol, queued, ctrl, budget>>

----------------------------------------------------------------------------
(* The CSI driver.  A call ends with success, or with an error after which the caller    *)
(* knows nothing ("unknown") and tries again or undoes it.                               *)

Csi(n) == <<n, "csi">>

\* A step of the call for node n that leaves the API objects other than its RVA alone.
Step(n, from, to, o) ==
    /\ call[n] = from /\ call' = [call EXCEPT ![n] = to]
    /\ rva' = [rva EXCEPT ![Csi(n)] = o]
    /\ UNCHANGED <<rv, old, rvr, kernel, vol, ctrl>>

\* The attacher calls for a volume that was provisioned.
ControllerPublishVolume(n) ==
    /\ vol = "ready" /\ n \in Sc.on /\ Event("Publish")
    /\ \E from \in {"detached", "unknown"} : Step(n, from, "ensure", rva[Csi(n)])
    /\ UNCHANGED queued

EnsureRVA(n) ==
    LET o == rva[Csi(n)] IN
    /\ \/ o.ex /\ ~o.del /\ Step(n, "ensure", "ready", [o EXCEPT !.csi = TRUE])
       \/ o.ex /\ o.del /\ Step(n, "ensure", "stale", o)
       \/ ~o.ex /\ Step(n, "ensure", "create", o)
       \/ ~o.ex /\ Step(n, "stale", "create", o)
    /\ UNCHANGED budget /\ Wake(queued)

\* An RVA that exists by now is as good as a created one.
createRVA(n) ==
    /\ Step(n, "create", "ready", IF rva[Csi(n)].ex THEN rva[Csi(n)] ELSE NewRVA(TRUE))
    /\ UNCHANGED budget /\ Wake(queued)

WaitForRVAReady(n) ==
    LET o == rva[Csi(n)] IN
    /\ o.ex /\ (o.status.ready \/ o.status.reason = "NotLocal")
    /\ Step(n, "ready", IF o.status.ready THEN "attached" ELSE "unknown", o)
    /\ UNCHANGED <<queued, budget>>

ControllerUnpublishVolume(n) ==
    /\ Event("Unpublish")
    /\ \E from \in {"attached", "unknown"} : Step(n, from, "delete", rva[Csi(n)])
    /\ UNCHANGED queued

\* An attachment in use is refused; otherwise our finalizer goes first, then the object.
DeleteRVA(n) ==
    LET o == rva[Csi(n)] IN
    /\ \/ ~o.ex /\ Step(n, "delete", "gone", o)
       \/ o.ex /\ o.status.use /\ Step(n, "delete", "unknown", o)
       \/ o.ex /\ ~o.status.use /\ Step(n, "delete", "remove", Kept([o EXCEPT !.csi = FALSE], NoRVA))
       \/ Step(n, "remove", "gone", IF o.ex THEN Marked(o, NoRVA) ELSE o)
    /\ UNCHANGED budget /\ Wake(queued)

WaitForRVADeleted(n) ==
    /\ ~rva[Csi(n)].ex /\ Step(n, "gone", "detached", rva[Csi(n)])
    /\ UNCHANGED <<queued, budget>>

\* A deadline passes, an API request fails, or the driver is restarted.
CallFails(n) ==
    /\ Event("Fail")
    /\ \E from \in {"ensure", "stale", "create", "ready", "delete", "remove", "gone"} :
          Step(n, from, "unknown", rva[Csi(n)])
    /\ UNCHANGED queued

\* A step of the call for the volume.
VolStep(from, to) ==
    /\ vol = from /\ vol' = to
    /\ UNCHANGED <<rvr, kernel, call, ctrl>>

CreateVolume ==
    /\ Event("CreateVolume") /\ VolStep("none", IF Sc.pref = {} THEN "create" ELSE "early")
    /\ UNCHANGED <<rv, old, rva, queued>>

\* With late binding the volume is attached to the chosen node before it exists.
EarlyRVA(n) ==
    LET o == rva[Csi(n)] IN
    /\ n \in Sc.pref /\ VolStep("early", "create")
    /\ o.ex => ~o.del
    /\ rva' = [rva EXCEPT ![Csi(n)] = IF o.ex THEN [o EXCEPT !.csi = TRUE] ELSE NewRVA(TRUE)]
    /\ UNCHANGED <<rv, old, budget>> /\ Wake(queued)

\* Undoing it, as far as it goes.
cleanupEarlyRVA ==
    rva' = [x \in Names |->
               IF x \in {Csi(n) : n \in Sc.pref} /\ rva[x].ex /\ ~rva[x].status.use
               THEN Marked([rva[x] EXCEPT !.csi = FALSE], NoRVA) ELSE rva[x]]

CreateReplicatedVolume ==
    /\ \/ ~rv.ex /\ VolStep("create", "wait") /\ WriteRV(NewRV) /\ UNCHANGED rva
       \/ rv.ex /\ rv.del /\ VolStep("create", "none") /\ cleanupEarlyRVA /\ UNCHANGED <<rv, old>>
       \/ /\ rv.ex /\ ~rv.del /\ VolStep("create", IF Formed(rv.dm) THEN "ready" ELSE "wait")
          /\ UNCHANGED <<rv, old, rva>>
    /\ UNCHANGED budget /\ Wake(queued)

WaitForReplicatedVolumeReady ==
    /\ \/ rv.ex /\ ~rv.del /\ Formed(rv.dm) /\ VolStep("wait", "ready")
       \/ (~rv.ex \/ rv.del) /\ VolStep("wait", "observe")
    /\ UNCHANGED <<rv, old, rva, queued, budget>>

\* The wait failed: a volume that has formed after all is kept, any other is removed.
ObserveVolume ==
    /\ \/ /\ rv.ex /\ ~rv.del /\ Formed(rv.dm) /\ VolStep("observe", "ready")
          /\ UNCHANGED <<rv, old, rva>>
       \/ /\ rv.ex /\ ~rv.del /\ ~Formed(rv.dm) /\ VolStep("observe", "discard")
          /\ cleanupEarlyRVA /\ UNCHANGED <<rv, old>>
       \/ /\ ~rv.ex \/ rv.del
          /\ VolStep("observe", "none") /\ cleanupEarlyRVA /\ UNCHANGED <<rv, old>>
    /\ UNCHANGED budget /\ Wake(queued)

DeleteVolume ==
    /\ Event("DeleteVolume")
    /\ VolStep("ready", IF \E x \in Names : rva[x].ex THEN "ready" ELSE "strip")
    /\ UNCHANGED <<rv, old, rva, queued>>

\* The finalizer first, then the object; "discard" does the same after a failed create.
DeleteReplicatedVolume ==
    /\ \/ rv.ex /\ \E f \in {<<"strip", "drop">>, <<"discard", "discarding">>} :
             VolStep(f[1], f[2]) /\ WriteRV(Kept([rv EXCEPT !.csi = FALSE], NoRV))
       \/ rv.ex /\ \E f \in {<<"drop", "left">>, <<"discarding", "none">>} :
             VolStep(f[1], f[2]) /\ WriteRV(Marked(rv, NoRV))
       \/ ~rv.ex /\ \E f \in {<<"strip", "left">>, <<"drop", "left">>, <<"discard", "none">>,
                              <<"discarding", "none">>} :
             VolStep(f[1], f[2]) /\ UNCHANGED <<rv, old>>
    /\ UNCHANGED <<rva, budget>> /\ Wake(queued)

WaitForReplicatedVolumeDeleted ==
    /\ ~rv.ex /\ VolStep("left", "none")
    /\ UNCHANGED <<rv, old, rva, queued, budget>>

\* A create that fails before the volume is there is undone, unless the driver stops; a
\* delete is tried again.
VolumeCallFails ==
    /\ Event("Fail")
    /\ \/ VolStep("early", "none") /\ UNCHANGED rva
       \/ \E from \in {"create", "observe"} : VolStep(from, "none") /\ cleanupEarlyRVA
       \/ VolStep("wait", "observe") /\ UNCHANGED rva
       \/ \E from \in {"strip", "drop", "left"} : VolStep(from, "ready") /\ UNCHANGED rva
       \/ \E from \in {"wait", "discard", "discarding"} : VolStep(from, "none") /\ UNCHANGED rva
    /\ UNCHANGED <<rv, old>> /\ Wake(queued)

\* Somebody creates an RVA by hand, or deletes one they made.
UserCreate(n) ==
    /\ UNCHANGED <<rv, old, rvr, kernel, call, vol, ctrl>>
    /\ n \in Sc.on /\ Event("UserCreate") /\ ~rva[<<n, "user">>].ex
    /\ rva' = [rva EXCEPT ![<<n, "user">>] = NewRVA(FALSE)] /\ Wake(queued)
UserDelete(n) ==
    /\ UNCHANGED <<rv, old, rvr, kernel, call, vol, ctrl>>
    /\ Event("UserDelete") /\ rva[<<n, "user">>].ex /\ ~rva[<<n, "user">>].del
    /\ rva' = [rva EXCEPT ![<<n, "user">>] = Marked(@, NoRVA)] /\ Wake(queued)

\* Somebody deletes a volume that has replicas, without asking CSI.
UserDeleteVolume ==
    /\ Event("UserDeleteVolume") /\ rv.ex /\ ~rv.del /\ SomeRVR(rvr)
    /\ WriteRV(Marked(rv, NoRV))
    /\ UNCHANGED <<rva, rvr, kernel, call, vol, ctrl>> /\ Wake(queued)

----------------------------------------------------------------------------
(* The whole. *)

\* Nothing exists yet, or a volume was provisioned and has formed on its diskful nodes.
FormedMesh(s) ==
    [NoMesh EXCEPT !.rev = 1, !.type = [n \in Nodes |-> IF n \in s.disk THEN "D" ELSE None]]
Init ==
    \E name \in DOMAIN Scenarios :
       LET s == Scenarios[name] IN
       /\ budget = [scenario |-> name, left |-> s.events]
       /\ rv = IF s.formed THEN [NewRV EXCEPT !.ctl = TRUE, !.dm = FormedMesh(s)] ELSE NoRV
       /\ old = rv
       /\ rva = [x \in Names |-> NoRVA]
       /\ rvr = [n \in Nodes |-> IF s.formed /\ n \in s.disk
                                 THEN [NewRVR EXCEPT !.rev = 1, !.ready = TRUE] ELSE NoRVR]
       /\ pri = {} /\ open = {}
       /\ call = [n \in Nodes |-> "detached"]
       /\ vol = IF s.formed THEN "ready" ELSE "none"
       /\ queued = FALSE
       /\ pc = "idle" /\ view = NoView /\ mem = NoMesh

\* The pass, without restarts and stale caches.
Controller ==
    \/ Begin \/ reconcileMetadata \/ reconcileCreateAccessReplicas \/ SettleToggle \/ DispatchToggle \/ Finalize
    \/ \E n \in Nodes : \/ SettleAttachment(n) \/ SettleMembership(n)
                        \/ DispatchMembership(n) \/ DispatchAttachment(n)
    \/ Conditions \/ reconcileFormation \/ reconcileOrphaned \/ reconcileDeletion
    \/ Metadata \/ Purge \/ Publish

\* A call in progress goes on.
CsiNode(n) ==
    EnsureRVA(n) \/ createRVA(n) \/ WaitForRVAReady(n) \/ DeleteRVA(n) \/ WaitForRVADeleted(n)
CsiVolume ==
    \/ \E n \in Nodes : EarlyRVA(n)
    \/ CreateReplicatedVolume \/ WaitForReplicatedVolumeReady \/ ObserveVolume
    \/ DeleteReplicatedVolume \/ WaitForReplicatedVolumeDeleted

\* What callers, users and failures do.
Outside ==
    \/ BeginStale \/ Crash
    \/ \E n \in Nodes : \/ ControllerPublishVolume(n) \/ ControllerUnpublishVolume(n)
                        \/ CallFails(n) \/ UserCreate(n) \/ UserDelete(n)
                        \/ Stage(n) \/ Unstage(n)
    \/ CreateVolume \/ DeleteVolume \/ VolumeCallFails \/ UserDeleteVolume

Next ==
    \/ Controller \/ CsiVolume \/ Outside
    \/ \E n \in Nodes : Report(n) \/ Teardown(n) \/ CsiNode(n)

Fairness ==
    /\ WF_vars(Controller) /\ WF_vars(CsiVolume)
    /\ \A n \in Nodes : WF_vars(Report(n) \/ Teardown(n)) /\ WF_vars(CsiNode(n))

Spec == Init /\ [][Next]_vars
FairSpec == Spec /\ Fairness

----------------------------------------------------------------------------
(* Properties. *)

\* The scenario has no stale cache and no RVA made by hand.  Where it has, the controller's
\* finalizer can leave an RVA whose node is attached: with a second RVA on the node that is
\* deleted during the pass, or on the word of an RV read before the Attach was published.
Undisturbed == Sc.kinds \cap {"Lag", "UserCreate"} = {}

NoRVAOn(n) == \A x \in OnNode(n) : ~rva[x].ex

\* ControllerUnpublishVolume returns when the RVA is gone; the scheduler may then attach the
\* volume elsewhere.  So an RVA is gone only when its node is neither primary nor attached:
\* reconcileRVAMetadata holds its finalizer through the whole Detach.
UnpublishedIsDetached ==
    Undisturbed => \A n \in Nodes : NoRVAOn(n) => n \notin pri /\ n \notin rv.dm.att

\* ControllerPublishVolume succeeded and nobody unpublished since: the node is attached and
\* DRBD is primary there, although WaitForRVAReady only saw a condition that the controller
\* wrote before it published the datamesh, from replicas it had loaded earlier.
PublishedIsAttached == \A n \in Nodes : call[n] = "attached" => n \in pri /\ n \in rv.dm.att

\* WaitForReplicatedVolumeDeleted returns when the RV is gone: its finalizer stayed until no
\* replica was left, so nothing of the volume is on a node any more.
VolumeGoneIsClean == ~rv.ex => pri = {} /\ \A n \in Nodes : rvr[n].ex = None

\* "Hard invariant: do not delete attached replicas": reconcileDeleteAccessReplicas, which
\* decides on the computed datamesh, never deletes a replica that is attached or primary.
AttachedReplicaKept ==
    [][Undisturbed => \A n \in Nodes :
          rvr[n].ex = "live" /\ rvr'[n].ex # "live" => n \notin pri /\ n \notin rv.dm.att]_vars

WantedOn(n) == \E x \in OnNode(n) : rva[x].ex /\ ~rva[x].del

\* The volume can be attached on n: nothing else is in the way, and no device is held open
\* on a node that should let go of it.
Serviceable(n) ==
    /\ rv.ex /\ ~rv.del /\ Formed(rv.dm) /\ n \in Sc.elig /\ (Sc.local => n \in Sc.disk)
    /\ Cardinality({p \in Nodes : WantedOn(p)} \cup rv.dm.att) <= Sc.max
    /\ \A p \in open : WantedOn(p) /\ p \in rv.dm.att

Settled ==
    /\ \A x \in Names : rva[x].ex /\ rva[x].del /\ ~rva[x].csi => NodeOf(x) \in open
    /\ \A x \in Names : rva[x].ex /\ ~rva[x].del /\ Serviceable(NodeOf(x)) => rva[x].status.ready
    /\ \A n \in Nodes \ Sc.disk : rvr[n].ex # None => WantedOn(n) \/ n \in open
    /\ rv.ex /\ rv.del /\ ~rv.csi => rv.dm.att \cup open # {}

\* Once callers are quiet, everything asked for happens although the controller sleeps until
\* an event its predicates let through: attachments that are deleted go, those that can be
\* served are Ready, Access replicas nobody needs go, and so does a deleted volume.
AttachmentsSettle == <>[]Settled
============================================================================
