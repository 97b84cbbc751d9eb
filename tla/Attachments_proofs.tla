------------------------- MODULE Attachments_proofs -------------------------
(***************************************************************************)
(* An attachment that is gone has left its node, an attached replica is    *)
(* not deleted and a volume that is gone has left nothing behind, for      *)
(* every set of nodes and every scenario without stale caches and RVAs     *)
(* made by hand.                                                           *)
(***************************************************************************)
EXTENDS AttachmentInvariant_proofs

\* The obligations are small and their context is large: give the provers time to read it.
USE SMTT(30), ZenonT(20)

----------------------------------------------------------------------------
(* The invariant is kept while the pass starts transitions, creates Access *)
(* replicas, writes conditions and forms the volume                        *)

\* A replica that may be attached runs, as a member, and nobody is deleting it: a deleted
\* Access replica leaves before anything is attached, a deleted diskful one means that the
\* volume is being deleted.
LEMMA AttachableRuns ==
    ASSUME TypeOK, AttInv, pc = "process", NEW n \in Nodes, attach(mem, n), ~MembershipDue(mem)
    PROVE  rvr[n].ex = "live" /\ rvr[n].rev > 0 /\ rv.dm.type[n] # None /\ HasRVR(n)
           /\ mem.type[n] # None
<1>1. /\ n \notin mem.att /\ ~Active(mem.at[n]) /\ ~view.rv.del
      /\ HasRVR(n) /\ view.rvr[n].ready /\ mem.type[n] # None /\ ~Active(mem.mt[n])
  BY DEF attach, AttachBlocked, None
<1>2. view.rvr[n].rev > 0
  BY Zenon, <1>1, EngineFacts
<1>3. rv.dm.type[n] # None
  BY <1>1, EngineFacts, Zenon DEF Joined, Active, None
<1>4. view.rvr[n].ex = "live"
  <2> SUFFICES ASSUME view.rvr[n].ex = "deleting" PROVE FALSE
    BY <1>1, EngineFacts, Zenon DEF HasRVR
  <2>1. n \notin Sc.disk
    BY Zenon, <1>1, EngineFacts
  <2>2. mem.type[n] = "A"
    BY <1>1, <2>1, EngineFacts, Zenon DEF MeshOK, Mesh
  <2>3. computeTargetDatameshRequest(n) = "Leave"
    BY <1>2 DEF computeTargetDatameshRequest
  <2>4. removeAccess(mem, n)
    BY <1>1, <2>2, <2>3 DEF removeAccess, potentiallyAttached
  <2> QED BY <2>4 DEF MembershipDue
<1>5. rvr[n].ex = "live"
  BY Zenon, <1>4, EngineFacts
<1>6. view.rvr[n].rev <= rvr[n].rev
  BY <1>3, <1>5, EngineFacts, Zenon DEF None
<1>7. rvr[n].rev > 0
  BY <1>2, <1>6, EngineFacts
<1> QED BY Zenon, <1>1, <1>3, <1>5, <1>7

\* Starting a transition keeps the invariant.
LEMMA DispatchKeeps ==
    ASSUME TypeOK, AttInv, NEW n \in Nodes,
           DispatchMembership(n) \/ DispatchToggle \/ DispatchAttachment(n)
    PROVE  AttInv'
<1>0. /\ pc = "process" /\ pc' \in {"process", "conditions"} /\ Sc' = Sc
      /\ UNCHANGED <<rv, rva, rvr, pri, vol, view>>
      /\ InUse(n)' <=> InUse(n)
      /\ hasActiveRVA(n)' <=> hasActiveRVA(n)
      /\ HasRVR(n)' <=> HasRVR(n)
  BY EngineFrame, Zenon
<1>1. \A plan : Begun(mem, plan).plan = plan /\ Begun(mem, plan).rev = mem.rev + 1
  BY DEF Begun
<1>2. /\ Fine(n) /\ mem.rev \in Nat /\ rv.dm.rev \in Nat /\ mem.rev >= rv.dm.rev
      /\ mem.at[n].rev \in Nat /\ mem.mt[n].rev \in Nat
  BY <1>0, NodeFacts, Zenon
<1>3. mem \in Mesh /\ DOMAIN mem.at = Nodes /\ DOMAIN mem.mt = Nodes /\ DOMAIN mem.type = Nodes
  BY Zenon DEF TypeOK, PassType, Mesh
<1>4. /\ mem.at[n].rev <= mem.rev + 1 /\ mem.mt[n].rev <= mem.rev + 1
      /\ mem.rev + 1 > rv.dm.rev /\ mem.rev + 1 <= mem.rev + 1
  <2>1. mem.at[n].rev <= mem.rev /\ mem.mt[n].rev <= mem.rev
    BY <1>2, Zenon DEF Fine, NodeOK
  <2> QED BY <1>2, <2>1
<1>5. None # "D" /\ None # "Detach" /\ None # "A" /\ None # "Add"
  BY DEF None
<1>6. CASE DispatchMembership(n)
  <2>1. /\ mem'.rev = mem.rev + 1 /\ mem'.att = mem.att /\ mem'.at = mem.at
        /\ \A m \in Nodes \ {n} : mem'.type[m] = mem.type[m] /\ mem'.mt[m] = mem.mt[m]
    BY Zenon, <1>3, <1>6, MembershipEffect
  <2>2. CASE addAccess(mem, n) /\ mem'.type[n] = "A" /\ mem'.mt[n] = Begun(mem, "Add")
    <3>1. NodeOK(mem, n)'
      BY <1>0, <1>1, <1>2, <1>4, <1>5, <2>1, <2>2, Zenon DEF Fine, NodeOK
    <3>2. Released(n)' /\ Taken(n)'
      BY <1>0, <1>2, <1>5, <2>1, <2>2, Zenon DEF Fine, Released, Taken
    <3>3. Joined(n)'
      BY <1>0, <1>1, <1>4, <2>2, Zenon DEF Joined
    <3>4. \A m \in Nodes : Untouched(m) \/ Fine(m)'
      BY <2>1, <3>1, <3>2, <3>3, Zenon DEF Untouched, Fine
    <3> QED BY <1>0, <2>1, <3>4, EngineKeeps, Zenon
  <2>3. CASE removeAccess(mem, n) /\ mem'.type[n] = None /\ mem'.mt[n] = Begun(mem, "Remove")
    <3>0. n \notin mem.att /\ mem.at[n].plan = None
      BY <2>3, Zenon DEF removeAccess, potentiallyAttached, Active
    <3>1. NodeOK(mem, n)'
      BY <1>0, <1>1, <1>2, <1>4, <1>5, <2>1, <2>3, <3>0, Zenon DEF Fine, NodeOK
    <3>2. Released(n)' /\ Taken(n)'
      BY <1>0, <1>2, <1>5, <2>1, <2>3, <3>0, Zenon DEF Fine, Released, Taken
    <3>3. Joined(n)'
      BY <1>0, <2>3, Zenon DEF Joined
    <3>4. \A m \in Nodes : Untouched(m) \/ Fine(m)'
      BY <2>1, <3>1, <3>2, <3>3, Zenon DEF Untouched, Fine
    <3> QED BY <1>0, <2>1, <3>4, EngineKeeps, Zenon
  <2> QED BY Zenon, <1>3, <1>6, <2>2, <2>3, MembershipEffect
<1>7. CASE DispatchToggle
  <2>1. /\ mem'.rev = mem.rev + 1 /\ mem'.att = mem.att /\ mem'.at = mem.at
        /\ mem'.type = mem.type /\ mem'.mt = mem.mt
    BY <1>3, <1>7, ToggleEffect
  <2>2. \A m \in Nodes : Untouched(m)
    BY <2>1, Zenon DEF Untouched
  <2> QED BY <1>0, <2>1, <2>2, EngineKeeps, Zenon
<1>8. CASE DispatchAttachment(n)
  <2>1. /\ mem'.rev = mem.rev + 1 /\ mem'.type = mem.type /\ mem'.mt = mem.mt
        /\ \A m \in Nodes \ {n} : mem'.at[m] = mem.at[m] /\ (m \in mem'.att <=> m \in mem.att)
    BY Zenon, <1>3, <1>8, AttachmentEffect
  <2>2. CASE detach(mem, n) /\ n \notin mem'.att /\ mem'.at[n] = Begun(mem, "Detach")
    <3>0. mem.type[n] # None
      BY <1>2, <2>2, Zenon DEF detach, Fine, NodeOK
    <3>1. NodeOK(mem, n)'
      BY <1>0, <1>1, <1>2, <1>4, <2>1, <2>2, Zenon DEF Fine, NodeOK
    <3>2. Released(n)'
      <4>1. mem'.at[n].plan = "Detach" /\ mem'.at[n].rev = mem.rev + 1
        BY <1>1, <2>2, Zenon
      <4>2. mem'.at[n].rev > rv'.dm.rev
        BY <1>0, <1>4, <4>1
      <4>3. mem'.type[n] # None
        BY <2>1, <3>0, Zenon
      <4> QED BY <4>1, <4>2, <4>3, Zenon DEF Released
    <3>5. Taken(n)'
      BY <2>2, Zenon DEF Taken
    <3>3. Joined(n)'
      BY <1>0, <1>2, <2>1, Zenon DEF Fine, Joined
    <3>4. \A m \in Nodes : Untouched(m) \/ Fine(m)'
      BY <2>1, <3>1, <3>2, <3>3, <3>5, Zenon DEF Untouched, Fine
    <3> QED BY <1>0, <2>1, <3>4, EngineKeeps, Zenon
  <2>3. CASE attach(mem, n) /\ n \in mem'.att /\ mem'.at[n] = Begun(mem, "Attach")
    <3>0. /\ rvr[n].ex = "live" /\ rvr[n].rev > 0 /\ rv.dm.type[n] # None /\ HasRVR(n)
          /\ mem.type[n] # None /\ hasActiveRVA(n)
      <4>1. ~MembershipDue(mem)
        BY Zenon, <1>3, <1>8, AttachmentEffect
      <4> QED BY <1>0, <2>3, <4>1, AttachableRuns, Zenon DEF attach
    <3>5. mem'.at[n].plan = "Attach" /\ mem'.at[n].rev = mem'.rev /\ "Attach" # "Detach"
      BY <1>1, <2>1, <2>3, Zenon
    <3>1. NodeOK(mem, n)'
      BY <1>0, <1>2, <1>4, <2>1, <2>3, <3>0, <3>5, Zenon DEF Fine, NodeOK
    <3>2. Released(n)' /\ Taken(n)'
      BY <1>0, <1>1, <2>3, <3>0, Zenon DEF Released, Taken
    <3>3. Joined(n)'
      BY <1>0, <1>2, <2>1, Zenon DEF Fine, Joined
    <3>4. \A m \in Nodes : Untouched(m) \/ Fine(m)'
      BY <2>1, <3>1, <3>2, <3>3, Zenon DEF Untouched, Fine
    <3> QED BY <1>0, <2>1, <3>4, EngineKeeps, Zenon
  <2> QED BY Zenon, <1>3, <1>8, <2>2, <2>3, AttachmentEffect
<1> QED BY <1>6, <1>7, <1>8

\* What a pass loaded.
LEMMA PassLoaded ==
    ASSUME AttInv, pc # "idle"
    PROVE  \A n \in Nodes : /\ ~view.rva[<<n, "user">>].ex
                            /\ view.rvr[n].ex = None => view.rvr[n] = NoRVR
BY Zenon DEF AttInv, ViewInv, HasRVR

\* New Access replicas are made where nothing is attached.
LEMMA CreateKeeps ==
    ASSUME TypeOK, AttInv, reconcileCreateAccessReplicas
    PROVE  AttInv'
<1>0. /\ UNCHANGED <<rv, rva, pri, vol, pc, mem, budget>> /\ Sc' = Sc /\ pc = "process"
      /\ rvr' = [n \in Nodes |-> IF accessWanted(n) THEN NewRVR ELSE rvr[n]]
      /\ view' = [view EXCEPT !.rvr = [n \in Nodes |-> IF accessWanted(n) THEN NewRVR ELSE @[n]]]
  BY DEF reconcileCreateAccessReplicas, kernel, Sc
<1>1. /\ view'.rv = view.rv /\ view'.rva = view.rva
      /\ \A n \in Nodes : /\ rvr'[n] = IF accessWanted(n) THEN NewRVR ELSE rvr[n]
                          /\ view'.rvr[n] = IF accessWanted(n) THEN NewRVR ELSE view.rvr[n]
  BY <1>0 DEF TypeOK, PassType, View
<1>2. NewRVR.ex = "live" /\ NewRVR.rev = 0 /\ ~NewRVR.ready /\ "live" # None /\ "live" # "deleting"
  BY DEF NewRVR, NoRVR, None
<1>3. \A n \in Nodes : accessWanted(n) => ~HasRVR(n) /\ ~InUse(n) /\ n \notin mem.att
  BY <1>0, EngineFacts DEF accessWanted, Taken
<1>4. rv.ex /\ rv.ctl /\ Formed(rv.dm) /\ view.rv.ex /\ rv.dm.rev \in Nat
  BY <1>0 DEF AttInv, LoadedInv, Normal, TypeOK, ApiType, RV, Mesh
<1>5. SomeRVR(rvr) => SomeRVR(rvr)'
  BY <1>1, <1>2 DEF SomeRVR
<1>6. MeshOK(rv.dm)' /\ VolumeInv'
  <2>1. MeshOK(rv.dm)'
    BY <1>0 DEF AttInv, StaticInv, MeshOK, Formed, Members, NoMesh
  <2>2. VolumeInv'
    BY <1>0, <1>1, <1>2, <1>4, <1>5, Disks DEF AttInv, StaticInv, VolumeInv, TypeOK
  <2> QED BY <2>1, <2>2
<1>7. ObjectInv' /\ UseInv'
  BY <1>0, <1>1, <1>2, <1>3, <1>4 DEF AttInv, StaticInv, ObjectInv, UseInv, UseOK, InUse, Held
<1>8. ViewInv'
  <2>1. ASSUME NEW n \in Nodes
        PROVE  /\ view'.rvr[n].rev <= rv'.dm.rev
               /\ view'.rvr[n].ready => view'.rvr[n].rev > 0
               /\ rv'.dm.type[n] # None /\ rvr'[n].ex # None => view'.rvr[n].rev <= rvr'[n].rev
               /\ InUse(n)' => HasRVR(n)' /\ view'.rvr[n].rev > 0
               /\ view'.rvr[n].ex = "deleting" /\ n \in Sc'.disk => view'.rv.del
               /\ n \in Sc'.disk /\ HasRVR(n)' /\ rv'.csi => rvr'[n].ex = "live"
               /\ view'.rvr[n].ex = "live" => rvr'[n].ex = "live"
    <3>1. CASE accessWanted(n)
      BY <1>0, <1>1, <1>2, <1>3, <1>4, <3>1 DEF InUse
    <3>2. CASE ~accessWanted(n)
      BY <1>0, <1>1, <3>2 DEF AttInv, ViewInv, InUse, HasRVR, Normal
    <3> QED BY Zenon, <3>1, <3>2
  <2>2. \A n \in Nodes : /\ ~view'.rva[<<n, "user">>].ex
                         /\ ~HasRVR(n)' => view'.rvr[n] = NoRVR
    <3>1. \A n \in Nodes : ~view.rva[<<n, "user">>].ex /\ (view.rvr[n].ex = None => view.rvr[n] = NoRVR)
      BY PassLoaded, Zenon DEF reconcileCreateAccessReplicas
    <3> QED BY <1>1, <1>2, <3>1, Zenon DEF HasRVR
  <2>3. \A n \in Nodes : view'.rva[Csi(n)].ex /\ view'.rva[Csi(n)].ctl => Held(n)'
    BY <1>0, <1>1 DEF AttInv, ViewInv, Held
  <2> QED BY <1>0, <2>1, <2>2, <2>3 DEF ViewInv
<1>9. LoadedInv'
  BY <1>0, <1>1, <1>4 DEF AttInv, LoadedInv, Normal, Formed
<1>10. PassInv'
  <2>1. \A n \in Nodes : hasActiveRVA(n)' <=> hasActiveRVA(n)
    BY <1>1 DEF hasActiveRVA
  <2>2. \A n \in Nodes : Released(n)' /\ Taken(n)' /\ Joined(n)'
    BY <1>0, <1>1, <1>2, <1>3, <2>1, EngineFacts DEF Released, Taken, Joined, HasRVR, InUse
  <2>3. MeshOK(mem)' /\ mem'.rev >= rv'.dm.rev
    BY <1>0, EngineFacts DEF MeshOK, Formed, Members, NoMesh
  <2>4. PassFormed'
    BY <1>0, <1>4 DEF PassFormed, Formed
  <2> QED BY <1>0, <2>2, <2>3, <2>4 DEF PassInv
<1> QED BY <1>6, <1>7, <1>8, <1>9, <1>10 DEF AttInv, StaticInv

\* Writing conditions changes nothing that the invariant looks at.
LEMMA StatusFrame ==
    ASSUME TypeOK, NEW st \in [Names -> Status], NEW done, rva' = WithStatus(rva, st, done)
    PROVE  /\ \A x \in Names : rva'[x].ex = rva[x].ex /\ rva'[x].ctl = rva[x].ctl
           /\ \A n \in Nodes : (Held(n)' <=> Held(n)) /\ rva'[<<n, "user">>].ex = rva[<<n, "user">>].ex
<1>1. rva \in [Names -> RVA]
  BY DEF TypeOK, ApiType
<1>2. \A x \in Names : rva'[x].ex = rva[x].ex /\ rva'[x].ctl = rva[x].ctl
  BY <1>1, WithStatusEffect
<1>3. \A n \in Nodes : Csi(n) \in Names /\ <<n, "user">> \in Names
  BY DEF Csi, Names
<1> QED BY <1>2, <1>3 DEF Held

\* Nor do the conditions that the pass remembers having written.
LEMMA ViewStatusFrame ==
    ASSUME TypeOK, NEW st \in [Names -> Status], NEW done, view'.rva = WithStatus(view.rva, st, done)
    PROVE  /\ \A x \in Names : /\ view'.rva[x].ex = view.rva[x].ex /\ view'.rva[x].del = view.rva[x].del
                               /\ view'.rva[x].ctl = view.rva[x].ctl
           /\ \A n \in Nodes : hasActiveRVA(n)' <=> hasActiveRVA(n)
<1>1. view.rva \in [Names -> RVA]
  BY DEF TypeOK, PassType, View
<1>2. \A x \in Names : /\ view'.rva[x].ex = view.rva[x].ex /\ view'.rva[x].del = view.rva[x].del
                       /\ view'.rva[x].ctl = view.rva[x].ctl
  BY <1>1, WithStatusEffect
<1>3. \A n \in Nodes : OnNode(n) \subseteq Names
  BY DEF OnNode, Names
<1> QED BY <1>2, <1>3 DEF hasActiveRVA

\* What the step that writes the conditions does.
LEMMA ConditionsEffect ==
    ASSUME TypeOK, Conditions
    PROVE  /\ UNCHANGED <<rv, pri, vol>> /\ Sc' = Sc /\ pc = "conditions"
           /\ \A n \in Nodes : (Held(n)' <=> Held(n)) /\ rva'[<<n, "user">>].ex = rva[<<n, "user">>].ex
           /\ \A n \in Nodes : /\ accessUnused(n) /\ rvr[n].ex # None => rvr'[n] = [rvr[n] EXCEPT !.ex = "deleting"]
                               /\ ~(accessUnused(n) /\ rvr[n].ex # None) => rvr'[n] = rvr[n]
           /\ \/ pc' = "idle"
              \/ /\ pc' = "metadata" /\ mem' = mem /\ view'.rv = view.rv /\ view'.rvr = view.rvr
                 /\ \A x \in Names : /\ view'.rva[x].ex = view.rva[x].ex
                                     /\ view'.rva[x].ctl = view.rva[x].ctl
                 /\ \A n \in Nodes : hasActiveRVA(n)' <=> hasActiveRVA(n)
<1>0. view \in View
  BY DEF TypeOK, PassType
<1>1. PICK done :
          /\ rva' = WithStatus(rva, rvaStatus(mem), done)
          /\ \/ Ended(TRUE)
             \/ /\ pc' = "metadata" /\ UNCHANGED mem
                /\ view' = [view EXCEPT !.rva = WithStatus(@, rvaStatus(mem), done),
                                        !.dropped = {n \in Nodes : accessUnused(n)}]
  BY Zenon DEF Conditions
<1>2. rvaStatus(mem) \in [Names -> Status]
  BY <1>0, StatusType
<1>3. \A n \in Nodes : (Held(n)' <=> Held(n)) /\ rva'[<<n, "user">>].ex = rva[<<n, "user">>].ex
  BY Zenon, <1>1, <1>2, StatusFrame
<1>4. UNCHANGED <<rv, pri, vol, budget>> /\ Sc' = Sc /\ pc = "conditions"
  BY DEF Conditions, kernel, Sc
<1>5. rvr' = [n \in Nodes |-> IF n \in {k \in Nodes : accessUnused(k)} /\ rvr[n].ex # None
                              THEN [rvr[n] EXCEPT !.ex = "deleting"] ELSE rvr[n]]
  BY Zenon DEF Conditions
<1>6. CASE Ended(TRUE)
  <2>1. pc' = "idle"
    BY <1>6 DEF Ended
  <2> QED BY <1>3, <1>4, <1>5, <2>1
<1>7. CASE /\ pc' = "metadata" /\ UNCHANGED mem
           /\ view' = [view EXCEPT !.rva = WithStatus(@, rvaStatus(mem), done),
                                   !.dropped = {n \in Nodes : accessUnused(n)}]
  <2>1. /\ view'.rva = WithStatus(view.rva, rvaStatus(mem), done)
        /\ view'.rv = view.rv /\ view'.rvr = view.rvr
    BY <1>0, <1>7, ZenonT(30) DEF View
  <2>2. /\ \A x \in Names : view'.rva[x].ex = view.rva[x].ex /\ view'.rva[x].ctl = view.rva[x].ctl
        /\ \A n \in Nodes : hasActiveRVA(n)' <=> hasActiveRVA(n)
    BY <1>2, <2>1, ViewStatusFrame
  <2> HIDE <1>7
  <2>3. pc' = "metadata" /\ mem' = mem
    BY <1>7
  <2> QED BY <1>3, <1>4, <1>5, <2>1, <2>2, <2>3
<1> QED BY Zenon, <1>1, <1>6, <1>7

\* The replica of a node in use is not given up by the pass.
LEMMA UnusedIsFree ==
    ASSUME AttInv, pc \in Normal, NEW n \in Nodes, accessUnused(n)
    PROVE  ~InUse(n) /\ n \notin mem.att /\ n \notin Sc.disk
BY DEF AttInv, PassInv, Released, accessUnused

\* The conditions, and the Access replicas nobody needs any more.
LEMMA ConditionsKeeps ==
    ASSUME TypeOK, AttInv, Conditions
    PROVE  AttInv'
<1>0. /\ UNCHANGED <<rv, pri, vol>> /\ Sc' = Sc /\ pc = "conditions" /\ pc \in Normal
      /\ \A n \in Nodes : (Held(n)' <=> Held(n)) /\ rva'[<<n, "user">>].ex = rva[<<n, "user">>].ex
  BY ConditionsEffect DEF Normal
<1>1. /\ rvr \in [Nodes -> RVR] /\ \A r \in RVR : [r EXCEPT !.ex = "deleting"].rev = r.rev
      /\ \A r \in RVR : [r EXCEPT !.ex = "deleting"].ready = r.ready
      /\ \A r \in RVR : [r EXCEPT !.ex = "deleting"].ex = "deleting"
  BY DEF TypeOK, ApiType, RVR
<1>2. \A n \in Nodes :
         /\ rvr'[n].rev = rvr[n].rev /\ rvr'[n].ready = rvr[n].ready
         /\ rvr[n].ex = None <=> rvr'[n].ex = None
         /\ rvr[n].ex = None => rvr'[n] = rvr[n]
         /\ InUse(n) \/ n \in mem.att \/ n \in Sc.disk => rvr'[n] = rvr[n]
  <2> SUFFICES ASSUME NEW n \in Nodes
               PROVE  /\ rvr'[n].rev = rvr[n].rev /\ rvr'[n].ready = rvr[n].ready
                      /\ rvr[n].ex = None <=> rvr'[n].ex = None
                      /\ rvr[n].ex = None => rvr'[n] = rvr[n]
                      /\ InUse(n) \/ n \in mem.att \/ n \in Sc.disk => rvr'[n] = rvr[n]
    BY Zenon
  <2>1. CASE accessUnused(n) /\ rvr[n].ex # None
    <3>1. rvr'[n] = [rvr[n] EXCEPT !.ex = "deleting"]
      BY <2>1, ConditionsEffect
    <3>2. ~InUse(n) /\ n \notin mem.att /\ n \notin Sc.disk
      BY <1>0, <2>1, UnusedIsFree
    <3>3. rvr'[n].rev = rvr[n].rev /\ rvr'[n].ready = rvr[n].ready /\ rvr'[n].ex = "deleting"
      BY <1>1, <3>1
    <3> QED BY <2>1, <3>2, <3>3 DEF None
  <2>2. CASE ~(accessUnused(n) /\ rvr[n].ex # None)
    <3>1. rvr'[n] = rvr[n]
      BY Zenon, <2>2, ConditionsEffect
    <3> QED BY <3>1
  <2> QED BY Zenon, <2>1, <2>2
<1>3. \A n \in Nodes : InUse(n)' <=> InUse(n)
  BY <1>0 DEF InUse
<1>4. SomeRVR(rvr)' <=> SomeRVR(rvr)
  BY <1>2 DEF SomeRVR
<1>5. StaticInv'
  <2>1. MeshOK(rv.dm)' /\ VolumeInv'
    BY <1>0, <1>2, <1>4, Disks, Zenon DEF AttInv, StaticInv, MeshOK, VolumeInv, Formed, Members, NoMesh, TypeOK
  <2>2. ObjectInv'
    BY <1>0, <1>2, Zenon DEF AttInv, StaticInv, ObjectInv
  <2>3. UseInv'
    BY <1>0, <1>2, <1>3, Zenon DEF AttInv, StaticInv, UseInv, UseOK, InUse
  <2> QED BY <2>1, <2>2, <2>3 DEF StaticInv
<1>6. CASE pc' = "idle"
  BY <1>5, <1>6, BetweenPasses
<1>7. CASE /\ pc' = "metadata" /\ mem' = mem /\ view'.rv = view.rv /\ view'.rvr = view.rvr
           /\ \A x \in Names : view'.rva[x].ex = view.rva[x].ex /\ view'.rva[x].ctl = view.rva[x].ctl
           /\ \A n \in Nodes : hasActiveRVA(n)' <=> hasActiveRVA(n)
  <2>1. \A n \in Nodes : Csi(n) \in Names /\ <<n, "user">> \in Names
    BY DEF Csi, Names
  <2>2. \A n \in Nodes : HasRVR(n)' <=> HasRVR(n)
    BY <1>7 DEF HasRVR
  <2>3. ViewInv'
    <3>1. \A n \in Nodes :
             /\ view'.rvr[n].rev <= rv'.dm.rev
             /\ view'.rvr[n].ready => view'.rvr[n].rev > 0
             /\ rv'.dm.type[n] # None /\ rvr'[n].ex # None => view'.rvr[n].rev <= rvr'[n].rev
             /\ InUse(n)' => HasRVR(n)' /\ view'.rvr[n].rev > 0
      BY <1>0, <1>2, <1>3, <1>7, <2>2, Zenon DEF AttInv, ViewInv
    <3>2. \A n \in Nodes :
             /\ view'.rvr[n].ex = "deleting" /\ n \in Sc'.disk => view'.rv.del
             /\ n \in Sc'.disk /\ HasRVR(n)' /\ rv'.csi => rvr'[n].ex = "live"
      BY <1>0, <1>2, <1>7, <2>2, Zenon DEF AttInv, ViewInv
    <3>3. \A n \in Nodes : view'.rva[Csi(n)].ex /\ view'.rva[Csi(n)].ctl => Held(n)'
      BY <1>0, <1>7, <2>1, Zenon DEF AttInv, ViewInv
    <3>4. \A n \in Nodes : ~view'.rva[<<n, "user">>].ex /\ (~HasRVR(n)' => view'.rvr[n] = NoRVR)
      BY <1>0, <1>7, <2>1, <2>2, PassLoaded, Zenon DEF HasRVR
    <3> QED BY <1>7, <3>1, <3>2, <3>3, <3>4, Zenon DEF ViewInv
  <2>4. LoadedInv'
    BY <1>0, <1>4, <1>7 DEF AttInv, LoadedInv, Normal
  <2>5. MeshOK(mem)' /\ mem'.rev >= rv'.dm.rev
    BY <1>0, <1>7, Zenon DEF AttInv, PassInv, MeshOK, Formed, Members, NoMesh
  <2>6. \A n \in Nodes : Released(n)' /\ Taken(n)'
    <3> TAKE n \in Nodes
    <3>1. Released(n) /\ Taken(n)
      BY <1>0, Zenon DEF AttInv, PassInv, Normal
    <3>2. Released(n)'
      BY <1>0, <1>3, <1>7, <3>1, Zenon DEF Released
    <3>3. Taken(n)'
      BY <1>0, <1>2, <1>7, <2>2, <3>1, Zenon DEF Taken
    <3> QED BY <3>2, <3>3, Zenon
  <2>7. PassFormed'
    BY <1>0, <1>7, <2>2, Disks DEF AttInv, PassInv, PassFormed, Formed, TypeOK
  <2>8. PassInv'
    BY <1>7, <2>5, <2>6, <2>7, Zenon DEF PassInv
  <2> QED BY <1>5, <2>3, <2>4, <2>8 DEF AttInv
<1> QED BY <1>6, <1>7, ConditionsEffect

\* What formation does: the diskful replicas that are missing are created, and are the members
\* once they are all there.
LEMMA FormationEffect ==
    ASSUME TypeOK, reconcileFormation
    PROVE  /\ UNCHANGED <<rv, pri, vol>> /\ Sc' = Sc /\ pc = "form"
           /\ \A n \in Nodes : (Held(n)' <=> Held(n)) /\ rva'[<<n, "user">>].ex = rva[<<n, "user">>].ex
           /\ \A n \in Nodes : rvr'[n] = IF n \in Sc.disk /\ ~HasRVR(n) THEN NewRVR ELSE rvr[n]
           /\ \/ pc' = "idle"
              \/ /\ pc' = "metadata" /\ view'.rv = view.rv /\ view'.rvr = view.rvr
                 /\ \A x \in Names : /\ view'.rva[x].ex = view.rva[x].ex
                                     /\ view'.rva[x].ctl = view.rva[x].ctl
                 /\ \/ mem' = mem
                    \/ /\ \A n \in Sc.disk : HasRVR(n)
                       /\ mem'.rev = 1 /\ mem'.att = {}
                       /\ \A n \in Nodes : /\ mem'.type[n] = IF n \in Sc.disk THEN "D" ELSE None
                                           /\ mem'.at[n] = Idle /\ mem'.mt[n] = Idle
<1>0. view \in View
  BY DEF TypeOK, PassType
<1>1. PICK done :
          /\ rva' = WithStatus(rva, Waiting, done)
          /\ \/ Ended(TRUE)
             \/ /\ pc' = "metadata"
                /\ view' = [view EXCEPT !.rva = WithStatus(@, Waiting, done)]
                /\ mem' = IF \A n \in Sc.disk : HasRVR(n)
                          THEN [NoMesh EXCEPT !.rev = 1,
                                   !.type = [n \in Nodes |-> IF n \in Sc.disk THEN "D" ELSE None]]
                          ELSE mem
  BY Zenon DEF reconcileFormation
<1>2. Waiting \in [Names -> Status]
  BY <1>0, StatusType
<1>3. \A n \in Nodes : (Held(n)' <=> Held(n)) /\ rva'[<<n, "user">>].ex = rva[<<n, "user">>].ex
  BY Zenon, <1>1, <1>2, StatusFrame
<1>4. UNCHANGED <<rv, pri, vol, budget>> /\ Sc' = Sc /\ pc = "form"
  BY DEF reconcileFormation, kernel, Sc
<1>5. rvr' = [n \in Nodes |-> IF n \in Sc.disk /\ ~HasRVR(n) THEN NewRVR ELSE rvr[n]]
  BY Zenon DEF reconcileFormation
<1>6. \A n \in Nodes : rvr'[n] = IF n \in Sc.disk /\ ~HasRVR(n) THEN NewRVR ELSE rvr[n]
  BY <1>5
<1>7. CASE Ended(TRUE)
  <2>1. pc' = "idle"
    BY <1>7 DEF Ended
  <2> QED BY <1>3, <1>4, <1>6, <2>1
<1>8. CASE /\ pc' = "metadata"
           /\ view' = [view EXCEPT !.rva = WithStatus(@, Waiting, done)]
           /\ mem' = IF \A n \in Sc.disk : HasRVR(n)
                     THEN [NoMesh EXCEPT !.rev = 1,
                              !.type = [n \in Nodes |-> IF n \in Sc.disk THEN "D" ELSE None]]
                     ELSE mem
  <2>1. /\ view'.rva = WithStatus(view.rva, Waiting, done)
        /\ view'.rv = view.rv /\ view'.rvr = view.rvr
    BY <1>0, <1>8, ZenonT(30) DEF View
  <2>2. \A x \in Names : view'.rva[x].ex = view.rva[x].ex /\ view'.rva[x].ctl = view.rva[x].ctl
    BY <1>2, <2>1, ViewStatusFrame
  <2>3. \/ mem' = mem
        \/ /\ \A n \in Sc.disk : HasRVR(n)
           /\ mem'.rev = 1 /\ mem'.att = {}
           /\ \A n \in Nodes : /\ mem'.type[n] = IF n \in Sc.disk THEN "D" ELSE None
                               /\ mem'.at[n] = Idle /\ mem'.mt[n] = Idle
    BY <1>8 DEF NoMesh
  <2>4. pc' = "metadata"
    BY <1>8
  <2> HIDE <1>8
  <2> QED BY Zenon, <1>3, <1>4, <1>6, <2>1, <2>2, <2>3, <2>4
<1> QED BY Zenon, <1>1, <1>7, <1>8

\* Formation keeps the invariant: nothing runs yet.
LEMMA FormationKeeps ==
    ASSUME TypeOK, AttInv, reconcileFormation
    PROVE  AttInv'
<1>0. /\ UNCHANGED <<rv, pri, vol>> /\ Sc' = Sc /\ pc = "form" /\ pc \in Normal /\ pc # "idle"
      /\ \A n \in Nodes : (Held(n)' <=> Held(n)) /\ rva'[<<n, "user">>].ex = rva[<<n, "user">>].ex
      /\ \A n \in Nodes : rvr'[n] = IF n \in Sc.disk /\ ~HasRVR(n) THEN NewRVR ELSE rvr[n]
  BY FormationEffect DEF Normal
<1>1. /\ rv.dm = NoMesh /\ mem = NoMesh /\ rv.ex /\ rv.ctl /\ view.rv.ex
      /\ rv.dm.rev = 0 /\ \A n \in Nodes : rv.dm.type[n] = None
  BY <1>0, Fresh, Zenon DEF AttInv, StaticInv, MeshOK, LoadedInv
<1>2. \A n \in Nodes : ~InUse(n) /\ ~InUse(n)'
  BY <1>0, <1>1 DEF AttInv, StaticInv, UseInv, UseOK, InUse
<1>3. NewRVR.ex = "live" /\ NewRVR.rev = 0 /\ ~NewRVR.ready /\ "live" # None /\ "live" # "deleting"
  BY DEF NewRVR, NoRVR, None
<1>4. Sc.disk \subseteq Nodes /\ Sc.disk # {}
  BY Disks DEF TypeOK
<1>5. \A n \in Nodes : rv.csi /\ n \in Sc.disk => rvr'[n].ex = "live"
  BY <1>0, <1>3, Zenon DEF AttInv, ViewInv
<1>6. rv.csi => SomeRVR(rvr)'
  BY <1>3, <1>4, <1>5 DEF SomeRVR
<1>7. StaticInv'
  <2>1. MeshOK(rv.dm)'
    BY <1>0, Zenon DEF AttInv, StaticInv, MeshOK, Formed, Members, NoMesh
  <2>2. VolumeInv'
    BY <1>0, <1>1, <1>4, <1>5, <1>6, Zenon DEF AttInv, StaticInv, VolumeInv
  <2>3. ObjectInv'
    <3> SUFFICES ASSUME NEW n \in Nodes
                 PROVE  /\ rvr'[n].ex = None => rvr'[n] = NoRVR
                        /\ rvr'[n].rev <= rv'.dm.rev
                        /\ rvr'[n].ready => rvr'[n].rev > 0
                        /\ rvr'[n].ex = "deleting" /\ n \in Sc'.disk => rv'.del /\ ~rv'.csi
                        /\ ~rva'[<<n, "user">>].ex
      BY DEF ObjectInv
    <3>1. CASE rvr'[n] = NewRVR
      BY <1>0, <1>1, <1>3, <3>1 DEF AttInv, StaticInv, ObjectInv
    <3>2. CASE rvr'[n] = rvr[n]
      BY <1>0, <3>2, Zenon DEF AttInv, StaticInv, ObjectInv
    <3> QED BY Zenon, <1>0, <3>1, <3>2
  <2>4. UseInv'
    BY <1>2 DEF UseInv, UseOK, InUse
  <2> QED BY <2>1, <2>2, <2>3, <2>4 DEF StaticInv
<1>8. CASE pc' = "idle"
  BY <1>7, <1>8, BetweenPasses
<1>9. CASE /\ pc' = "metadata" /\ view'.rv = view.rv /\ view'.rvr = view.rvr
           /\ \A x \in Names : view'.rva[x].ex = view.rva[x].ex /\ view'.rva[x].ctl = view.rva[x].ctl
           /\ \/ mem' = mem
              \/ /\ \A n \in Sc.disk : HasRVR(n)
                 /\ mem'.rev = 1 /\ mem'.att = {}
                 /\ \A n \in Nodes : /\ mem'.type[n] = IF n \in Sc.disk THEN "D" ELSE None
                                     /\ mem'.at[n] = Idle /\ mem'.mt[n] = Idle
  <2>1. \A n \in Nodes : Csi(n) \in Names /\ <<n, "user">> \in Names
    BY DEF Csi, Names
  <2>2. \A n \in Nodes : HasRVR(n)' <=> HasRVR(n)
    BY <1>9 DEF HasRVR
  <2>3. ViewInv'
    <3>1. \A n \in Nodes :
             /\ view'.rvr[n].rev <= rv'.dm.rev
             /\ view'.rvr[n].ready => view'.rvr[n].rev > 0
             /\ rv'.dm.type[n] # None /\ rvr'[n].ex # None => view'.rvr[n].rev <= rvr'[n].rev
             /\ InUse(n)' => HasRVR(n)' /\ view'.rvr[n].rev > 0
      BY <1>0, <1>1, <1>2, <1>9, Zenon DEF AttInv, ViewInv
    <3>2. \A n \in Nodes :
             /\ view'.rvr[n].ex = "deleting" /\ n \in Sc'.disk => view'.rv.del
             /\ n \in Sc'.disk /\ HasRVR(n)' /\ rv'.csi => rvr'[n].ex = "live"
      BY <1>0, <1>5, <1>9, Zenon DEF AttInv, ViewInv
    <3>3. \A n \in Nodes : view'.rva[Csi(n)].ex /\ view'.rva[Csi(n)].ctl => Held(n)'
      BY <1>0, <1>9, <2>1, Zenon DEF AttInv, ViewInv
    <3>4. \A n \in Nodes : ~view'.rva[<<n, "user">>].ex /\ (~HasRVR(n)' => view'.rvr[n] = NoRVR)
      BY <1>0, <1>9, <2>1, <2>2, PassLoaded, Zenon DEF HasRVR
    <3> QED BY <1>9, <3>1, <3>2, <3>3, <3>4, Zenon DEF ViewInv
  <2>4. LoadedInv'
    BY <1>0, <1>1, <1>9, Zenon DEF AttInv, LoadedInv, Normal
  <2>5. Idle.plan # "Detach" /\ Idle.rev = 0
    BY DEF Idle, None
  <2>6. \A n \in Nodes : NoMesh.at[n] = Idle /\ NoMesh.mt[n] = Idle /\ NoMesh.type[n] = None /\ NoMesh.att = {} /\ NoMesh.rev = 0
    BY Fresh
  <2>7. MeshOK(mem)' /\ mem'.rev >= rv'.dm.rev
    <3>1. CASE mem' = mem
      BY <1>0, <1>1, <3>1, Zenon DEF AttInv, PassInv, MeshOK, Formed, Members, NoMesh
    <3>2. CASE /\ mem'.rev = 1 /\ mem'.att = {}
               /\ \A n \in Nodes : /\ mem'.type[n] = IF n \in Sc.disk THEN "D" ELSE None
                                   /\ mem'.at[n] = Idle /\ mem'.mt[n] = Idle
      BY <1>0, <1>1, <2>5, <3>2 DEF MeshOK, Formed, None
    <3> QED BY Zenon, <1>9, <3>1, <3>2
  <2>8. mem'.att = {} /\ \A n \in Nodes : mem'.at[n] = Idle
    BY <1>1, <1>4, <1>9, <2>6
  <2>9. \A n \in Nodes : Released(n)' /\ Taken(n)'
    BY <1>2, <2>5, <2>8, Zenon DEF Released, Taken
  <2>10. PassFormed'
    BY <1>0, <1>1, <1>4, <1>9, <2>2, Fresh, Zenon DEF PassFormed, Formed
  <2>11. PassInv'
    BY <1>9, <2>7, <2>9, <2>10, Zenon DEF PassInv
  <2> QED BY <1>7, <2>3, <2>4, <2>11 DEF AttInv
<1> QED BY Zenon, <1>8, <1>9, FormationEffect

----------------------------------------------------------------------------
(* The invariant is kept by the deletion of the volume and by the last     *)
(* writes of the pass                                                      *)

\* The attachments of a volume that is gone wait.
LEMMA OrphanedKeeps ==
    ASSUME TypeOK, AttInv, reconcileOrphaned
    PROVE  AttInv'
<1>0. view \in View
  BY DEF TypeOK, PassType
<1>1. PICK done :
          /\ rva' = WithStatus(rva, Waiting, done)
          /\ view' = [view EXCEPT !.rva = WithStatus(@, Waiting, done),
                                  !.err = StatusConflicts(Waiting) # {}]
  BY Zenon DEF reconcileOrphaned
<1>2. Waiting \in [Names -> Status]
  BY <1>0, StatusType
<1>3. \A n \in Nodes : (Held(n)' <=> Held(n)) /\ rva'[<<n, "user">>].ex = rva[<<n, "user">>].ex
  BY Zenon, <1>1, <1>2, StatusFrame
<1>4. /\ UNCHANGED <<rv, rvr, pri, vol, mem, budget>> /\ Sc' = Sc /\ pc = "orphan" /\ pc # "idle"
      /\ pc' = "metadata"
  BY DEF reconcileOrphaned, kernel, Sc
<1>5. /\ view'.rva = WithStatus(view.rva, Waiting, done)
      /\ view'.rv = view.rv /\ view'.rvr = view.rvr
  <2> DEFINE e == StatusConflicts(Waiting) # {}
  <2>1. view' = [view EXCEPT !.rva = WithStatus(@, Waiting, done), !.err = e]
    BY <1>1
  <2> HIDE DEF e
  <2> QED BY <1>0, <2>1, ZenonT(30) DEF View
<1>6. \A x \in Names : view'.rva[x].ex = view.rva[x].ex /\ view'.rva[x].ctl = view.rva[x].ctl
  BY <1>2, <1>5, ViewStatusFrame
<1>7. /\ mem = NoMesh /\ rv.dm = NoMesh /\ ~view.rv.ex
      /\ \A n \in Nodes : rvr[n].ex = None /\ view.rvr[n].ex = None
  BY <1>4 DEF AttInv, LoadedInv, SomeRVR
<1>8. \A n \in Nodes : ~InUse(n) /\ ~InUse(n)'
  BY <1>4, <1>7 DEF AttInv, StaticInv, UseInv, UseOK, InUse, None
<1>9. StaticInv'
  <2>1. StaticInv /\ \A n \in Nodes : ~rva'[<<n, "user">>].ex
    BY <1>3, Zenon DEF AttInv, StaticInv, ObjectInv
  <2> QED BY <1>4, <1>8, <2>1, StaticKept
<1>10. \A n \in Nodes : ~HasRVR(n)' /\ view'.rvr[n] = NoRVR
  BY <1>4, <1>5, <1>7, PassLoaded, Zenon DEF HasRVR
<1>11. ViewInv'
  <2>1. \A n \in Nodes : Csi(n) \in Names /\ <<n, "user">> \in Names
    BY DEF Csi, Names
  <2>2. \A n \in Nodes :
           /\ view'.rvr[n].rev = 0 /\ ~view'.rvr[n].ready /\ view'.rvr[n].ex = None
           /\ rv'.dm.type[n] = None /\ rv'.dm.rev = 0
    BY <1>4, <1>7, <1>10, Fresh DEF NoRVR
  <2>3. \A n \in Nodes : view'.rva[Csi(n)].ex /\ view'.rva[Csi(n)].ctl => Held(n)'
    BY <1>3, <1>4, <1>6, <2>1, Zenon DEF AttInv, ViewInv
  <2>4. \A n \in Nodes : ~view'.rva[<<n, "user">>].ex
    BY Zenon, <1>4, <1>6, <2>1, PassLoaded
  <2> QED BY <1>4, <1>8, <1>10, <2>2, <2>3, <2>4 DEF ViewInv, None
<1>12. LoadedInv'
  BY <1>4, <1>5, <1>7, Zenon DEF AttInv, LoadedInv, SomeRVR, Normal
<1>13. PassInv'
  <2>1. MeshOK(mem)'
    BY <1>4, <1>7, Zenon DEF AttInv, StaticInv, MeshOK, Formed, Members, NoMesh
  <2>2. \A n \in Nodes : Released(n)' /\ Taken(n)'
    BY <1>4, <1>7, <1>8, Fresh, Zenon DEF Released, Taken, Idle, None
  <2>3. PassFormed' /\ mem'.rev >= rv'.dm.rev
    BY <1>4, <1>7, Fresh DEF PassFormed, Formed
  <2> QED BY <1>4, <2>1, <2>2, <2>3 DEF PassInv
<1> QED BY <1>9, <1>11, <1>12, <1>13 DEF AttInv

\* What the deletion of a volume does.
LEMMA DeletionEffect ==
    ASSUME TypeOK, reconcileDeletion
    PROVE  /\ UNCHANGED <<pri, vol, mem>> /\ Sc' = Sc /\ pc = "deletion" /\ pc' = "purge"
           /\ \A n \in Nodes : (Held(n)' <=> Held(n)) /\ rva'[<<n, "user">>].ex = rva[<<n, "user">>].ex
           /\ view'.rvr = view.rvr
           /\ \A x \in Names : view'.rva[x].ex = view.rva[x].ex /\ view'.rva[x].ctl = view.rva[x].ctl
           /\ rv' = rv \/ (rv' = [rv EXCEPT !.dm = Cleared(mem)] /\ Members(mem) # {})
           /\ \A n \in Nodes : \/ rvr'[n] = rvr[n]
                               \/ rvr'[n] = [rvr[n] EXCEPT !.ex = "deleting", !.fin = FALSE] /\ rvr[n].ex # None
<1>0. view \in View
  BY DEF TypeOK, PassType
<1>1. PICK done :
          /\ rva' = WithStatus(rva, Waiting, done)
          /\ view' = [view EXCEPT !.rva = WithStatus(@, Waiting, done),
                                  !.err = deletionFails \/ (clearsMembers /\ rv # view.rv),
                                  !.rv = IF clearsMembers /\ rv = view.rv THEN rv' ELSE @]
  BY Zenon DEF reconcileDeletion
<1>2. Waiting \in [Names -> Status]
  BY <1>0, StatusType
<1>3. \A n \in Nodes : (Held(n)' <=> Held(n)) /\ rva'[<<n, "user">>].ex = rva[<<n, "user">>].ex
  BY Zenon, <1>1, <1>2, StatusFrame
<1>4. /\ UNCHANGED <<pri, vol, mem, budget>> /\ Sc' = Sc /\ pc = "deletion" /\ pc' = "purge"
  BY Zenon DEF reconcileDeletion, kernel, Sc
<1>5. view'.rva = WithStatus(view.rva, Waiting, done) /\ view'.rvr = view.rvr
  <2> DEFINE e == deletionFails \/ (clearsMembers /\ rv # view.rv)
             w == IF clearsMembers /\ rv = view.rv THEN rv' ELSE view.rv
  <2>1. view' = [view EXCEPT !.rva = WithStatus(@, Waiting, done), !.err = e, !.rv = w]
    BY <1>1
  <2> HIDE DEF e, w
  <2> QED BY <1>0, <2>1, ZenonT(30) DEF View
<1>6. \A x \in Names : view'.rva[x].ex = view.rva[x].ex /\ view'.rva[x].ctl = view.rva[x].ctl
  BY <1>2, <1>5, ViewStatusFrame
<1>7. rv' = rv \/ (rv' = [rv EXCEPT !.dm = Cleared(mem)] /\ Members(mem) # {})
  BY Zenon DEF reconcileDeletion, WriteRV, clearsMembers
<1>8. \A n \in Nodes : \/ rvr'[n] = rvr[n]
                       \/ rvr'[n] = [rvr[n] EXCEPT !.ex = "deleting", !.fin = FALSE] /\ rvr[n].ex # None
  <2>1. PICK gone : rvr' = [n \in Nodes |-> IF n \in gone /\ rvr[n].ex # None
                                   THEN [rvr[n] EXCEPT !.ex = "deleting", !.fin = FALSE]
                                   ELSE rvr[n]]
    BY Zenon DEF reconcileDeletion
  <2> QED BY <2>1, Zenon
<1> QED BY <1>3, <1>4, <1>5, <1>6, <1>7, <1>8, Zenon

\* A volume without its members.
LEMMA ClearedEffect ==
    ASSUME rv \in RV, NEW m \in Mesh
    PROVE  LET w == [rv EXCEPT !.dm = Cleared(m)] IN
           /\ w.ex = rv.ex /\ w.del = rv.del /\ w.csi = rv.csi /\ w.ctl = rv.ctl
           /\ w.dm.rev = m.rev /\ w.dm.att = {} /\ w.dm.at = m.at /\ w.dm.mt = m.mt
           /\ \A n \in Nodes : w.dm.type[n] = None
<1> DEFINE w == [rv EXCEPT !.dm = Cleared(m)]
<1>1. /\ Cleared(m).rev = m.rev /\ Cleared(m).att = {} /\ Cleared(m).at = m.at /\ Cleared(m).mt = m.mt
      /\ Cleared(m).type = [n \in Nodes |-> None]
  BY ZenonT(30) DEF Cleared, Mesh
<1>2. w.dm = Cleared(m) /\ w.ex = rv.ex /\ w.del = rv.del /\ w.csi = rv.csi /\ w.ctl = rv.ctl
  BY ZenonT(30) DEF RV
<1> HIDE DEF w
<1>3. w.dm.type = [n \in Nodes |-> None]
  BY <1>1, <1>2
<1> QED BY <1>1, <1>2, <1>3 DEF w

\* Deleting a volume that is used nowhere keeps the invariant.
LEMMA DeletionKeeps ==
    ASSUME TypeOK, AttInv, reconcileDeletion
    PROVE  AttInv'
<1>0. /\ UNCHANGED <<pri, vol, mem>> /\ Sc' = Sc /\ pc = "deletion" /\ pc' = "purge" /\ pc # "idle"
      /\ \A n \in Nodes : (Held(n)' <=> Held(n)) /\ rva'[<<n, "user">>].ex = rva[<<n, "user">>].ex
      /\ view'.rvr = view.rvr
      /\ \A x \in Names : view'.rva[x].ex = view.rva[x].ex /\ view'.rva[x].ctl = view.rva[x].ctl
  BY Zenon, DeletionEffect
<1>1. rv \in RV /\ mem \in Mesh /\ rvr \in [Nodes -> RVR]
  BY DEF TypeOK, ApiType, PassType
<1>2. mem = rv.dm /\ rv.ex /\ rv.del /\ ~rv.csi /\ rv.ctl /\ rv.dm.att = {} /\ pri = {}
  BY <1>0 DEF AttInv, LoadedInv
<1>3. \A n \in Nodes :
         /\ rvr'[n].rev = rvr[n].rev /\ rvr'[n].ready = rvr[n].ready
         /\ rvr[n].ex = None <=> rvr'[n].ex = None
         /\ rvr[n].ex = None => rvr'[n] = rvr[n]
  <2>1. \A r \in RVR : LET d == [r EXCEPT !.ex = "deleting", !.fin = FALSE] IN
           d.rev = r.rev /\ d.ready = r.ready /\ d.ex = "deleting"
    BY DEF RVR
  <2> SUFFICES ASSUME NEW n \in Nodes
               PROVE  /\ rvr'[n].rev = rvr[n].rev /\ rvr'[n].ready = rvr[n].ready
                      /\ rvr[n].ex = None <=> rvr'[n].ex = None
                      /\ rvr[n].ex = None => rvr'[n] = rvr[n]
    OBVIOUS
  <2>2. CASE rvr'[n] = rvr[n]
    BY <2>2
  <2>3. CASE rvr'[n] = [rvr[n] EXCEPT !.ex = "deleting", !.fin = FALSE] /\ rvr[n].ex # None
    <3>1. rvr'[n].rev = rvr[n].rev /\ rvr'[n].ready = rvr[n].ready /\ rvr'[n].ex = "deleting"
      BY <1>1, <2>1, <2>3
    <3>2. rvr[n].ex # None
      BY <2>3
    <3> HIDE <2>3
    <3> QED BY <3>1, <3>2 DEF None
  <2> QED BY Zenon, <2>2, <2>3, DeletionEffect
<1>4. /\ rv'.ex /\ rv'.del /\ ~rv'.csi /\ rv'.ctl /\ rv'.dm.att = {} /\ rv'.dm.rev = rv.dm.rev
      /\ MeshOK(rv.dm)'
  <2>1. CASE rv' = rv
    BY <1>0, <1>2, <2>1, Zenon DEF AttInv, StaticInv, MeshOK, Formed, Members, NoMesh
  <2>2. CASE rv' = [rv EXCEPT !.dm = Cleared(mem)] /\ Members(mem) # {}
    <3>1. /\ rv'.ex = rv.ex /\ rv'.del = rv.del /\ rv'.csi = rv.csi /\ rv'.ctl = rv.ctl
          /\ rv'.dm.rev = mem.rev /\ rv'.dm.att = {} /\ rv'.dm.at = mem.at /\ rv'.dm.mt = mem.mt
          /\ \A n \in Nodes : rv'.dm.type[n] = None
      BY <1>1, <2>2, ClearedEffect
    <3>2. Members(mem) # {}
      BY <2>2
    <3> HIDE <2>2
    <3>3. Formed(mem) /\ \A n \in Nodes : rv.dm.at[n].rev <= rv.dm.rev /\ rv.dm.mt[n].rev <= rv.dm.rev
      BY <1>2, <3>2, Zenon DEF AttInv, StaticInv, MeshOK
    <3>4. MeshOK(rv.dm)'
      BY <1>0, <1>2, <3>1, <3>3, Zenon DEF MeshOK, Formed, Members, None
    <3> QED BY <1>2, <3>1, <3>4
  <2> QED BY Zenon, <2>1, <2>2, DeletionEffect
<1>5. \A n \in Nodes : ~InUse(n)'
  BY <1>0, <1>2, <1>4, Zenon DEF InUse
<1>6. SomeRVR(rvr)' <=> SomeRVR(rvr)
  BY <1>3 DEF SomeRVR
<1>7. StaticInv'
  <2>1. VolumeInv'
    BY <1>0, <1>2, <1>4, <1>6, Zenon DEF AttInv, StaticInv, VolumeInv
  <2>2. ObjectInv'
    BY <1>0, <1>2, <1>3, <1>4, Zenon DEF AttInv, StaticInv, ObjectInv
  <2>3. UseInv'
    BY <1>5 DEF UseInv, UseOK, InUse
  <2> QED BY <1>4, <2>1, <2>2, <2>3 DEF StaticInv
<1>8. ViewInv'
  <2>1. \A n \in Nodes : Csi(n) \in Names /\ <<n, "user">> \in Names
    BY DEF Csi, Names
  <2>2. \A n \in Nodes : HasRVR(n)' <=> HasRVR(n)
    BY <1>0, Zenon DEF HasRVR
  <2>3. \A n \in Nodes : view'.rva[Csi(n)].ex /\ view'.rva[Csi(n)].ctl => Held(n)'
    BY <1>0, <2>1, Zenon DEF AttInv, ViewInv
  <2>4. \A n \in Nodes : ~view'.rva[<<n, "user">>].ex /\ (~HasRVR(n)' => view'.rvr[n] = NoRVR)
    BY <1>0, <2>1, <2>2, PassLoaded, Zenon DEF HasRVR
  <2>5. \A n \in Nodes : rvr'[n].ex # None => HasRVR(n)'
    BY <1>0, <1>3, <2>2, Zenon DEF AttInv, ViewInv
  <2> QED BY <1>0, <2>3, <2>4, <2>5, Zenon DEF ViewInv, Normal
<1>9. LoadedInv' /\ PassInv'
  BY <1>0, <1>2, <1>4, Zenon DEF LoadedInv, PassInv, Normal
<1> QED BY <1>7, <1>8, <1>9 DEF AttInv

\* The finalizers of the attachments: one that holds a node in use stays, and every RVA that
\* was written, or needed no write, has the finalizer it should have.
LEMMA FinalizersEffect ==
    ASSUME TypeOK, AttInv, pc # "idle", NEW m, NEW done, reconcileRVAMetadata(m, done)
    PROVE  /\ \A n \in Nodes : ~rva'[<<n, "user">>].ex
           /\ \A n \in Nodes : Held(n) /\ isNodeAttachedOrDetaching(m, n) => Held(n)'
           /\ \A n \in Nodes :
                 MetadataConflicts(m) = {} /\ hasActiveRVA(n) /\ (view.rva[Csi(n)].ctl => Held(n)) => Held(n)'
<1>0. rva \in [Names -> RVA] /\ view.rva \in [Names -> RVA]
      /\ \A n \in Nodes : Csi(n) \in Names /\ <<n, "user">> \in Names
                          /\ NodeOf(Csi(n)) = n /\ OnNode(n) = {Csi(n), <<n, "user">>}
  BY DEF TypeOK, ApiType, PassType, View, Names, Csi, NodeOf, OnNode
<1>1. \A n \in Nodes : ~view.rva[<<n, "user">>].ex /\ ~rva[<<n, "user">>].ex
  BY PassLoaded, Zenon DEF AttInv, StaticInv, ObjectInv
<1>2. /\ done \subseteq {x \in MetadataDue(m) : ~Stale(x)}
      /\ MetadataConflicts(m) = {} => done = {x \in MetadataDue(m) : ~Stale(x)}
      /\ \A x \in Names : /\ x \in done => rva'[x] = Kept([rva[x] EXCEPT !.ctl = finalizerWanted(m, x)], NoRVA)
                          /\ x \notin done => rva'[x] = rva[x]
  BY DEF reconcileRVAMetadata, Written
<1>3. \A n \in Nodes : ~hasOtherNonDeletingRVAOnNode(Csi(n))
  BY <1>0, <1>1, Zenon DEF hasOtherNonDeletingRVAOnNode
<1>4. \A n \in Nodes : ~rva'[<<n, "user">>].ex
  <2> SUFFICES ASSUME NEW n \in Nodes PROVE <<n, "user">> \notin done
    BY Zenon, <1>0, <1>1, <1>2
  <2> QED BY <1>1, <1>2 DEF MetadataDue
<1>5. ASSUME NEW n \in Nodes, Held(n), isNodeAttachedOrDetaching(m, n) PROVE Held(n)'
  <2>1. CASE Csi(n) \notin done
    BY <1>0, <1>2, <1>5, <2>1, Zenon DEF Held
  <2>2. CASE Csi(n) \in done
    <3>1. rva[Csi(n)] = view.rva[Csi(n)] /\ Csi(n) \in MetadataDue(m)
      BY <1>2, <2>2 DEF Stale
    <3>2. view.rva[Csi(n)].ctl /\ finalizerWanted(m, Csi(n))
      BY <1>0, <1>3, <1>5, <3>1, Zenon DEF Held, finalizerWanted
    <3>3. finalizerWanted(m, Csi(n)) = TRUE /\ view.rva[Csi(n)].ctl = TRUE
      BY <1>0, <3>2, Zenon DEF RVA, finalizerWanted
    <3>4. Csi(n) \notin MetadataDue(m)
      BY <3>3, Zenon DEF MetadataDue
    <3> QED BY <3>1, <3>4
  <2> QED BY <2>1, <2>2
<1>6. ASSUME NEW n \in Nodes, MetadataConflicts(m) = {}, hasActiveRVA(n),
             view.rva[Csi(n)].ctl => Held(n)
      PROVE  Held(n)'
  <2>1. view.rva[Csi(n)].ex /\ ~view.rva[Csi(n)].del
    BY <1>0, <1>1, <1>6, Zenon DEF hasActiveRVA
  <2>2. finalizerWanted(m, Csi(n))
    BY <2>1 DEF finalizerWanted
  <2>3. CASE view.rva[Csi(n)].ctl
    <3>1. Csi(n) \notin done
      BY <1>2, <2>2, <2>3, Zenon DEF MetadataDue
    <3> QED BY <1>0, <1>2, <1>6, <2>3, <3>1, Zenon DEF Held
  <2>4. CASE ~view.rva[Csi(n)].ctl
    <3>1. Csi(n) \in MetadataDue(m)
      BY <1>0, <2>1, <2>2, <2>4, Zenon DEF MetadataDue
    <3>2. ~Stale(Csi(n))
      BY <1>6, <3>1 DEF MetadataConflicts
    <3>3. rva'[Csi(n)] = Kept([rva[Csi(n)] EXCEPT !.ctl = finalizerWanted(m, Csi(n))], NoRVA)
      BY Zenon, <1>0, <1>2, <1>6, <3>1, <3>2
    <3>4. rva[Csi(n)].ex /\ rva[Csi(n)] \in RVA
      BY <1>0, <2>1, <3>2, Zenon DEF Stale
    <3>5. rva'[Csi(n)].ex /\ rva'[Csi(n)].ctl
      BY <2>2, <3>3, <3>4 DEF Kept, RVA
    <3> QED BY <3>5 DEF Held
  <2> QED BY <2>3, <2>4
<1> QED BY Zenon, <1>4, <1>5, <1>6

\* Writing the finalizers of the RVRs changes nothing else about them.
LEMMA RVRFinalizersEffect ==
    ASSUME TypeOK, NEW done, reconcileRVRFinalizers(done)
    PROVE  \A n \in Nodes : /\ rvr'[n].ex = rvr[n].ex /\ rvr'[n].rev = rvr[n].rev
                            /\ rvr'[n].ready = rvr[n].ready
                            /\ rvr[n].ex = None => rvr'[n] = rvr[n]
<1>0. rvr \in [Nodes -> RVR]
  BY DEF TypeOK, ApiType
<1>1. /\ done \subseteq RVRDue \ RVRConflicts
      /\ \A n \in Nodes : /\ n \in done => rvr'[n] = [rvr[n] EXCEPT !.fin = rvrFinalizerWanted(n)]
                          /\ n \notin done => rvr'[n] = rvr[n]
  BY DEF reconcileRVRFinalizers
<1> SUFFICES ASSUME NEW n \in Nodes
             PROVE  /\ rvr'[n].ex = rvr[n].ex /\ rvr'[n].rev = rvr[n].rev
                    /\ rvr'[n].ready = rvr[n].ready
                    /\ rvr[n].ex = None => rvr'[n] = rvr[n]
  OBVIOUS
<1>2. CASE n \notin done
  BY Zenon, <1>1, <1>2
<1>3. CASE n \in done
  <2>1. rvr[n].ex # None
    BY <1>1, <1>3 DEF RVRDue, RVRConflicts, HasRVR
  <2>2. rvr'[n].ex = rvr[n].ex /\ rvr'[n].rev = rvr[n].rev /\ rvr'[n].ready = rvr[n].ready
    <3>1. rvr[n] \in RVR
      BY <1>0
    <3> DEFINE b == rvrFinalizerWanted(n)
    <3>2. rvr'[n] = [rvr[n] EXCEPT !.fin = b]
      BY <1>1, <1>3
    <3> HIDE DEF b
    <3> QED BY <3>1, <3>2, Zenon DEF RVR
  <2> QED BY <2>1, <2>2
<1> QED BY <1>2, <1>3

\* The step that writes the finalizers keeps the invariant: it lets go of no node in use, and
\* holds every attachment that the datamesh about to be published is for.
LEMMA MetadataKeeps ==
    ASSUME TypeOK, AttInv, Metadata
    PROVE  AttInv'
<1>0. /\ UNCHANGED <<rv, pri, vol>> /\ Sc' = Sc /\ pc = "metadata" /\ pc \in Normal /\ pc # "idle"
  BY DEF Metadata, kernel, Sc, Normal
<1>1. /\ \A n \in Nodes : ~rva'[<<n, "user">>].ex
      /\ \A n \in Nodes : Held(n) /\ isNodeAttachedOrDetaching(mem, n) => Held(n)'
      /\ \A n \in Nodes :
            MetadataConflicts(mem) = {} /\ hasActiveRVA(n) /\ (view.rva[Csi(n)].ctl => Held(n)) => Held(n)'
  <2>1. PICK done : reconcileRVAMetadata(mem, done)
    BY Zenon DEF Metadata
  <2> QED BY Zenon, <1>0, <2>1, FinalizersEffect
<1>2. \A n \in Nodes : /\ rvr'[n].ex = rvr[n].ex /\ rvr'[n].rev = rvr[n].rev
                       /\ rvr'[n].ready = rvr[n].ready
                       /\ rvr[n].ex = None => rvr'[n] = rvr[n]
  <2>1. PICK done : reconcileRVRFinalizers(done)
    BY Zenon DEF Metadata
  <2> QED BY <2>1, RVRFinalizersEffect
<1>3. \/ pc' = "idle"
      \/ pc' = "publish" /\ UNCHANGED <<view, mem>> /\ MetadataConflicts(mem) = {}
  BY DEF Metadata, Ended
<1>4. \A n \in Nodes : InUse(n) => Held(n)'
  BY <1>0, <1>1, Zenon DEF AttInv, StaticInv, UseInv, UseOK, PassInv, Released, isNodeAttachedOrDetaching
<1>5. \A n \in Nodes : InUse(n)' <=> InUse(n)
  BY <1>0, Zenon DEF InUse
<1>6. SomeRVR(rvr)' <=> SomeRVR(rvr)
  BY <1>2 DEF SomeRVR
<1>7. StaticInv'
  <2>1. MeshOK(rv.dm)' /\ VolumeInv'
    BY <1>0, <1>2, <1>6, Disks, Zenon DEF AttInv, StaticInv, MeshOK, VolumeInv, Formed, Members, NoMesh, TypeOK
  <2>2. ObjectInv'
    BY <1>0, <1>1, <1>2, Zenon DEF AttInv, StaticInv, ObjectInv
  <2>3. UseInv'
    BY <1>0, <1>2, <1>4, <1>5, Zenon DEF AttInv, StaticInv, UseInv, UseOK, InUse
  <2> QED BY <2>1, <2>2, <2>3 DEF StaticInv
<1>8. CASE pc' = "idle"
  BY <1>7, <1>8, BetweenPasses
<1>9. CASE pc' = "publish" /\ UNCHANGED <<view, mem>> /\ MetadataConflicts(mem) = {}
  <2>1. \A n \in Nodes : (HasRVR(n)' <=> HasRVR(n)) /\ (hasActiveRVA(n)' <=> hasActiveRVA(n))
    BY <1>9 DEF HasRVR, hasActiveRVA
  <2>2. ViewInv'
    <3>1. \A n \in Nodes :
             /\ view'.rvr[n].rev <= rv'.dm.rev
             /\ view'.rvr[n].ready => view'.rvr[n].rev > 0
             /\ rv'.dm.type[n] # None /\ rvr'[n].ex # None => view'.rvr[n].rev <= rvr'[n].rev
             /\ InUse(n)' => HasRVR(n)' /\ view'.rvr[n].rev > 0
      BY <1>0, <1>2, <1>5, <1>9, <2>1, Zenon DEF AttInv, ViewInv
    <3>2. \A n \in Nodes :
             /\ view'.rvr[n].ex = "deleting" /\ n \in Sc'.disk => view'.rv.del
             /\ n \in Sc'.disk /\ HasRVR(n)' /\ rv'.csi => rvr'[n].ex = "live"
      BY <1>0, <1>2, <1>9, <2>1, Zenon DEF AttInv, ViewInv
    <3>3. \A n \in Nodes : ~view'.rva[<<n, "user">>].ex /\ (~HasRVR(n)' => view'.rvr[n] = NoRVR)
      BY <1>0, <1>9, <2>1, PassLoaded, Zenon DEF HasRVR
    <3> QED BY <1>9, <3>1, <3>2, <3>3, Zenon DEF ViewInv
  <2>3. LoadedInv'
    BY <1>0, <1>6, <1>9, Zenon DEF AttInv, LoadedInv, Normal
  <2>4. MeshOK(mem)' /\ mem'.rev >= rv'.dm.rev
    BY <1>0, <1>9, Zenon DEF AttInv, PassInv, MeshOK, Formed, Members, NoMesh
  <2>5. \A n \in Nodes : Released(n)' /\ Taken(n)'
    BY <1>0, <1>2, <1>5, <1>9, <2>1, Zenon DEF AttInv, PassInv, Released, Taken
  <2>6. PassFormed'
    BY <1>0, <1>9, <2>1, Disks, Zenon DEF AttInv, PassInv, PassFormed, Formed, TypeOK
  <2>7. \A n \in mem'.att : Held(n)'
    <3> SUFFICES ASSUME NEW n \in mem.att PROVE Held(n)'
      BY <1>9
    <3>0. n \in Nodes
      BY DEF TypeOK, PassType, Mesh
    <3>1. CASE n \in rv.dm.att
      BY <1>4, <3>0, <3>1 DEF InUse
    <3>2. CASE hasActiveRVA(n)
      <4>1. view.rva[Csi(n)].ex
        BY <1>0, <3>0, <3>2, PassLoaded DEF hasActiveRVA, OnNode, Csi
      <4>2. view.rva[Csi(n)].ctl => Held(n)
        BY <1>0, <3>0, <4>1, Zenon DEF AttInv, ViewInv
      <4> QED BY Zenon, <1>1, <1>9, <3>0, <3>2, <4>2
    <3> QED BY <1>0, <3>0, <3>1, <3>2, Zenon DEF AttInv, PassInv, Taken
  <2>8. PassInv'
    BY <1>9, <2>4, <2>5, <2>6, <2>7, Zenon DEF PassInv
  <2> QED BY <1>7, <2>2, <2>3, <2>8 DEF AttInv
<1> QED BY <1>3, <1>8, <1>9

\* The end of a deletion: the volume goes when no replica is left.
LEMMA PurgeKeeps ==
    ASSUME TypeOK, AttInv, Purge
    PROVE  AttInv'
<1>0. /\ UNCHANGED <<rvr, pri, vol>> /\ Sc' = Sc /\ pc = "purge" /\ pc # "idle" /\ pc' = "idle"
  BY DEF Purge, kernel, Sc, Ended
<1>1. rv \in RV /\ rv.ex /\ rv.del /\ ~rv.csi /\ rv.ctl /\ rv.dm.att = {} /\ pri = {}
  BY <1>0, Zenon DEF AttInv, LoadedInv, TypeOK, ApiType
<1>2. \A n \in Nodes : ~rva'[<<n, "user">>].ex
  <2>1. PICK done : reconcileRVAMetadata(mem, done)
    BY Zenon DEF Purge
  <2> QED BY Zenon, <1>0, <2>1, FinalizersEffect
<1>3. \A n \in Nodes : ~InUse(n)
  BY <1>1 DEF InUse
<1>4. CASE rv' = rv
  <2>1. StaticInv'
    BY <1>0, <1>2, <1>3, <1>4, StaticKept DEF AttInv
  <2> QED BY <1>0, <2>1, BetweenPasses
<1>5. CASE rv' = Kept([rv EXCEPT !.ctl = FALSE], NoRV) /\ ~SomeRVR(view.rvr)
  <2>1. rv' = NoRV
    <3> DEFINE w == [rv EXCEPT !.ctl = FALSE]
    <3>1. w.del /\ ~w.csi /\ ~w.ctl
      BY <1>1 DEF RV
    <3>2. rv' = Kept(w, NoRV)
      BY <1>5
    <3> HIDE DEF w
    <3> QED BY <3>1, <3>2 DEF Kept
  <2>2. ~SomeRVR(rvr)
    BY <1>0, <1>5 DEF AttInv, ViewInv, SomeRVR, HasRVR
  <2>3. \A n \in Nodes : rvr'[n] = NoRVR
    BY <1>0, <2>2, Zenon DEF AttInv, StaticInv, ObjectInv, SomeRVR
  <2>4. /\ ~rv'.ex /\ ~rv'.del /\ ~rv'.csi /\ ~rv'.ctl /\ rv'.dm = NoMesh
        /\ NoMesh.rev = 0 /\ NoMesh.att = {}
    BY <2>1, Fresh
  <2>5. \A n \in Nodes : ~InUse(n)'
    BY <1>0, <1>1, <2>4 DEF InUse
  <2>6. MeshOK(rv.dm)'
    BY <2>4 DEF MeshOK, NoMesh, Formed, Members, None, Idle
  <2>7. VolumeInv'
    BY <2>1, <2>3, <2>4 DEF VolumeInv, SomeRVR, NoRVR
  <2>8. ObjectInv'
    BY <1>2, <2>3, <2>4 DEF ObjectInv, NoRVR, None
  <2>9. UseInv'
    BY <2>5 DEF UseInv, UseOK, InUse
  <2> QED BY <1>0, <2>6, <2>7, <2>8, <2>9, BetweenPasses DEF StaticInv
<1> QED BY <1>4, <1>5 DEF Purge, WriteRV

\* Publishing the computed datamesh keeps the invariant.
LEMMA PublishKeeps ==
    ASSUME TypeOK, AttInv, Publish
    PROVE  AttInv'
<1>0. /\ UNCHANGED <<rva, rvr, pri, vol>> /\ Sc' = Sc /\ pc = "publish" /\ pc \in Normal /\ pc' = "idle"
  BY DEF Publish, kernel, Sc, Ended, Normal
<1>1. rv \in RV /\ mem \in Mesh
  BY DEF TypeOK, ApiType, PassType
<1>2. CASE rv' = rv
  <2>1. \A n \in Nodes : (InUse(n) => Held(n)') /\ ~rva'[<<n, "user">>].ex
    BY <1>0, Zenon DEF AttInv, StaticInv, UseInv, UseOK, ObjectInv, Held
  <2>2. StaticInv'
    BY <1>0, <1>2, <2>1, StaticKept DEF AttInv
  <2> QED BY <1>0, <2>2, BetweenPasses
<1>3. CASE rv' = [rv EXCEPT !.dm = mem] /\ mem # view.rv.dm
  <2>1. rv'.dm = mem /\ rv'.ex = rv.ex /\ rv'.del = rv.del /\ rv'.csi = rv.csi /\ rv'.ctl = rv.ctl
    BY <1>1, <1>3, ZenonT(30) DEF RV
  <2>2. mem # view.rv.dm
    BY <1>3
  <2> HIDE <1>3
  <2>3. /\ mem.rev \in Nat /\ rv.dm.rev \in Nat /\ mem.rev >= rv.dm.rev /\ mem.att \subseteq Nodes
        /\ \A n \in Nodes : rvr[n].rev \in Nat /\ mem.at[n].rev \in Nat
    BY <1>0 DEF AttInv, PassInv, TypeOK, ApiType, PassType, RV, RVR, Mesh, Transition
  <2>4. view.rv.ex /\ rv.ex /\ rv.ctl
    <3>1. ASSUME ~view.rv.ex PROVE FALSE
      <4>1. mem = NoMesh /\ view.rv.dm = rv.dm
        BY <1>0, <3>1, Zenon DEF AttInv, LoadedInv
      <4>2. rv.dm.rev = 0
        BY <2>3, <4>1, Fresh
      <4>3. rv.dm = NoMesh
        BY <4>2 DEF AttInv, StaticInv, MeshOK, Formed
      <4> QED BY <2>2, <4>1, <4>3
    <3> QED BY <1>0, <3>1, Zenon DEF AttInv, LoadedInv
  <2>5. MeshOK(rv.dm)'
    BY <1>0, <2>1, Zenon DEF AttInv, PassInv, MeshOK, Formed, Members, NoMesh
  <2>6. rv.csi /\ Formed(mem) => \A n \in Sc.disk : rvr[n].ex = "live"
    <3>0. Sc.disk \subseteq Nodes
      BY Disks DEF TypeOK
    <3>1. CASE Formed(rv.dm)
      BY <3>1 DEF AttInv, StaticInv, VolumeInv
    <3>2. CASE \A n \in Sc.disk : HasRVR(n)
      BY <1>0, <3>0, <3>2, Zenon DEF AttInv, ViewInv
    <3> QED BY <1>0, <3>1, <3>2, Zenon DEF AttInv, PassInv, PassFormed
  <2>7. VolumeInv'
    BY <1>0, <2>1, <2>4, <2>6, Zenon DEF AttInv, StaticInv, VolumeInv, SomeRVR
  <2>8. ObjectInv'
    BY <1>0, <2>1, <2>3 DEF AttInv, StaticInv, ObjectInv
  <2>9. UseInv'
    <3> SUFFICES ASSUME NEW n \in Nodes, n \in mem.att \/ n \in pri
                 PROVE  /\ Held(n)'
                        /\ rvr'[n].ex = "live" /\ rvr'[n].rev > 0 /\ rv'.dm.type[n] # None
                        /\ n \in pri' => \/ n \in rv'.dm.att
                                         \/ rv'.dm.at[n].plan = "Detach" /\ rvr'[n].rev < rv'.dm.at[n].rev
      BY <1>0, <2>1 DEF UseInv, UseOK, InUse
    <3>1. CASE n \in mem.att
      <4>1. Held(n)'
        BY <1>0, <3>1, Zenon DEF AttInv, PassInv, Held
      <4>2. rvr[n].ex = "live" /\ rvr[n].rev > 0 /\ mem.type[n] # None
        BY <1>0, <3>1, Zenon DEF AttInv, PassInv, Taken, MeshOK
      <4> QED BY <1>0, <2>1, <3>1, <4>1, <4>2
    <3>2. CASE n \notin mem.att /\ n \in pri
      <4>1. InUse(n)
        BY <3>2 DEF InUse
      <4>2. Held(n) /\ rvr[n].ex = "live" /\ rvr[n].rev > 0 /\ rvr[n].rev <= rv.dm.rev
            /\ (n \in rv.dm.att \/ (rv.dm.at[n].plan = "Detach" /\ rvr[n].rev < rv.dm.at[n].rev))
        BY <3>2, <4>1, Zenon DEF AttInv, StaticInv, UseInv, UseOK, ObjectInv
      <4>3. /\ mem.at[n].plan = "Detach" /\ mem.type[n] # None
            /\ mem.at[n].rev > rv.dm.rev \/ mem.at[n] = rv.dm.at[n]
        BY <1>0, <3>2, <4>1, Zenon DEF AttInv, PassInv, Released
      <4>4. rvr[n].rev < mem.at[n].rev
        <5>1. CASE mem.at[n].rev > rv.dm.rev
          BY <2>3, <4>2, <5>1
        <5>2. CASE mem.at[n] = rv.dm.at[n]
          <6>1. n \notin rv.dm.att
            BY <4>3, <5>2 DEF AttInv, StaticInv, MeshOK
          <6> QED BY <4>2, <5>2, <6>1
        <5> QED BY Zenon, <4>3, <5>1, <5>2
      <4>5. Held(n)'
        BY <1>0, <4>2 DEF Held
      <4> QED BY Zenon, <1>0, <2>1, <4>2, <4>3, <4>4, <4>5
    <3> QED BY Zenon, <3>1, <3>2
  <2> QED BY <1>0, <2>5, <2>7, <2>8, <2>9, BetweenPasses DEF StaticInv
<1> QED BY <1>2, <1>3, Zenon DEF Publish, WriteRV

----------------------------------------------------------------------------
(* The theorems *)

\* Every behaviour stays in its scenario.
LEMMA SameScenario ==
    ASSUME BudgetType, [Next]_vars
    PROVE  BudgetType' /\ Sc' = Sc
<1>1. UNCHANGED budget \/ \E kind : Event(kind)
  <2>1. CASE UNCHANGED vars
    BY <2>1 DEF vars
  <2>2. CASE Controller
    BY <2>2, Zenon DEF Controller, Begin, reconcileMetadata, reconcileCreateAccessReplicas,
         SettleToggle, DispatchToggle, Finalize, SettleAttachment, SettleMembership,
         DispatchMembership, DispatchAttachment, Computed, Conditions, reconcileFormation,
         reconcileOrphaned, reconcileDeletion, Metadata, Purge, Publish
  <2>3. CASE CsiVolume
    BY <2>3, Zenon DEF CsiVolume, EarlyRVA, CreateReplicatedVolume, WaitForReplicatedVolumeReady,
         ObserveVolume, DeleteReplicatedVolume, WaitForReplicatedVolumeDeleted
  <2>4. CASE Outside
    BY <2>4, Zenon DEF Outside, BeginStale, Crash, ControllerPublishVolume,
         ControllerUnpublishVolume, CallFails, UserCreate, UserDelete, Stage, Unstage,
         CreateVolume, DeleteVolume, VolumeCallFails, UserDeleteVolume
  <2>5. ASSUME NEW n \in Nodes, Report(n) \/ Teardown(n) \/ CsiNode(n) PROVE UNCHANGED budget
    BY <2>5, Zenon DEF Report, Teardown, CsiNode, EnsureRVA, createRVA, WaitForRVAReady, DeleteRVA,
         WaitForRVADeleted
  <2> QED BY <2>1, <2>2, <2>3, <2>4, <2>5 DEF Next
<1> QED BY <1>1, ScenarioStays

\* The invariant holds when a scenario begins.
LEMMA InitKeeps ==
    ASSUME Init
    PROVE  TypeOK /\ AttInv
<1>0. PICK name \in DOMAIN Scenarios :
       LET s == Scenarios[name] IN
       /\ budget = [scenario |-> name, left |-> s.events]
       /\ rv = IF s.formed THEN [NewRV EXCEPT !.ctl = TRUE, !.dm = FormedMesh(s)] ELSE NoRV
       /\ rva = [x \in Names |-> NoRVA]
       /\ rvr = [n \in Nodes |-> IF s.formed /\ n \in s.disk
                                 THEN [NewRVR EXCEPT !.rev = 1, !.ready = TRUE] ELSE NoRVR]
       /\ pri = {}
       /\ vol = IF s.formed THEN "ready" ELSE "none"
       /\ pc = "idle" /\ view = NoView /\ mem = NoMesh
  BY Zenon DEF Init
<1> DEFINE s == Scenarios[name]
           formed == [NewRVR EXCEPT !.rev = 1, !.ready = TRUE]
<1>1. BudgetType /\ Sc = s
  BY <1>0, ScenariosAssumption DEF BudgetType, Sc
<1>2. s.disk \subseteq Nodes /\ s.disk # {}
  BY ScenariosAssumption
<1>3. /\ FormedMesh(s) \in Mesh /\ FormedMesh(s).rev = 1 /\ FormedMesh(s).att = {}
      /\ \A n \in Nodes : /\ FormedMesh(s).type[n] = IF n \in s.disk THEN "D" ELSE None
                          /\ FormedMesh(s).at[n] = Idle /\ FormedMesh(s).mt[n] = Idle
  BY Constants, Zenon DEF FormedMesh, NoMesh, Mesh, None
<1>4. /\ formed \in RVR /\ formed.ex = "live" /\ formed.rev = 1 /\ formed.ready
      /\ NoRVR.ex = None /\ NoRVR.rev = 0 /\ ~NoRVR.ready /\ "live" # None
  BY Constants, Zenon DEF NewRVR, NoRVR, RVR, None
<1> HIDE DEF formed
<1>5. \A n \in Nodes : rvr[n] = IF s.formed /\ n \in s.disk THEN formed ELSE NoRVR
  BY <1>0 DEF formed
<1>6. \A n \in Nodes : ~rva[<<n, "user">>].ex
  BY <1>0 DEF NoRVA, Names
<1>7. CASE s.formed
  <2>1. /\ rv.ex /\ ~rv.del /\ rv.csi /\ rv.ctl /\ rv.dm = FormedMesh(s) /\ rv \in RV /\ vol = "ready"
    <3>1. rv = [NewRV EXCEPT !.ctl = TRUE, !.dm = FormedMesh(s)]
      BY <1>0, <1>7
    <3> DEFINE m == FormedMesh(s)
    <3>2. rv = [NewRV EXCEPT !.ctl = TRUE, !.dm = m] /\ m \in Mesh /\ NewRV \in RV
      BY <1>3, <3>1, Constants
    <3> HIDE DEF m
    <3>3. rv \in RV /\ rv.dm = m /\ rv.ctl /\ rv.ex = NewRV.ex /\ rv.del = NewRV.del /\ rv.csi = NewRV.csi
      BY <3>2, ZenonT(30) DEF RV
    <3> QED BY <1>0, <1>7, <3>3, Fresh DEF m
  <2>2. TypeOK
    BY <1>0, <1>1, <1>4, <1>5, <2>1, Constants DEF TypeOK, ApiType, PassType
  <2>3. MeshOK(rv.dm)
    BY <1>1, <1>3, <2>1 DEF MeshOK, Formed, Idle, None
  <2>4. VolumeInv
    BY <1>1, <1>2, <1>4, <1>5, <1>7, <2>1, Zenon DEF VolumeInv
  <2>5. ObjectInv
    BY <1>1, <1>3, <1>4, <1>5, <1>6, <2>1 DEF ObjectInv, None
  <2>6. UseInv
    BY <1>0, <1>3, <2>1 DEF UseInv, UseOK, InUse
  <2> QED BY <1>0, <2>2, <2>3, <2>4, <2>5, <2>6 DEF AttInv, StaticInv, ViewInv, LoadedInv, PassInv, Normal
<1>8. CASE ~s.formed
  <2>1. rv = NoRV /\ vol = "none" /\ \A n \in Nodes : rvr[n] = NoRVR
    BY <1>0, <1>5, <1>8
  <2>2. /\ ~rv.ex /\ ~rv.del /\ ~rv.csi /\ ~rv.ctl /\ rv.dm = NoMesh
        /\ NoMesh.rev = 0 /\ NoMesh.att = {}
    BY <2>1, Fresh
  <2>3. TypeOK
    BY <1>0, <1>1, <1>4, <1>5, <2>1, Constants DEF TypeOK, ApiType, PassType
  <2>4. MeshOK(rv.dm)
    BY <2>2 DEF MeshOK, NoMesh, Formed, Members, None, Idle
  <2>5. VolumeInv
    BY <1>4, <2>1, <2>2, Zenon DEF VolumeInv, SomeRVR
  <2>6. ObjectInv
    BY <1>4, <1>6, <2>1, <2>2 DEF ObjectInv, None
  <2>7. UseInv
    BY <1>0, <2>2 DEF UseInv, UseOK, InUse
  <2> QED BY <1>0, <2>3, <2>4, <2>5, <2>6, <2>7 DEF AttInv, StaticInv, ViewInv, LoadedInv, PassInv, Normal
<1> QED BY <1>7, <1>8

\* Every step keeps the invariant where no cache lags and nobody makes RVAs by hand.
LEMMA NextKeeps ==
    ASSUME Undisturbed, TypeOK, AttInv, [Next]_vars
    PROVE  TypeOK' /\ AttInv'
<1>0. PICK n0 \in Nodes : TRUE
  BY Disks DEF TypeOK
<1>1. CASE UNCHANGED vars
  <2>1. UNCHANGED <<rv, rva, rvr, pri, vol, pc, view, mem, budget>> /\ Sc' = Sc
    BY <1>1 DEF vars, apis, kernel, ctrl, Sc
  <2>2. TypeOK'
    BY <2>1 DEF TypeOK, ApiType, PassType, BudgetType
  <2>3. \A n \in Nodes : ~rva'[<<n, "user">>].ex /\ (Held(n) => Held(n)')
    BY <2>1, Zenon DEF AttInv, StaticInv, ObjectInv, Held
  <2>4. OutsideStep
    BY <2>1, <2>2, <2>3, Zenon DEF OutsideStep, TypeOK, ApiType, AttInv, StaticInv, VolumeInv
  <2> QED BY <2>4, OutsideKeeps
<1>2. CASE Controller
  <2>1. CASE Begin \/ reconcileMetadata \/ reconcileCreateAccessReplicas \/ Conditions
    BY <2>1, BeginType, BeginKeeps, FinalizerKeeps, CreateKeeps, ConditionsKeeps
  <2>2. ASSUME NEW n \in Nodes,
               \/ SettleAttachment(n) \/ SettleMembership(n) \/ SettleToggle
               \/ DispatchMembership(n) \/ DispatchToggle \/ DispatchAttachment(n) \/ Finalize
        PROVE  TypeOK' /\ AttInv'
    BY <2>2, EngineType, SettleKeeps, DispatchKeeps
  <2>3. CASE reconcileFormation \/ reconcileOrphaned \/ reconcileDeletion
    BY <2>3, WaitingType, FormationKeeps, OrphanedKeeps, DeletionKeeps
  <2>4. CASE Metadata \/ Purge \/ Publish
    BY <2>4, WriteType, MetadataKeeps, PurgeKeeps, PublishKeeps
  <2> QED BY <1>0, <1>2, <2>1, <2>2, <2>3, <2>4, Zenon DEF Controller
<1>3. CASE CsiVolume
  BY <1>3, CsiVolumeOutside, OutsideKeeps
<1>4. CASE Outside
  <2>1. ~BeginStale
    BY DEF BeginStale, Event, Undisturbed
  <2>2. CASE Crash
    BY <2>2, WriteType, CrashKeeps
  <2>3. ASSUME NEW n \in Nodes,
               \/ ControllerPublishVolume(n) \/ ControllerUnpublishVolume(n) \/ CallFails(n)
        PROVE  TypeOK' /\ AttInv'
    BY <2>3, CsiNodeOutside, OutsideKeeps
  <2>4. ASSUME NEW n \in Nodes,
               \/ Stage(n) \/ Unstage(n) \/ UserCreate(n) \/ UserDelete(n) \/ UserDeleteVolume
        PROVE  TypeOK' /\ AttInv'
    BY <2>4, UsersOutside, OutsideKeeps
  <2>5. CASE CreateVolume \/ DeleteVolume \/ VolumeCallFails
    BY <2>5, CsiVolumeOutside, OutsideKeeps
  <2> QED BY <1>0, <1>4, <2>1, <2>2, <2>3, <2>4, <2>5, Zenon DEF Outside
<1>5. ASSUME NEW n \in Nodes, Report(n) PROVE TypeOK' /\ AttInv'
  BY <1>5, ReportKeeps
<1>6. ASSUME NEW n \in Nodes, Teardown(n) PROVE TypeOK' /\ AttInv'
  BY <1>6, TeardownKeeps
<1>7. ASSUME NEW n \in Nodes, CsiNode(n) PROVE TypeOK' /\ AttInv'
  BY <1>7, CsiNodeOutside, OutsideKeeps
<1> QED BY <1>1, <1>2, <1>3, <1>4, <1>5, <1>6, <1>7, Zenon DEF Next

\* What every behaviour keeps: its scenario and, where nothing disturbs it, the invariant.
AttSafe == BudgetType /\ (Undisturbed => TypeOK /\ AttInv)

\* The attachment invariant: where no cache lags and no RVA is made by hand, what the objects
\* say, what the pass loaded and what it computes agree, whatever the order of the steps of
\* the CSI driver, the controller and the nodes.
THEOREM AttInvHolds == Spec => []AttSafe
<1>1. Init => AttSafe
  BY InitKeeps DEF AttSafe, TypeOK
<1>2. AttSafe /\ [Next]_vars => AttSafe'
  <2> SUFFICES ASSUME AttSafe, [Next]_vars PROVE AttSafe'
    OBVIOUS
  <2>1. BudgetType' /\ Sc' = Sc
    BY SameScenario DEF AttSafe
  <2>2. Undisturbed' <=> Undisturbed
    BY <2>1 DEF Undisturbed
  <2>3. CASE Undisturbed
    BY <2>1, <2>2, <2>3, NextKeeps DEF AttSafe
  <2>4. CASE ~Undisturbed
    BY <2>1, <2>2, <2>4 DEF AttSafe
  <2> QED BY <2>3, <2>4
<1> QED BY <1>1, <1>2, PTL DEF Spec

\* ControllerUnpublishVolume returns when the RVA is gone, and its node is then neither
\* primary nor attached: reconcileRVAMetadata holds the finalizer through the whole Detach.
THEOREM UnpublishedHasLeft == Spec => []UnpublishedIsDetached
<1>1. AttSafe => UnpublishedIsDetached
  <2> SUFFICES ASSUME Undisturbed, TypeOK, AttInv, NEW n \in Nodes, NoRVAOn(n)
               PROVE  n \notin pri /\ n \notin rv.dm.att
    BY DEF AttSafe, UnpublishedIsDetached
  <2>1. ~Held(n)
    BY DEF NoRVAOn, OnNode, Held, Csi
  <2> QED BY <2>1 DEF AttInv, StaticInv, UseInv, UseOK, InUse
<1> QED BY <1>1, AttInvHolds, PTL

\* WaitForReplicatedVolumeDeleted returns when the RV is gone, and nothing of the volume is on
\* a node any more: its finalizer stays until no RVR is left.
THEOREM GoneIsClean == Spec => [](Undisturbed => VolumeGoneIsClean)
<1>1. AttSafe => (Undisturbed => VolumeGoneIsClean)
  <2> SUFFICES ASSUME TypeOK, AttInv, ~rv.ex PROVE VolumeGoneIsClean
    BY DEF AttSafe, VolumeGoneIsClean
  <2>1. \A n \in Nodes : rvr[n].ex = None
    BY DEF AttInv, StaticInv, VolumeInv, SomeRVR
  <2>2. \A n \in Nodes : n \notin pri
    BY <2>1 DEF AttInv, StaticInv, UseInv, UseOK, InUse, None
  <2>3. pri = {}
    BY <2>2 DEF TypeOK, ApiType
  <2> QED BY <2>1, <2>3 DEF VolumeGoneIsClean
<1> QED BY <1>1, AttInvHolds, PTL

\* A step takes a live replica away only where the volume is not in use.
LEMMA ReplicaStays ==
    ASSUME Undisturbed, TypeOK, AttInv, [Next]_vars, NEW n \in Nodes,
           rvr[n].ex = "live", rvr'[n].ex # "live"
    PROVE  ~InUse(n)
<1>0. rvr \in [Nodes -> RVR]
  BY DEF TypeOK, ApiType
<1>1. CASE UNCHANGED rvr
  BY <1>1
<1>2. CASE reconcileCreateAccessReplicas
  <2>1. rvr'[n] = NewRVR \/ rvr'[n] = rvr[n]
    BY <1>2 DEF reconcileCreateAccessReplicas
  <2> QED BY <2>1, Zenon DEF NewRVR, NoRVR
<1>3. CASE Conditions
  <2>1. accessUnused(n) /\ pc \in Normal
    BY <1>3, ConditionsEffect, Zenon DEF Normal
  <2> QED BY <2>1, UnusedIsFree
<1>4. CASE reconcileFormation
  <2>1. rvr'[n] = NewRVR \/ rvr'[n] = rvr[n]
    BY Zenon, <1>4, FormationEffect
  <2> QED BY <2>1, Zenon DEF NewRVR, NoRVR
<1>5. CASE reconcileDeletion
  <2>1. rv.dm.att = {} /\ pri = {}
    BY <1>5, DeletionEffect, Zenon DEF AttInv, LoadedInv
  <2> QED BY <2>1 DEF InUse
<1>6. CASE Metadata
  <2>1. PICK done : reconcileRVRFinalizers(done)
    BY <1>6, Zenon DEF Metadata
  <2> QED BY <2>1, RVRFinalizersEffect
<1>7. ASSUME NEW m \in Nodes, Report(m) PROVE FALSE
  <2>1. rvr'[n].ex = rvr[n].ex
    BY <1>0, <1>7 DEF Report, RVR
  <2> QED BY <2>1
<1>8. ASSUME NEW m \in Nodes, Teardown(m) PROVE FALSE
  <2>1. rvr' = [rvr EXCEPT ![m] = NoRVR] /\ rvr[m].ex = "deleting"
    BY <1>8 DEF Teardown
  <2> QED BY <1>0, <2>1
<1>9. ASSUME UNCHANGED vars PROVE UNCHANGED rvr
  BY <1>9 DEF vars, apis
<1>10. ASSUME Controller PROVE \/ UNCHANGED rvr \/ reconcileCreateAccessReplicas \/ Conditions
                               \/ reconcileFormation \/ reconcileDeletion \/ Metadata
  BY <1>10, Zenon DEF Controller, Begin, BeginWith, reconcileMetadata, SettleToggle, DispatchToggle,
       Finalize, SettleAttachment, SettleMembership, DispatchMembership, DispatchAttachment,
       Computed, reconcileOrphaned, Purge, Publish, apis
<1>11. ASSUME CsiVolume PROVE UNCHANGED rvr
  BY <1>11, CsiVolumeOutside, Zenon DEF OutsideStep
<1>12. ASSUME Outside PROVE UNCHANGED rvr
  BY <1>12, Zenon DEF Outside, BeginStale, BeginWith, Crash, ControllerPublishVolume,
       ControllerUnpublishVolume, CallFails, Step, UserCreate, UserDelete, Stage, Unstage,
       CreateVolume, DeleteVolume, VolumeCallFails, VolStep, UserDeleteVolume, apis
<1>13. ASSUME NEW m \in Nodes, CsiNode(m) PROVE UNCHANGED rvr
  BY <1>13, CsiNodeOutside, Zenon DEF OutsideStep
<1> QED BY <1>1, <1>2, <1>3, <1>4, <1>5, <1>6, <1>7, <1>8, <1>9, <1>10, <1>11, <1>12, <1>13, Zenon
        DEF Next

\* "Hard invariant: do not delete attached replicas": whatever the computed datamesh a pass
\* decides on, it never deletes a replica that is attached or primary.
THEOREM AttachedIsKept == Spec => AttachedReplicaKept
<1> DEFINE Keeps == Undisturbed => \A n \in Nodes :
              rvr[n].ex = "live" /\ rvr'[n].ex # "live" => n \notin pri /\ n \notin rv.dm.att
<1>1. AttSafe /\ [Next]_vars => [Keeps]_vars
  <2> SUFFICES ASSUME AttSafe, [Next]_vars PROVE Keeps
    OBVIOUS
  <2> SUFFICES ASSUME Undisturbed, NEW n \in Nodes, rvr[n].ex = "live", rvr'[n].ex # "live"
               PROVE  n \notin pri /\ n \notin rv.dm.att
    OBVIOUS
  <2>1. TypeOK /\ AttInv
    BY DEF AttSafe
  <2>2. ~InUse(n)
    BY <2>1, ReplicaStays
  <2> QED BY <2>2 DEF InUse
<1> QED BY <1>1, AttInvHolds, PTL DEF Spec, AttachedReplicaKept

============================================================================
