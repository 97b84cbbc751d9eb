-------------------------- MODULE Migration_proofs --------------------------
(***************************************************************************)
(* LINSTOR outlives its use, and maintenance covers adoption: for every    *)
(* set of resources and replicas, any number of crashes and errors, and    *)
(* wherever between two calls the migrator stops.                          *)
(*                                                                         *)
(* The inductive invariant MInv says in which order a volume's objects are *)
(* made and adopted (VolumeInv), that what the ConfigMap records never     *)
(* runs ahead of the work (StageInv), and that LINSTOR's database goes     *)
(* last (LinstorInv).                                                      *)
(***************************************************************************)
EXTENDS Migration, TLAPS

\* The ReplicatedVolume as far as the migration and its adoption see it.
Volume ==
    [exists : BOOLEAN, adopt : BOOLEAN, mode : {None, "Manual", "Auto"},
     label : {None, "switch", "orphan", "blocked"},
     step : {None, "verify", "populate", "exit", "formed"},
     members : SUBSET Replicas, observed : BOOLEAN]

\* What the ConfigMap says once stage 1, and once stage 2, is over.
PastStage2 == {"stage2_completed", "stage3_started", "stage3_completed", "stage4_started", "all_completed"}
PastStage1 == PastStage2 \cup {"stage1_completed", "stage2_started"}

Stage1Loop == {"stage1.next", "stage1.resource"}

\* What the variables range over, as far as the invariant needs it.
TypeInv ==
    /\ drbdr \in [Resources -> SUBSET Replicas] /\ maint \in [Resources -> SUBSET Replicas]
    /\ rvr \in [Resources -> SUBSET Replicas] /\ rv \in [Resources -> Volume]
    /\ work \in [Resources -> {"idle", "clear"}] /\ todo \subseteq Resources
    /\ linstor \in [crd : BOOLEAN, backup : BOOLEAN]
    /\ at = "stage1.resource" => cur \in Resources

\* Volume r: DRBDResources, then RVRs, then the RV; members are all replicas or none; the
\* agents have seen the members before adoption comes to its last step, and only then does
\* maintenance end and the adopt annotation go.
VolumeInv(r) ==
    /\ rvr[r] # {} => drbdr[r] = Replicas
    /\ rv[r].exists => drbdr[r] = Replicas /\ rvr[r] = Replicas
    /\ rv[r].members # {} => rv[r].exists /\ rv[r].members = Replicas
    /\ rv[r].step # None => rv[r].exists
    /\ rv[r].step \in {"exit", "formed"} => rv[r].members = Replicas /\ rv[r].observed
    /\ drbdr[r] # maint[r] => rv[r].step \in {"exit", "formed"}
    /\ work[r] = "clear" => rv[r].step \in {"exit", "formed"}
    /\ rv[r].exists /\ ~rv[r].adopt => maint[r] = {} /\ rv[r].step \in {"exit", "formed"}

\* The recorded state never runs ahead of the work, wherever the process stops: past stage 1
\* every resource has its volume, past stage 2 no volume waits for adoption, and inside a
\* stage what is not in todo is done.
StageInv ==
    /\ at \in {"stage1"} \cup Stage1Loop => cm \notin PastStage1
    /\ at \in {"stage2", "stage2.poll"} => cm \in {"stage1_completed", "stage2_started"}
    /\ at \in {"stage3", "stage3.backup", "stage3.crds", "stage3.pools",
               "stage4", "stage4.ensure", "stage4.switch", "stage4.cleanup", "done"} => cm \in PastStage2
    /\ at \in Stage1Loop =>
          linstor.crd /\ \A r \in Resources : r \in todo \/ (at = "stage1.resource" /\ r = cur) \/ rv[r].exists
    /\ cm \in PastStage1 /\ (linstor.crd \/ linstor.backup) => \A r \in Resources : rv[r].exists
    /\ at = "stage2.poll" => \A r \in Resources : rv[r].exists /\ rv[r].adopt => r \in todo
    /\ cm \in PastStage2 => \A r \in Resources : rv[r].exists => ~rv[r].adopt

\* The CRDs are removed after the backup and after stage 2, or were never there.
LinstorInv ==
    /\ at \in {"stage3.backup", "stage3.crds"} => linstor.crd
    /\ at = "stage3.crds" => linstor.backup
    /\ linstor.backup => cm \in PastStage2
    /\ ~linstor.crd /\ ~linstor.backup => \A r \in Resources : drbdr[r] = {} /\ ~rv[r].exists

MInv == TypeInv /\ (\A r \in Resources : VolumeInv(r)) /\ StageInv /\ LinstorInv

----------------------------------------------------------------------------
\* What an assignment to the formation step of a volume (reconcileAdoptStep...) leaves alone.
LEMMA StepAssigned ==
  ASSUME NEW v \in Volume, NEW x \in {None, "verify", "populate", "exit", "formed"}
  PROVE  LET w == [v EXCEPT !.step = x]
         IN  /\ w \in Volume /\ w.step = x /\ w.exists = v.exists /\ w.adopt = v.adopt
             /\ w.members = v.members /\ w.observed = v.observed
  BY DEF Volume

\* The same of the agents having seen the revision of the members.
LEMMA ObservedAssigned ==
  ASSUME NEW v \in Volume
  PROVE  LET w == [v EXCEPT !.observed = TRUE]
         IN  /\ w \in Volume /\ w.step = v.step /\ w.exists = v.exists /\ w.adopt = v.adopt
             /\ w.members = v.members /\ w.observed
  BY Zenon DEF Volume

\* The same of stage 2 removing the adopt annotation.
LEMMA AdoptAssigned ==
  ASSUME NEW v \in Volume
  PROVE  LET w == [v EXCEPT !.adopt = FALSE]
         IN  /\ w \in Volume /\ w.step = v.step /\ w.exists = v.exists /\ ~w.adopt
             /\ w.members = v.members /\ w.observed = v.observed
  BY Zenon DEF Volume

\* The same of stage 4 marking a volume it cannot switch.
LEMMA LabelAssigned ==
  ASSUME NEW v \in Volume, NEW l \in {"orphan", "blocked"}
  PROVE  LET w == [v EXCEPT !.label = l]
         IN  /\ w \in Volume /\ w.step = v.step /\ w.exists = v.exists /\ w.adopt = v.adopt
             /\ w.members = v.members /\ w.observed = v.observed
  BY DEF Volume

\* The same of stage 4 switching a volume to its class.
LEMMA ModeAssigned ==
  ASSUME NEW v \in Volume
  PROVE  LET w == [v EXCEPT !.label = None, !.mode = "Auto"]
         IN  /\ w \in Volume /\ w.step = v.step /\ w.exists = v.exists /\ w.adopt = v.adopt
             /\ w.members = v.members /\ w.observed = v.observed
  BY Zenon DEF Volume, None

\* Nothing is made and nothing recorded before the first Run.
LEMMA MInvInit == Init => MInv
  BY LinstorKnown DEF Init, MInv, TypeInv, VolumeInv, StageInv, LinstorInv, Idle, NoVolume, Volume,
     PastStage1, PastStage2, Stage1Loop, None

\* Every step of the migrator, of adoption, of the class and its pool, of users, and every
\* crash and error keeps the invariant.
LEMMA MInvNext == MInv /\ [Next]_vars => MInv'
  <1> SUFFICES ASSUME MInv, [Next]_vars PROVE MInv'
    OBVIOUS
  <1> USE DEF MInv
  <1>1. CASE Run
    <2>1. /\ UNCHANGED <<cur, todo, work, drbdr, rvr, maint, rv, linstor>>
          /\ (cm' \in PastStage1 <=> cm \in PastStage1) /\ (cm' \in PastStage2 <=> cm \in PastStage2)
      BY <1>1 DEF Run, stage1Vars, PastStage1, PastStage2, None
    <2>2. \/ at' = "stage1" /\ cm' \notin PastStage1
          \/ at' = "stage2" /\ cm' \in {"stage1_completed", "stage2_started"}
          \/ at' \in {"stage3", "stage4", "done"} /\ cm' \in PastStage2
      BY <1>1 DEF Run, stageFor, PastStage1, PastStage2, None
    <2> QED
      BY <2>1, <2>2 DEF TypeInv, VolumeInv, StageInv, LinstorInv, Stage1Loop
  <1>2. CASE runStage1
    BY <1>2 DEF TypeInv, VolumeInv, StageInv, LinstorInv, runStage1, PastStage1, PastStage2, Stage1Loop
  <1>3. CASE nextResource
    BY <1>3 DEF TypeInv, VolumeInv, StageInv, LinstorInv, nextResource, stage1Vars, PastStage1,
       PastStage2, Stage1Loop
  <1>4. CASE Migrate
    <2> DEFINE r == cur
    <2>1. /\ at = "stage1.resource" /\ r \in Resources /\ linstor.crd /\ migrateResource(r)
          /\ cm \notin PastStage1 /\ UNCHANGED <<cm, todo, work, linstor>>
      BY <1>4 DEF Migrate, TypeInv, StageInv, Stage1Loop
    <2> USE DEF Stage1Loop, stage1Vars
    <2>2. CASE createDRBDResource(r)
      <3>1. PICK i \in Replicas \ drbdr[r] :
               /\ drbdr' = [drbdr EXCEPT ![r] = @ \cup {i}] /\ maint' = [maint EXCEPT ![r] = @ \cup {i}]
               /\ UNCHANGED <<rvr, rv, at, cur>>
        BY <2>2, Zenon DEF createDRBDResource
      <3>2. TypeInv'
        BY <2>1, <3>1 DEF TypeInv
      <3>3. ASSUME NEW s \in Resources PROVE VolumeInv(s)'
        <4>1. CASE s = r
          <5>1. rvr[r] = {} /\ ~rv[r].exists /\ drbdr[r] = maint[r]
            BY <2>1, <3>1 DEF TypeInv, VolumeInv
          <5> QED
            BY <2>1, <3>1, <4>1, <5>1 DEF TypeInv, VolumeInv
        <4>2. CASE s # r
          BY <2>1, <3>1, <4>2 DEF TypeInv, VolumeInv
        <4> QED
          BY <4>1, <4>2
      <3>4. StageInv' /\ LinstorInv'
        BY <2>1, <3>1 DEF StageInv, LinstorInv
      <3> QED
        BY <3>2, <3>3, <3>4
    <2>3. CASE hasDRBDResources(r) /\ createRVR(r)
      <3>1. PICK i \in Replicas \ rvr[r] :
               rvr' = [rvr EXCEPT ![r] = @ \cup {i}] /\ UNCHANGED <<drbdr, maint, rv, at, cur>>
        BY <2>3, Zenon DEF createRVR
      <3>2. TypeInv'
        BY <2>1, <3>1 DEF TypeInv
      <3>3. ASSUME NEW s \in Resources PROVE VolumeInv(s)'
        BY <2>1, <2>3, <3>1 DEF TypeInv, VolumeInv, hasDRBDResources
      <3>4. StageInv' /\ LinstorInv'
        BY <2>1, <3>1 DEF StageInv, LinstorInv
      <3> QED
        BY <3>2, <3>3, <3>4
    <2>4. CASE hasOwnedRVRs(r) /\ ~rv[r].exists /\ createRV(r)
      <3>1. /\ rv' = [rv EXCEPT ![r] = newVolume(r)] /\ UNCHANGED <<drbdr, rvr, maint, at, cur>>
            /\ drbdr[r] = Replicas /\ rvr[r] = Replicas /\ ~rv[r].exists
        BY <2>4 DEF createRV, hasOwnedRVRs, hasRVRs, hasDRBDResources
      <3>2. /\ newVolume(r) \in Volume
            /\ newVolume(r).exists /\ newVolume(r).adopt /\ newVolume(r).step = None
            /\ newVolume(r).members = {} /\ ~newVolume(r).observed
        BY Zenon DEF newVolume, NoVolume, Volume, None
      <3>3. TypeInv'
        BY <2>1, <3>1, <3>2 DEF TypeInv
      <3>4. ASSUME NEW s \in Resources PROVE VolumeInv(s)'
        BY <2>1, <3>1, <3>2 DEF TypeInv, VolumeInv, None
      <3>5. StageInv' /\ LinstorInv'
        BY <2>1, <3>1, <3>2 DEF TypeInv, StageInv, LinstorInv, PastStage1
      <3> QED
        BY <3>3, <3>4, <3>5
    <2>5. CASE setOwnerRefs(r) \/ createRVAFromVolumeAttachments(r)
      BY <2>1, <2>5 DEF setOwnerRefs, createRVAFromVolumeAttachments, TypeInv, VolumeInv, StageInv, LinstorInv
    <2>6. CASE hasRV(r) /\ at' = "stage1.next" /\ UNCHANGED <<stage1Vars, maint, rv>>
      BY <2>1, <2>6 DEF hasRV, TypeInv, VolumeInv, StageInv, LinstorInv
    <2> QED
      BY <2>1, <2>2, <2>3, <2>4, <2>5, <2>6 DEF migrateResource
  <1>5. CASE runStage2
    BY <1>5 DEF TypeInv, VolumeInv, StageInv, LinstorInv, runStage2,
       listAdoptReplicatedVolumeNames, stage1Vars, PastStage1, PastStage2, Stage1Loop
  <1>6. CASE \E r \in Resources : processStage2RV(r)
    <2>1. PICK r \in Resources : processStage2RV(r)
      BY <1>6
    <2>2. /\ at = "stage2.poll" /\ r \in todo
          /\ UNCHANGED <<cm, at, cur, drbdr, rvr, linstor>>
      BY <2>1 DEF processStage2RV, stage1Vars
    <2>3. CASE rv[r].step = "exit" /\ work' = [work EXCEPT ![r] = "clear"] /\ UNCHANGED <<todo, maint, rv>>
      BY <2>2, <2>3 DEF TypeInv, VolumeInv, StageInv, LinstorInv
    <2>4. CASE /\ work[r] = "clear" /\ \E i \in maint[r] : maint' = [maint EXCEPT ![r] = @ \ {i}]
               /\ UNCHANGED <<work, todo, rv>>
      <3>1. TypeInv' /\ StageInv' /\ LinstorInv'
        BY <2>2, <2>4 DEF TypeInv, StageInv, LinstorInv
      <3>2. ASSUME NEW s \in Resources PROVE VolumeInv(s)'
        BY <2>2, <2>4 DEF TypeInv, VolumeInv
      <3> QED
        BY <3>1, <3>2
    <2>5. CASE /\ work[r] = "clear" /\ maint[r] = {} /\ rv' = [rv EXCEPT ![r].adopt = FALSE]
               /\ work' = [work EXCEPT ![r] = "idle"] /\ todo' = todo \ {r} /\ UNCHANGED maint
      <3>1. /\ rv' \in [Resources -> Volume] /\ \A s \in Resources \ {r} : rv'[s] = rv[s]
            /\ ~rv'[r].adopt /\ rv'[r].exists = rv[r].exists /\ rv'[r].step = rv[r].step
            /\ rv'[r].members = rv[r].members /\ rv'[r].observed = rv[r].observed
        BY <2>5, AdoptAssigned DEF TypeInv
      <3>2. TypeInv'
        BY <2>2, <2>5, <3>1 DEF TypeInv
      <3>3. ASSUME NEW s \in Resources PROVE VolumeInv(s)'
        <4>1. CASE s = r
          BY <2>2, <2>5, <3>1, <4>1 DEF TypeInv, VolumeInv
        <4>2. CASE s # r
          BY <2>2, <2>5, <3>1, <4>2 DEF TypeInv, VolumeInv
        <4> QED
          BY <4>1, <4>2
      <3>4. StageInv' /\ LinstorInv'
        BY <2>2, <2>5, <3>1 DEF StageInv, LinstorInv, Stage1Loop
      <3> QED
        BY <3>2, <3>3, <3>4
    <2> QED
      BY <2>1, <2>3, <2>4, <2>5 DEF processStage2RV, matchesExitGate
  <1>7. CASE updateMigrationStateStage2Completed
    BY <1>7 DEF TypeInv, VolumeInv, StageInv, LinstorInv, updateMigrationStateStage2Completed,
       stage1Vars, PastStage1, PastStage2, Stage1Loop
  <1>8. CASE Stage3
    BY <1>8, Zenon DEF TypeInv, VolumeInv, StageInv, LinstorInv, Stage3, runStage3, stage1Vars,
       PastStage1, PastStage2, Stage1Loop
  <1>9. CASE ensureConversionRSPs
    BY <1>9 DEF TypeInv, VolumeInv, StageInv, LinstorInv, ensureConversionRSPs, stage1Vars,
       PastStage1, PastStage2, Stage1Loop
  <1>10. CASE switchRVsToAuto
    <2>1. UNCHANGED <<cm, todo, work, drbdr, rvr, maint, linstor>> /\ at = "stage4.switch" /\ at' = "stage4.cleanup"
      BY <1>10 DEF switchRVsToAuto, stage1Vars
    <2>2. ASSUME NEW s \in Resources
          PROVE  /\ rv'[s] \in Volume /\ rv'[s].exists = rv[s].exists /\ rv'[s].adopt = rv[s].adopt
                 /\ rv'[s].step = rv[s].step /\ rv'[s].members = rv[s].members /\ rv'[s].observed = rv[s].observed
      <3>1. rv'[s] = rv[s] \/ rv'[s] = switchRVToAuto(s)
        BY <1>10 DEF switchRVsToAuto
      <3>2. rv[s] \in Volume
        BY DEF TypeInv
      <3>3. \/ switchRVToAuto(s) = rv[s] \/ switchRVToAuto(s) = [rv[s] EXCEPT !.label = "orphan"]
            \/ switchRVToAuto(s) = [rv[s] EXCEPT !.label = "blocked"]
            \/ switchRVToAuto(s) = [rv[s] EXCEPT !.label = None, !.mode = "Auto"]
        BY DEF switchRVToAuto
      <3> QED
        <4>1. CASE rv'[s] = [rv[s] EXCEPT !.label = "orphan"]
          BY Zenon, <3>2, <4>1, LabelAssigned
        <4>2. CASE rv'[s] = [rv[s] EXCEPT !.label = "blocked"]
          BY Zenon, <3>2, <4>2, LabelAssigned
        <4>3. CASE rv'[s] = [rv[s] EXCEPT !.label = None, !.mode = "Auto"]
          BY Zenon, <3>2, <4>3, ModeAssigned
        <4> QED
          BY <3>1, <3>2, <3>3, <4>1, <4>2, <4>3
    <2>3. TypeInv'
      <3>1. rv' \in [Resources -> Volume]
        BY <1>10, <2>2 DEF switchRVsToAuto
      <3> QED
        BY <2>1, <3>1 DEF TypeInv
    <2>4. ASSUME NEW s \in Resources PROVE VolumeInv(s)'
      BY <2>1, <2>2 DEF VolumeInv
    <2>5. StageInv' /\ LinstorInv'
      BY <2>1, <2>2 DEF StageInv, LinstorInv, Stage1Loop
    <2> QED
      BY <2>3, <2>4, <2>5
  <1>11. CASE finishIteration
    BY <1>11 DEF TypeInv, VolumeInv, StageInv, LinstorInv, finishIteration, stage1Vars,
       PastStage1, PastStage2, Stage1Loop
  <1>12. CASE World
    BY <1>12 DEF TypeInv, VolumeInv, StageInv, LinstorInv, World, WorldFrame, ConvertClass,
       ClassSettles, PoolVanishes, procVars, stage1Vars
  <1>13. CASE Crash
    BY <1>13, Zenon DEF TypeInv, VolumeInv, StageInv, LinstorInv, Crash, Idle, stage1Vars, Stage1Loop
  <1>14. CASE \E r \in Resources : Adopt(r)
    <2>1. PICK r \in Resources : Adopt(r)
      BY <1>14
    <2>2. UNCHANGED <<cm, at, cur, todo, work, drbdr, rvr, maint, linstor>>
      BY <2>1 DEF Adopt, AdoptFrame, procVars, stage1Vars, reconcileAdoptStepVerifyPrerequisites,
         reconcileAdoptStepPopulateAndVerifyDatamesh, ObserveRevision, reconcileAdoptStepExitMaintenance
    <2> DEFINE Same(s) == /\ rv'[s] \in Volume /\ rv'[s].exists = rv[s].exists /\ rv'[s].adopt = rv[s].adopt
    <2>3. ASSUME rv' \in [Resources -> Volume], \A s \in Resources : Same(s), VolumeInv(r)',
                 \A s \in Resources \ {r} : rv'[s] = rv[s]
          PROVE  MInv'
      <3>1. TypeInv'
        BY <2>2, <2>3 DEF TypeInv
      <3>2. ASSUME NEW s \in Resources PROVE VolumeInv(s)'
        <4>1. CASE s # r
          BY <2>2, <2>3, <4>1 DEF VolumeInv
        <4> QED
          BY <2>3, <4>1
      <3>3. StageInv' /\ LinstorInv'
        BY <2>2, <2>3 DEF StageInv, LinstorInv, Stage1Loop
      <3> QED
        BY <3>1, <3>2, <3>3
    <2>4. CASE reconcileAdoptStepVerifyPrerequisites(r)
      <3>1. PICK x \in {"populate", "verify"} : rv' = [rv EXCEPT ![r].step = x]
        BY <2>4 DEF reconcileAdoptStepVerifyPrerequisites
      <3>2. rv[r].exists /\ rv[r].adopt /\ rv[r].step \in {None, "verify"}
        BY <2>4 DEF reconcileAdoptStepVerifyPrerequisites
      <3>3. /\ rv' \in [Resources -> Volume] /\ rv'[r].step = x /\ \A s \in Resources : Same(s)
            /\ rv'[r].members = rv[r].members /\ rv'[r].observed = rv[r].observed
            /\ \A s \in Resources \ {r} : rv'[s] = rv[s]
        <4> DEFINE w == [rv[r] EXCEPT !.step = x]
        <4>1. /\ w \in Volume /\ w.step = x /\ w.exists = rv[r].exists /\ w.adopt = rv[r].adopt
              /\ w.members = rv[r].members /\ w.observed = rv[r].observed
          <5>1. rv[r] \in Volume /\ x \in {None, "verify", "populate", "exit", "formed"}
            BY <3>1 DEF TypeInv
          <5> QED
            BY Zenon, <5>1, StepAssigned
        <4>2. rv' = [rv EXCEPT ![r] = w]
          BY <3>1
        <4> HIDE DEF w
        <4> QED
          BY <4>1, <4>2 DEF TypeInv
      <3>4. VolumeInv(r)'
        BY <2>2, <3>2, <3>3 DEF VolumeInv, None
      <3> QED
        BY <2>3, <3>3, <3>4
    <2>5. CASE rv[r].step = "populate" /\ rv[r].members = {} /\ rvr[r] # {} /\ rv' = [rv EXCEPT ![r].members = rvr[r]]
      <3>1. /\ rv' \in [Resources -> Volume] /\ rv'[r].members = rvr[r] /\ \A s \in Resources : Same(s)
            /\ rv'[r].step = rv[r].step /\ rv'[r].observed = rv[r].observed
            /\ \A s \in Resources \ {r} : rv'[s] = rv[s]
        BY <2>5 DEF TypeInv, Volume
      <3>2. VolumeInv(r)'
        BY <2>2, <2>5, <3>1 DEF VolumeInv, None
      <3> QED
        BY <2>3, <3>1, <3>2
    <2>6. CASE /\ rv[r].step = "populate" /\ rv[r].members # {} /\ rv[r].observed
               /\ rv' = [rv EXCEPT ![r].step = "exit"]
      <3>1. /\ rv' \in [Resources -> Volume] /\ rv'[r].step = "exit" /\ \A s \in Resources : Same(s)
            /\ rv'[r].members = rv[r].members /\ rv'[r].observed = rv[r].observed
            /\ \A s \in Resources \ {r} : rv'[s] = rv[s]
        <4> DEFINE w == [rv[r] EXCEPT !.step = "exit"]
        <4>1. /\ w \in Volume /\ w.step = "exit" /\ w.exists = rv[r].exists /\ w.adopt = rv[r].adopt
              /\ w.members = rv[r].members /\ w.observed = rv[r].observed
          BY StepAssigned, Zenon DEF TypeInv
        <4>2. rv' = [rv EXCEPT ![r] = w]
          BY <2>6
        <4> HIDE DEF w
        <4> QED
          BY <4>1, <4>2 DEF TypeInv
      <3>2. VolumeInv(r)'
        BY <2>2, <2>6, <3>1 DEF VolumeInv, None
      <3> QED
        BY <2>3, <3>1, <3>2
    <2>7. CASE rv' = [rv EXCEPT ![r].observed = TRUE]
      <3>1. /\ rv' \in [Resources -> Volume] /\ rv'[r].observed /\ \A s \in Resources : Same(s)
            /\ rv'[r].members = rv[r].members /\ rv'[r].step = rv[r].step
            /\ \A s \in Resources \ {r} : rv'[s] = rv[s]
        BY <2>7, ObservedAssigned DEF TypeInv
      <3>2. VolumeInv(r)'
        BY <2>2, <3>1 DEF VolumeInv
      <3> QED
        BY <2>3, <3>1, <3>2
    <2>8. CASE rv[r].step = "exit" /\ rv' = [rv EXCEPT ![r].step = "formed"]
      <3>1. /\ rv' \in [Resources -> Volume] /\ rv'[r].step = "formed" /\ \A s \in Resources : Same(s)
            /\ rv'[r].members = rv[r].members /\ rv'[r].observed = rv[r].observed
            /\ \A s \in Resources \ {r} : rv'[s] = rv[s]
        <4> DEFINE w == [rv[r] EXCEPT !.step = "formed"]
        <4>1. /\ w \in Volume /\ w.step = "formed" /\ w.exists = rv[r].exists /\ w.adopt = rv[r].adopt
              /\ w.members = rv[r].members /\ w.observed = rv[r].observed
          BY StepAssigned, Zenon DEF TypeInv
        <4>2. rv' = [rv EXCEPT ![r] = w]
          BY <2>8
        <4> HIDE DEF w
        <4> QED
          BY <4>1, <4>2 DEF TypeInv
      <3>2. VolumeInv(r)'
        BY <2>2, <2>8, <3>1 DEF VolumeInv, None
      <3> QED
        BY <2>3, <3>1, <3>2
    <2> QED
      BY <2>1, <2>4, <2>5, <2>6, <2>7, <2>8 DEF Adopt, reconcileAdoptStepPopulateAndVerifyDatamesh,
         ObserveRevision, reconcileAdoptStepExitMaintenance
  <1>15. CASE \E r \in Resources : UserDeletesVolume(r)
    BY <1>15 DEF TypeInv, VolumeInv, StageInv, LinstorInv, UserDeletesVolume, WorldFrame, procVars, stage1Vars
  <1>16. CASE \E r \in Resources : TransientError(r)
    <2>1. PICK r \in Resources : /\ work' = [work EXCEPT ![r] = "idle"]
                                 /\ UNCHANGED <<cm, at, cur, todo, drbdr, rvr, maint, rv, linstor>>
      BY <1>16, Zenon DEF TransientError, stage1Vars
    <2> QED
      BY <2>1 DEF TypeInv, VolumeInv, StageInv, LinstorInv
  <1>17. CASE UNCHANGED vars
    BY <1>17 DEF TypeInv, VolumeInv, StageInv, LinstorInv, vars, procVars, stage1Vars
  <1> QED
    BY <1>1, <1>2, <1>3, <1>4, <1>5, <1>6, <1>7, <1>8, <1>9, <1>10, <1>11, <1>12, <1>13, <1>14,
       <1>15, <1>16, <1>17 DEF Next, Migrator

\* The order of creation, adoption, recorded stages and removal is never broken.
THEOREM MInvHolds == Spec => []MInv
  BY MInvInit, MInvNext, PTL DEF Spec

\* Stage 3 never removes LINSTOR's database before it is backed up and every volume made
\* from it has all its replicas for members and is out of maintenance.
THEOREM LinstorStays == Spec => []LinstorOutlivesItsUse
  <1>1. MInv => LinstorOutlivesItsUse
    BY DEF MInv, TypeInv, VolumeInv, StageInv, LinstorInv, LinstorOutlivesItsUse, Volume,
       PastStage1, PastStage2
  <1> QED
    BY <1>1, MInvHolds, PTL

\* Stage 2 never ends the maintenance of a replica before its volume has all replicas for
\* members and their agents have seen it.
THEOREM AdoptionIsCovered == Spec => []MaintenanceCoversAdoption
  <1>1. MInv => MaintenanceCoversAdoption
    BY DEF MInv, VolumeInv, MaintenanceCoversAdoption
  <1> QED
    BY <1>1, MInvHolds, PTL
=============================================================================
