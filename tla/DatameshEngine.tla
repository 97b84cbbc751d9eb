--------------------------- MODULE DatameshEngine ---------------------------
(***************************************************************************)
(* The domain-independent half of the engine (package dmte): what applying *)
(* a step, advancing a confirmed transition and creating a transition do   *)
(* to a datamesh state, and which transitions may run side by side.        *)
(***************************************************************************)
EXTENDS DatameshState

\* Wrap-around arithmetic of the Go byte fields.
Byte(n) == n % 256

\* The apply callback of a step on subject r, without the revision.
Mutate(s, r, step) ==
    LET removed == step.to = None
        type    == IF step.to = "keep" THEN s.type ELSE [s.type EXCEPT ![r] = step.to]
        bv      == IF removed \/ step.bv = "clear" THEN [s.bv EXCEPT ![r] = None]
                   ELSE IF step.bv = "set" THEN [s.bv EXCEPT ![r] = rvr[r].req.bv]
                   ELSE s.bv
        att     == IF removed \/ step.flag = "detach" THEN s.attached \ {r}
                   ELSE IF step.flag = "attach" THEN s.attached \cup {r}
                   ELSE s.attached
        multi   == IF step.flag = "enable" THEN TRUE
                   ELSE IF step.flag = "disable" THEN FALSE ELSE s.multi
        q       == CASE step.q = "up"   -> Byte(s.q + 1)
                     [] step.q = "down" -> Byte(s.q + 255)
                     [] step.q = "fix"  -> CorrectQ(s)
                     [] OTHER           -> s.q
        qmr     == CASE step.qmr = "up"   -> Byte(s.qmr + 1)
                     [] step.qmr = "down" -> Byte(s.qmr + 255)
                     [] step.qmr = "fix"  -> CorrectQMR(s)
                     [] OTHER             -> s.qmr
        base    == IF step.base = "apply" THEN BaselineGMDR(qmr) ELSE s.base
    IN  [s EXCEPT !.type = type, !.bv = bv, !.attached = att, !.multi = multi,
                  !.q = q, !.qmr = qmr, !.base = base]

\* applyStep: the revision moves only when the apply callback changed something.
ApplyStep(s, r, step) ==
    LET s1 == Mutate(s, r, step)
    IN  IF s1 = s THEN s ELSE [s1 EXCEPT !.rev = s.rev + 1]

\* The transition record once step k of the plan has been applied in s.
AtStep(plan, k, s) == [plan |-> plan, step |-> k, rev |-> s.rev]

\* onComplete of a confirmed step
StepCompleted(s, step) ==
    IF step.base = "complete" THEN [s EXCEPT !.base = BaselineGMDR(s.qmr)] ELSE s

IsLastStep(t) == t.step = Len(PlanOf(t).steps)

NextStep(t) == PlanOf(t).steps[t.step + 1]

\* State and slot content after a confirmed transition of subject r advanced:
\* its next step is applied, or the transition is complete and the slot empty.
Advanced(s, r, t) ==
    LET s1 == StepCompleted(s, StepOf(t))
    IN  IF IsLastStep(t) THEN s1 ELSE ApplyStep(s1, r, NextStep(t))

AdvancedSlot(s, r, t) ==
    IF IsLastStep(t) THEN Idle ELSE AtStep(t.plan, t.step + 1, Advanced(s, r, t))

\* Creating a transition applies its first step right away.
Created(s, r, plan) == ApplyStep(s, r, Registry[plan].steps[1])

CreatedSlot(s, r, plan) == AtStep(plan, 1, Created(s, r, plan))

\* setBackingVolumeFromRequest dereferences the membership request.
NeedsRequest(step) == step.bv = "set"

----------------------------------------------------------------------------
(* concurrencyTracker.CanAdmit; pot is gctx.potentiallyAttached *)

\* Defective variant: nobody waits for a multiattach toggle to be confirmed.
CanAdmitDuringToggle(s, pot, r, plan) ==
    LET group == Registry[plan].group
    IN  /\ group = "Attachment" => pot \subseteq {r} \/ s.multi
        /\ group = "Multiattach" => ~hasMultiattachTransition(s)

CanAdmit(s, pot, r, plan) ==
    LET group == Registry[plan].group
    IN  /\ group = "VotingMembership" =>
              votingMembershipTransitions(s) = {} /\ ~hasQuorumTransition(s)
        /\ group = "Quorum" =>
              votingMembershipTransitions(s) = {} /\ ~hasQuorumTransition(s)
        /\ group = "Attachment" =>
              pot \subseteq {r} \/ (s.multi /\ ~hasMultiattachTransition(s))
        /\ group = "Multiattach" => ~hasMultiattachTransition(s)
============================================================================
