--------------------------- MODULE ResidencyProofs ---------------------------
(***************************************************************************)
(* The quiesce controller, the transition that drives it and the lending    *)
(* service on top, for every number of callers, borrowers, tickets and      *)
(* epochs and every set of faults.                                          *)
(*                                                                          *)
(* Of the controller's invariants none is inductive alone: that an epoch's   *)
(* tickets are gone when it is quiesced rests on the drain evidence being    *)
(* fresh, and that every ticket is of the live epoch rests on no ticket      *)
(* surviving into warming.  The transition calls the controller and keeps    *)
(* the shared stack under compute: one caller owns a transition, so what the *)
(* owner found when it took a step still holds when it takes the next; only  *)
(* compute runs in between, and compute can neither close nor open           *)
(* admission.  Lending does nothing to the transition that its callers may   *)
(* not do, so the transition's theorems hold of the lending service, and the *)
(* lease makes borrowers exclude each other, whatever it answers.            *)
(*                                                                          *)
(* That service and borrowers take turns on the device rests on who may ask  *)
(* for a resume: a binding either finds one let through, and is overtaken,   *)
(* or none; after it only the bound borrower's is let through while that has *)
(* its lease, and that borrower asks only once it has left the device.       *)
(***************************************************************************)
EXTENDS BorrowerHold, TLAPS

----------------------------------------------------------------------------
(* The quiesce controller.                                                  *)

\* The conjunction that is inductive.
ControllerInv ==
    /\ TypeOK
    /\ TicketsOfLiveEpoch
    /\ ReleasedMeansNoCompute
    /\ DrainEvidenceFresh
    /\ VramFlagTracksQuiesced

\* The controller starts with admission open and nothing tracked.
LEMMA InitEstablishes == Init => ControllerInv
  <1> SUFFICES ASSUME Init PROVE ControllerInv
    OBVIOUS
  <1>1. TypeOK
    <2>1. activeTickets \subseteq Tickets /\ drainWaiters \subseteq Waiters
      BY DEF Init
    <2>2. evidence \subseteq Evidence
      BY DEF Init
    <2>3. state \in States /\ failureReason \in Failures /\ vramReleased \in BOOLEAN
      BY DEF Init, States, Failures
    <2>4. admissionEpoch \in Nat \ {0} /\ nextTicketId \in Nat \ {0}
      BY DEF Init
    <2> QED BY <2>1, <2>2, <2>3, <2>4 DEF TypeOK
  <1>2. VramFlagTracksQuiesced
    BY DEF Init, VramFlagTracksQuiesced
  <1> QED
    BY <1>1, <1>2 DEF Init, ControllerInv, TicketsOfLiveEpoch,
                      ReleasedMeansNoCompute, DrainEvidenceFresh

\* Every method of the controller, in any order and from any thread, keeps the
\* inductive invariant.
LEMMA NextPreserves == ControllerInv /\ [Next]_quiesceVars => ControllerInv'
  <1> SUFFICES ASSUME ControllerInv, [Next]_quiesceVars
               PROVE  ControllerInv'
    OBVIOUS
  <1> USE DEF ControllerInv, TypeOK, TicketsOfLiveEpoch, ReleasedMeansNoCompute,
              DrainEvidenceFresh, VramFlagTracksQuiesced, States, Evidence,
              Failures, Tickets, recordVars, ticketVars
  <1>1. CASE AcquireTicket
    BY <1>1 DEF AcquireTicket, NextTicket
  <1>2. ASSUME NEW t \in activeTickets, ReleaseTicket(t)
        PROVE  ControllerInv'
    BY <1>2 DEF ReleaseTicket
  <1>3. CASE BeginPause
    BY <1>3 DEF BeginPause
  <1>4. ASSUME NEW w \in Waiters, WaitForDrain(w)
        PROVE  ControllerInv'
    BY <1>4 DEF WaitForDrain, AcknowledgeDrain, quiesceVars
  <1>5. ASSUME NEW w \in Waiters, DrainObserved(w)
        PROVE  ControllerInv'
    BY <1>5 DEF DrainObserved, AcknowledgeDrain
  <1>6. ASSUME NEW w \in Waiters, DrainTimedOut(w)
        PROVE  ControllerInv'
    BY <1>6 DEF DrainTimedOut
  <1>7. CASE AcknowledgeVramReleased
    BY <1>7 DEF AcknowledgeVramReleased
  <1>8. ASSUME NEW required \in {"pausing", "warming"}, FailTransition(required)
        PROVE  ControllerInv'
    BY <1>8 DEF FailTransition
  <1>9. CASE AbortPause
    BY <1>9 DEF AbortPause, Reopen, quiesceVars
  <1>10. CASE BeginWarming
    BY <1>10 DEF BeginWarming
  <1>11. CASE CompleteWarming
    <2>1. CASE state = "warming" /\ Reopen /\ admissionEpoch' = admissionEpoch + 1
      <3>1. activeTickets = {} /\ activeTickets' = {}
        BY <2>1 DEF Reopen
      <3>2. state' = "running" /\ vramReleased' = FALSE
        BY <2>1 DEF Reopen
      <3>3. evidence' \subseteq Evidence
        BY <2>1, Zenon DEF Reopen
      <3>4. (nextTicketId \in Nat \ {0} /\ failureReason \in Failures
              /\ drainWaiters \subseteq Waiters)'
        BY <2>1 DEF Reopen
      <3>5. admissionEpoch' \in Nat \ {0}
        BY <2>1
      <3>6. TypeOK'
        BY <3>1, <3>2, <3>3, <3>4, <3>5
      <3> QED BY <3>1, <3>2, <3>6
    <2>2. CASE state # "warming" /\ UNCHANGED quiesceVars
      BY <2>2 DEF quiesceVars
    <2> QED BY <1>11, <2>1, <2>2 DEF CompleteWarming
  <1>12. CASE UNCHANGED quiesceVars
    BY <1>12 DEF quiesceVars
  <1> QED
    BY <1>1, <1>2, <1>3, <1>4, <1>5, <1>6, <1>7, <1>8, <1>9, <1>10, <1>11, <1>12
       DEF Next

\* Under any callers, the inductive invariant always holds.
THEOREM ControllerInvariant == Spec => []ControllerInv
  BY InitEstablishes, NextPreserves, PTL DEF Spec

\* Every variable of the controller keeps its type (TypeOK).
THEOREM ControllerTypeCorrect == Spec => []TypeOK
  BY ControllerInvariant, PTL DEF ControllerInv

\* From the moment the GPU is declared released until admission reopens, no
\* compute section runs, for every number of threads and tickets.
THEOREM NoComputeWhileReleased == Spec => []ReleasedMeansNoCompute
  BY ControllerInvariant, PTL DEF ControllerInv

\* No admission epoch is advanced over work it admitted: every live ticket is
\* of the epoch in force.
THEOREM NoTicketOutlivesItsEpoch == Spec => []TicketsOfLiveEpoch
  BY ControllerInvariant, PTL DEF ControllerInv

----------------------------------------------------------------------------
(* The resource transition.                                                 *)

\* At most one caller is at an owner's step, and then a transition is owned.
CallsSound ==
    /\ operation \in Directions \cup {"none"}
    /\ pc \in [Waiters -> OwnerSteps \cup {"idle", "joined"}]
    /\ \A c \in Waiters : pc[c] \in OwnerSteps => operation # "none"
    /\ \A c, d \in Waiters : pc[c] \in OwnerSteps /\ pc[d] \in OwnerSteps => c = d

DrainAcknowledged == "drain_acknowledged" \in evidence

\* What the owner knows of the controller and of the stack at each step.
KnownAt(step) ==
    /\ step \in {"request_quiesce", "drain", "draining", "restore", "reclose"}
        => state = "pausing"
    /\ step \in {"detach", "release", "acknowledge"}
        => state = "pausing" /\ DrainAcknowledged
    /\ step \in {"release", "acknowledge"} => vram # "resident"
    /\ step = "begin_warming" => state \in {"quiesced", "warming"}
    /\ step = "reclaim" => state = "warming"
    /\ step = "reopened" => state = "running"
    /\ step = "reload" => state = "warming" \/ (state = "pausing" /\ DrainAcknowledged)
    /\ step \in {"prepare", "reopen"}
        => state \in {"pausing", "warming"} /\ ~ResidencyDetached

OwnersKnow == \A c \in Waiters : KnownAt(pc[c])

\* Whoever computes on the stack holds a ticket, and the stack is there; it is
\* not there while quiesced.
StackSound ==
    /\ using \subseteq activeTickets
    /\ using # {} => vram = "resident"
    /\ state = "quiesced" => vram # "resident"

\* With admission open no drain stands acknowledged: whoever waits for one owns
\* the pause it is of.
DrainSound == state = "running" => ~DrainAcknowledged

\* The conjunction that is inductive.
ResidencyInv == ControllerInv /\ CallsSound /\ OwnersKnow /\ StackSound /\ DrainSound

----------------------------------------------------------------------------
(* Ownership.                                                               *)

\* The owner that goes on is still the only one.
LEMMA OwnerGoesOn ==
  ASSUME CallsSound, NEW c \in Waiters, pc[c] \in OwnerSteps,
         NEW step \in OwnerSteps, Goto(c, step)
  PROVE  /\ CallsSound'
         /\ pc'[c] = step
         /\ \A x \in Waiters : x # c => pc'[x] \notin OwnerSteps
  <1>1. pc' = [pc EXCEPT ![c] = step] /\ operation' = operation
    BY DEF Goto
  <1>2. pc'[c] = step /\ \A x \in Waiters : x # c => pc'[x] = pc[x]
    BY <1>1 DEF CallsSound
  <1>3. pc' \in [Waiters -> OwnerSteps \cup {"idle", "joined"}]
    BY <1>1 DEF CallsSound
  <1>4. \A x \in Waiters : x # c => pc'[x] \notin OwnerSteps
    BY <1>2 DEF CallsSound
  <1> QED BY <1>1, <1>2, <1>3, <1>4 DEF CallsSound

\* The owner that finishes leaves no owner behind.
LEMMA OwnerFinishes ==
  ASSUME CallsSound, NEW c \in Waiters, pc[c] \in OwnerSteps,
         NEW code, Finish(c, code)
  PROVE  /\ CallsSound'
         /\ \A x \in Waiters : pc'[x] \notin OwnerSteps
  <1>1. /\ operation' = "none"
        /\ pc' = [x \in Waiters |-> IF x = c \/ pc[x] = "joined" THEN "idle" ELSE pc[x]]
    BY DEF Finish
  <1>2. pc' \in [Waiters -> OwnerSteps \cup {"idle", "joined"}]
    BY <1>1 DEF CallsSound
  <1>3. \A x \in Waiters : pc'[x] \notin OwnerSteps
    BY <1>1 DEF CallsSound, OwnerSteps
  <1> QED BY <1>1, <1>2, <1>3 DEF CallsSound

\* With no owner there is nothing to know.
LEMMA NoOwnerKnows ==
  ASSUME \A x \in Waiters : pc'[x] \notin OwnerSteps
  PROVE  OwnersKnow'
  BY DEF OwnersKnow, KnownAt, OwnerSteps

\* With one owner only what it knows counts.
LEMMA OneOwnerKnows ==
  ASSUME NEW c \in Waiters, KnownAt(pc[c])',
         \A x \in Waiters : x # c => pc'[x] \notin OwnerSteps
  PROVE  OwnersKnow'
  BY DEF OwnersKnow, KnownAt, OwnerSteps

----------------------------------------------------------------------------
(* Refinement.                                                              *)

\* A transition's failure reports name the state its owner knows it is in; every
\* other step of the registry is one method of the controller, or none.
LEMMA StepImplements ==
  ASSUME ResidencyInv, [ResidencyNext]_residencyVars
  PROVE  [Next]_quiesceVars
  <1>1. ASSUME NEW c \in Waiters, NEW d \in Directions, Request(c, d)
        PROVE  UNCHANGED quiesceVars
    BY <1>1 DEF Request
  <1>2. ASSUME NEW c \in Waiters, JoinTimedOut(c) \/ TakeOutcome(c)
        PROVE  UNCHANGED quiesceVars
    BY <1>2 DEF JoinTimedOut, TakeOutcome
  <1>3. ASSUME NEW c \in Waiters, Observe(c) \/ ReclaimGpu(c)
        PROVE  UNCHANGED quiesceVars
    BY <1>3 DEF Observe, ReclaimGpu
  <1>4. ASSUME NEW c \in Waiters, PauseStep(c)
        PROVE  [Next]_quiesceVars
    <2>1. CASE StartPause(c)
      BY <2>1 DEF StartPause, Next
    <2>2. CASE RequestQuiesceAttempts(c) \/ DetachGpuDependencies(c)
      BY <2>2 DEF RequestQuiesceAttempts, DetachGpuDependencies
    <2>3. CASE Drain(c) \/ Drained(c) \/ DrainGivenUp(c)
      BY <2>3 DEF Drain, Drained, DrainGivenUp, Next
    <2>4. CASE ReleaseGpuResidency(c)
      BY <2>4 DEF ReleaseGpuResidency, Next
    <2>5. CASE Acknowledge(c)
      BY <2>5 DEF Acknowledge, Next
    <2> QED BY <1>4, <2>1, <2>2, <2>3, <2>4, <2>5 DEF PauseStep
  <1>5. ASSUME NEW c \in Waiters, ResumeStep(c)
        PROVE  [Next]_quiesceVars
    <2>1. CASE RestorePausedGpuDependencies(c)
      BY <2>1 DEF RestorePausedGpuDependencies, Next
    <2>2. CASE StartWarming(c)
      BY <2>2 DEF StartWarming, Next
    <2>3. CASE RestoreGpuResidency(c)
      <3>1. state \in {"pausing", "warming"}
        BY <2>3 DEF RestoreGpuResidency, At, ResidencyInv, OwnersKnow, KnownAt
      <3> QED BY <2>3, <3>1 DEF RestoreGpuResidency, Next
    <2>4. CASE PrepareRecovery(c)
      <3>1. state \in {"pausing", "warming"}
        BY <2>4 DEF PrepareRecovery, At, ResidencyInv, OwnersKnow, KnownAt
      <3> QED BY <2>4, <3>1 DEF PrepareRecovery, Next
    <2>5. CASE ReopenAdmission(c)
      BY <2>5 DEF ReopenAdmission, Next
    <2>6. CASE CompleteReopenedRecovery(c)
      BY <2>6 DEF CompleteReopenedRecovery, Next
    <2>7. CASE Reclose(c)
      BY <2>7 DEF Reclose, Next
    <2> QED BY <1>5, <2>1, <2>2, <2>3, <2>4, <2>5, <2>6, <2>7 DEF ResumeStep
  <1>6. CASE ComputeStep
    BY <1>6 DEF ComputeStep, Admit, UseStack, EndCompute, Next
  <1>7. CASE UNCHANGED residencyVars
    BY <1>7 DEF residencyVars
  <1> QED
    BY <1>1, <1>2, <1>3, <1>4, <1>5, <1>6, <1>7 DEF ResidencyNext, OwnerStep

----------------------------------------------------------------------------
(* The steps of an owner.                                                   *)

\* Each step of a pause leaves its owner knowing what its next step needs.
LEMMA PauseKeeps ==
  ASSUME ResidencyInv, NEW c \in Waiters, PauseStep(c)
  PROVE  CallsSound' /\ OwnersKnow' /\ StackSound'
  <1> USE DEF ResidencyInv
  <1>o. pc[c] \in OwnerSteps
    BY DEF PauseStep, StartPause, RequestQuiesceAttempts, Drain, Drained,
           DrainGivenUp, DetachGpuDependencies, ReleaseGpuResidency, Acknowledge,
           At, OwnerSteps
  <1>k. KnownAt(pc[c])
    BY DEF OwnersKnow
  <1>g. ASSUME NEW step \in OwnerSteps, Goto(c, step),
               KnownAt(pc[c])', StackSound'
        PROVE  CallsSound' /\ OwnersKnow' /\ StackSound'
    BY <1>o, <1>g, OwnerGoesOn, OneOwnerKnows
  <1>f. ASSUME NEW code, Finish(c, code), StackSound'
        PROVE  CallsSound' /\ OwnersKnow' /\ StackSound'
    BY <1>o, <1>f, OwnerFinishes, NoOwnerKnows
  <1>n. ASSUME NEW step \in OwnerSteps, Goto(c, step)
        PROVE  pc'[c] = step
    BY <1>o, <1>n, OwnerGoesOn
  <1>1. CASE StartPause(c)
    <2>1. StackSound'
      BY <1>1 DEF StartPause, BeginPause, stackVars, ticketVars, StackSound
    <2>2. ASSUME state' = "pausing", Goto(c, "request_quiesce")
          PROVE  KnownAt(pc[c])'
      BY <2>2, <1>n DEF KnownAt, OwnerSteps
    <2> QED BY <1>1, <1>g, <1>f, <2>1, <2>2 DEF StartPause, OwnerSteps
  <1>2. CASE RequestQuiesceAttempts(c)
    <2>1. StackSound' /\ state' = state /\ state = "pausing"
      BY <1>2, <1>k DEF RequestQuiesceAttempts, stackVars, quiesceVars, recordVars,
           ticketVars, StackSound, At, KnownAt
    <2>2. ASSUME Goto(c, "drain") PROVE KnownAt(pc[c])'
      BY <2>1, <2>2, <1>n DEF KnownAt, OwnerSteps
    <2> QED BY <1>2, <1>g, <1>f, <2>1, <2>2 DEF RequestQuiesceAttempts, OwnerSteps
  <1>3. CASE Drain(c)
    <2>1. state = "pausing"
      BY <1>3, <1>k DEF Drain, At, KnownAt
    <2>2. state' = "pausing" /\ StackSound' /\ (c \in drainWaiters' \/ DrainAcknowledged')
      BY <1>3, <2>1 DEF Drain, WaitForDrain, AcknowledgeDrain, DrainAcknowledged,
           stackVars, ticketVars, recordVars, StackSound
    <2>3. CASE c \in drainWaiters'
      <3>1. Goto(c, "draining")
        BY <1>3, <2>3 DEF Drain
      <3>2. KnownAt(pc[c])'
        BY <2>2, <3>1, <1>n DEF KnownAt, OwnerSteps
      <3> QED BY <1>g, <2>2, <3>1, <3>2 DEF OwnerSteps
    <2>4. CASE c \notin drainWaiters'
      <3>1. Goto(c, "detach")
        BY <1>3, <2>4 DEF Drain
      <3>2. KnownAt(pc[c])'
        BY <2>2, <2>4, <3>1, <1>n DEF KnownAt, OwnerSteps
      <3> QED BY <1>g, <2>2, <3>1, <3>2 DEF OwnerSteps
    <2> QED BY <2>3, <2>4
  <1>4. CASE Drained(c)
    <2>1. state' = "pausing" /\ StackSound' /\ DrainAcknowledged'
      BY <1>4, <1>k DEF Drained, DrainObserved, AcknowledgeDrain, DrainAcknowledged,
           stackVars, ticketVars, StackSound, At, KnownAt
    <2>2. Goto(c, "detach")
      BY <1>4 DEF Drained
    <2>3. KnownAt(pc[c])'
      BY <2>1, <2>2, <1>n DEF KnownAt, OwnerSteps
    <2> QED BY <1>g, <2>1, <2>2, <2>3 DEF OwnerSteps
  <1>5. CASE DrainGivenUp(c)
    <2>1. StackSound'
      BY <1>5 DEF DrainGivenUp, DrainTimedOut, stackVars, ticketVars, StackSound
    <2> QED BY <1>5, <1>f, <2>1 DEF DrainGivenUp
  <1>6. CASE DetachGpuDependencies(c)
    <2>1. state = "pausing" /\ DrainAcknowledged
      BY <1>6, <1>k DEF DetachGpuDependencies, At, KnownAt
    <2>2. using = {}
      BY <2>1 DEF ControllerInv, DrainEvidenceFresh, DrainAcknowledged, StackSound
    <2>3. state' = "pausing" /\ DrainAcknowledged' /\ StackSound'
      BY <1>6, <2>1, <2>2 DEF DetachGpuDependencies, quiesceVars, recordVars,
           ticketVars, DrainAcknowledged, StackSound
    <2>4. vram' # "resident" /\ (Goto(c, "release") \/ Goto(c, "acknowledge"))
      BY <1>6 DEF DetachGpuDependencies
    <2>5. ASSUME NEW step \in {"release", "acknowledge"}, Goto(c, step)
          PROVE  KnownAt(pc[c])'
      BY <2>3, <2>4, <2>5, <1>n DEF KnownAt, OwnerSteps
    <2> QED BY <1>g, <2>3, <2>4, <2>5 DEF OwnerSteps
  <1>7. CASE ReleaseGpuResidency(c)
    <2>1. state = "pausing" /\ DrainAcknowledged
      BY <1>7, <1>k DEF ReleaseGpuResidency, At, KnownAt
    <2>2. using = {}
      BY <2>1 DEF ControllerInv, DrainEvidenceFresh, DrainAcknowledged, StackSound
    <2>3. state' = "pausing" /\ DrainAcknowledged' /\ StackSound'
      BY <1>7, <2>1, <2>2 DEF ReleaseGpuResidency, FailTransition, quiesceVars,
           recordVars, ticketVars, DrainAcknowledged, StackSound
    <2>4. ASSUME Goto(c, "acknowledge") PROVE KnownAt(pc[c])'
      <3>1. vram' # "resident"
        BY <1>7, <2>4, <1>k DEF ReleaseGpuResidency, At, KnownAt
      <3> QED BY <2>3, <2>4, <3>1, <1>n DEF KnownAt, OwnerSteps
    <2> QED BY <1>7, <1>g, <1>f, <2>3, <2>4 DEF ReleaseGpuResidency, OwnerSteps
  <1>8. CASE Acknowledge(c)
    <2>1. StackSound'
      BY <1>8, <1>k DEF Acknowledge, AcknowledgeVramReleased, stackVars, ticketVars,
           StackSound, At, KnownAt
    <2> QED BY <1>8, <1>f, <2>1 DEF Acknowledge
  <1> QED
    BY <1>1, <1>2, <1>3, <1>4, <1>5, <1>6, <1>7, <1>8 DEF PauseStep

\* Each step of a resume, and the owner's first look, does too.
LEMMA ResumeKeeps ==
  ASSUME ResidencyInv, NEW c \in Waiters,
         Observe(c) \/ ReclaimGpu(c) \/ ResumeStep(c)
  PROVE  CallsSound' /\ OwnersKnow' /\ StackSound'
  <1> USE DEF ResidencyInv
  <1>o. pc[c] \in OwnerSteps
    BY DEF ResumeStep, Observe, ReclaimGpu, RestorePausedGpuDependencies,
           StartWarming, RestoreGpuResidency, PrepareRecovery, ReopenAdmission,
           CompleteReopenedRecovery, Reclose, At, OwnerSteps
  <1>k. KnownAt(pc[c])
    BY DEF OwnersKnow
  <1>g. ASSUME NEW step \in OwnerSteps, Goto(c, step),
               KnownAt(pc[c])', StackSound'
        PROVE  CallsSound' /\ OwnersKnow' /\ StackSound'
    BY <1>o, <1>g, OwnerGoesOn, OneOwnerKnows
  <1>f. ASSUME NEW code, Finish(c, code), StackSound'
        PROVE  CallsSound' /\ OwnersKnow' /\ StackSound'
    BY <1>o, <1>f, OwnerFinishes, NoOwnerKnows
  <1>n. ASSUME NEW step \in OwnerSteps, Goto(c, step)
        PROVE  pc'[c] = step
    BY <1>o, <1>n, OwnerGoesOn
  <1>1. CASE Observe(c)
    <2>1. StackSound' /\ state' = state
      BY <1>1 DEF Observe, stackVars, quiesceVars, recordVars, ticketVars,
           StackSound
    <2>2. CASE Finish(c, "already_quiesced")
      BY <2>1, <2>2, <1>f
    <2>3. CASE Goto(c, "begin_pause") \/ (state = "running" /\ Goto(c, "reopened"))
      BY <2>1, <2>3, <1>g, <1>n DEF KnownAt, OwnerSteps
    <2>4. CASE state = "pausing" /\ Goto(c, "restore")
      BY <2>1, <2>4, <1>g, <1>n DEF KnownAt, OwnerSteps
    <2>5. CASE state \in {"quiesced", "warming"} /\ Goto(c, "begin_warming")
      BY <2>1, <2>5, <1>g, <1>n DEF KnownAt, OwnerSteps
    <2> QED BY <1>1, <2>2, <2>3, <2>4, <2>5 DEF Observe
  <1>2. CASE ReclaimGpu(c)
    <2>1. StackSound' /\ state' = "warming"
      BY <1>2, <1>k DEF ReclaimGpu, stackVars, quiesceVars, recordVars, ticketVars,
           StackSound, At, KnownAt
    <2>2. Goto(c, "reload")
      BY <1>2 DEF ReclaimGpu
    <2> QED BY <2>1, <2>2, <1>g, <1>n DEF KnownAt, OwnerSteps
  <1>3. CASE RestorePausedGpuDependencies(c)
    <2>1. state' = "pausing" /\ StackSound'
      BY <1>3, <1>k DEF RestorePausedGpuDependencies, FailTransition, stackVars,
           quiesceVars, recordVars, ticketVars, StackSound,
           At, KnownAt
    <2>2. CASE ~ResidencyDetached /\ Goto(c, "prepare")
      <3>1. ~ResidencyDetached'
        BY <1>3, <2>2 DEF RestorePausedGpuDependencies, stackVars, ResidencyDetached
      <3> QED BY <2>1, <2>2, <3>1, <1>g, <1>n DEF KnownAt, OwnerSteps
    <2>3. CASE DrainedClosedEpoch /\ Goto(c, "reload") /\ UNCHANGED quiesceVars
      <3>1. DrainAcknowledged'
        BY <2>3 DEF DrainedClosedEpoch, DrainAcknowledged, quiesceVars, recordVars
      <3> QED BY <2>1, <2>3, <3>1, <1>g, <1>n DEF KnownAt, OwnerSteps
    <2>4. CASE Finish(c, "refused")
      BY <2>1, <2>4, <1>f
    <2> QED BY <1>3, <2>2, <2>3, <2>4 DEF RestorePausedGpuDependencies
  <1>4. CASE StartWarming(c)
    <2>1. StackSound'
      BY <1>4 DEF StartWarming, BeginWarming, stackVars, ticketVars, StackSound
    <2>2. ASSUME state' = "warming", Goto(c, "reclaim") PROVE KnownAt(pc[c])'
      BY <2>2, <1>n DEF KnownAt, OwnerSteps
    <2> QED BY <1>4, <1>g, <1>f, <2>1, <2>2 DEF StartWarming, OwnerSteps
  <1>5. CASE RestoreGpuResidency(c)
    <2>1. state = "warming" \/ (state = "pausing" /\ DrainAcknowledged)
      BY <1>5, <1>k DEF RestoreGpuResidency, At, KnownAt
    <2>2. using = {}
      BY <2>1 DEF ControllerInv, DrainEvidenceFresh, ReleasedMeansNoCompute,
                  DrainAcknowledged, StackSound
    <2>3. state' \in {"pausing", "warming"} /\ StackSound'
      BY <1>5, <2>1, <2>2 DEF RestoreGpuResidency, FailTransition, quiesceVars,
           recordVars, ticketVars, StackSound
    <2>4. CASE /\ vram' = IF recipe = "restore" THEN "resident" ELSE vram
               /\ Goto(c, "prepare")
      <3>1. ~ResidencyDetached'
        BY <1>5, <2>4 DEF RestoreGpuResidency, ResidencyDetached
      <3> QED BY <2>3, <2>4, <3>1, <1>g, <1>n DEF KnownAt, OwnerSteps
    <2>5. CASE Finish(c, "refused")
      BY <2>3, <2>5, <1>f
    <2> QED BY <1>5, <2>4, <2>5 DEF RestoreGpuResidency
  <1>6. CASE PrepareRecovery(c)
    <2>1. state' \in {"pausing", "warming"} /\ ~ResidencyDetached' /\ StackSound'
      BY <1>6, <1>k DEF PrepareRecovery, FailTransition, stackVars, quiesceVars,
           recordVars, ticketVars, StackSound,
           ResidencyDetached, At, KnownAt
    <2>2. CASE Goto(c, "reopen")
      BY <2>1, <2>2, <1>g, <1>n DEF KnownAt, OwnerSteps
    <2>3. CASE Finish(c, "refused")
      BY <2>1, <2>3, <1>f
    <2> QED BY <1>6, <2>2, <2>3 DEF PrepareRecovery
  <1>7. CASE ReopenAdmission(c)
    <2>1. state \in {"pausing", "warming"}
      BY <1>7, <1>k DEF ReopenAdmission, At, KnownAt
    <2>2. state' = "running" /\ StackSound' /\ Goto(c, "reopened")
      BY <1>7, <2>1 DEF ReopenAdmission, AbortPause, CompleteWarming, Reopen,
           stackVars, ticketVars, StackSound
    <2> QED BY <2>2, <1>g, <1>n DEF KnownAt, OwnerSteps
  <1>8. CASE CompleteReopenedRecovery(c)
    <2>1. StackSound'
      BY <1>8 DEF CompleteReopenedRecovery, BeginPause, stackVars, quiesceVars,
           recordVars, ticketVars, StackSound
    <2>2. CASE Finish(c, "running")
      BY <2>1, <2>2, <1>f
    <2>3. CASE BeginPause /\ Goto(c, "reclose")
      <3>1. state' = "pausing"
        BY <1>8, <2>3, <1>k DEF CompleteReopenedRecovery, BeginPause, At, KnownAt
      <3> QED BY <2>1, <2>3, <3>1, <1>g, <1>n DEF KnownAt, OwnerSteps
    <2> QED BY <1>8, <2>2, <2>3 DEF CompleteReopenedRecovery
  <1>9. CASE Reclose(c)
    <2>1. StackSound'
      BY <1>9 DEF Reclose, FailTransition, stackVars, ticketVars, StackSound
    <2> QED BY <1>9, <1>f, <2>1 DEF Reclose
  <1> QED
    BY <1>1, <1>2, <1>3, <1>4, <1>5, <1>6, <1>7, <1>8, <1>9 DEF ResumeStep

\* A new call claims a free transition, or leaves the owner its place; a join
\* that is given up was no owner's.
LEMMA CallersKeep ==
  ASSUME ResidencyInv, NEW c \in Waiters,
         JoinTimedOut(c) \/ TakeOutcome(c) \/ \E d \in Directions : Request(c, d)
  PROVE  CallsSound' /\ OwnersKnow' /\ StackSound'
  <1> USE DEF ResidencyInv
  <1>1. StackSound' /\ UNCHANGED <<recordVars, stackVars>>
    BY DEF JoinTimedOut, TakeOutcome, Request, stackVars, quiesceVars, recordVars,
           ticketVars, StackSound
  <1>2. CASE pc' = [pc EXCEPT ![c] = "observe"] /\ operation = "none"
             /\ operation' \in Directions
    <2>1. \A x \in Waiters : pc[x] \notin OwnerSteps
      BY <1>2 DEF CallsSound
    <2>2. pc'[c] = "observe" /\ \A x \in Waiters : x # c => pc'[x] \notin OwnerSteps
      BY <1>2, <2>1 DEF CallsSound
    <2>3. pc' \in [Waiters -> OwnerSteps \cup {"idle", "joined"}]
      BY <1>2 DEF CallsSound, OwnerSteps
    <2>4. CallsSound'
      BY <1>2, <2>2, <2>3 DEF CallsSound, Directions
    <2>5. OwnersKnow'
      BY <2>2, OneOwnerKnows DEF KnownAt
    <2> QED BY <1>1, <2>4, <2>5
  <1>3. CASE /\ \E place \in {"idle", "joined"} : pc' = [pc EXCEPT ![c] = place]
             /\ operation' = operation
    <2>1. \A x \in Waiters : pc'[x] = pc[x] \/ pc'[x] \in {"idle", "joined"}
      BY <1>3 DEF CallsSound
    <2>2. pc' \in [Waiters -> OwnerSteps \cup {"idle", "joined"}]
      BY <1>3 DEF CallsSound
    <2>3. CallsSound'
      BY <1>3, <2>1, <2>2 DEF CallsSound, OwnerSteps
    <2>4. OwnersKnow'
      BY <1>1, <2>1 DEF OwnersKnow, KnownAt, recordVars, stackVars, ResidencyDetached,
                        DrainAcknowledged
    <2> QED BY <1>1, <2>3, <2>4
  <1>4. CASE pc' = pc /\ operation' = operation
    BY <1>1, <1>4 DEF CallsSound, OwnersKnow, KnownAt, recordVars, stackVars,
                      ResidencyDetached, DrainAcknowledged
  <1> QED BY <1>2, <1>3, <1>4 DEF JoinTimedOut, TakeOutcome, Request

\* Compute runs beside the owner without disturbing what it knows: a load can
\* only make the stack resident, and leaving takes the ticket along.
LEMMA ComputeKeeps ==
  ASSUME ResidencyInv, ComputeStep
  PROVE  CallsSound' /\ OwnersKnow' /\ StackSound'
  <1> USE DEF ResidencyInv
  <1>1. UNCHANGED <<recordVars, callVars>>
    BY DEF ComputeStep, Admit, UseStack, EndCompute, AcquireTicket, ReleaseTicket,
           quiesceVars
  <1>2. CallsSound'
    BY <1>1 DEF callVars, CallsSound
  <1>3. ResidencyDetached' => ResidencyDetached
    BY DEF ComputeStep, Admit, UseStack, EndCompute, stackVars, ResidencyDetached
  <1>4. activeTickets = {} => vram' = vram
    BY DEF ComputeStep, Admit, stackVars
  <1>5. OwnersKnow'
    <2>1. state = "pausing" /\ DrainAcknowledged => activeTickets = {}
      BY DEF ControllerInv, DrainEvidenceFresh, DrainAcknowledged
    <2> QED BY <1>1, <1>3, <1>4, <2>1 DEF OwnersKnow, KnownAt, callVars, recordVars,
                                          DrainAcknowledged
  <1>6. ASSUME Admit PROVE StackSound'
    BY <1>6 DEF Admit, AcquireTicket, stackVars, recordVars, StackSound
  <1>7. ASSUME NEW t \in activeTickets, UseStack(t) PROVE StackSound'
    <2>1. state # "quiesced"
      BY DEF ControllerInv, ReleasedMeansNoCompute
    <2> QED BY <1>7, <2>1 DEF UseStack, quiesceVars, recordVars, ticketVars, StackSound
  <1>8. ASSUME NEW t \in activeTickets, EndCompute(t) PROVE StackSound'
    BY <1>8 DEF EndCompute, ReleaseTicket, recordVars, StackSound
  <1> QED BY <1>2, <1>5, <1>6, <1>7, <1>8 DEF ComputeStep

----------------------------------------------------------------------------

\* Nobody calls yet, nothing is loaded.
LEMMA ResidencyInitEstablishes == ResidencyInit => ResidencyInv
  <1> SUFFICES ASSUME ResidencyInit PROVE ResidencyInv
    OBVIOUS
  <1>1. ControllerInv
    BY InitEstablishes DEF ResidencyInit
  <1>2. CallsSound
    BY DEF ResidencyInit, CallsSound, OwnerSteps
  <1>3. OwnersKnow
    BY DEF ResidencyInit, OwnersKnow, KnownAt
  <1>4. StackSound /\ DrainSound
    BY DEF ResidencyInit, StackSound, Init, DrainSound, DrainAcknowledged
  <1> QED BY <1>1, <1>2, <1>3, <1>4 DEF ResidencyInv

\* Only the owner of a pause acknowledges its drain, and reopening forgets it.
LEMMA DrainStaysSound ==
  ASSUME ResidencyInv, [ResidencyNext]_residencyVars
  PROVE  DrainSound'
  <1> USE DEF DrainSound, DrainAcknowledged
  <1>i. DrainSound
    BY DEF ResidencyInv
  <1>u. ASSUME UNCHANGED recordVars PROVE DrainSound'
    BY <1>i, <1>u DEF recordVars
  <1>1. ASSUME NEW c \in Waiters,
               JoinTimedOut(c) \/ TakeOutcome(c) \/ \E d \in Directions : Request(c, d)
        PROVE  DrainSound'
    BY <1>1, <1>u DEF JoinTimedOut, TakeOutcome, Request, quiesceVars
  <1>2. ASSUME NEW c \in Waiters, Observe(c) \/ ReclaimGpu(c)
        PROVE  DrainSound'
    BY <1>2, <1>u DEF Observe, ReclaimGpu, quiesceVars
  <1>3. ASSUME NEW c \in Waiters, PauseStep(c)
        PROVE  DrainSound'
    <2>k. KnownAt(pc[c])
      BY DEF ResidencyInv, OwnersKnow
    <2>1. CASE StartPause(c)
      BY <1>i, <2>1 DEF StartPause, BeginPause
    <2>2. CASE RequestQuiesceAttempts(c) \/ DetachGpuDependencies(c)
      BY <2>2, <1>u DEF RequestQuiesceAttempts, DetachGpuDependencies, quiesceVars
    <2>3. CASE Drain(c) \/ Drained(c) \/ DrainGivenUp(c)
      <3>1. state' = "pausing"
        BY <2>3, <2>k DEF Drain, Drained, DrainGivenUp, At, KnownAt, WaitForDrain,
                          DrainObserved, DrainTimedOut, AcknowledgeDrain, quiesceVars,
                          recordVars
      <3> QED BY <3>1
    <2>4. CASE ReleaseGpuResidency(c)
      BY <1>i, <2>4 DEF ReleaseGpuResidency, FailTransition, quiesceVars, recordVars
    <2>5. CASE Acknowledge(c)
      BY <1>i, <2>5 DEF Acknowledge, AcknowledgeVramReleased
    <2> QED BY <1>3, <2>1, <2>2, <2>3, <2>4, <2>5 DEF PauseStep
  <1>4. ASSUME NEW c \in Waiters, ResumeStep(c)
        PROVE  DrainSound'
    <2>1. CASE RestorePausedGpuDependencies(c) \/ RestoreGpuResidency(c)
               \/ PrepareRecovery(c) \/ Reclose(c)
      BY <1>i, <2>1 DEF RestorePausedGpuDependencies, RestoreGpuResidency,
                        PrepareRecovery, Reclose, FailTransition, quiesceVars, recordVars
    <2>2. CASE StartWarming(c)
      BY <1>i, <2>2 DEF StartWarming, BeginWarming
    <2>3. CASE ReopenAdmission(c)
      <3>1. evidence' = {} \/ UNCHANGED recordVars
        BY <2>3, Zenon DEF ReopenAdmission, AbortPause, CompleteWarming, Reopen,
                           quiesceVars
      <3> QED BY <3>1, <1>u
    <2>4. CASE CompleteReopenedRecovery(c)
      BY <1>i, <2>4 DEF CompleteReopenedRecovery, BeginPause, quiesceVars, recordVars
    <2> QED BY <1>4, <2>1, <2>2, <2>3, <2>4 DEF ResumeStep
  <1>5. CASE ComputeStep
    BY <1>5, <1>u DEF ComputeStep, Admit, UseStack, EndCompute, AcquireTicket,
                      ReleaseTicket, quiesceVars
  <1>6. CASE UNCHANGED residencyVars
    BY <1>6, <1>u DEF residencyVars, quiesceVars
  <1> QED
    BY <1>1, <1>2, <1>3, <1>4, <1>5, <1>6 DEF ResidencyNext, OwnerStep

\* Every step of callers, owner and compute keeps the inductive invariant.
LEMMA ResidencyNextPreserves ==
  ResidencyInv /\ [ResidencyNext]_residencyVars => ResidencyInv'
  <1> SUFFICES ASSUME ResidencyInv, [ResidencyNext]_residencyVars
               PROVE  ResidencyInv'
    OBVIOUS
  <1>1. ControllerInv'
    BY StepImplements, NextPreserves DEF ResidencyInv
  <1>d. DrainSound'
    BY DrainStaysSound
  <1>2. CASE UNCHANGED residencyVars
    <2>1. UNCHANGED <<quiesceVars, callVars, stackVars>>
      BY <1>2 DEF residencyVars
    <2>2. CallsSound'
      BY <2>1 DEF ResidencyInv, CallsSound, callVars
    <2>3. OwnersKnow' /\ StackSound'
      BY <2>1 DEF ResidencyInv, OwnersKnow, KnownAt, StackSound,
                  ResidencyDetached, DrainAcknowledged, callVars, stackVars,
                  quiesceVars, recordVars, ticketVars
    <2> QED BY <1>1, <1>d, <2>2, <2>3 DEF ResidencyInv
  <1>3. CASE ResidencyNext
    <2>1. CallsSound' /\ OwnersKnow' /\ StackSound'
      BY <1>3, PauseKeeps, ResumeKeeps, CallersKeep, ComputeKeeps
         DEF ResidencyNext, OwnerStep
    <2> QED BY <1>1, <1>d, <2>1 DEF ResidencyInv
  <1> QED BY <1>2, <1>3

\* Under any callers, compute and faults, the inductive invariant always holds.
THEOREM ResidencyInvariant == ResidencySpec => []ResidencyInv
  BY ResidencyInitEstablishes, ResidencyNextPreserves, PTL DEF ResidencySpec

\* The transition calls the controller as any caller might, so what is proved of
\* the controller alone holds of it.
LEMMA TransitionRunsController == ResidencySpec => Spec
  <1>1. ResidencyInit => Init
    BY DEF ResidencyInit
  <1>2. ResidencyInv /\ [ResidencyNext]_residencyVars => [Next]_quiesceVars
    BY StepImplements
  <1> QED
    BY <1>1, <1>2, ResidencyInvariant, PTL DEF ResidencySpec, Spec

\* From the moment a pause has declared the GPU released until a resume reopens
\* admission, no compute section runs.
THEOREM TransitionReleasedMeansNoCompute == ResidencySpec => []ReleasedMeansNoCompute
  BY TransitionRunsController, NoComputeWhileReleased, PTL

\* Every compute section is of the epoch in force and every acknowledged drain is
\* of the epoch now closed and still true of it (DrainAccountsForCompute), which
\* a controller that anyone may call does not promise: a waiter left over from an
\* aborted pause would acknowledge a drain while admission is open.
THEOREM DrainIsAccountedFor == ResidencySpec => []DrainAccountsForCompute
  <1>1. ResidencyInv => DrainAccountsForCompute
    BY DEF ResidencyInv, ControllerInv, TypeOK, States, ReleasedMeansNoCompute,
           DrainEvidenceFresh, DrainSound, DrainAcknowledged, DrainComplete,
           DrainAccountsForCompute
  <1> QED BY <1>1, ResidencyInvariant, PTL

\* No pause, abort or failed rebuild takes the stack from under a compute section.
THEOREM StackKeptUnderCompute == ResidencySpec => []ComputeKeepsItsStack
  <1>1. ResidencyInv => ComputeKeepsItsStack
    BY DEF ResidencyInv, StackSound, ComputeKeepsItsStack
  <1> QED BY <1>1, ResidencyInvariant, PTL

\* While the GPU may be described as borrowable no model is on it.
THEOREM BorrowableMeansNoModel == ResidencySpec => []SafeMeansNoModel
  <1>1. ResidencyInv => SafeMeansNoModel
    BY DEF ResidencyInv, StackSound, SafeMeansNoModel, SafeToBorrowGpu
  <1> QED BY <1>1, ResidencyInvariant, PTL

\* Admission is never reopened against a stack that was detached and not rebuilt.
THEOREM ReopensOverItsStack == ResidencySpec => NoHollowReopen
  <1>1. ASSUME ResidencyInv, [ResidencyNext]_residencyVars,
               state # "running", state' = "running"
        PROVE  ~ResidencyDetached'
    <2>1. PICK c \in Waiters : ReopenAdmission(c)
      <3>1. state' # state
        BY <1>1
      <3>2. CASE ComputeStep
        BY <3>1, <3>2 DEF ComputeStep, Admit, UseStack, EndCompute, AcquireTicket,
             ReleaseTicket, quiesceVars, recordVars
      <3>3. ASSUME NEW c \in Waiters,
                   JoinTimedOut(c) \/ TakeOutcome(c) \/ \E d \in Directions : Request(c, d)
            PROVE  FALSE
        BY <3>1, <3>3 DEF JoinTimedOut, TakeOutcome, Request, quiesceVars, recordVars
      <3>4. ASSUME NEW c \in Waiters, Observe(c) \/ ReclaimGpu(c)
            PROVE  FALSE
        BY <3>1, <3>4 DEF Observe, ReclaimGpu, quiesceVars, recordVars
      <3>5. ASSUME NEW c \in Waiters, PauseStep(c)
            PROVE  FALSE
        BY <1>1, <3>1, <3>5 DEF PauseStep, StartPause, RequestQuiesceAttempts, Drain,
             Drained, DrainGivenUp, DetachGpuDependencies, ReleaseGpuResidency,
             Acknowledge, BeginPause, WaitForDrain, DrainObserved, DrainTimedOut,
             AcknowledgeDrain, AcknowledgeVramReleased, FailTransition, quiesceVars,
             recordVars
      <3>6. ASSUME NEW c \in Waiters, ResumeStep(c), ~ReopenAdmission(c)
            PROVE  FALSE
        BY <1>1, <3>1, <3>6 DEF ResumeStep, RestorePausedGpuDependencies, StartWarming,
             RestoreGpuResidency, PrepareRecovery, CompleteReopenedRecovery, Reclose,
             BeginPause, BeginWarming, FailTransition, quiesceVars, recordVars
      <3>7. CASE UNCHANGED residencyVars
        BY <3>1, <3>7 DEF residencyVars, quiesceVars, recordVars
      <3> QED
        BY <1>1, <3>2, <3>3, <3>4, <3>5, <3>6, <3>7 DEF ResidencyNext, OwnerStep
    <2>2. ~ResidencyDetached
      BY <1>1, <2>1 DEF ReopenAdmission, At, ResidencyInv, OwnersKnow, KnownAt
    <2> QED BY <2>1, <2>2 DEF ReopenAdmission, stackVars, ResidencyDetached
  <1>2. ResidencyInv /\ [ResidencyNext]_residencyVars
        => [state # "running" /\ state' = "running" => ~ResidencyDetached']_residencyVars
    BY <1>1
  <1> QED BY <1>2, ResidencyInvariant, PTL DEF ResidencySpec, NoHollowReopen

----------------------------------------------------------------------------
(* Borrowers.                                                               *)

\* A thread that has taken a request up serves a pause or a resume.
RouteSound ==
    /\ DOMAIN route = Waiters
    /\ \A c \in Waiters : route[c].at = "free" \/ route[c].verb \in Directions

HoldsLease(b) == client[b] \in {"holding", "pausing", "working", "resuming", "stranded"}

\* The lease record names whoever is between taking and returning the lease.
LeaseSound ==
    /\ DOMAIN client = Borrowers
    /\ \A b \in Borrowers : HoldsLease(b) => lease = b

LendingInv == RouteSound /\ LeaseSound

----------------------------------------------------------------------------

\* A thread's place changes as Serve says.
LEMMA ServeKeeps ==
  ASSUME RouteSound, NEW c, NEW by, NEW verb \in Directions, NEW at,
         Serve(c, by, verb, at)
  PROVE  RouteSound'
  BY DEF RouteSound, Serve

\* A thread that has answered serves nothing.
LEMMA AnsweredKeeps ==
  ASSUME RouteSound, NEW c, route' = [route EXCEPT ![c] = Idle]
  PROVE  RouteSound'
  BY DEF RouteSound, Idle

\* Delivering an answer moves at most the borrower it is for, who lets the lease
\* go only with an acknowledged resume, and starts to work only under it.
LEMMA DeliveryKeeps ==
  ASSUME LeaseSound, NEW by, NEW verb, NEW ok, NEW sent,
         Delivered(by, verb, ok, sent)
  PROVE  LeaseSound'
  <1> USE DEF LeaseSound, HoldsLease
  <1>1. CASE by \in Borrowers /\ client[by] = "pausing" /\ lease' = lease
             /\ \E s \in {"working", "resuming"} : Becomes(by, s)
    BY <1>1 DEF Becomes
  <1>2. CASE by \in Borrowers /\ client[by] = "resuming" /\ Becomes(by, "gone")
             /\ lease' = NoOne
    <2>1. \A b \in Borrowers : b # by => ~HoldsLease(b)
      BY <1>2
    <2> QED BY <1>2, <2>1 DEF Becomes
  <1>3. CASE by \in Borrowers /\ client[by] = "resuming" /\ Becomes(by, "stranded")
             /\ lease' = lease
    BY <1>3 DEF Becomes
  <1>4. CASE UNCHANGED <<lease, client>>
    BY <1>4
  <1> QED BY <1>1, <1>2, <1>3, <1>4 DEF Delivered, SendResume

\* Nobody serves or borrows yet.
LEMMA LendingInitEstablishes == LendingInit => LendingInv
  BY DEF LendingInit, LendingInv, RouteSound, LeaseSound, HoldsLease, Idle

\* A borrower's own steps keep the lease record true.
LEMMA BorrowerKeeps ==
  ASSUME LendingInv, NEW b \in Borrowers, BorrowerStep(b)
  PROVE  LendingInv'
  <1> USE DEF LendingInv, LeaseSound, HoldsLease
  <1>1. RouteSound'
    BY DEF BorrowerStep, AcquireLease, SendPause, GiveUpWaiting, FinishWork, Exit,
           holdVars, RouteSound
  <1>2. CASE AcquireLease(b)
    <2>1. \A d \in Borrowers : d # b => ~HoldsLease(d)
      BY <1>2, BorrowersAssumption DEF AcquireLease
    <2> QED BY <1>1, <1>2, <2>1 DEF AcquireLease, Becomes
  <1>3. CASE SendPause(b)
    BY <1>1, <1>3 DEF SendPause, Becomes
  <1>4. CASE GiveUpWaiting(b)
    BY <1>1, <1>4 DEF GiveUpWaiting, SendResume, Becomes
  <1>5. CASE FinishWork(b)
    BY <1>1, <1>5 DEF FinishWork, SendResume, Becomes
  <1>6. CASE Exit(b)
    <2>1. \A d \in Borrowers : d # b => client'[d] = client[d]
      BY <1>6 DEF Exit, Becomes
    <2>2. client'[b] = "gone" /\ DOMAIN client' = Borrowers
      BY <1>6 DEF Exit, Becomes
    <2>3. lease = b => \A d \in Borrowers : d # b => ~HoldsLease(d)
      OBVIOUS
    <2> QED BY <1>1, <1>6, <2>1, <2>2, <2>3 DEF Exit
  <1> QED BY <1>2, <1>3, <1>4, <1>5, <1>6 DEF BorrowerStep

\* The service's threads move a borrower only by answering it.
LEMMA ServiceKeeps ==
  ASSUME LendingInv, NEW c \in Waiters,
         \/ \E by \in Borrowers \cup {Operator}, verb \in Directions : Arrive(c, by, verb)
         \/ ThreadStep(c)
  PROVE  LendingInv'
  <1> USE DEF LendingInv
  <1>a. ASSUME NEW ok, Answer(c, ok)
        PROVE  LendingInv'
    BY <1>a, AnsweredKeeps, DeliveryKeeps DEF Answer
  <1>v. route[c].at # "free" => route[c].verb \in Directions
    BY DEF RouteSound
  <1>1. ASSUME NEW by \in Borrowers \cup {Operator}, NEW verb \in Directions,
               Arrive(c, by, verb)
        PROVE  LendingInv'
    <2>1. CASE Serve(c, by, verb, "authorised") /\ UNCHANGED <<lease, client>>
      BY <2>1, ServeKeeps DEF LeaseSound, HoldsLease
    <2>2. CASE /\ Delivered(by, verb, FALSE, pending \ {Ask(by, verb)})
               /\ UNCHANGED route
      BY <2>2, DeliveryKeeps DEF RouteSound
    <2> QED BY <1>1, <2>1, <2>2 DEF Arrive
  <1>2. CASE Call(c)
    BY <1>2, <1>v, ServeKeeps DEF Call, borrowerVars, LeaseSound, HoldsLease
  <1>3. CASE RefuseOverBound(c) \/ AnswerUnbound(c)
    BY <1>3, <1>a DEF RefuseOverBound, AnswerUnbound
  <1>4. CASE BindBorrower(c)
    BY <1>4, <1>v, ServeKeeps DEF BindBorrower, PostPause, Returned, Serving,
                                  borrowerVars, LeaseSound, HoldsLease
  <1>5. CASE RefuseBinding(c)
    BY <1>5, <1>a DEF RefuseBinding
  <1>6. CASE LendGpu(c)
    BY <1>6, <1>a DEF LendGpu
  <1>7. CASE AcknowledgeResume(c)
    BY <1>7, <1>a DEF AcknowledgeResume
  <1>8. CASE RunTransition(c) \/ StopWaiting(c)
    BY <1>8 DEF RunTransition, StopWaiting, borrowerVars, holdVars, RouteSound,
                LeaseSound, HoldsLease
  <1> QED BY <1>1, <1>2, <1>3, <1>4, <1>5, <1>6, <1>7, <1>8 DEF ThreadStep, RouteStep

\* The heartbeat and compute move no borrower.
LEMMA BackgroundKeeps ==
  ASSUME LendingInv, LookForLostLease \/ Recovered \/ Compute \/ UNCHANGED lendingVars
  PROVE  LendingInv'
  <1> USE DEF LendingInv
  <1>1. LeaseSound'
    BY DEF LookForLostLease, Recovered, Compute, lendingVars, borrowerVars, LeaseSound,
           HoldsLease
  <1>2. CASE LookForLostLease
    BY <1>1, <1>2, ServeKeeps DEF LookForLostLease, Directions
  <1>3. CASE Recovered
    BY <1>1, <1>3, AnsweredKeeps DEF Recovered
  <1>4. CASE Compute \/ UNCHANGED lendingVars
    BY <1>1, <1>4 DEF Compute, lendingVars, holdVars, RouteSound
  <1> QED BY <1>2, <1>3, <1>4

\* Every step of lending keeps the inductive invariant.
LEMMA LendingNextPreserves == LendingInv /\ [LendingNext]_lendingVars => LendingInv'
  BY BorrowerKeeps, ServiceKeeps, BackgroundKeeps DEF LendingNext

\* With any borrowers and requests, the inductive invariant always holds.
THEOREM LendingInvariant == LendingSpec => []LendingInv
  BY LendingInitEstablishes, LendingNextPreserves, PTL DEF LendingSpec

\* No two borrowers work on the GPU at a time, however many requests are served
\* at once and whatever answers are lost (run_with_borrowed_gpu).
THEOREM OneBorrowerWorks ==
  LendingSpec => [](\A b, d \in Borrowers :
                        client[b] = "working" /\ client[d] = "working" => b = d)
  <1>1. LendingInv => \A b, d \in Borrowers :
                          client[b] = "working" /\ client[d] = "working" => b = d
    BY DEF LendingInv, LeaseSound, HoldsLease
  <1> QED BY <1>1, LendingInvariant, PTL

----------------------------------------------------------------------------

\* A served request is one call of the transition, and nothing else of lending
\* touches it.
LEMMA LendingStepImplements ==
  ASSUME LendingInv, [LendingNext]_lendingVars
  PROVE  [ResidencyNext]_residencyVars
  <1>1. ASSUME NEW b \in Borrowers, BorrowerStep(b)
        PROVE  UNCHANGED residencyVars
    BY <1>1 DEF BorrowerStep, AcquireLease, SendPause, GiveUpWaiting, FinishWork, Exit
  <1>2. ASSUME NEW c \in Waiters, NEW by, NEW verb, Arrive(c, by, verb)
        PROVE  UNCHANGED residencyVars
    BY <1>2 DEF Arrive
  <1>3. ASSUME NEW c \in Waiters, Call(c)
        PROVE  ResidencyNext
    <2>1. route[c].verb \in Directions
      BY <1>3 DEF Call, LendingInv, RouteSound
    <2> QED BY <1>3, <2>1 DEF Call, ResidencyNext
  <1>4. ASSUME NEW c \in Waiters, RouteStep(c)
        PROVE  [ResidencyNext]_residencyVars
    <2>1. TakeOutcome(c) \/ UNCHANGED residencyVars
      BY <1>4 DEF RouteStep, RefuseOverBound, AnswerUnbound, BindBorrower, RefuseBinding,
                  LendGpu, AcknowledgeResume, Answer
    <2> QED BY <2>1 DEF ResidencyNext
  <1>5. ASSUME NEW c \in Waiters, RunTransition(c) \/ StopWaiting(c)
        PROVE  ResidencyNext
    BY <1>5 DEF RunTransition, StopWaiting, ResidencyNext
  <1>6. CASE LookForLostLease \/ Recovered
    <2>1. UNCHANGED residencyVars \/ (Recovery \in Waiters /\ TakeOutcome(Recovery))
      BY <1>6 DEF LookForLostLease, Recovered
    <2> QED BY <2>1 DEF ResidencyNext
  <1>7. CASE Compute
    BY <1>7 DEF Compute, ResidencyNext
  <1>8. CASE UNCHANGED lendingVars
    BY <1>8 DEF lendingVars
  <1> QED BY <1>1, <1>2, <1>3, <1>4, <1>5, <1>6, <1>7, <1>8 DEF LendingNext,
             ThreadStep

\* Lending implements the transition.
THEOREM LendingImplementsTransition == LendingSpec => ResidencySpec
  <1>1. LendingInit => ResidencyInit
    BY DEF LendingInit
  <1> QED
    BY <1>1, LendingStepImplements, LendingInvariant, PTL DEF LendingSpec, ResidencySpec

\* So what the transition promises, the lending service promises: no model on a
\* device described as borrowable, and the stack kept under compute.
THEOREM LendingIsSafe ==
  LendingSpec => []SafeMeansNoModel /\ []ComputeKeepsItsStack /\ []ReleasedMeansNoCompute
  BY LendingImplementsTransition, BorrowableMeansNoModel, StackKeptUnderCompute,
     TransitionReleasedMeansNoCompute, PTL

----------------------------------------------------------------------------

\* A hold passes to another borrower only when the one bound has no lease left,
\* however many borrowers and routes there are (_post_pause_binding_error).
THEOREM HoldNeverHijacked ==
  LendingSpec =>
    [][bound # NoOne /\ bound' \notin {bound, NoOne} => lease # bound]_lendingVars
  <1>1. ASSUME [LendingNext]_lendingVars
        PROVE  \/ bound' \in {bound, NoOne}
               \/ \E c \in Waiters : BindBorrower(c)
    <2>1. ASSUME NEW b \in Borrowers, BorrowerStep(b)
          PROVE  bound' = bound
      BY <2>1 DEF BorrowerStep, AcquireLease, SendPause, GiveUpWaiting, FinishWork,
                  Exit, holdVars
    <2>2. ASSUME NEW c \in Waiters, RouteStep(c)
          PROVE  bound' \in {bound, NoOne} \/ BindBorrower(c)
      BY <2>2 DEF RouteStep, RefuseOverBound, AnswerUnbound, RefuseBinding, LendGpu,
                  AcknowledgeResume, ClearedBy
    <2>3. ASSUME NEW c \in Waiters,
                 \/ \E by \in Borrowers \cup {Operator}, verb \in Directions :
                        Arrive(c, by, verb)
                 \/ Call(c) \/ RunTransition(c) \/ StopWaiting(c)
          PROVE  bound' = bound
      BY <2>3 DEF Arrive, Call, RunTransition, StopWaiting, holdVars
    <2>4. CASE LookForLostLease \/ Recovered \/ Compute \/ UNCHANGED lendingVars
      BY <2>4 DEF LookForLostLease, Recovered, ClearedBy, Compute, holdVars, lendingVars
    <2> QED BY <1>1, <2>1, <2>2, <2>3, <2>4 DEF LendingNext, ThreadStep
  <1>2. ASSUME NEW c \in Waiters, BindBorrower(c)
        PROVE  lease = bound'
    BY <1>2 DEF BindBorrower, PostPause, MayBind, Authorised, LeaseVerified
  <1>3. [LendingNext]_lendingVars =>
            [bound # NoOne /\ bound' \notin {bound, NoOne} => lease # bound]_lendingVars
    BY <1>1, <1>2
  <1> QED BY <1>3, PTL DEF LendingSpec

----------------------------------------------------------------------------
(* Holds, with any number of borrowers and serving threads.                 *)

Before == {"new", "holding"}
Left   == {"resuming", "stranded", "gone"}
Serves(c, b, verb) ==
    route[c].by = b /\ route[c].verb = verb /\ route[c].at # "free"

\* Whose the lease, a request and a hold may be.
PartiesSound ==
    /\ client \in [Borrowers -> Before \cup {"pausing", "working"} \cup Left]
    /\ lease \in Borrowers \cup {NoOne}
    /\ \A b \in Borrowers : lease = b => HoldsLease(b)
    /\ bound \in Borrowers \cup {NoOne}
    /\ \A c \in Waiters : route[c].at # "free" => route[c].by \in Borrowers \cup {Operator}

\* A borrower asks for one pause, before it works, and for a resume only once it
\* has given the GPU up; the heartbeat resumes only for one that is gone.
RequestsSound ==
    /\ \A b \in Borrowers :
        /\ Ask(b, "pause") \in pending => client[b] \notin Before \cup {"working"}
        /\ Ask(b, "resume") \in pending => client[b] \in Left
        /\ bound = b => client[b] \notin Before
    /\ \A c \in Waiters, b \in Borrowers :
        /\ Serves(c, b, "pause") => client[b] \notin Before \cup {"working"}
                                    /\ Ask(b, "pause") \notin pending
        /\ Serves(c, b, "resume") => client[b] \in Left
    /\ \A c, d \in Waiters, b \in Borrowers :
        Serves(c, b, "pause") /\ Serves(d, b, "pause") => c = d
    /\ Recovery \in Waiters /\ route[Recovery].at # "free"
        => /\ route[Recovery].verb = "resume"
           /\ route[Recovery].at \in {"authorised", "called"}
           /\ route[Recovery].by \in Borrowers
           /\ client[route[Recovery].by] = "gone"

PauseSteps  == {"begin_pause", "request_quiesce", "drain", "draining", "detach",
                "release", "acknowledge"}
ResumeSteps == OwnerSteps \ (PauseSteps \cup {"observe"})

\* A transition runs for the requests its threads serve, and what it made
\* quiesced was asked for by each that it tells so.
CallsServed ==
    /\ DOMAIN outcome = Waiters
    /\ \A c \in Waiters :
        /\ pc[c] # "idle" => route[c].at = "called" /\ operation = route[c].verb
        /\ pc[c] \in PauseSteps => operation = "pause"
        /\ pc[c] \in ResumeSteps => operation = "resume"
        /\ route[c].verb = "pause" /\ route[c].at = "called" =>
            /\ outcome[c] # "running"
            /\ outcome[c] = "quiesced" /\ state = "quiesced" /\ route[c].by \in Borrowers
                 => route[c].by \in asking

UnderWay(c) == route[c].verb = "resume" /\ (route[c].at = "authorised" \/ ~At(c, "idle"))
Lent(c)     == route[c].at = "lending" /\ lease = route[c].by

\* A hold that was not overtaken when it was bound and whose borrower has its
\* lease meets no resume but that borrower's; while it is being lent it meets
\* none, and until the borrower has left the service stays quiesced.
HoldsSound ==
    /\ overtaken \in BOOLEAN
    /\ \A c \in Waiters :
        route[c].at = "lending" => route[c].by \in Borrowers /\ route[c].verb = "pause"
    /\ ~overtaken =>
        /\ bound # NoOne /\ lease = bound
            => \A c \in Waiters : UnderWay(c) => route[c].by = bound
        /\ \A c \in Waiters :
            Lent(c) => /\ \A d \in Waiters : ~UnderWay(d)
                       /\ bound = route[c].by /\ state = "quiesced"
        /\ \A b \in Borrowers :
            client[b] = "working" => loan = b /\ bound = b /\ state = "quiesced"

\* The conjunction that is inductive.
TurnsInv == ResidencyInv /\ LendingInv /\ PartiesSound /\ RequestsSound /\ CallsServed /\ HoldsSound

\* A request tells whose it is and what for.
LEMMA AskTells ==
  ASSUME NEW b, NEW d, NEW v, NEW w, Ask(b, v) = Ask(d, w)
  PROVE  b = d /\ v = w
  BY DEF Ask

\* An answer starts the borrower's work, has it ask for the resume, or ends its
\* session; it sends nothing but that resume.
LEMMA DeliveryMoves ==
  ASSUME PartiesSound, NEW by, NEW verb, NEW ok, NEW sent,
         Delivered(by, verb, ok, sent)
  PROVE  /\ client' \in [Borrowers -> Before \cup {"pausing", "working"} \cup Left]
         /\ \A b \in Borrowers :
                \/ client'[b] = client[b]
                \/ /\ b = by /\ verb = "pause" /\ client[b] = "pausing"
                   /\ client'[b] = IF ok THEN "working" ELSE "resuming"
                \/ /\ b = by /\ verb = "resume" /\ client[b] = "resuming"
                   /\ client'[b] \in {"stranded", "gone"}
         /\ \A b \in Borrowers :
                /\ Ask(b, "pause") \in pending' => Ask(b, "pause") \in sent
                /\ Ask(b, "resume") \in pending'
                    => Ask(b, "resume") \in sent \/ client'[b] = "resuming"
         /\ lease' \in Borrowers \cup {NoOne}
         /\ \A b \in Borrowers : lease' = b => HoldsLease(b)'
  <1> USE DEF PartiesSound, HoldsLease, Before, Left
  <1>a. \A b, d : Ask(b, "pause") # Ask(d, "resume")
    BY DEF Ask
  <1>b. \A b, d : Ask(b, "resume") = Ask(d, "resume") => b = d
    BY DEF Ask
  <1>n. NoOne \notin Borrowers
    BY BorrowersAssumption
  <1>1. CASE /\ verb = "pause" /\ by \in Borrowers /\ client[by] = "pausing" /\ ok
             /\ Becomes(by, "working") /\ pending' = sent /\ UNCHANGED lease
    BY <1>1 DEF Becomes
  <1>2. CASE /\ verb = "pause" /\ by \in Borrowers /\ client[by] = "pausing" /\ ~ok
             /\ SendResume(by, sent) /\ UNCHANGED lease
    <2>1. client' = [client EXCEPT ![by] = "resuming"]
          /\ pending' = sent \cup {Ask(by, "resume")}
      BY <1>2 DEF SendResume, Becomes
    <2>2. \A b \in Borrowers :
            /\ Ask(b, "pause") \in pending' => Ask(b, "pause") \in sent
            /\ Ask(b, "resume") \in pending' => Ask(b, "resume") \in sent \/ b = by
      BY <2>1, <1>a, <1>b
    <2> QED BY <1>2, <2>1, <2>2
  <1>3. CASE /\ verb = "resume" /\ by \in Borrowers /\ client[by] = "resuming"
             /\ Becomes(by, IF ok THEN "gone" ELSE "stranded")
             /\ lease' = (IF ok THEN NoOne ELSE lease) /\ pending' = sent
    BY <1>3, <1>n DEF Becomes
  <1>4. CASE pending' = sent /\ UNCHANGED <<lease, client>>
    BY <1>4
  <1> QED BY <1>1, <1>2, <1>3, <1>4 DEF Delivered

\* A borrower's own steps ask for one pause and for the resume that undoes it.
LEMMA BorrowerTurns ==
  ASSUME LendingInv, PartiesSound, RequestsSound,
         NEW b \in Borrowers, BorrowerStep(b)
  PROVE  PartiesSound' /\ RequestsSound'
  <1> USE DEF Before, Left
  <1>n. NoOne \notin Borrowers
    BY BorrowersAssumption
  <1>s. route' = route /\ bound' = bound
    BY DEF BorrowerStep, AcquireLease, SendPause, GiveUpWaiting, FinishWork, Exit, holdVars
  <1>e. lease = b <=> HoldsLease(b)
    BY DEF PartiesSound, LendingInv, LeaseSound
  <1>c. client \in [Borrowers -> Before \cup {"pausing", "working"} \cup Left]
        /\ lease \in Borrowers \cup {NoOne}
        /\ \A d \in Borrowers : lease = d => HoldsLease(d)
    BY DEF PartiesSound
  <1>r. /\ Ask(b, "pause") \in pending => client[b] \notin Before \cup {"working"}
        /\ Ask(b, "resume") \in pending => client[b] \in Left
        /\ bound = b => client[b] \notin Before
        /\ \A c \in Waiters :
             /\ Serves(c, b, "pause") => client[b] \notin Before \cup {"working"}
                                         /\ Ask(b, "pause") \notin pending
             /\ Serves(c, b, "resume") => client[b] \in Left
    BY DEF RequestsSound
  \* What has to be shown of the borrower, with its place after the step.
  <1>g. ASSUME NEW place \in Before \cup {"pausing", "working"} \cup Left,
               client' = [client EXCEPT ![b] = place],
               lease' \in Borrowers \cup {NoOne},
               \A d \in Borrowers : lease' = d => HoldsLease(d)',
               \A d \in Borrowers : \A v : d # b /\ Ask(d, v) \in pending' => Ask(d, v) \in pending,
               Ask(b, "pause") \in pending' => place \notin Before \cup {"working"},
               Ask(b, "resume") \in pending' => place \in Left,
               bound = b => place \notin Before,
               \A c \in Waiters :
                   /\ Serves(c, b, "pause")
                        => place \notin Before \cup {"working"} /\ Ask(b, "pause") \notin pending'
                   /\ Serves(c, b, "resume") => place \in Left,
               client[b] = "gone" => place = "gone"
        PROVE  PartiesSound' /\ RequestsSound'
    <2>0. client' \in [Borrowers -> Before \cup {"pausing", "working"} \cup Left]
          /\ client'[b] = place /\ \A d \in Borrowers : d # b => client'[d] = client[d]
      BY <1>g, <1>c
    <2>1. PartiesSound'
      BY <1>s, <1>g, <2>0 DEF PartiesSound
    <2>2. \A c \in Waiters, d \in Borrowers :
            Serves(c, d, "pause")' = Serves(c, d, "pause")
            /\ Serves(c, d, "resume")' = Serves(c, d, "resume")
      BY <1>s DEF Serves
    <2>3. \A d \in Borrowers :
            /\ Ask(d, "pause") \in pending' => client'[d] \notin Before \cup {"working"}
            /\ Ask(d, "resume") \in pending' => client'[d] \in Left
            /\ bound' = d => client'[d] \notin Before
      BY <1>s, <1>g, <2>0 DEF RequestsSound
    <2>4. \A c \in Waiters, d \in Borrowers :
            /\ Serves(c, d, "pause")' => client'[d] \notin Before \cup {"working"}
                                         /\ Ask(d, "pause") \notin pending'
            /\ Serves(c, d, "resume")' => client'[d] \in Left
      BY <1>g, <2>0, <2>2 DEF RequestsSound
    <2>5. \A c, d \in Waiters, x \in Borrowers :
            Serves(c, x, "pause")' /\ Serves(d, x, "pause")' => c = d
      BY <2>2 DEF RequestsSound
    <2>6. Recovery \in Waiters /\ route'[Recovery].at # "free"
            => /\ route'[Recovery].verb = "resume"
               /\ route'[Recovery].at \in {"authorised", "called"}
               /\ route'[Recovery].by \in Borrowers
               /\ client'[route'[Recovery].by] = "gone"
      BY <1>s, <1>g, <2>0 DEF RequestsSound
    <2>7. RequestsSound'
      BY <2>3, <2>4, <2>5, <2>6 DEF RequestsSound
    <2> QED BY <2>1, <2>7
  <1>1. CASE AcquireLease(b)
    <2>1. client[b] = "new" /\ lease' = b /\ client' = [client EXCEPT ![b] = "holding"]
          /\ pending' = pending
      BY <1>1 DEF AcquireLease, Becomes
    <2>2. bound # b /\ Ask(b, "pause") \notin pending /\ Ask(b, "resume") \notin pending
          /\ \A c \in Waiters : ~Serves(c, b, "pause") /\ ~Serves(c, b, "resume")
      BY <2>1, <1>r
    <2>3. \A d \in Borrowers : lease' = d => HoldsLease(d)'
      BY <2>1, <1>c DEF HoldsLease
    <2> QED BY <2>1, <2>2, <2>3, <1>g
  <1>2. CASE SendPause(b)
    <2>1. client[b] = "holding" /\ lease' = lease /\ client' = [client EXCEPT ![b] = "pausing"]
          /\ pending' = pending \cup {Ask(b, "pause")}
      BY <1>2 DEF SendPause, Becomes
    <2>2. bound # b /\ Ask(b, "resume") \notin pending
          /\ \A c \in Waiters : ~Serves(c, b, "pause") /\ ~Serves(c, b, "resume")
      BY <2>1, <1>r
    <2>3. \A d \in Borrowers : lease' = d => HoldsLease(d)'
      BY <2>1, <1>c DEF HoldsLease
    <2>4. \A d \in Borrowers : \A v : Ask(d, v) \in pending' => Ask(d, v) \in pending \/ (d = b /\ v = "pause")
      BY <2>1, AskTells
    <2>5. Ask(b, "resume") \notin pending'
      BY <2>2, <2>4
    <2> QED BY <2>1, <2>2, <2>3, <2>4, <2>5, <1>c, <1>g
  <1>3. CASE GiveUpWaiting(b) \/ FinishWork(b)
    <2>1. PICK place \in {"resuming", "stranded"} :
            /\ client[b] \in {"pausing", "working", "resuming"}
            /\ client' = [client EXCEPT ![b] = place]
            /\ pending' \in {pending, pending \cup {Ask(b, "resume")}}
            /\ lease' = lease
      BY <1>3 DEF GiveUpWaiting, FinishWork, SendResume, Becomes
    <2>2. \A d \in Borrowers : lease' = d => HoldsLease(d)'
      BY <2>1, <1>c DEF HoldsLease
    <2>3. \A d \in Borrowers : \A v : Ask(d, v) \in pending' => Ask(d, v) \in pending \/ (d = b /\ v = "resume")
      BY <2>1, AskTells
    <2>4. Ask(b, "pause") \in pending' => Ask(b, "pause") \in pending
      BY <2>3
    <2>5. \A c \in Waiters : Serves(c, b, "pause") => Ask(b, "pause") \notin pending'
      BY <2>4, <1>r
    <2> QED BY <2>1, <2>2, <2>3, <2>5, <1>c, <1>g
  <1>4. CASE Exit(b)
    <2>1. client' = [client EXCEPT ![b] = "gone"] /\ pending' = pending
          /\ lease' = IF lease = b THEN NoOne ELSE lease
      BY <1>4 DEF Exit, Becomes
    <2>2. lease' \in Borrowers \cup {NoOne} /\ \A d \in Borrowers : lease' = d => HoldsLease(d)'
      BY <2>1, <1>c, <1>n DEF HoldsLease
    <2>4. \A c \in Waiters : Serves(c, b, "pause") => Ask(b, "pause") \notin pending'
      BY <2>1, <1>r
    <2> QED BY <2>1, <2>2, <2>4, <1>g
  <1> QED BY <1>1, <1>2, <1>3, <1>4 DEF BorrowerStep

\* An answered request is served no more, and what its answer moves keeps the
\* order of requests, whatever becomes of the binding short of a new one.
LEMMA AnswerTurns ==
  ASSUME LendingInv, PartiesSound, RequestsSound,
         NEW c \in Waiters, c \in Routes, route[c].at # "free", NEW ok, Answer(c, ok),
         bound' \in {bound, NoOne}
  PROVE  PartiesSound' /\ RequestsSound'
  <1> USE DEF Before, Left
  <1> DEFINE by == route[c].by
             verb == route[c].verb
  <1>a. route' = [route EXCEPT ![c] = Idle] /\ Delivered(by, verb, ok, pending)
    BY DEF Answer
  <1>d. DOMAIN route = Waiters
    BY DEF LendingInv, RouteSound
  <1>m. /\ client' \in [Borrowers -> Before \cup {"pausing", "working"} \cup Left]
        /\ \A b \in Borrowers :
                \/ client'[b] = client[b]
                \/ /\ b = by /\ verb = "pause" /\ client[b] = "pausing"
                   /\ client'[b] = IF ok THEN "working" ELSE "resuming"
                \/ /\ b = by /\ verb = "resume" /\ client[b] = "resuming"
                   /\ client'[b] \in {"stranded", "gone"}
        /\ \A b \in Borrowers :
                /\ Ask(b, "pause") \in pending' => Ask(b, "pause") \in pending
                /\ Ask(b, "resume") \in pending'
                    => Ask(b, "resume") \in pending \/ client'[b] = "resuming"
        /\ lease' \in Borrowers \cup {NoOne}
        /\ \A b \in Borrowers : lease' = b => HoldsLease(b)'
    BY <1>a, DeliveryMoves
  <1>r. /\ \A d \in Waiters : d # c => route'[d] = route[d]
        /\ route'[c] = Idle
    BY <1>a, <1>d
  <1>f. Idle.at = "free"
    BY DEF Idle
  <1>1. PartiesSound'
    BY <1>m, <1>r, <1>f DEF PartiesSound
  <1>2. \A d \in Waiters, b \in Borrowers, v \in Directions :
          Serves(d, b, v)' => d # c /\ Serves(d, b, v)
    BY <1>r, <1>f DEF Serves
  <1>3. \A b \in Borrowers : client[b] = "pausing" \/ client[b] = client'[b]
                             \/ client'[b] \in {"stranded", "gone"}
    BY <1>m
  <1>4. \A b \in Borrowers : b = by /\ verb = "pause"
           => Ask(b, "pause") \notin pending /\ Serves(c, b, "pause")
    BY DEF RequestsSound, Serves
  <1>5. \A d \in Waiters, b \in Borrowers :
          d # c /\ client[b] = "pausing" /\ client'[b] # client[b]
            => ~Serves(d, b, "pause") /\ ~Serves(d, b, "resume")
    <2> SUFFICES ASSUME NEW d \in Waiters, NEW b \in Borrowers, d # c, client[b] = "pausing",
                        client'[b] # client[b]
                 PROVE  ~Serves(d, b, "pause") /\ ~Serves(d, b, "resume")
      OBVIOUS
    <2>1. b = by /\ verb = "pause"
      BY <1>m
    <2>2. Serves(c, b, "pause")
      BY <1>4, <2>1
    <2>3. ~Serves(d, b, "pause")
      BY <2>2 DEF RequestsSound
    <2>4. ~Serves(d, b, "resume")
      BY DEF RequestsSound
    <2> QED BY <2>3, <2>4
  <1>6. ASSUME NEW b \in Borrowers
        PROVE  /\ Ask(b, "pause") \in pending' => client'[b] \notin Before \cup {"working"}
               /\ Ask(b, "resume") \in pending' => client'[b] \in Left
               /\ bound' = b => client'[b] \notin Before
    <2>1. /\ Ask(b, "pause") \in pending => client[b] \notin Before \cup {"working"}
          /\ Ask(b, "resume") \in pending => client[b] \in Left
          /\ bound = b => client[b] \notin Before
      BY DEF RequestsSound
    <2>2. bound' = b => bound = b
      BY BorrowersAssumption
    <2> QED BY <1>m, <1>4, <2>1, <2>2
  <1>7. ASSUME NEW d \in Waiters, NEW b \in Borrowers
        PROVE  /\ Serves(d, b, "pause")' => client'[b] \notin Before \cup {"working"}
                                            /\ Ask(b, "pause") \notin pending'
               /\ Serves(d, b, "resume")' => client'[b] \in Left
    <2>1. /\ Serves(d, b, "pause") => client[b] \notin Before \cup {"working"}
                                      /\ Ask(b, "pause") \notin pending
          /\ Serves(d, b, "resume") => client[b] \in Left
      BY DEF RequestsSound
    <2> QED BY <1>m, <1>2, <1>3, <1>5, <2>1 DEF Directions
  <1>8. Recovery # c
    BY DEF Routes
  <1>9. RequestsSound'
    <2>1. Recovery \in Waiters => route'[Recovery] = route[Recovery]
      BY <1>r, <1>8
    <2>2. \A b \in Borrowers : client[b] = "gone" => client'[b] = "gone"
      BY <1>m
    <2>3. Recovery \in Waiters /\ route'[Recovery].at # "free"
            => /\ route'[Recovery].verb = "resume"
               /\ route'[Recovery].at \in {"authorised", "called"}
               /\ route'[Recovery].by \in Borrowers
               /\ client'[route'[Recovery].by] = "gone"
      BY <2>1, <2>2 DEF RequestsSound
    <2>4. \A d, x \in Waiters, b \in Borrowers :
            Serves(d, b, "pause")' /\ Serves(x, b, "pause")' => d = x
      BY <1>2 DEF RequestsSound, Directions
    <2> QED BY <1>6, <1>7, <2>3, <2>4 DEF RequestsSound
  <1> QED BY <1>1, <1>9

\* A thread that goes on with the request it serves keeps its turn.
LEMMA ServingTurns ==
  ASSUME LendingInv, PartiesSound, RequestsSound,
         NEW c \in Waiters, NEW at, at # "free", route[c].at # "free",
         c = Recovery => at = "called",
         Serve(c, route[c].by, route[c].verb, at), UNCHANGED borrowerVars,
         bound' \in {bound, NoOne, route[c].by},
         bound' = route[c].by /\ bound' # bound /\ bound' # NoOne
            => route[c].verb = "pause" /\ route[c].by \in Borrowers
  PROVE  PartiesSound' /\ RequestsSound'
  <1>d. DOMAIN route = Waiters
    BY DEF LendingInv, RouteSound
  <1>r. /\ \A d \in Waiters : d # c => route'[d] = route[d]
        /\ route'[c] = [by |-> route[c].by, verb |-> route[c].verb, at |-> at]
    BY <1>d DEF Serve
  <1>c. client' = client /\ lease' = lease /\ pending' = pending
    BY DEF borrowerVars
  <1>1. PartiesSound'
    BY <1>r, <1>c DEF PartiesSound, HoldsLease
  <1>2. \A d \in Waiters : \A b, v : Serves(d, b, v)' = Serves(d, b, v)
    BY <1>r DEF Serves
  <1>3. \A b \in Borrowers : bound' = b => client[b] \notin Before
    <2> SUFFICES ASSUME NEW b \in Borrowers, bound' = b PROVE client[b] \notin Before
      OBVIOUS
    <2>1. CASE bound = b
      BY <2>1 DEF RequestsSound
    <2>2. CASE bound # b
      <3>1. b = route[c].by /\ route[c].verb = "pause"
        BY <2>2, BorrowersAssumption
      <3> QED BY <3>1 DEF RequestsSound, Serves
    <2> QED BY <2>1, <2>2
  <1>4. Recovery \in Waiters /\ route'[Recovery].at # "free"
            => /\ route'[Recovery].verb = "resume"
               /\ route'[Recovery].at \in {"authorised", "called"}
               /\ route'[Recovery].by \in Borrowers
               /\ client'[route'[Recovery].by] = "gone"
    BY <1>r, <1>c DEF RequestsSound
  <1>5. RequestsSound'
    BY <1>c, <1>2, <1>3, <1>4 DEF RequestsSound
  <1> QED BY <1>1, <1>5

\* A request taken up is one that was sent.
LEMMA ArrivalTurns ==
  ASSUME LendingInv, PartiesSound, RequestsSound,
         NEW c \in Waiters, NEW by \in Borrowers \cup {Operator}, NEW verb \in Directions,
         Arrive(c, by, verb)
  PROVE  PartiesSound' /\ RequestsSound'
  <1> USE DEF Before, Left
  <1> DEFINE others == pending \ {Ask(by, verb)}
  <1>d. DOMAIN route = Waiters
    BY DEF LendingInv, RouteSound
  <1>a. c \in Routes /\ c # Recovery /\ route[c].at = "free" /\ bound' = bound
        /\ (by \in Borrowers => Ask(by, verb) \in pending)
    BY BorrowersAssumption DEF Arrive, Serving, Routes
  <1>1. CASE /\ Serve(c, by, verb, "authorised") /\ pending' = others
             /\ UNCHANGED <<lease, client>>
    <2>1. /\ \A d \in Waiters : d # c => route'[d] = route[d]
          /\ route'[c] = [by |-> by, verb |-> verb, at |-> "authorised"]
      BY <1>1, <1>d DEF Serve
    <2>2. PartiesSound'
      BY <1>1, <1>a, <2>1 DEF PartiesSound, HoldsLease
    <2>3. ASSUME NEW d \in Waiters, NEW b \in Borrowers
          PROVE  /\ Serves(d, b, "pause")' => client[b] \notin Before \cup {"working"}
                                              /\ Ask(b, "pause") \notin pending'
                 /\ Serves(d, b, "resume")' => client[b] \in Left
      <3>1. CASE d # c
        BY <1>1, <2>1, <3>1 DEF RequestsSound, Serves
      <3>2. CASE d = c
        <4>1. \A v \in Directions : Serves(d, b, v)' => b = by /\ v = verb
          BY <2>1, <3>2 DEF Serves
        <4> QED BY <1>1, <1>a, <4>1 DEF RequestsSound, Directions
      <3> QED BY <3>1, <3>2
    <2>4. RequestsSound'
      <3>1. Recovery \in Waiters => route'[Recovery] = route[Recovery]
        BY <1>a, <2>1
      <3>2. \A b \in Borrowers :
                /\ Ask(b, "pause") \in pending' => client'[b] \notin Before \cup {"working"}
                /\ Ask(b, "resume") \in pending' => client'[b] \in Left
                /\ bound' = b => client'[b] \notin Before
        BY <1>1, <1>a DEF RequestsSound
      <3>3. Recovery \in Waiters /\ route'[Recovery].at # "free"
            => /\ route'[Recovery].verb = "resume"
               /\ route'[Recovery].at \in {"authorised", "called"}
               /\ route'[Recovery].by \in Borrowers
               /\ client'[route'[Recovery].by] = "gone"
        BY <1>1, <3>1 DEF RequestsSound
      <3>4. ASSUME NEW d \in Waiters, NEW x \in Waiters, NEW b \in Borrowers,
                   Serves(d, b, "pause")', Serves(x, b, "pause")', d # x
            PROVE  FALSE
        <4>1. CASE d = c \/ x = c
          <5>1. b = by /\ verb = "pause"
            BY <2>1, <3>4, <4>1 DEF Serves
          <5>2. Ask(b, "pause") \in pending
            BY <1>a, <5>1
          <5>3. Serves(d, b, "pause") \/ Serves(x, b, "pause")
            BY <2>1, <3>4, <4>1 DEF Serves
          <5> QED BY <5>2, <5>3 DEF RequestsSound
        <4>2. CASE d # c /\ x # c
          BY <2>1, <3>4, <4>2 DEF RequestsSound, Serves
        <4> QED BY <4>1, <4>2
      <3> QED BY <1>1, <2>3, <3>2, <3>3, <3>4 DEF RequestsSound
    <2> QED BY <2>2, <2>4
  <1>2. CASE Delivered(by, verb, FALSE, others) /\ UNCHANGED route
    <2>m. /\ client' \in [Borrowers -> Before \cup {"pausing", "working"} \cup Left]
          /\ \A b \in Borrowers :
                \/ client'[b] = client[b]
                \/ /\ b = by /\ verb = "pause" /\ client[b] = "pausing"
                   /\ client'[b] = "resuming"
                \/ /\ b = by /\ verb = "resume" /\ client[b] = "resuming"
                   /\ client'[b] \in {"stranded", "gone"}
          /\ \A b \in Borrowers :
                /\ Ask(b, "pause") \in pending' => Ask(b, "pause") \in pending
                /\ Ask(b, "resume") \in pending'
                    => Ask(b, "resume") \in pending \/ client'[b] = "resuming"
          /\ lease' \in Borrowers \cup {NoOne}
          /\ \A b \in Borrowers : lease' = b => HoldsLease(b)'
      <3>1. PICK ok : ok = FALSE /\ Delivered(by, verb, ok, others)
        BY <1>2
      <3>2. others \subseteq pending
        OBVIOUS
      <3> HIDE DEF others
      <3> QED BY <3>1, <3>2, DeliveryMoves
    <2>1. PartiesSound'
      BY <1>2, <1>a, <2>m DEF PartiesSound
    <2>2. \A d \in Waiters : \A b, v : Serves(d, b, v)' = Serves(d, b, v)
      BY <1>2 DEF Serves
    <2>3. \A b \in Borrowers :
            /\ client[b] = "gone" => client'[b] = "gone"
            /\ client[b] \in Left => client'[b] \in Left
            /\ client[b] \notin Before \cup {"working"}
                => client'[b] \notin Before \cup {"working"}
            /\ client[b] \notin Before => client'[b] \notin Before
      BY <2>m
    <2>4. Recovery \in Waiters /\ route'[Recovery].at # "free"
            => /\ route'[Recovery].verb = "resume"
               /\ route'[Recovery].at \in {"authorised", "called"}
               /\ route'[Recovery].by \in Borrowers
               /\ client'[route'[Recovery].by] = "gone"
      BY <1>2, <2>3 DEF RequestsSound
    <2>5. \A b \in Borrowers :
            /\ Ask(b, "pause") \in pending' => client'[b] \notin Before \cup {"working"}
            /\ Ask(b, "resume") \in pending' => client'[b] \in Left
            /\ bound' = b => client'[b] \notin Before
      BY <1>a, <2>m, <2>3 DEF RequestsSound
    <2>6. \A d \in Waiters, b \in Borrowers :
            /\ Serves(d, b, "pause")' => client'[b] \notin Before \cup {"working"}
                                         /\ Ask(b, "pause") \notin pending'
            /\ Serves(d, b, "resume")' => client'[b] \in Left
      BY <2>m, <2>2, <2>3 DEF RequestsSound
    <2>8. \A d, x \in Waiters, b \in Borrowers :
            Serves(d, b, "pause")' /\ Serves(x, b, "pause")' => d = x
      BY <2>2 DEF RequestsSound
    <2>7. RequestsSound'
      BY <2>4, <2>5, <2>6, <2>8 DEF RequestsSound
    <2> QED BY <2>1, <2>7
  <1> QED BY <1>1, <1>2 DEF Arrive

\* The heartbeat takes up a resume only for a borrower that is gone.
LEMMA HeartbeatTurns ==
  ASSUME LendingInv, PartiesSound, RequestsSound, LookForLostLease \/ Recovered
  PROVE  PartiesSound' /\ RequestsSound'
  <1>d. DOMAIN route = Waiters
    BY DEF LendingInv, RouteSound
  <1>c. client' = client /\ lease' = lease /\ pending' = pending
        /\ bound' \in {bound, NoOne} /\ Recovery \in Waiters
    BY DEF LookForLostLease, Recovered, ClearedBy, borrowerVars
  <1>b. \A b \in Borrowers : bound' = b => bound = b
    BY <1>c, BorrowersAssumption
  <1>1. CASE LookForLostLease
    <2>1. bound \in Borrowers /\ lease = NoOne
      BY <1>1 DEF LookForLostLease, PartiesSound
    <2>2. client[bound] = "gone"
      BY <2>1, BorrowersAssumption
         DEF PartiesSound, RequestsSound, LendingInv, LeaseSound, HoldsLease, Before, Left
    <2>3. /\ \A d \in Waiters : d # Recovery => route'[d] = route[d]
          /\ route'[Recovery] = [by |-> bound, verb |-> "resume", at |-> "authorised"]
      BY <1>1, <1>d DEF LookForLostLease, Serve
    <2>4. PartiesSound'
      BY <1>c, <2>1, <2>3, <1>b DEF PartiesSound, HoldsLease
    <2>5. \A d \in Waiters, b \in Borrowers, v \in Directions :
            Serves(d, b, v)' => \/ Serves(d, b, v)
                                \/ b = bound /\ v = "resume"
      BY <2>3 DEF Serves
    <2>6. RequestsSound'
      BY <1>b, <1>c, <2>1, <2>2, <2>3, <2>5 DEF RequestsSound, Directions, Left
    <2> QED BY <2>4, <2>6
  <1>2. CASE Recovered
    <2>1. /\ \A d \in Waiters : d # Recovery => route'[d] = route[d]
          /\ route'[Recovery] = Idle
      BY <1>2, <1>d DEF Recovered
    <2>2. Idle.at = "free"
      BY DEF Idle
    <2>3. PartiesSound'
      BY <1>c, <2>1, <2>2 DEF PartiesSound, HoldsLease
    <2>4. \A d \in Waiters, b \in Borrowers, v \in Directions :
            Serves(d, b, v)' => Serves(d, b, v)
      BY <2>1, <2>2 DEF Serves
    <2>5. RequestsSound'
      BY <1>b, <1>c, <2>1, <2>2, <2>4 DEF RequestsSound, Directions
    <2> QED BY <2>3, <2>5
  <1> QED BY <1>1, <1>2

----------------------------------------------------------------------------
(* The request behind a transition.                                       *)

\* The step of an owner that goes on in its direction.
GoesOn(c) ==
    \E step \in OwnerSteps :
        /\ Goto(c, step)
        /\ step \in PauseSteps => operation = "pause"
        /\ step \in ResumeSteps => operation = "resume"

\* The step of an owner that returns what its direction may return.
Ends(c) ==
    \E code : /\ Finish(c, code)
              /\ code = "running" => operation = "resume"
              /\ code = "quiesced" => At(c, "acknowledge") /\ state' = "quiesced"

\* The owner goes on in its direction, or ends with what the direction allows.
LEMMA OwnerMoves ==
  ASSUME CallsServed, NEW c \in Waiters, OwnerStep(c)
  PROVE  pc[c] \in OwnerSteps /\ (GoesOn(c) \/ Ends(c))
  <1> USE DEF OwnerSteps, PauseSteps, ResumeSteps, At
  <1>k. /\ pc[c] \in PauseSteps => operation = "pause"
        /\ pc[c] \in ResumeSteps => operation = "resume"
    BY DEF CallsServed
  <1>1. CASE Observe(c)
    BY <1>1 DEF Observe, GoesOn, Ends
  <1>2. CASE StartPause(c)
    BY <1>2, <1>k DEF StartPause, GoesOn, Ends
  <1>3. CASE RequestQuiesceAttempts(c)
    BY <1>3, <1>k DEF RequestQuiesceAttempts, GoesOn, Ends
  <1>4. CASE Drain(c)
    BY <1>4, <1>k DEF Drain, GoesOn
  <1>5. CASE Drained(c)
    BY <1>5, <1>k DEF Drained, GoesOn
  <1>6. CASE DrainGivenUp(c)
    BY <1>6, <1>k DEF DrainGivenUp, Ends
  <1>7. CASE DetachGpuDependencies(c)
    BY <1>7, <1>k DEF DetachGpuDependencies, GoesOn
  <1>8. CASE ReleaseGpuResidency(c)
    BY <1>8, <1>k DEF ReleaseGpuResidency, GoesOn, Ends
  <1>9. CASE Acknowledge(c)
    BY <1>9, <1>k DEF Acknowledge, Ends
  <1>10. CASE RestorePausedGpuDependencies(c)
    BY <1>10, <1>k DEF RestorePausedGpuDependencies, GoesOn, Ends
  <1>11. CASE StartWarming(c)
    BY <1>11, <1>k DEF StartWarming, GoesOn, Ends
  <1>12. CASE RestoreGpuResidency(c)
    BY <1>12, <1>k DEF RestoreGpuResidency, GoesOn, Ends
  <1>13. CASE PrepareRecovery(c)
    BY <1>13, <1>k DEF PrepareRecovery, GoesOn, Ends
  <1>14. CASE ReopenAdmission(c)
    BY <1>14, <1>k DEF ReopenAdmission, GoesOn
  <1>15. CASE CompleteReopenedRecovery(c)
    BY <1>15, <1>k DEF CompleteReopenedRecovery, GoesOn, Ends
  <1>16. CASE Reclose(c)
    BY <1>16, <1>k DEF Reclose, Ends
  <1>17. CASE ReclaimGpu(c)
    BY <1>17, <1>k DEF ReclaimGpu, GoesOn
  <1> QED
    BY <1>1, <1>2, <1>3, <1>4, <1>5, <1>6, <1>7, <1>8, <1>9, <1>10, <1>11, <1>12,
       <1>13, <1>14, <1>15, <1>16, <1>17 DEF OwnerStep, PauseStep, ResumeStep

\* The owner leaves a quiescence only to warm up, loads a model only after, and
\* reaches a quiescence only by acknowledging it.
LEMMA OwnerAndQuiescence ==
  ASSUME ResidencyInv, NEW c \in Waiters, OwnerStep(c)
  PROVE  /\ state = "quiesced"
              => state' = "quiesced" \/ (At(c, "begin_warming") /\ pc'[c] = "reclaim")
         /\ state' = "quiesced" => state = "quiesced" \/ At(c, "acknowledge")
         /\ vram' = "resident" => vram = "resident" \/ At(c, "reload")
         /\ At(c, "reclaim") => vram' = vram
  <1>k. KnownAt(pc[c]) /\ DOMAIN pc = Waiters
    BY DEF ResidencyInv, OwnersKnow, CallsSound
  <1>1. CASE Observe(c) \/ RequestQuiesceAttempts(c) \/ ReclaimGpu(c)
    BY <1>1 DEF Observe, RequestQuiesceAttempts, ReclaimGpu, quiesceVars, recordVars,
                stackVars
  <1>2. CASE StartPause(c)
    BY <1>2 DEF StartPause, BeginPause, stackVars, At
  <1>3. CASE Drain(c) \/ Drained(c) \/ DrainGivenUp(c)
    BY <1>3 DEF Drain, Drained, DrainGivenUp, WaitForDrain, DrainObserved, DrainTimedOut,
                AcknowledgeDrain, quiesceVars, recordVars, stackVars, At
  <1>4. CASE DetachGpuDependencies(c)
    BY <1>4 DEF DetachGpuDependencies, quiesceVars, recordVars, At
  <1>5. CASE ReleaseGpuResidency(c)
    BY <1>5 DEF ReleaseGpuResidency, FailTransition, quiesceVars, recordVars, At
  <1>6. CASE Acknowledge(c)
    BY <1>6 DEF Acknowledge, AcknowledgeVramReleased, stackVars, At
  <1>7. CASE RestorePausedGpuDependencies(c)
    BY <1>7 DEF RestorePausedGpuDependencies, FailTransition, quiesceVars, recordVars,
                stackVars, At
  <1>8. CASE StartWarming(c)
    <2>1. At(c, "begin_warming") /\ UNCHANGED stackVars
          /\ (state = "quiesced" => state' = "warming")
          /\ (state # "quiesced" => state' = state)
      BY <1>8 DEF StartWarming, BeginWarming
    <2>2. state' = "warming" => pc'[c] = "reclaim"
      BY <1>8, <1>k DEF StartWarming, Goto
    <2> QED BY <2>1, <2>2 DEF stackVars, At
  <1>9. CASE RestoreGpuResidency(c)
    BY <1>9 DEF RestoreGpuResidency, FailTransition, quiesceVars, recordVars, At
  <1>10. CASE PrepareRecovery(c)
    BY <1>10 DEF PrepareRecovery, FailTransition, quiesceVars, recordVars, stackVars, At
  <1>11. CASE ReopenAdmission(c)
    <2>1. state \in {"pausing", "warming"} /\ At(c, "reopen")
      BY <1>11, <1>k DEF ReopenAdmission, At, KnownAt
    <2>2. state' = "running" \/ state' = state
      BY <1>11 DEF ReopenAdmission, AbortPause, CompleteWarming, Reopen, quiesceVars,
                   recordVars
    <2>3. vram' = vram
      BY <1>11 DEF ReopenAdmission, stackVars
    <2> QED BY <2>1, <2>2, <2>3
  <1>12. CASE CompleteReopenedRecovery(c)
    BY <1>12 DEF CompleteReopenedRecovery, BeginPause, quiesceVars, recordVars, stackVars,
                 At
  <1>13. CASE Reclose(c)
    BY <1>13 DEF Reclose, FailTransition, stackVars, At
  <1> QED
    BY <1>1, <1>2, <1>3, <1>4, <1>5, <1>6, <1>7, <1>8, <1>9, <1>10, <1>11, <1>12, <1>13
       DEF OwnerStep, PauseStep, ResumeStep

\* A transition's step is taken for the requests its threads serve, and those it
\* tells of a quiescence had asked for it.
LEMMA TransitionServed ==
  ASSUME ResidencyInv, CallsServed, NEW c \in Waiters, RunTransition(c)
  PROVE  CallsServed'
  <1>s. route' = route /\ OwnerStep(c)
        /\ asking' = IF At(c, "acknowledge") /\ state' = "quiesced" THEN AskingToPause
                     ELSE IF state' = "quiesced" THEN asking ELSE {}
    BY DEF RunTransition
  <1>o. pc[c] \in OwnerSteps /\ (GoesOn(c) \/ Ends(c))
    BY <1>s, OwnerMoves
  <1>q. state' = "quiesced" => state = "quiesced" \/ At(c, "acknowledge")
    BY <1>s, OwnerAndQuiescence
  <1>i. CallsSound
    BY DEF ResidencyInv
  <1>v. route[c].at = "called" /\ operation = route[c].verb
    BY <1>o DEF CallsServed, OwnerSteps
  \* Whoever was told of a quiescence has asked for it, whichever it is.
  <1>a. ASSUME NEW x \in Waiters, route[x].verb = "pause", route[x].at = "called",
               route[x].by \in Borrowers, state' = "quiesced",
               At(c, "acknowledge") \/ outcome[x] = "quiesced"
        PROVE  route[x].by \in asking'
    <2>1. CASE At(c, "acknowledge")
      BY <1>a, <1>s, <2>1 DEF AskingToPause
    <2>2. CASE ~At(c, "acknowledge")
      BY <1>a, <1>s, <1>q, <2>2 DEF CallsServed
    <2> QED BY <2>1, <2>2
  <1>1. CASE GoesOn(c)
    <2>1. PICK step \in OwnerSteps :
            /\ Goto(c, step)
            /\ step \in PauseSteps => operation = "pause"
            /\ step \in ResumeSteps => operation = "resume"
      BY <1>1 DEF GoesOn
    <2>2. operation' = operation /\ outcome' = outcome /\ DOMAIN outcome = Waiters
          /\ pc'[c] = step /\ \A x \in Waiters : x # c => pc'[x] = pc[x]
      BY <2>1, <1>i DEF Goto, CallsSound, CallsServed
    <2>3. \A x \in Waiters :
            /\ pc'[x] # "idle" => route'[x].at = "called" /\ operation' = route'[x].verb
            /\ pc'[x] \in PauseSteps => operation' = "pause"
            /\ pc'[x] \in ResumeSteps => operation' = "resume"
      BY <1>s, <1>v, <2>1, <2>2 DEF CallsServed
    <2>4. \A x \in Waiters :
            route'[x].verb = "pause" /\ route'[x].at = "called" =>
              /\ outcome'[x] # "running"
              /\ outcome'[x] = "quiesced" /\ state' = "quiesced" /\ route'[x].by \in Borrowers
                   => route'[x].by \in asking'
      BY <1>s, <1>a, <2>2 DEF CallsServed
    <2> QED BY <2>2, <2>3, <2>4 DEF CallsServed
  <1>2. CASE Ends(c)
    <2>1. PICK code :
            /\ Finish(c, code)
            /\ code = "running" => operation = "resume"
            /\ code = "quiesced" => At(c, "acknowledge") /\ state' = "quiesced"
      BY <1>2 DEF Ends
    <2>2. /\ operation' = "none" /\ DOMAIN outcome' = Waiters
          /\ \A x \in Waiters : x = c \/ pc[x] = "joined"
                => pc'[x] = "idle" /\ outcome'[x] = code
          /\ \A x \in Waiters : x # c /\ pc[x] # "joined"
                => pc'[x] = pc[x] /\ outcome'[x] = outcome[x]
      BY <2>1 DEF Finish
    <2>3. \A x \in Waiters : pc'[x] = "idle"
      BY <2>2, <1>i, <1>o DEF CallsSound
    <2>4. \A x \in Waiters :
            /\ pc'[x] # "idle" => route'[x].at = "called" /\ operation' = route'[x].verb
            /\ pc'[x] \in PauseSteps => operation' = "pause"
            /\ pc'[x] \in ResumeSteps => operation' = "resume"
      BY <2>3 DEF PauseSteps, ResumeSteps, OwnerSteps
    <2>5. ASSUME NEW x \in Waiters, route'[x].verb = "pause", route'[x].at = "called"
          PROVE  /\ outcome'[x] # "running"
                 /\ outcome'[x] = "quiesced" /\ state' = "quiesced" /\ route'[x].by \in Borrowers
                      => route'[x].by \in asking'
      <3>1. CASE x = c \/ pc[x] = "joined"
        <4>1. outcome'[x] = code /\ operation = "pause"
          BY <1>s, <1>v, <2>2, <2>5, <3>1 DEF CallsServed
        <4> QED BY <1>a, <1>s, <2>1, <2>5, <4>1
      <3>2. CASE x # c /\ pc[x] # "joined"
        <4>1. outcome'[x] = outcome[x]
          BY <2>2, <3>2
        <4> QED BY <1>a, <1>s, <2>5, <4>1 DEF CallsServed
      <3> QED BY <3>1, <3>2
    <2> QED BY <2>2, <2>4, <2>5 DEF CallsServed
  <1> QED BY <1>o, <1>1, <1>2

\* A call claims, joins or meets a transition for the request it serves.
LEMMA CallServed ==
  ASSUME ResidencyInv, LendingInv, CallsServed, NEW c \in Waiters, Call(c)
  PROVE  CallsServed'
  <1> DEFINE d == route[c].verb
  <1>s. /\ Request(c, d)
        /\ route' = [route EXCEPT ![c] = [by |-> route[c].by, verb |-> d, at |-> "called"]]
        /\ pc[c] = "idle" /\ route[c].at = "authorised"
    BY DEF Call, Serve, Request, At
  <1>t. /\ pc \in [Waiters -> OwnerSteps \cup {"idle", "joined"}]
        /\ \A x \in Waiters : pc[x] \in OwnerSteps => operation # "none"
        /\ DOMAIN route = Waiters
        /\ DOMAIN outcome = Waiters
        /\ DOMAIN outcome' = Waiters
        /\ d \in Directions
    BY <1>s DEF ResidencyInv, CallsSound, LendingInv, RouteSound, CallsServed, Request
  <1>r. /\ route'[c].at = "called" /\ route'[c].verb = d
        /\ \A x \in Waiters : x # c => route'[x] = route[x]
    BY <1>s, <1>t
  <1>c. \A x \in Waiters :
          /\ pc[x] # "idle" => route[x].at = "called" /\ operation = route[x].verb
          /\ pc[x] \in PauseSteps => operation = "pause"
          /\ pc[x] \in ResumeSteps => operation = "resume"
    BY DEF CallsServed
  <1>e. \A x \in Waiters : pc[x] # "idle" => x # c /\ operation \in Directions
    BY <1>c, <1>s DEF LendingInv, RouteSound
  <1>p. \A x \in Waiters : x # c => outcome'[x] = outcome[x]
    BY <1>s, <1>t DEF Request
  <1>n. outcome'[c] \notin {"running", "quiesced"}
    BY <1>s, <1>t DEF Request
  <1>u. state' = state /\ asking' = asking
    BY DEF Call, Request, quiesceVars, recordVars, historyVars
  \* No outcome is one the request could not have.
  <1>q. \A x \in Waiters :
          route'[x].verb = "pause" /\ route'[x].at = "called" =>
            /\ outcome'[x] # "running"
            /\ outcome'[x] = "quiesced" /\ state' = "quiesced" /\ route'[x].by \in Borrowers
                 => route'[x].by \in asking'
    BY <1>n, <1>p, <1>r, <1>u DEF CallsServed
  <1>1. CASE /\ operation = "none" /\ operation' = d
             /\ pc' = [pc EXCEPT ![c] = "observe"]
             /\ outcome' = [outcome EXCEPT ![c] = "none"]
    <2>1. \A x \in Waiters : x # c => pc'[x] = "idle"
      BY <1>1, <1>t, <1>e DEF Directions
    <2>2. pc'[c] = "observe"
      BY <1>1, <1>t
    <2>3. \A x \in Waiters :
            /\ pc'[x] # "idle" => route'[x].at = "called" /\ operation' = route'[x].verb
            /\ pc'[x] \in PauseSteps => operation' = "pause"
            /\ pc'[x] \in ResumeSteps => operation' = "resume"
      BY <1>1, <1>r, <2>1, <2>2 DEF PauseSteps, ResumeSteps, OwnerSteps
    <2> QED BY <1>t, <1>q, <2>3 DEF CallsServed
  <1>2. CASE /\ operation = d /\ operation' = operation
             /\ pc' = [pc EXCEPT ![c] = "joined"]
             /\ outcome' = [outcome EXCEPT ![c] = "none"]
    <2>1. pc'[c] = "joined" /\ \A x \in Waiters : x # c => pc'[x] = pc[x]
      BY <1>2, <1>t
    <2>2. \A x \in Waiters :
            /\ pc'[x] # "idle" => route'[x].at = "called" /\ operation' = route'[x].verb
            /\ pc'[x] \in PauseSteps => operation' = "pause"
            /\ pc'[x] \in ResumeSteps => operation' = "resume"
      BY <1>2, <1>r, <1>c, <2>1 DEF PauseSteps, ResumeSteps, OwnerSteps
    <2> QED BY <1>t, <1>q, <2>2 DEF CallsServed
  <1>3. CASE /\ operation \notin {"none", d} /\ UNCHANGED <<operation, pc>>
             /\ outcome' = [outcome EXCEPT ![c] = "conflict"]
    <2>1. \A x \in Waiters :
            /\ pc'[x] # "idle" => route'[x].at = "called" /\ operation' = route'[x].verb
            /\ pc'[x] \in PauseSteps => operation' = "pause"
            /\ pc'[x] \in ResumeSteps => operation' = "resume"
      BY <1>3, <1>r, <1>c, <1>e
    <2> QED BY <1>t, <1>q, <2>1 DEF CallsServed
  <1> QED BY <1>s, <1>1, <1>2, <1>3 DEF Request

\* A thread whose call has returned, or is not yet made, may be given its place.
LEMMA PlaceServed ==
  ASSUME LendingInv, CallsServed, NEW c \in Waiters, pc[c] = "idle", NEW r,
         r.at # "called", route' = [route EXCEPT ![c] = r],
         UNCHANGED <<pc, operation, state, asking>>, DOMAIN outcome' = Waiters,
         \A x \in Waiters : x # c => outcome'[x] = outcome[x]
  PROVE  CallsServed'
  <1>1. route'[c] = r /\ \A x \in Waiters : x # c => route'[x] = route[x]
    BY DEF LendingInv, RouteSound
  <1>2. \A x \in Waiters :
          /\ pc'[x] # "idle" => route'[x].at = "called" /\ operation' = route'[x].verb
          /\ pc'[x] \in PauseSteps => operation' = "pause"
          /\ pc'[x] \in ResumeSteps => operation' = "resume"
    BY <1>1 DEF CallsServed, PauseSteps, ResumeSteps, OwnerSteps
  <1>3. \A x \in Waiters :
          route'[x].verb = "pause" /\ route'[x].at = "called" =>
            /\ outcome'[x] # "running"
            /\ outcome'[x] = "quiesced" /\ state' = "quiesced" /\ route'[x].by \in Borrowers
                 => route'[x].by \in asking'
    BY <1>1 DEF CallsServed
  <1> QED BY <1>2, <1>3 DEF CallsServed

\* An answered thread takes its outcome along.
LEMMA AnsweredServed ==
  ASSUME LendingInv, CallsServed, NEW c \in Waiters, TakeOutcome(c), asking' = asking,
         route' = [route EXCEPT ![c] = Idle]
  PROVE  CallsServed'
  <1>1. /\ pc[c] = "idle" /\ UNCHANGED <<pc, operation, state>>
        /\ outcome' = [outcome EXCEPT ![c] = "none"]
    BY DEF TakeOutcome, At, quiesceVars, recordVars
  <1>2. DOMAIN outcome' = Waiters /\ \A x \in Waiters : x # c => outcome'[x] = outcome[x]
    BY <1>1 DEF CallsServed
  <1>3. Idle.at # "called"
    BY DEF Idle
  <1> QED BY <1>1, <1>2, <1>3, PlaceServed

\* No step of lending loses track of the requests a transition runs for.
LEMMA LendingServed ==
  ASSUME ResidencyInv, LendingInv, CallsServed, [LendingNext]_lendingVars
  PROVE  CallsServed'
  <1>i. \A c \in Waiters : route[c].at # "called" => pc[c] = "idle"
    BY DEF CallsServed
  <1>0. ASSUME UNCHANGED <<callVars, state, asking, route>> PROVE CallsServed'
    BY <1>0 DEF CallsServed, callVars
  <1>p. ASSUME NEW c \in Waiters, pc[c] = "idle", NEW by, NEW verb, NEW at, at # "called",
               Serve(c, by, verb, at), UNCHANGED <<residencyVars, asking>>
        PROVE  CallsServed'
    <2>1. UNCHANGED <<pc, operation, outcome, state, asking>>
      BY <1>p DEF residencyVars, callVars, quiesceVars, recordVars
    <2>2. DOMAIN outcome' = Waiters
      BY <2>1 DEF CallsServed
    <2> QED BY <1>p, <2>1, <2>2, PlaceServed DEF Serve
  <1>a. ASSUME NEW c \in Waiters, NEW ok, Answer(c, ok), asking' = asking
        PROVE  CallsServed'
    BY <1>a, AnsweredServed DEF Answer
  <1>1. ASSUME NEW b \in Borrowers, BorrowerStep(b) PROVE CallsServed'
    BY <1>1, <1>0 DEF BorrowerStep, AcquireLease, SendPause, GiveUpWaiting, FinishWork,
                      Exit, residencyVars, quiesceVars, recordVars, holdVars, historyVars
  <1>2. ASSUME NEW c \in Waiters, NEW by, NEW verb, Arrive(c, by, verb) PROVE CallsServed'
    <2>1. CASE Serve(c, by, verb, "authorised")
      <3>1. pc[c] = "idle"
        BY <1>2, <1>i DEF Arrive, Serving
      <3> QED BY <1>2, <2>1, <3>1, <1>p DEF Arrive, historyVars
    <2>2. CASE UNCHANGED route
      BY <1>2, <2>2, <1>0 DEF Arrive, residencyVars, quiesceVars, recordVars, historyVars
    <2> QED BY <1>2, <2>1, <2>2 DEF Arrive
  <1>3. ASSUME NEW c \in Waiters, Call(c) PROVE CallsServed'
    BY <1>3, CallServed
  <1>4. ASSUME NEW c \in Waiters, RouteStep(c) PROVE CallsServed'
    <2>1. asking' = asking
      BY <1>4 DEF RouteStep, RefuseOverBound, AnswerUnbound, BindBorrower, RefuseBinding,
                  LendGpu, AcknowledgeResume, historyVars
    <2>2. CASE BindBorrower(c)
      <3>1. pc[c] = "idle"
        BY <2>2 DEF BindBorrower, PostPause, Returned, At
      <3> QED BY <2>1, <2>2, <3>1, <1>p DEF BindBorrower
    <2>3. CASE \E ok : Answer(c, ok)
      BY <2>1, <2>3, <1>a
    <2> QED BY <1>4, <2>2, <2>3 DEF RouteStep, RefuseOverBound, AnswerUnbound, RefuseBinding,
                                    LendGpu, AcknowledgeResume
  <1>5. ASSUME NEW c \in Waiters, RunTransition(c) PROVE CallsServed'
    BY <1>5, TransitionServed
  <1>6. ASSUME NEW c \in Waiters, StopWaiting(c) PROVE CallsServed'
    <2>1. /\ pc' = [pc EXCEPT ![c] = "idle"]
          /\ outcome' = [outcome EXCEPT ![c] = "wait_timed_out"]
          /\ operation' = operation /\ route' = route /\ asking' = asking /\ state' = state
      BY <1>6 DEF StopWaiting, JoinTimedOut, holdVars, historyVars, quiesceVars, recordVars
    <2>2. DOMAIN pc = Waiters /\ DOMAIN outcome = Waiters
      BY DEF ResidencyInv, CallsSound, CallsServed
    <2>3. /\ pc'[c] = "idle" /\ outcome'[c] = "wait_timed_out"
          /\ \A x \in Waiters : x # c => pc'[x] = pc[x] /\ outcome'[x] = outcome[x]
          /\ DOMAIN outcome' = Waiters
      BY <2>1, <2>2
    <2>5. \A x \in Waiters :
            route'[x].verb = "pause" /\ route'[x].at = "called" =>
              /\ outcome'[x] # "running"
              /\ outcome'[x] = "quiesced" /\ state' = "quiesced" /\ route'[x].by \in Borrowers
                   => route'[x].by \in asking'
      BY <2>1, <2>3 DEF CallsServed
    <2>6. \A x \in Waiters :
            /\ pc'[x] # "idle" => route'[x].at = "called" /\ operation' = route'[x].verb
            /\ pc'[x] \in PauseSteps => operation' = "pause"
            /\ pc'[x] \in ResumeSteps => operation' = "resume"
      BY <2>1, <2>3 DEF CallsServed, PauseSteps, ResumeSteps, OwnerSteps
    <2> QED BY <2>3, <2>5, <2>6 DEF CallsServed
  <1>7. CASE LookForLostLease
    <2>1. Recovery \in Waiters /\ pc[Recovery] = "idle"
      BY <1>7, <1>i DEF LookForLostLease, Idle
    <2> QED BY <1>7, <2>1, <1>p DEF LookForLostLease, historyVars
  <1>8. CASE Recovered
    BY <1>8, AnsweredServed DEF Recovered, historyVars
  <1>9. CASE Compute
    BY <1>9, <1>0 DEF Compute, ComputeStep, Admit, UseStack, EndCompute, AcquireTicket,
                      ReleaseTicket, quiesceVars, recordVars, holdVars, historyVars
  <1>10. CASE UNCHANGED lendingVars
    BY <1>10, <1>0 DEF lendingVars, residencyVars, quiesceVars, recordVars, holdVars,
                       historyVars
  <1> QED BY <1>1, <1>2, <1>3, <1>4, <1>5, <1>6, <1>7, <1>8, <1>9, <1>10
          DEF LendingNext, ThreadStep

\* No step of lending confuses the parties, or takes their requests out of order.
LEMMA LendingTurns ==
  ASSUME LendingInv, PartiesSound, RequestsSound,
         [LendingNext]_lendingVars
  PROVE  PartiesSound' /\ RequestsSound'
  <1>0. ASSUME UNCHANGED <<borrowerVars, bound, route>>
        PROVE  PartiesSound' /\ RequestsSound'
    <2>1. lease' = lease /\ client' = client /\ pending' = pending /\ bound' = bound
          /\ route' = route
      BY <1>0 DEF borrowerVars
    <2> QED BY <2>1 DEF PartiesSound, RequestsSound, HoldsLease, Serves
  <1>1. ASSUME NEW c \in Waiters, Call(c) PROVE PartiesSound' /\ RequestsSound'
    BY <1>1, ServingTurns DEF Call
  <1>2. ASSUME NEW c \in Waiters, RouteStep(c) PROVE PartiesSound' /\ RequestsSound'
    <2>1. c \in Routes /\ c # Recovery /\ route[c].at # "free"
      BY <1>2 DEF RouteStep, RefuseOverBound, AnswerUnbound, BindBorrower, RefuseBinding,
                  LendGpu, AcknowledgeResume, PostPause, Returned, Serving, Routes
    <2>2. CASE BindBorrower(c)
      <3>1. route[c].by \in Borrowers /\ route[c].verb = "pause"
        BY <2>1, <2>2 DEF BindBorrower, PostPause, PartiesSound
      <3> QED BY <2>1, <2>2, <3>1, ServingTurns DEF BindBorrower
    <2>3. CASE (\E ok : Answer(c, ok)) /\ bound' \in {bound, NoOne}
      BY <2>1, <2>3, AnswerTurns
    <2> QED BY <1>2, <2>2, <2>3 DEF RouteStep, RefuseOverBound, AnswerUnbound, RefuseBinding,
                                    LendGpu, AcknowledgeResume, ClearedBy
  <1>3. CASE Compute \/ UNCHANGED lendingVars
    BY <1>3, <1>0 DEF Compute, lendingVars, holdVars
  <1>4. ASSUME NEW c \in Waiters, RunTransition(c) \/ StopWaiting(c)
        PROVE  PartiesSound' /\ RequestsSound'
    BY <1>4, <1>0 DEF RunTransition, StopWaiting, holdVars
  <1> QED BY <1>1, <1>2, <1>3, <1>4, BorrowerTurns, ArrivalTurns, HeartbeatTurns
          DEF LendingNext, ThreadStep

----------------------------------------------------------------------------
(* Holds kept.                                                            *)

\* A hold, bound without a resume under way, that somebody relies on: a borrower
\* at work, or a thread that is about to lend the GPU to one that has its lease.
Relied == ~overtaken /\ ((\E b \in Borrowers : client[b] = "working") \/ \E c \in Waiters : Lent(c))

\* Whoever relies on a hold has it bound, the service quiesced and the lease.
LEMMA ReliedIsHeld ==
  ASSUME LendingInv, PartiesSound, HoldsSound, Relied
  PROVE  /\ bound \in Borrowers /\ lease = bound /\ state = "quiesced"
         /\ \A b \in Borrowers : client[b] = "working" => b = bound
         /\ \A c \in Waiters : UnderWay(c) => route[c].by = bound
         /\ \A c \in Waiters : Lent(c) => \A d \in Waiters : ~UnderWay(d)
  <1>1. /\ \A b \in Borrowers : client[b] = "working" => lease = b /\ bound = b /\ state = "quiesced"
        /\ \A c \in Waiters : Lent(c) => /\ route[c].by \in Borrowers /\ bound = route[c].by
                                         /\ lease = route[c].by /\ state = "quiesced"
    BY DEF LendingInv, LeaseSound, HoldsLease, HoldsSound, Relied, Lent
  <1>2. bound \in Borrowers /\ lease = bound /\ state = "quiesced"
    BY <1>1 DEF Relied
  <1>3. bound # NoOne
    BY <1>2, BorrowersAssumption
  <1> QED BY <1>1, <1>2, <1>3 DEF HoldsSound, Relied

\* A step that starts no work, no resume and no lending, and takes nothing from
\* those who rely on the hold, keeps it.
LEMMA AsideHolds ==
  ASSUME HoldsSound, overtaken' = overtaken,
         \A c \in Waiters : UnderWay(c)' => UnderWay(c) /\ route'[c].by = route[c].by,
         \A c \in Waiters : route'[c].at = "lending" => route'[c] = route[c],
         bound' \in {bound, NoOne}, lease' \in {lease, NoOne},
         \A b \in Borrowers : client'[b] = "working" => client[b] = "working",
         Relied => UNCHANGED <<bound, loan>> /\ (state = "quiesced" => state' = "quiesced")
  PROVE  HoldsSound'
  <1>1. \A c \in Waiters :
          route'[c].at = "lending" => route'[c].by \in Borrowers /\ route'[c].verb = "pause"
    BY DEF HoldsSound
  <1>2. \A c \in Waiters : Lent(c)' => Lent(c) /\ route'[c] = route[c]
    BY <1>1, BorrowersAssumption DEF Lent
  <1>3. ASSUME ~overtaken, bound' # NoOne, lease' = bound'
        PROVE  \A c \in Waiters : UnderWay(c)' => route'[c].by = bound'
    BY <1>3 DEF HoldsSound
  <1>4. ASSUME ~overtaken, NEW c \in Waiters, Lent(c)'
        PROVE  /\ \A d \in Waiters : ~UnderWay(d)'
               /\ bound' = route'[c].by /\ state' = "quiesced"
    <2>1. Lent(c) /\ route'[c] = route[c] /\ Relied
      BY <1>2, <1>4 DEF Relied
    <2> QED BY <1>4, <2>1 DEF HoldsSound
  <1>5. ASSUME ~overtaken, NEW b \in Borrowers, client'[b] = "working"
        PROVE  loan' = b /\ bound' = b /\ state' = "quiesced"
    <2>1. client[b] = "working" /\ Relied
      BY <1>5 DEF Relied
    <2> QED BY <1>5, <2>1 DEF HoldsSound
  <1>6. overtaken' \in BOOLEAN
    BY DEF HoldsSound
  <1> QED BY <1>1, <1>3, <1>4, <1>5, <1>6 DEF HoldsSound

\* A borrower's own steps are aside, but for taking the lease, which no hold of
\* its own can precede.
LEMMA BorrowerHolds ==
  ASSUME LendingInv, PartiesSound, RequestsSound, HoldsSound,
         NEW b \in Borrowers, BorrowerStep(b)
  PROVE  HoldsSound'
  <1>s. /\ UNCHANGED <<route, bound, loan, overtaken, pc, state>>
        /\ \A c \in Waiters : UnderWay(c)' = UnderWay(c)
    BY DEF BorrowerStep, AcquireLease, SendPause, GiveUpWaiting, FinishWork, Exit, holdVars,
           historyVars, residencyVars, callVars, quiesceVars, recordVars, UnderWay, At
  <1>w. \A d \in Borrowers : client'[d] = "working" => client[d] = "working"
    BY DEF BorrowerStep, AcquireLease, SendPause, GiveUpWaiting, FinishWork, Exit,
           SendResume, Becomes, PartiesSound
  <1>1. CASE AcquireLease(b)
    <2>1. client[b] = "new" /\ lease = NoOne /\ lease' = b
      BY <1>1 DEF AcquireLease
    <2>2. bound # b /\ \A c \in Waiters : ~Serves(c, b, "pause")
      BY <2>1 DEF RequestsSound, Before
    <2>3. \A c \in Waiters : ~Lent(c)'
      BY <1>s, <2>1, <2>2 DEF HoldsSound, Lent, Serves
    <2>4. \A d \in Borrowers : client[d] # "working"
      BY <2>1, BorrowersAssumption DEF LendingInv, LeaseSound, HoldsLease
    <2> QED BY <1>s, <1>w, <2>1, <2>2, <2>3, <2>4 DEF HoldsSound
  <1>2. CASE ~AcquireLease(b)
    <2>1. lease' \in {lease, NoOne}
      BY <1>2 DEF BorrowerStep, SendPause, GiveUpWaiting, FinishWork, Exit
    <2> QED BY <1>s, <1>w, <2>1, AsideHolds
  <1> QED BY <1>1, <1>2

\* A resume is let through only of the party bound, and not while the GPU is lent.
LEMMA ArrivalHolds ==
  ASSUME LendingInv, PartiesSound, HoldsSound,
         NEW c \in Waiters, NEW by \in Borrowers \cup {Operator}, NEW verb \in Directions,
         Arrive(c, by, verb)
  PROVE  HoldsSound'
  <1>s. /\ UNCHANGED <<bound, loan, overtaken, pc, state>> /\ route[c].at = "free"
        /\ LoopFree /\ DOMAIN route = Waiters
    BY DEF Arrive, Serving, historyVars, residencyVars, callVars, quiesceVars, recordVars,
           LendingInv, RouteSound
  <1>1. CASE Authorised(by, verb) /\ Serve(c, by, verb, "authorised") /\ UNCHANGED <<lease, client>>
    <2>1. /\ route'[c] = [by |-> by, verb |-> verb, at |-> "authorised"]
          /\ \A d \in Waiters : d # c => route'[d] = route[d]
      BY <1>s, <1>1 DEF Serve
    <2>2. \A d \in Waiters : route'[d].at # "lending"
      BY <1>s, <2>1 DEF LoopFree
    <2>3. \A d \in Waiters : d # c => UnderWay(d)' = UnderWay(d)
      BY <1>s, <2>1 DEF UnderWay, At
    <2>4. UnderWay(c)' => verb = "resume"
      BY <2>1 DEF UnderWay
    <2>5. verb = "resume" /\ bound # NoOne => by = bound
      BY <1>1 DEF Authorised
    <2>6. ~overtaken /\ bound # NoOne /\ lease = bound
            => \A d \in Waiters : UnderWay(d)' => route'[d].by = bound
      BY <2>1, <2>3, <2>4, <2>5 DEF HoldsSound
    <2> QED BY <1>s, <1>1, <2>2, <2>6 DEF HoldsSound, Lent
  <1>2. CASE /\ Delivered(by, verb, FALSE, pending \ {Ask(by, verb)})
             /\ UNCHANGED route
    <2>1. PICK ok, sent : ok = FALSE /\ Delivered(by, verb, ok, sent)
      BY <1>2
    <2>2. \A d \in Borrowers : client'[d] = "working" => client[d] = "working"
      BY <2>1, DeliveryMoves
    <2>3. lease' \in {lease, NoOne}
      BY <1>2 DEF Delivered
    <2>4. \A d \in Waiters : UnderWay(d)' => UnderWay(d) /\ route'[d].by = route[d].by
      BY <1>s, <1>2 DEF UnderWay, At
    <2> QED BY <1>s, <1>2, <2>2, <2>3, <2>4, AsideHolds
  <1> QED BY <1>1, <1>2 DEF Arrive

\* A thread that answers, with no pause granted, is aside.
LEMMA AnswerHolds ==
  ASSUME LendingInv, PartiesSound, HoldsSound,
         NEW c \in Waiters, NEW ok, Answer(c, ok),
         ~ok \/ route[c].verb # "pause" \/ route[c].by \notin Borrowers,
         overtaken' = overtaken, bound' \in {bound, NoOne},
         Relied => UNCHANGED <<bound, loan>>
  PROVE  HoldsSound'
  <1>1. /\ route' = [route EXCEPT ![c] = Idle] /\ UNCHANGED <<pc, state>>
        /\ Delivered(route[c].by, route[c].verb, ok, pending)
    BY DEF Answer, TakeOutcome, quiesceVars, recordVars
  <1>2. route'[c] = Idle /\ \A d \in Waiters : d # c => route'[d] = route[d]
    BY <1>1 DEF LendingInv, RouteSound
  <1>3. Idle.at = "free" /\ Idle.verb = "none"
    BY DEF Idle
  <1>4. \A d \in Waiters : UnderWay(d)' => UnderWay(d) /\ route'[d].by = route[d].by
    BY <1>1, <1>2, <1>3 DEF UnderWay, At
  <1>5. \A d \in Waiters : route'[d].at = "lending" => route'[d] = route[d]
    BY <1>2, <1>3
  <1>6. \A d \in Borrowers : client'[d] = "working" => client[d] = "working"
    BY <1>1, DeliveryMoves
  <1>7. lease' \in {lease, NoOne}
    BY <1>1 DEF Delivered
  <1> QED BY <1>1, <1>4, <1>5, <1>6, <1>7, AsideHolds

\* A binding is overtaken or finds no resume under way; only the thread that bound
\* a hold lends the GPU, and the hold of a borrower at work is cleared by nobody.
LEMMA RouteHolds ==
  ASSUME ResidencyInv, LendingInv, PartiesSound, RequestsSound, CallsServed, HoldsSound,
         NEW c \in Waiters, RouteStep(c)
  PROVE  HoldsSound'
  <1>d. DOMAIN route = Waiters
    BY DEF LendingInv, RouteSound
  <1>1. CASE RefuseOverBound(c) \/ RefuseBinding(c)
    <2>1. PICK ok : ok = FALSE /\ Answer(c, ok)
      BY <1>1 DEF RefuseOverBound, RefuseBinding
    <2> QED BY <1>1, <2>1, AnswerHolds DEF RefuseOverBound, RefuseBinding, historyVars
  <1>2. CASE AnswerUnbound(c)
    <2>1. PICK ok : ok = (outcome[c] \in Achieved) /\ Answer(c, ok)
      BY <1>2 DEF AnswerUnbound
    <2>2. ~ok \/ route[c].by \notin Borrowers
      BY <1>2, <2>1, BorrowersAssumption DEF AnswerUnbound
    <2> QED BY <1>2, <2>1, <2>2, AnswerHolds DEF AnswerUnbound, historyVars
  <1>3. CASE BindBorrower(c)
    <2>1. /\ route[c].by # Operator /\ route[c].verb = "pause" /\ route[c].at = "called"
          /\ LoopFree /\ lease = route[c].by /\ state = "quiesced"
          /\ bound' = route[c].by /\ overtaken' = ResumeUnderWay
          /\ Serve(c, route[c].by, route[c].verb, "lending")
          /\ UNCHANGED <<client, lease, loan, pc, state>>
      BY <1>3 DEF BindBorrower, PostPause, Returned, Serving, MayBind, Authorised,
                  LeaseVerified, SafeToBorrowGpu, residencyVars, callVars, quiesceVars,
                  recordVars, borrowerVars
    <2>2. /\ route'[c] = [by |-> route[c].by, verb |-> route[c].verb, at |-> "lending"]
          /\ \A d \in Waiters : d # c => route'[d] = route[d]
      BY <2>1, <1>d DEF Serve
    <2>3. route[c].by \in Borrowers
      BY <2>1 DEF PartiesSound
    <2>4. \A b \in Borrowers : client[b] # "working"
      <3>1. client[route[c].by] # "working"
        BY <2>1, <2>3 DEF RequestsSound, Serves
      <3> QED BY <2>1, <3>1 DEF LendingInv, LeaseSound, HoldsLease
    <2>5. \A d \in Waiters : UnderWay(d)' => UnderWay(d)
      BY <2>1, <2>2 DEF UnderWay, At
    <2>6. overtaken' = \E d \in Waiters : UnderWay(d)
      BY <2>1 DEF ResumeUnderWay, UnderWay
    <2>7. \A d \in Waiters : d # c => route'[d].at # "lending"
      BY <2>1, <2>2 DEF LoopFree
    <2>8. ~overtaken' => \A d \in Waiters : ~UnderWay(d)'
      BY <2>5, <2>6
    <2>9. \A d \in Waiters :
            route'[d].at = "lending" => route'[d].by \in Borrowers /\ route'[d].verb = "pause"
      BY <2>1, <2>2, <2>3, <2>7
    <2> QED BY <2>1, <2>2, <2>4, <2>6, <2>7, <2>8, <2>9 DEF HoldsSound, Lent
  <1>4. CASE LendGpu(c)
    <2>1. /\ route[c].by \in Borrowers /\ route[c].verb = "pause" /\ route[c].at = "lending"
          /\ bound' = bound /\ overtaken' = overtaken
      BY <1>4 DEF LendGpu, Serving, HoldsSound, historyVars
    <2>2. CASE LeaseVerified(route[c].by) /\ loan' = route[c].by /\ Answer(c, TRUE)
      <3>1. PICK ok : ok = TRUE /\ Answer(c, ok)
        BY <2>2
      <3>2. /\ route' = [route EXCEPT ![c] = Idle] /\ UNCHANGED <<pc, state>>
            /\ Delivered(route[c].by, route[c].verb, ok, pending)
        BY <3>1 DEF Answer, TakeOutcome, quiesceVars, recordVars
      <3>3. route'[c] = Idle /\ \A d \in Waiters : d # c => route'[d] = route[d]
        BY <3>2, <1>d
      <3>4. Idle.at = "free" /\ Idle.verb = "none"
        BY DEF Idle
      <3>5. \A d \in Waiters : UnderWay(d)' => UnderWay(d) /\ route'[d].by = route[d].by
        BY <3>2, <3>3, <3>4 DEF UnderWay, At
      <3>6. Lent(c) /\ lease = route[c].by
        BY <2>1, <2>2 DEF Lent, LeaseVerified
      <3>7. \A d \in Borrowers : client'[d] = "working" => d = route[c].by
        <4>1. \A d \in Borrowers : client[d] = "working" => d = route[c].by
          BY <3>6 DEF LendingInv, LeaseSound, HoldsLease
        <4> QED BY <3>2, <4>1, DeliveryMoves
      <3>8. lease' = lease
        BY <2>1, <3>2 DEF Delivered
      <3>9. ~overtaken => bound = route[c].by /\ state = "quiesced" /\ \A d \in Waiters : ~UnderWay(d)
        BY <3>6 DEF HoldsSound
      <3>10. \A d \in Waiters :
               route'[d].at = "lending" => route'[d].by \in Borrowers /\ route'[d].verb = "pause"
        BY <3>3, <3>4 DEF HoldsSound
      <3>11. \A d \in Waiters : Lent(d)' => Lent(d) /\ route'[d].by = route[d].by
        BY <3>3, <3>4, <3>8 DEF Lent
      <3>12. ~overtaken => \A d \in Waiters : Lent(d)' => bound' = route'[d].by
        BY <2>1, <3>11 DEF HoldsSound
      <3> QED BY <2>1, <2>2, <3>2, <3>5, <3>7, <3>9, <3>10, <3>12 DEF HoldsSound
    <2>3. CASE Answer(c, FALSE) /\ UNCHANGED loan
      <3>1. PICK ok : ok = FALSE /\ Answer(c, ok)
        BY <2>3
      <3> QED BY <2>1, <2>3, <3>1, AnswerHolds
    <2> QED BY <1>4, <2>2, <2>3 DEF LendGpu
  <1>5. CASE AcknowledgeResume(c)
    <2>1. /\ route[c].by # Operator /\ route[c].verb = "resume" /\ route[c].at = "called"
          /\ LoopFree /\ loan' = loan /\ overtaken' = overtaken
          /\ bound' = ClearedBy(route[c].by)
      BY <1>5 DEF AcknowledgeResume, Returned, Serving, historyVars
    <2>2. Serves(c, route[c].by, "resume") /\ route[c].by \in Borrowers
      BY <2>1 DEF Serves, PartiesSound
    <2>3. client[route[c].by] # "working"
      BY <2>2 DEF RequestsSound, Left
    <2>4. Relied => bound # route[c].by
      <3>1. Relied => \E b \in Borrowers : client[b] = "working"
        BY <2>1 DEF Relied, Lent, LoopFree
      <3> QED BY <2>3, <3>1, ReliedIsHeld
    <2>5. PICK ok : Answer(c, ok)
      BY <1>5 DEF AcknowledgeResume
    <2> QED BY <2>1, <2>4, <2>5, AnswerHolds DEF ClearedBy
  <1> QED BY <1>1, <1>2, <1>3, <1>4, <1>5 DEF RouteStep

\* The heartbeat resumes when nobody has the lease, and unbinds only a borrower
\* that is gone.
LEMMA HeartbeatHolds ==
  ASSUME LendingInv, PartiesSound, RequestsSound, HoldsSound, LookForLostLease \/ Recovered
  PROVE  HoldsSound'
  <1>s. /\ UNCHANGED <<client, lease, loan, overtaken, pc, state>>
        /\ Recovery \in Waiters /\ DOMAIN route = Waiters
    BY DEF LookForLostLease, Recovered, TakeOutcome, residencyVars, quiesceVars, recordVars,
           callVars, borrowerVars, historyVars, LendingInv, RouteSound
  <1>1. CASE LookForLostLease
    <2>1. /\ bound # NoOne /\ lease = NoOne /\ bound' = bound
          /\ route' = [route EXCEPT ![Recovery] =
                          [by |-> bound, verb |-> "resume", at |-> "authorised"]]
      BY <1>1 DEF LookForLostLease, Serve
    <2>2. /\ route'[Recovery].at = "authorised"
          /\ \A d \in Waiters : d # Recovery => route'[d] = route[d]
      BY <1>s, <2>1
    <2>3. \A b \in Borrowers : client[b] # "working"
      BY <2>1, BorrowersAssumption DEF LendingInv, LeaseSound, HoldsLease
    <2>4. \A d \in Waiters :
            route'[d].at = "lending" => route'[d].by \in Borrowers /\ route'[d].verb = "pause"
      BY <2>2 DEF HoldsSound
    <2>5. \A d \in Waiters : ~Lent(d)'
      BY <1>s, <2>1, <2>4, BorrowersAssumption DEF Lent
    <2> QED BY <1>s, <2>1, <2>3, <2>4, <2>5 DEF HoldsSound
  <1>2. CASE Recovered
    <2>1. /\ route' = [route EXCEPT ![Recovery] = Idle] /\ route[Recovery].at = "called"
          /\ bound' \in {bound, ClearedBy(route[Recovery].by)}
      BY <1>2 DEF Recovered
    <2>2. route'[Recovery] = Idle /\ \A d \in Waiters : d # Recovery => route'[d] = route[d]
      BY <1>s, <2>1
    <2>3. Idle.at = "free" /\ Idle.verb = "none"
      BY DEF Idle
    <2>4. \A d \in Waiters : UnderWay(d)' => UnderWay(d) /\ route'[d].by = route[d].by
      BY <1>s, <2>2, <2>3 DEF UnderWay, At
    <2>5. \A d \in Waiters : route'[d].at = "lending" => route'[d] = route[d]
      BY <2>2, <2>3
    <2>6. client[route[Recovery].by] = "gone"
      BY <1>s, <2>1 DEF RequestsSound
    <2>7. Relied => bound # route[Recovery].by
      BY <2>6, ReliedIsHeld DEF PartiesSound, HoldsLease
    <2>8. bound' \in {bound, NoOne} /\ (Relied => bound' = bound)
      BY <2>1, <2>7 DEF ClearedBy
    <2> QED BY <1>s, <2>4, <2>5, <2>8, AsideHolds
  <1> QED BY <1>1, <1>2

\* A transition warms the service up, or ends the loan, under nobody who relies on
\* the hold: the resume it runs is not one that may be under way.
LEMMA TransitionHolds ==
  ASSUME ResidencyInv, LendingInv, PartiesSound, RequestsSound, CallsServed, HoldsSound,
         NEW c \in Waiters, RunTransition(c)
  PROVE  HoldsSound'
  <1>s. /\ UNCHANGED <<client, lease, bound, route, overtaken>> /\ OwnerStep(c)
        /\ loan' \in LoansAfter(c)
    BY DEF RunTransition, borrowerVars
  <1>o. pc[c] \in OwnerSteps /\ (GoesOn(c) \/ Ends(c))
    BY <1>s, OwnerMoves
  <1>1. \A x \in Waiters : pc'[x] # "idle" => pc[x] # "idle"
    <2>1. DOMAIN pc = Waiters /\ pc[c] # "idle"
      BY <1>o DEF ResidencyInv, CallsSound, OwnerSteps
    <2> QED BY <1>o, <2>1 DEF GoesOn, Ends, Goto, Finish
  <1>2. \A x \in Waiters : UnderWay(x)' => UnderWay(x) /\ route'[x].by = route[x].by
    BY <1>s, <1>1 DEF UnderWay, At
  <1>3. ASSUME Relied
        PROVE  loan' = loan /\ state' = "quiesced"
    <2>1. /\ bound \in Borrowers /\ lease = bound /\ state = "quiesced"
          /\ \A b \in Borrowers : client[b] = "working" => b = bound
          /\ \A x \in Waiters : UnderWay(x) => route[x].by = bound
          /\ \A x \in Waiters : Lent(x) => \A d \in Waiters : ~UnderWay(d)
      BY <1>3, ReliedIsHeld
    <2>2. ~At(c, "begin_warming")
      <3> SUFFICES ASSUME At(c, "begin_warming") PROVE FALSE
        OBVIOUS
      <3>1. route[c].verb = "resume" /\ route[c].at = "called" /\ ~At(c, "idle")
        BY DEF At, CallsServed, ResumeSteps, PauseSteps, OwnerSteps
      <3>2. UnderWay(c)
        BY <3>1 DEF UnderWay
      <3>3. Serves(c, bound, "resume")
        BY <2>1, <3>1, <3>2 DEF Serves
      <3>4. client[bound] \in Left
        BY <2>1, <3>3 DEF RequestsSound
      <3> QED BY <1>3, <2>1, <3>2, <3>4 DEF Relied, Left
    <2>3. state' = "quiesced"
      BY <1>s, <2>1, <2>2, OwnerAndQuiescence
    <2>4. ~At(c, "reclaim")
      BY <2>1 DEF ResidencyInv, OwnersKnow, KnownAt, At
    <2> QED BY <1>s, <2>3, <2>4 DEF LoansAfter
  <1> QED BY <1>s, <1>2, <1>3, AsideHolds

\* No step of lending takes a hold from those who rely on it.
LEMMA LendingHolds ==
  ASSUME ResidencyInv, LendingInv, PartiesSound, RequestsSound, CallsServed, HoldsSound,
         [LendingNext]_lendingVars
  PROVE  HoldsSound'
  <1>1. ASSUME NEW c \in Waiters, Call(c) PROVE HoldsSound'
    <2>1. /\ UNCHANGED <<client, lease, bound, loan, overtaken, state>>
          /\ route[c].at = "authorised"
          /\ route' = [route EXCEPT ![c] = [by |-> route[c].by, verb |-> route[c].verb, at |-> "called"]]
      BY <1>1 DEF Call, Request, Serve, quiesceVars, recordVars, borrowerVars, historyVars
    <2>2. /\ route'[c] = [by |-> route[c].by, verb |-> route[c].verb, at |-> "called"]
          /\ \A d \in Waiters : d # c => route'[d] = route[d]
      BY <2>1 DEF LendingInv, RouteSound
    <2>3. \A d \in Waiters : d # c => pc'[d] = pc[d]
      BY <1>1 DEF Call, Request, ResidencyInv, CallsSound
    <2>4. \A d \in Waiters : UnderWay(d)' => UnderWay(d) /\ route'[d].by = route[d].by
      BY <2>1, <2>2, <2>3 DEF UnderWay, At
    <2>5. \A d \in Waiters : route'[d].at = "lending" => route'[d] = route[d]
      BY <2>2
    <2> QED BY <2>1, <2>4, <2>5, AsideHolds
  <1>2. ASSUME NEW c \in Waiters, StopWaiting(c) PROVE HoldsSound'
    <2>1. /\ UNCHANGED <<client, lease, bound, loan, overtaken, state, route>>
          /\ pc[c] = "joined" /\ pc' = [pc EXCEPT ![c] = "idle"]
      BY <1>2 DEF StopWaiting, JoinTimedOut, At, quiesceVars, recordVars, borrowerVars,
                  holdVars, historyVars
    <2>2. \A d \in Waiters : UnderWay(d)' => UnderWay(d)
      BY <2>1 DEF UnderWay, At, ResidencyInv, CallsSound
    <2> QED BY <2>1, <2>2, AsideHolds
  <1>3. CASE Compute \/ UNCHANGED lendingVars
    <2>1. UNCHANGED <<client, lease, bound, loan, overtaken, state, route, pc>>
      BY <1>3 DEF Compute, ComputeStep, Admit, UseStack, EndCompute, AcquireTicket,
                  ReleaseTicket, quiesceVars, recordVars, callVars, borrowerVars, holdVars,
                  historyVars, lendingVars, residencyVars
    <2>2. \A d \in Waiters : UnderWay(d)' = UnderWay(d)
      BY <2>1 DEF UnderWay, At
    <2> QED BY <2>1, <2>2, AsideHolds
  <1> QED BY <1>1, <1>2, <1>3, BorrowerHolds, ArrivalHolds, RouteHolds, HeartbeatHolds,
             TransitionHolds DEF LendingNext, ThreadStep

----------------------------------------------------------------------------

\* Nobody has asked for the GPU yet.
LEMMA TurnsInitEstablishes == LendingInit => TurnsInv
  <1> SUFFICES ASSUME LendingInit PROVE TurnsInv
    OBVIOUS
  <1>1. ResidencyInv /\ LendingInv
    BY ResidencyInitEstablishes, LendingInitEstablishes DEF LendingInit
  <1>2. Idle.at = "free" /\ Idle.verb = "none"
    BY DEF Idle
  <1>3. PartiesSound
    BY <1>2, BorrowersAssumption DEF LendingInit, PartiesSound, Before, HoldsLease
  <1>4. RequestsSound
    BY <1>2, BorrowersAssumption DEF LendingInit, RequestsSound, Serves
  <1>5. CallsServed
    BY <1>2 DEF LendingInit, ResidencyInit, CallsServed, PauseSteps, ResumeSteps, OwnerSteps
  <1>6. HoldsSound
    BY <1>2 DEF LendingInit, HoldsSound, Lent
  <1> QED BY <1>1, <1>3, <1>4, <1>5, <1>6 DEF TurnsInv

\* Every step of lending keeps the turns.
LEMMA TurnsNextPreserves == TurnsInv /\ [LendingNext]_lendingVars => TurnsInv'
  <1> SUFFICES ASSUME TurnsInv, [LendingNext]_lendingVars PROVE TurnsInv'
    OBVIOUS
  <1>1. LendingInv'
    BY LendingNextPreserves DEF TurnsInv
  <1>2. ResidencyInv'
    BY LendingStepImplements, ResidencyNextPreserves DEF TurnsInv
  <1> QED BY <1>1, <1>2, LendingTurns, LendingServed, LendingHolds DEF TurnsInv

\* With any borrowers and serving threads, the inductive invariant always holds.
THEOREM TurnsInvariant == LendingSpec => []TurnsInv
  BY TurnsInitEstablishes, TurnsNextPreserves, PTL DEF LendingSpec


----------------------------------------------------------------------------
(* The device.                                                            *)

\* Each borrower at work has the lease, so one works.
LEMMA WorkersAgree ==
  ASSUME LendingInv
  PROVE  /\ \A b \in Borrowers : client[b] = "working" => lease = b
         /\ Operator \notin Borrowers
  BY BorrowersAssumption DEF LendingInv, LeaseSound, HoldsLease

\* A step that starts no work and leaves the models and the loan alone lets the
\* borrower at work leave, or is nothing to the device.
LEMMA AsideOfDevice ==
  ASSUME LendingInv, UNCHANGED <<vram, loan, overtaken>>,
         \A b \in Borrowers : client'[b] = "working" => client[b] = "working"
  PROVE  [Device!Next]_(Device!deviceVars)
  <1> USE DEF Device!Next, Device!Leave, Device!deviceVars
  <1>1. CASE \A b \in Borrowers : client[b] = "working" => client'[b] = "working"
    <2>1. Users' = Users
      BY <1>1 DEF Users
    <2> QED BY <2>1
  <1>2. CASE \E b \in Borrowers : client[b] = "working" /\ client'[b] # "working"
    <2>1. PICK b \in Borrowers : client[b] = "working" /\ client'[b] # "working"
      BY <1>2
    <2>2. \A d \in Borrowers : client[d] = "working" => d = b
      BY <2>1, WorkersAgree
    <2>3. Users' = Users \ {b}
      BY <2>1, <2>2, WorkersAgree DEF Users
    <2> QED BY <2>1, <2>3
  <1> QED BY <1>1, <1>2

\* A transition or compute, with the borrowers where they were, unloads the models,
\* or, on a device that no borrower uses, loads them or takes it back.
LEMMA ServiceOnDevice ==
  ASSUME UNCHANGED <<client, overtaken>>,
         loan' = loan \/ (loan' = NoOne /\ vram' = vram),
         loan' # loan \/ (vram' = "resident" /\ vram # "resident")
             => overtaken \/ \A b \in Borrowers : client[b] # "working"
  PROVE  [Device!Next]_(Device!deviceVars)
  <1> USE DEF Device!Next, Device!Leave, Device!Load, Device!Reclaim, Device!Free,
              Device!deviceVars
  <1>1. CASE loan' # loan
    <2>1. Users' = Users
      BY <1>1 DEF Users
    <2>2. Users \subseteq {Operator} \/ overtaken
      BY <1>1 DEF Users
    <2> QED BY <1>1, <2>1, <2>2
  <1>2. CASE loan' = loan /\ (vram' = "resident" <=> vram = "resident")
    <2>1. Users' = Users
      BY <1>2 DEF Users
    <2> QED BY <1>2, <2>1
  <1>3. CASE loan' = loan /\ vram' = "resident" /\ vram # "resident"
    <2>1. Users' = Users \cup {Operator}
      BY <1>3 DEF Users
    <2>2. Users = {} \/ overtaken
      BY <1>3 DEF Users
    <2> QED BY <1>3, <2>1, <2>2
  <1>4. CASE loan' = loan /\ vram' # "resident" /\ vram = "resident"
    <2>1. Operator \notin Borrowers
      BY BorrowersAssumption
    <2>2. Users' = Users \ {Operator}
      BY <1>4, <2>1 DEF Users
    <2> QED BY <1>4, <2>2
  <1> QED BY <1>1, <1>2, <1>3, <1>4

\* A hold is bound on a device nobody has.
LEMMA BindingPromises ==
  ASSUME TurnsInv, TurnsInv', NEW c \in Waiters, BindBorrower(c)
  PROVE  Device!Next
  <1>1. /\ Serves(c, route[c].by, "pause") /\ route[c].by \in Borrowers
        /\ lease = route[c].by /\ state = "quiesced"
        /\ UNCHANGED <<client, vram, loan>>
    BY DEF BindBorrower, PostPause, Returned, Serving, MayBind, Authorised, LeaseVerified,
           SafeToBorrowGpu, Serves, TurnsInv, PartiesSound, residencyVars, stackVars,
           borrowerVars
  <1>2. client[route[c].by] # "working"
    BY <1>1 DEF TurnsInv, RequestsSound
  <1>3. \A b \in Borrowers : client[b] # "working"
    BY <1>1, <1>2, WorkersAgree DEF TurnsInv
  <1>4. vram # "resident"
    BY <1>1 DEF TurnsInv, ResidencyInv, StackSound
  <1>5. Users = {} /\ Users' = Users
    BY <1>1, <1>3, <1>4 DEF Users
  <1>6. overtaken' \in BOOLEAN
    BY DEF TurnsInv, HoldsSound
  <1> QED BY <1>1, <1>5, <1>6 DEF Device!Next, Device!Promise

\* A loan recorded for the verified holder grants it a device nobody has, unless
\* the hold was overtaken when it was bound.
LEMMA LendingGrants ==
  ASSUME TurnsInv, NEW c \in Waiters, Serving(c, "lending"), LeaseVerified(route[c].by),
         loan' = route[c].by, Answer(c, TRUE), UNCHANGED historyVars
  PROVE  Device!Next
  <1> DEFINE b == route[c].by
  <1>1. /\ b \in Borrowers /\ lease = b /\ Lent(c) /\ Serves(c, b, "pause")
        /\ vram' = vram /\ overtaken' = overtaken
    BY DEF TurnsInv, HoldsSound, Serving, LeaseVerified, Lent, Serves, Answer, TakeOutcome,
           stackVars, historyVars
  <1>2. client[b] # "working"
    BY <1>1 DEF TurnsInv, RequestsSound
  <1>3. \A d \in Borrowers : client[d] # "working"
    BY <1>1, <1>2, WorkersAgree DEF TurnsInv
  <1>4. ~overtaken => vram # "resident"
    BY <1>1 DEF TurnsInv, HoldsSound, ResidencyInv, StackSound
  <1>5. Users = {} \/ overtaken
    BY <1>3, <1>4 DEF Users
  <1>6. PICK ok : ok = TRUE /\ Answer(c, ok)
    OBVIOUS
  <1>7. Delivered(b, route[c].verb, ok, pending)
    BY <1>6 DEF Answer
  <1>8. \A d \in Borrowers : client'[d] = "working" => d = b
    BY <1>3, <1>7, DeliveryMoves DEF TurnsInv
  <1>9. Users' \in {Users, Users \cup {b}}
    <2>1. CASE client'[b] = "working"
      BY <1>1, <1>3, <1>8, <2>1 DEF Users
    <2>2. CASE client'[b] # "working"
      BY <1>1, <1>3, <1>8, <2>2 DEF Users
    <2> QED BY <2>1, <2>2
  <1> QED BY <1>1, <1>5, <1>9 DEF Device!Next, Device!Grant, Device!Free

\* A transition loads no model, and takes no device back, under a borrower at work
\* whose hold was not overtaken.
LEMMA TransitionOnDevice ==
  ASSUME TurnsInv, NEW c \in Waiters, RunTransition(c)
  PROVE  [Device!Next]_(Device!deviceVars)
  <1>1. /\ UNCHANGED <<client, overtaken>> /\ loan' \in LoansAfter(c) /\ OwnerStep(c)
    BY DEF RunTransition, borrowerVars
  <1>2. /\ vram' = "resident" => vram = "resident" \/ At(c, "reload")
        /\ At(c, "reclaim") => vram' = vram
    BY <1>1, OwnerAndQuiescence DEF TurnsInv
  <1>3. loan' = loan \/ (At(c, "reclaim") /\ loan' = NoOne)
    BY <1>1 DEF LoansAfter
  <1>4. At(c, "reclaim") \/ At(c, "reload") => state # "quiesced"
    BY DEF TurnsInv, ResidencyInv, OwnersKnow, KnownAt, At
  <1>5. ~overtaken /\ state # "quiesced" => \A b \in Borrowers : client[b] # "working"
    BY DEF TurnsInv, HoldsSound
  <1> QED BY <1>1, <1>2, <1>3, <1>4, <1>5, ServiceOnDevice

\* Compute loads a model only under a ticket, of which there is none while a
\* borrower whose hold was not overtaken is at work.
LEMMA ComputeOnDevice ==
  ASSUME TurnsInv, Compute
  PROVE  [Device!Next]_(Device!deviceVars)
  <1>1. UNCHANGED <<client, overtaken, loan>> /\ ComputeStep
    BY DEF Compute, borrowerVars, holdVars, historyVars
  <1>2. vram' = vram \/ activeTickets # {}
    BY <1>1 DEF ComputeStep, Admit, UseStack, EndCompute, stackVars
  <1>3. activeTickets # {} => state # "quiesced"
    BY DEF TurnsInv, ResidencyInv, ControllerInv, ReleasedMeansNoCompute
  <1>4. ~overtaken /\ state # "quiesced" => \A b \in Borrowers : client[b] # "working"
    BY DEF TurnsInv, HoldsSound
  <1> QED BY <1>1, <1>2, <1>3, <1>4, ServiceOnDevice

\* Every step of lending is one of the device's, or nothing to it.
LEMMA LendingStepTakesTurns ==
  ASSUME TurnsInv, [LendingNext]_lendingVars
  PROVE  [Device!Next]_(Device!deviceVars)
  <1>i. TurnsInv' /\ PartiesSound /\ LendingInv
    BY TurnsNextPreserves DEF TurnsInv
  <1>a. ASSUME NEW c \in Waiters, NEW ok, Answer(c, ok), UNCHANGED <<loan, overtaken>>,
               ~ok \/ route[c].verb # "pause" \/ route[c].by \notin Borrowers
        PROVE  [Device!Next]_(Device!deviceVars)
    <2>1. Delivered(route[c].by, route[c].verb, ok, pending) /\ vram' = vram
      BY <1>a DEF Answer, TakeOutcome, stackVars
    <2>2. \A b \in Borrowers : client'[b] = "working" => client[b] = "working"
      BY <1>a, <1>i, <2>1, DeliveryMoves
    <2> QED BY <1>a, <1>i, <2>1, <2>2, AsideOfDevice
  <1>1. ASSUME NEW b \in Borrowers, BorrowerStep(b)
        PROVE  [Device!Next]_(Device!deviceVars)
    <2>1. UNCHANGED <<vram, loan, overtaken>>
      BY <1>1 DEF BorrowerStep, AcquireLease, SendPause, GiveUpWaiting, FinishWork, Exit,
                  residencyVars, stackVars, holdVars, historyVars
    <2>2. \A d \in Borrowers : client'[d] = "working" => client[d] = "working"
      BY <1>1, <1>i DEF BorrowerStep, AcquireLease, SendPause, GiveUpWaiting, FinishWork,
                        Exit, SendResume, Becomes, PartiesSound
    <2> QED BY <1>i, <2>1, <2>2, AsideOfDevice
  <1>2. ASSUME NEW c \in Waiters, NEW by, NEW verb, Arrive(c, by, verb)
        PROVE  [Device!Next]_(Device!deviceVars)
    <2>1. UNCHANGED <<vram, loan, overtaken>>
      BY <1>2 DEF Arrive, residencyVars, stackVars, historyVars
    <2>2. PICK ok : ok = FALSE /\ (client' = client \/ \E sent : Delivered(by, verb, ok, sent))
      BY <1>2 DEF Arrive
    <2>3. \A b \in Borrowers : client'[b] = "working" => client[b] = "working"
      BY <1>i, <2>2, DeliveryMoves
    <2> QED BY <1>i, <2>1, <2>3, AsideOfDevice
  <1>3. ASSUME NEW c \in Waiters, RouteStep(c)
        PROVE  [Device!Next]_(Device!deviceVars)
    <2>1. CASE BindBorrower(c)
      BY <1>i, <2>1, BindingPromises
    <2>2. CASE LendGpu(c) /\ loan' = route[c].by /\ LeaseVerified(route[c].by) /\ Answer(c, TRUE)
      BY <2>2, LendingGrants DEF LendGpu
    <2>3. CASE /\ UNCHANGED <<loan, overtaken>>
               /\ \E ok : /\ Answer(c, ok)
                          /\ ~ok \/ route[c].verb # "pause" \/ route[c].by \notin Borrowers
      BY <2>3, <1>a
    <2>4. CASE AnswerUnbound(c)
      <3>1. PICK ok : ok = (outcome[c] \in Achieved) /\ Answer(c, ok)
        BY <2>4 DEF AnswerUnbound
      <3>2. ~ok \/ route[c].by \notin Borrowers
        BY <2>4, <3>1, BorrowersAssumption DEF AnswerUnbound
      <3> QED BY <2>3, <2>4, <3>1, <3>2 DEF AnswerUnbound, historyVars
    <2>5. CASE RefuseOverBound(c) \/ RefuseBinding(c) \/ (LendGpu(c) /\ UNCHANGED loan /\ Answer(c, FALSE))
      BY <2>3, <2>5 DEF RefuseOverBound, RefuseBinding, LendGpu, historyVars
    <2>6. CASE AcknowledgeResume(c)
      BY <2>3, <2>6 DEF AcknowledgeResume, Returned, historyVars
    <2> QED BY <1>3, <2>1, <2>2, <2>4, <2>5, <2>6 DEF RouteStep, LendGpu
  <1>4. ASSUME NEW c \in Waiters, Call(c) \/ StopWaiting(c)
        PROVE  [Device!Next]_(Device!deviceVars)
    <2>1. UNCHANGED <<client, loan, overtaken, vram>>
      BY <1>4 DEF Call, StopWaiting, Request, JoinTimedOut, stackVars, borrowerVars,
                  holdVars, historyVars
    <2> QED BY <2>1, ServiceOnDevice
  <1>5. CASE LookForLostLease \/ Recovered \/ UNCHANGED lendingVars
    <2>1. UNCHANGED <<client, loan, overtaken, vram>>
      BY <1>5 DEF LookForLostLease, Recovered, TakeOutcome, residencyVars, stackVars,
                  borrowerVars, holdVars, historyVars, lendingVars
    <2> QED BY <2>1, ServiceOnDevice
  <1> QED BY <1>1, <1>2, <1>3, <1>4, <1>5, TransitionOnDevice, ComputeOnDevice
          DEF LendingNext, ThreadStep

\* Service and borrowers take turns on the device, however many borrowers ask and
\* threads serve them and whatever fails: no model beside a borrower's, none loaded
\* while the device is promised and no loan withdrawn from under its work, unless a
\* resume was let through before the binding (_routes_quiesce.py, reclaim_gpu).
THEOREM ServiceAndBorrowerTakeTurns == LendingSpec => LendsExclusively
  <1>1. LendingInit => Device!Init
    <2> SUFFICES ASSUME LendingInit PROVE Device!Init
      OBVIOUS
    <2>1. vram # "resident" /\ loan = NoOne /\ overtaken = FALSE
          /\ \A b \in Borrowers : client[b] # "working"
      BY DEF LendingInit, ResidencyInit
    <2>2. Users = {}
      BY <2>1 DEF Users
    <2> QED BY <2>1, <2>2 DEF Device!Init
  <1>2. TurnsInv /\ [LendingNext]_lendingVars => [Device!Next]_(Device!deviceVars)
    BY LendingStepTakesTurns
  <1> QED BY <1>1, <1>2, TurnsInvariant, PTL DEF LendingSpec, LendsExclusively, Device!Spec

\* So the device has one user at a time, and a borrower at work on it is the one it
\* was lent to, unless a resume was let through before the binding.
THEOREM DeviceHasOneUser == LendingSpec => []Device!Exclusive
  <1>1. ASSUME TurnsInv PROVE Device!Exclusive
    <2>1. CASE overtaken
      BY <2>1 DEF Device!Exclusive
    <2>2. CASE ~overtaken /\ \E b \in Borrowers : client[b] = "working"
      <3>1. PICK b \in Borrowers : client[b] = "working"
        BY <2>2
      <3>2. \A d \in Borrowers : client[d] = "working" => d = b
        BY <1>1, <3>1, WorkersAgree DEF TurnsInv
      <3>3. loan = b /\ vram # "resident"
        BY <1>1, <2>2, <3>1 DEF TurnsInv, HoldsSound, ResidencyInv, StackSound
      <3>4. Users = {b}
        BY <3>1, <3>2, <3>3 DEF Users
      <3> QED BY <3>3, <3>4 DEF Device!Exclusive
    <2>3. CASE \A b \in Borrowers : client[b] # "working"
      BY <2>3 DEF Device!Exclusive, Users
    <2> QED BY <2>1, <2>2, <2>3 DEF TurnsInv, HoldsSound
  <1>2. TurnsInv => Device!Exclusive
    BY <1>1
  <1> QED BY <1>2, TurnsInvariant, PTL

----------------------------------------------------------------------------
(* The holds.                                                             *)

\* A hold is bound or unbound, and a quiescence left, by these steps alone.
LEMMA HoldSteps ==
  ASSUME [LendingNext]_lendingVars
  PROVE  \/ UNCHANGED <<bound, state>>
         \/ \E c \in Waiters : BindBorrower(c) \/ AcknowledgeResume(c) \/ RunTransition(c)
         \/ Recovered
  <1>1. ASSUME NEW b \in Borrowers, BorrowerStep(b)
        PROVE  UNCHANGED <<bound, state>>
    BY <1>1 DEF BorrowerStep, AcquireLease, SendPause, GiveUpWaiting, FinishWork, Exit,
                holdVars, residencyVars, quiesceVars, recordVars
  <1>2. ASSUME NEW c \in Waiters, RouteStep(c), ~BindBorrower(c), ~AcknowledgeResume(c)
        PROVE  UNCHANGED <<bound, state>>
    BY <1>2 DEF RouteStep, RefuseOverBound, AnswerUnbound, RefuseBinding, LendGpu, Answer,
                TakeOutcome, quiesceVars, recordVars
  <1>3. ASSUME NEW c \in Waiters,
               \/ \E by \in Borrowers \cup {Operator}, verb \in Directions : Arrive(c, by, verb)
               \/ Call(c) \/ StopWaiting(c)
        PROVE  UNCHANGED <<bound, state>>
    BY <1>3 DEF Arrive, Call, StopWaiting, Request, JoinTimedOut, holdVars, residencyVars,
                quiesceVars, recordVars
  <1>4. CASE LookForLostLease \/ Compute \/ UNCHANGED lendingVars
    BY <1>4 DEF LookForLostLease, Compute, ComputeStep, Admit, UseStack, EndCompute,
                AcquireTicket, ReleaseTicket, holdVars, lendingVars, residencyVars,
                quiesceVars, recordVars
  <1> QED BY <1>1, <1>2, <1>3, <1>4 DEF LendingNext, ThreadStep

\* A bound hold whose borrower has its lease, and that was not overtaken, meets its
\* end in a resume of that borrower's.
LEMMA HoldEndsByItsOwn ==
  ASSUME TurnsInv, [LendingNext]_lendingVars, HoldEnds
  PROVE  \E c \in Waiters : EndsItsOwn(c)
  <1>h. /\ bound \in Borrowers /\ lease = bound /\ ~overtaken
        /\ bound' # bound \/ (state = "quiesced" /\ state' # "quiesced")
    BY DEF HoldEnds, TurnsInv, PartiesSound
  <1>1. ASSUME NEW c \in Waiters, BindBorrower(c) PROVE FALSE
    <2>1. lease = route[c].by /\ bound' = route[c].by /\ state' = state
      BY <1>1 DEF BindBorrower, PostPause, MayBind, Authorised, LeaseVerified,
                  residencyVars, quiesceVars, recordVars
    <2> QED BY <1>h, <2>1
  <1>2. ASSUME NEW c \in Waiters, AcknowledgeResume(c) PROVE EndsItsOwn(c)
    BY <1>h, <1>2 DEF AcknowledgeResume, Returned, Serving, Answer, TakeOutcome, ClearedBy,
                      quiesceVars, recordVars, EndsItsOwn
  <1>3. CASE Recovered
    <2>1. client[route[Recovery].by] = "gone" /\ state' = state
          /\ bound' \in {bound, ClearedBy(route[Recovery].by)}
      BY <1>3 DEF Recovered, TakeOutcome, quiesceVars, recordVars, TurnsInv, RequestsSound
    <2>2. route[Recovery].by # bound
      BY <1>h, <2>1 DEF TurnsInv, PartiesSound, HoldsLease
    <2> QED BY <1>h, <2>1, <2>2 DEF ClearedBy
  <1>4. ASSUME NEW c \in Waiters, RunTransition(c) PROVE EndsItsOwn(c)
    <2>1. state = "quiesced" /\ state' # "quiesced" /\ OwnerStep(c)
      BY <1>h, <1>4 DEF RunTransition
    <2>2. At(c, "begin_warming")
      BY <2>1, OwnerAndQuiescence DEF TurnsInv
    <2>3. route[c].verb = "resume" /\ route[c].at = "called" /\ ~At(c, "idle")
      BY <2>2 DEF At, TurnsInv, CallsServed, ResumeSteps, PauseSteps, OwnerSteps
    <2>4. route[c].by = bound
      <3>1. UnderWay(c) /\ bound # NoOne
        BY <1>h, <2>3, BorrowersAssumption DEF UnderWay
      <3> QED BY <1>h, <3>1 DEF TurnsInv, HoldsSound
    <2> QED BY <2>2, <2>3, <2>4 DEF EndsItsOwn
  <1>5. ~UNCHANGED <<bound, state>>
    BY <1>h
  <1> QED BY <1>1, <1>2, <1>3, <1>4, <1>5, HoldSteps

\* A hold is bound anew only to a borrower whose pause was being served when the
\* service became quiesced.
LEMMA BindsWhatItAskedFor ==
  ASSUME TurnsInv, [LendingNext]_lendingVars, bound' \notin {bound, NoOne}
  PROVE  bound # NoOne \/ bound' \in asking
  <1>1. PICK c \in Waiters : BindBorrower(c)
    <2>1. ASSUME NEW c \in Waiters, AcknowledgeResume(c) \/ RunTransition(c) PROVE FALSE
      BY <2>1 DEF AcknowledgeResume, ClearedBy, RunTransition
    <2>2. ~Recovered
      BY DEF Recovered, ClearedBy
    <2> QED BY <2>1, <2>2, HoldSteps
  <1>2. /\ route[c].verb = "pause" /\ route[c].at = "called" /\ route[c].by # Operator
        /\ outcome[c] \in Achieved /\ state = "quiesced" /\ bound' = route[c].by
        /\ outcome[c] = "already_quiesced" => bound # NoOne
    BY <1>1 DEF BindBorrower, PostPause, Returned, Serving, MayBind, SafeToBorrowGpu
  <1>3. route[c].by \in Borrowers
    BY <1>2 DEF TurnsInv, PartiesSound
  <1>4. CASE outcome[c] = "quiesced"
    BY <1>2, <1>3, <1>4 DEF TurnsInv, CallsServed
  <1>5. CASE outcome[c] # "quiesced"
    <2>1. outcome[c] # "running"
      BY <1>2 DEF TurnsInv, CallsServed
    <2> QED BY <1>2, <1>5, <2>1 DEF Achieved
  <1> QED BY <1>4, <1>5

\* However many borrowers ask and threads serve them, and whatever fails, a
\* quiescence is bound to no borrower that did not ask for it, and a hold whose
\* borrower has its lease is ended by its own resume alone, unless one was let
\* through before the binding.
THEOREM QuiescenceKeepsItsParty == LendingSpec => QuiescenceStaysWithItsParty
  <1>1. TurnsInv /\ [LendingNext]_lendingVars
        => [/\ HoldEnds => \E c \in Waiters : EndsItsOwn(c)
            /\ bound' \notin {bound, NoOne} => bound # NoOne \/ bound' \in asking]_lendingVars
    BY HoldEndsByItsOwn, BindsWhatItAskedFor
  <1> QED BY <1>1, TurnsInvariant, PTL DEF LendingSpec, QuiescenceStaysWithItsParty
=============================================================================
