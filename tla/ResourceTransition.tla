------------------------- MODULE ResourceTransition --------------------------
(***************************************************************************)
(* Pausing and resuming the registry's GPU residency                        *)
(* (_service_residency.py, GPUResidencyMixin) over the quiesce controller.   *)
(*                                                                          *)
(* One caller owns a transition and runs its effects; callers of the same    *)
(* direction join it and share its outcome, callers of the other are told    *)
(* of the conflict.  The threads of Waiters are those callers.  A step of    *)
(* the owner is one call on the controller, or one critical section of the   *)
(* registry, so compute admission, model loads and other callers interleave  *)
(* between any two of them.                                                  *)
(*                                                                          *)
(* The embedding model and the reranker are one "stack": both are detached   *)
(* and restored together.  The job manager is external here: preparing held  *)
(* work may succeed or fail to persist.                                      *)
(***************************************************************************)
EXTENDS QuiesceController

CONSTANT Faults  \* which external steps may fail ("lease_read", "lend" and
                 \* "reclaim" are used by BorrowerHold)

ASSUME FaultsAssumption ==
    Faults \subseteq {"quiesce_request", "release", "rebuild", "persistence",
                      "lease_read", "lend", "reclaim"}

VARIABLES
    operation,  \* _resource_transition: the owned direction, or "none"
    pc,         \* where each caller stands in quiesce_resources/resume_resources
    outcome,    \* what each caller's last call returned
    vram,       \* "resident", "detached" (references dropped, allocator cache
                \* not yet released) or "free"
    recipe,     \* _gpu_residency_recipe: "none", "skip" or "restore"
    using       \* tickets whose compute section holds the shared stack

callVars      == <<operation, pc, outcome>>
stackVars     == <<vram, recipe, using>>
residencyVars == <<quiesceVars, callVars, stackVars>>

Directions == {"pause", "resume"}
OwnerSteps == {"observe", "begin_pause", "request_quiesce", "drain", "draining",
               "detach", "release", "acknowledge", "restore", "begin_warming",
               "reclaim", "reload", "prepare", "reopen", "reopened", "reclose"}
Achieved   == {"quiesced", "already_quiesced", "running"}

ResidencyInit ==
    /\ Init
    /\ operation = "none"
    /\ pc = [c \in Waiters |-> "idle"]
    /\ outcome = [c \in Waiters |-> "none"]
    /\ vram = "free"
    /\ recipe = "none"
    /\ using = {}

At(c, step) == pc[c] = step
Goto(c, step) == pc' = [pc EXCEPT ![c] = step] /\ UNCHANGED <<operation, outcome>>

\* Faulty variant: an exception leaves the transition owned.
FinishKeepsRaised(c, code) ==
    LET Returns(x) == x = c \/ pc[x] = "joined"
    IN  /\ operation' = IF code = "raised" THEN operation ELSE "none"
        /\ pc' = [x \in Waiters |-> IF Returns(x) THEN "idle" ELSE pc[x]]
        /\ outcome' = [x \in Waiters |-> IF Returns(x) THEN code ELSE outcome[x]]

\* The owner publishes its outcome; every caller that joined returns it.
Finish(c, code) ==
    LET Returns(x) == x = c \/ pc[x] = "joined"
    IN  /\ operation' = "none"
        /\ pc' = [x \in Waiters |-> IF Returns(x) THEN "idle" ELSE pc[x]]
        /\ outcome' = [x \in Waiters |-> IF Returns(x) THEN code ELSE outcome[x]]

----------------------------------------------------------------------------
(* _run_resource_transition: claim, join or conflict.                       *)

\* MaxEpoch bounds the pauses asked for.
Request(c, d) ==
    /\ At(c, "idle")
    /\ d = "pause" => admissionEpoch < MaxEpoch
    /\ \/ /\ operation = "none"
          /\ operation' = d
          /\ pc' = [pc EXCEPT ![c] = "observe"]
          /\ outcome' = [outcome EXCEPT ![c] = "none"]
       \/ /\ operation = d
          /\ pc' = [pc EXCEPT ![c] = "joined"]
          /\ outcome' = [outcome EXCEPT ![c] = "none"]
          /\ UNCHANGED operation
       \/ /\ operation \notin {"none", d}
          /\ outcome' = [outcome EXCEPT ![c] = "conflict"]
          /\ UNCHANGED <<operation, pc>>
    /\ UNCHANGED <<quiesceVars, stackVars>>

\* A joined caller outwaits the owner; the owned transition goes on.
JoinTimedOut(c) ==
    /\ At(c, "joined")
    /\ pc' = [pc EXCEPT ![c] = "idle"]
    /\ outcome' = [outcome EXCEPT ![c] = "wait_timed_out"]
    /\ UNCHANGED <<operation, quiesceVars, stackVars>>

\* The caller takes what its call returned.
TakeOutcome(c) ==
    /\ At(c, "idle")
    /\ outcome' = [outcome EXCEPT ![c] = "none"]
    /\ UNCHANGED <<operation, pc, quiesceVars, stackVars>>

\* Faulty variant: a resume rebuilds before the controller leaves quiesced.
ObserveRebuildFirst(c) ==
    /\ At(c, "observe")
    /\ \/ operation = "pause" /\ state = "quiesced" /\ Finish(c, "already_quiesced")
       \/ operation = "pause" /\ state # "quiesced" /\ Goto(c, "begin_pause")
       \/ operation = "resume" /\ state = "running" /\ Goto(c, "reopened")
       \/ operation = "resume" /\ state = "pausing" /\ Goto(c, "restore")
       \/ operation = "resume" /\ state \in {"quiesced", "warming"} /\ Goto(c, "reload")
    /\ UNCHANGED <<quiesceVars, stackVars>>

\* The owner's first look decides the path; only an owner changes the state,
\* so the second look _resume_resources_once takes sees the same.
Observe(c) ==
    /\ At(c, "observe")
    /\ \/ operation = "pause" /\ state = "quiesced" /\ Finish(c, "already_quiesced")
       \/ operation = "pause" /\ state # "quiesced" /\ Goto(c, "begin_pause")
       \/ operation = "resume" /\ state = "running" /\ Goto(c, "reopened")
       \/ operation = "resume" /\ state = "pausing" /\ Goto(c, "restore")
       \/ operation = "resume" /\ state \in {"quiesced", "warming"} /\ Goto(c, "begin_warming")
    /\ UNCHANGED <<quiesceVars, stackVars>>

----------------------------------------------------------------------------
(* _quiesce_resources_once.                                                 *)

StartPause(c) ==
    /\ At(c, "begin_pause")
    /\ BeginPause
    /\ IF state' = "pausing" THEN Goto(c, "request_quiesce") ELSE Finish(c, "refused")
    /\ UNCHANGED stackVars

\* The managed attempts are asked to unwind (job manager, external); an
\* exception leaves the pause closed behind it.
RequestQuiesceAttempts(c) ==
    /\ At(c, "request_quiesce")
    /\ \/ Goto(c, "drain")
       \/ "quiesce_request" \in Faults /\ Finish(c, "raised")
    /\ UNCHANGED <<quiesceVars, stackVars>>

\* Faulty variant: the owner does not wait for the admitted tickets.
DrainUnwaited(c) ==
    /\ At(c, "drain")
    /\ AcknowledgeDrain
    /\ Goto(c, "detach")
    /\ UNCHANGED <<drainWaiters, stackVars>>

Drain(c) ==
    /\ At(c, "drain")
    /\ WaitForDrain(c)
    /\ Goto(c, IF c \in drainWaiters' THEN "draining" ELSE "detach")
    /\ UNCHANGED stackVars

Drained(c) ==
    /\ At(c, "draining")
    /\ DrainObserved(c)
    /\ Goto(c, "detach")
    /\ UNCHANGED stackVars

DrainGivenUp(c) ==
    /\ At(c, "draining")
    /\ DrainTimedOut(c)
    /\ Finish(c, "refused")
    /\ UNCHANGED stackVars

\* _detach_gpu_dependencies up to the end of its critical section.  The recipe
\* is rewritten from what is attached now.
DetachGpuDependencies(c) ==
    /\ At(c, "detach")
    /\ recipe' = IF vram = "resident" THEN "restore" ELSE "skip"
    /\ vram' = IF vram = "resident" THEN "detached" ELSE vram
    /\ Goto(c, IF vram = "resident" THEN "release" ELSE "acknowledge")
    /\ UNCHANGED <<using, quiesceVars>>

\* _release_gpu_residency: collection and cache release, outside the locks.
ReleaseGpuResidency(c) ==
    /\ At(c, "release")
    /\ \/ /\ vram' = "free"
          /\ Goto(c, "acknowledge")
          /\ UNCHANGED quiesceVars
       \/ /\ "release" \in Faults
          /\ FailTransition("pausing")
          /\ Finish(c, "refused")
          /\ UNCHANGED vram
    /\ UNCHANGED <<recipe, using>>

Acknowledge(c) ==
    /\ At(c, "acknowledge")
    /\ AcknowledgeVramReleased
    /\ Finish(c, IF state' = "quiesced" THEN "quiesced" ELSE "refused")
    /\ UNCHANGED stackVars

----------------------------------------------------------------------------
(* _resume_resources_once and _abort_pause_once.                            *)

\* _gpu_residency_detached
ResidencyDetached == recipe = "restore" /\ vram # "resident"

\* _require_drained_closed_epoch, in the state the transition owns.
DrainedClosedEpoch == DrainComplete /\ "drain_acknowledged" \in evidence

\* Faulty variant: an abort that forgets the stack its pause detached.
RestorePausedSkipped(c) ==
    /\ At(c, "restore")
    /\ Goto(c, "prepare")
    /\ UNCHANGED <<quiesceVars, stackVars>>

\* _restore_paused_gpu_dependencies up to the rebuild.
RestorePausedGpuDependencies(c) ==
    /\ At(c, "restore")
    /\ \/ /\ ~ResidencyDetached
          /\ Goto(c, "prepare")
          /\ UNCHANGED quiesceVars
       \/ /\ ResidencyDetached /\ DrainedClosedEpoch
          /\ Goto(c, "reload")
          /\ UNCHANGED quiesceVars
       \/ /\ ResidencyDetached /\ ~DrainedClosedEpoch
          /\ FailTransition("pausing")
          /\ Finish(c, "refused")
    /\ UNCHANGED stackVars

StartWarming(c) ==
    /\ At(c, "begin_warming")
    /\ BeginWarming
    /\ IF state' = "warming" THEN Goto(c, "reclaim") ELSE Finish(c, "refused")
    /\ UNCHANGED stackVars

\* reclaim_gpu: any loan of the device ends before the rebuild.
ReclaimGpu(c) ==
    /\ At(c, "reclaim")
    /\ Goto(c, "reload")
    /\ UNCHANGED <<quiesceVars, stackVars>>

\* _restore_gpu_residency: load what the recipe names, or drop what was loaded
\* of it (whose own cleanup may fail too) and report the transition failed.
RestoreGpuResidency(c) ==
    /\ At(c, "reload")
    /\ \/ /\ vram' = IF recipe = "restore" THEN "resident" ELSE vram
          /\ Goto(c, "prepare")
          /\ UNCHANGED quiesceVars
       \/ /\ "rebuild" \in Faults
          /\ recipe = "restore"
          /\ vram' \in {"free", "detached"}
          /\ FailTransition(state)
          /\ Finish(c, "refused")
    /\ UNCHANGED <<recipe, using>>

\* _prepare_quiesced_recovery while still closed: persist held work, or report
\* the recovery failed and stay closed.
PrepareRecovery(c) ==
    /\ At(c, "prepare")
    /\ \/ /\ Goto(c, "reopen")
          /\ UNCHANGED quiesceVars
       \/ /\ "persistence" \in Faults
          /\ FailTransition(state)
          /\ Finish(c, "refused")
    /\ UNCHANGED stackVars

\* abort_pause or complete_warming, by the state the transition started from.
ReopenAdmission(c) ==
    /\ At(c, "reopen")
    /\ IF state = "pausing" THEN AbortPause ELSE CompleteWarming
    /\ Goto(c, "reopened")
    /\ UNCHANGED stackVars

\* _complete_reopened_recovery: held work that appeared while admission opened
\* is prepared again and dispatched; when that cannot be persisted, admission
\* is closed again by two controller calls, BeginPause here and Reclose.
CompleteReopenedRecovery(c) ==
    /\ At(c, "reopened")
    /\ \/ /\ Finish(c, "running")
          /\ UNCHANGED quiesceVars
       \/ /\ "persistence" \in Faults
          /\ admissionEpoch < MaxEpoch
          /\ BeginPause
          /\ Goto(c, "reclose")
    /\ UNCHANGED stackVars

Reclose(c) ==
    /\ At(c, "reclose")
    /\ FailTransition("pausing")
    /\ Finish(c, "refused")
    /\ UNCHANGED stackVars

----------------------------------------------------------------------------
(* Compute sections: admission, lazy model load, release.                   *)

Admit == AcquireTicket /\ UNCHANGED <<callVars, stackVars>>

\* compute_lease / _load_model: the stack is loaded on first use, under a ticket.
UseStack(t) ==
    /\ t \in activeTickets \ using
    /\ using' = using \cup {t}
    /\ vram' = "resident"
    /\ recipe' = IF vram = "resident" THEN recipe ELSE "restore"
    /\ UNCHANGED <<quiesceVars, callVars>>

\* ComputeLease.__exit__: the ticket is released last.
EndCompute(t) ==
    /\ ReleaseTicket(t)
    /\ using' = using \ {t}
    /\ UNCHANGED <<vram, recipe, callVars>>

PauseStep(c) ==
    \/ StartPause(c) \/ RequestQuiesceAttempts(c) \/ Drain(c) \/ Drained(c)
    \/ DrainGivenUp(c) \/ DetachGpuDependencies(c) \/ ReleaseGpuResidency(c)
    \/ Acknowledge(c)

ResumeStep(c) ==
    \/ RestorePausedGpuDependencies(c) \/ StartWarming(c) \/ RestoreGpuResidency(c)
    \/ PrepareRecovery(c) \/ ReopenAdmission(c) \/ CompleteReopenedRecovery(c)
    \/ Reclose(c)

OwnerStep(c) == Observe(c) \/ PauseStep(c) \/ ResumeStep(c) \/ ReclaimGpu(c)

ComputeStep ==
    \/ Admit
    \/ \E t \in activeTickets : UseStack(t) \/ EndCompute(t)

ResidencyNext ==
    \/ \E c \in Waiters :
        \/ \E d \in Directions : Request(c, d)
        \/ JoinTimedOut(c)
        \/ TakeOutcome(c)
        \/ OwnerStep(c)
    \/ ComputeStep

ResidencySpec == ResidencyInit /\ [][ResidencyNext]_residencyVars

\* The owner is a running thread, and a join is a bounded wait; compute may
\* run for ever.
ResidencyFairness ==
    \A c \in Waiters : WF_residencyVars(OwnerStep(c)) /\ WF_residencyVars(JoinTimedOut(c))

FairResidencySpec == ResidencySpec /\ ResidencyFairness

----------------------------------------------------------------------------

\* A compute section never has the shared stack detached under it, whatever
\* pauses, aborts and failed rebuilds run beside it.
ComputeKeepsItsStack == using # {} => vram = "resident"

\* While the GPU may be described as borrowable no model is on it: neither one a
\* pause missed, nor one loaded before the service left quiesced.
SafeMeansNoModel == SafeToBorrowGpu => vram # "resident"

\* Admission is never reopened against a stack that the recipe says was there
\* and no longer is (_abort_pause_once, _resume_resources_once).
NoHollowReopen ==
    [][(state # "running" /\ state' = "running")
        => ~ResidencyDetached']_residencyVars

\* A compute section still running is of the admission epoch in force, whatever
\* aborted pauses, drains given up and reopenings came since it was admitted; and
\* an acknowledged drain is of the closed epoch and stays true of it, so none is
\* acknowledged over compute admitted before it or left behind for the next pause
\* (wait_for_drain, abort_pause, complete_warming).
DrainAccountsForCompute ==
    /\ TicketsOfLiveEpoch
    /\ "drain_acknowledged" \in evidence => DrainComplete

\* Every transition ends and every caller returns, though compute may never
\* drain and a join may outlive its own budget.
TransitionEnds == operation # "none" ~> operation = "none"

=============================================================================
