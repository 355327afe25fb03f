-------------------------- MODULE QuiesceController --------------------------
(***************************************************************************)
(* The service quiesce controller (service_quiesce.py,                      *)
(* ServiceQuiesceController): admission of compute, drain acknowledgement   *)
(* and the evidence under which the GPU may be described as borrowable.     *)
(*                                                                          *)
(* Every method runs under one condition lock, so one method is one action; *)
(* the exception is wait_for_drain, whose wait gives the lock up: it is the *)
(* entry step WaitForDrain and the wake-up steps DrainObserved and          *)
(* DrainTimedOut.  A method is total: the idempotent and the "unavailable"  *)
(* answers are its stuttering disjunct.  The module makes no assumption on  *)
(* who calls what: any thread may call any method at any time.  The service's *)
(* caller is ResourceTransition.                                            *)
(*                                                                          *)
(* Timestamps are abstracted to the set of those that are not None.         *)
(***************************************************************************)
EXTENDS Integers, FiniteSets

CONSTANTS
    Waiters,     \* threads that may block in wait_for_drain
    MaxTicket,   \* bound: tickets issued in a behaviour
    MaxEpoch     \* bound: admission epochs in a behaviour

ASSUME BoundsAssumption == MaxTicket \in Nat /\ MaxEpoch \in Nat \ {0}

VARIABLES
    state,           \* _state
    admissionEpoch,  \* _admission_epoch
    nextTicketId,    \* _next_ticket_id
    activeTickets,   \* _active_ticket_epochs, as a set of tickets
    evidence,        \* the lifecycle timestamps that are not None
    vramReleased,    \* _vram_released
    failureReason,   \* _failure_reason ("none" for None)
    drainWaiters     \* threads inside wait_for_drain's condition wait

ticketVars  == <<nextTicketId, activeTickets>>
recordVars  == <<state, admissionEpoch, evidence, vramReleased, failureReason>>
quiesceVars == <<recordVars, ticketVars, drainWaiters>>

States   == {"running", "pausing", "quiesced", "warming"}
Evidence == {"pause_requested", "drain_acknowledged", "quiesced", "warming_started"}
Failures == {"none", "drain_timed_out", "tickets_still_active",
             "drain_not_acknowledged", "transition_failed"}
Tickets  == [id : Nat, epoch : Nat]

----------------------------------------------------------------------------
(* Observations: _snapshot_locked.                                         *)

AdmissionsOpen  == state = "running"
DrainComplete   == state # "running" /\ activeTickets = {}
SafeToBorrowGpu == state = "quiesced" /\ vramReleased /\ activeTickets = {}

----------------------------------------------------------------------------

Init ==
    /\ state = "running"
    /\ admissionEpoch = 1
    /\ nextTicketId = 1
    /\ activeTickets = {}
    /\ evidence = {}
    /\ vramReleased = FALSE
    /\ failureReason = "none"
    /\ drainWaiters = {}

NextTicket == [id |-> nextTicketId, epoch |-> admissionEpoch]

\* acquire_ticket: refused (QuiesceAdmissionClosedError) unless running.
AcquireTicket ==
    /\ state = "running"
    /\ nextTicketId <= MaxTicket
    /\ activeTickets' = activeTickets \cup {NextTicket}
    /\ nextTicketId' = nextTicketId + 1
    /\ UNCHANGED <<recordVars, drainWaiters>>

\* release_ticket: a handle that is no longer tracked answers False.
ReleaseTicket(t) ==
    /\ t \in activeTickets
    /\ activeTickets' = activeTickets \ {t}
    /\ UNCHANGED <<recordVars, nextTicketId, drainWaiters>>

\* begin_pause
BeginPause ==
    /\ \/ /\ state = "running"
          /\ state' = "pausing"
          /\ evidence' = {"pause_requested"}
          /\ vramReleased' = FALSE
          /\ failureReason' = "none"
       \/ /\ state # "running"
          /\ UNCHANGED <<state, evidence, vramReleased, failureReason>>
    /\ UNCHANGED <<admissionEpoch, ticketVars, drainWaiters>>

\* The tail of wait_for_drain once no ticket is active.  The state is not read
\* again after the wait.
AcknowledgeDrain ==
    /\ evidence' = evidence \cup {"drain_acknowledged"}
    /\ failureReason' = IF failureReason = "drain_timed_out" THEN "none"
                                                             ELSE failureReason
    /\ UNCHANGED <<state, admissionEpoch, vramReleased, ticketVars>>

\* wait_for_drain up to the condition wait.
WaitForDrain(w) ==
    /\ w \notin drainWaiters
    /\ \/ /\ state = "pausing" /\ activeTickets = {}
          /\ AcknowledgeDrain
          /\ UNCHANGED drainWaiters
       \/ /\ state = "pausing" /\ activeTickets # {}
          /\ drainWaiters' = drainWaiters \cup {w}
          /\ UNCHANGED <<recordVars, ticketVars>>
       \/ /\ state # "pausing"
          /\ UNCHANGED quiesceVars

\* The wait returns with its predicate true.
DrainObserved(w) ==
    /\ w \in drainWaiters
    /\ activeTickets = {}
    /\ AcknowledgeDrain
    /\ drainWaiters' = drainWaiters \ {w}

\* The wait outlives its budget.
DrainTimedOut(w) ==
    /\ w \in drainWaiters
    /\ activeTickets # {}
    /\ failureReason' = "drain_timed_out"
    /\ drainWaiters' = drainWaiters \ {w}
    /\ UNCHANGED <<state, admissionEpoch, evidence, vramReleased, ticketVars>>

\* acknowledge_vram_released
AcknowledgeVramReleased ==
    /\ \/ /\ state = "pausing"
          /\ activeTickets = {}
          /\ "drain_acknowledged" \in evidence
          /\ state' = "quiesced"
          /\ vramReleased' = TRUE
          /\ evidence' = evidence \cup {"quiesced"}
          /\ failureReason' = "none"
       \/ /\ state = "pausing"
          /\ activeTickets # {}
          /\ failureReason' = "tickets_still_active"
          /\ UNCHANGED <<state, vramReleased, evidence>>
       \/ /\ state = "pausing"
          /\ activeTickets = {}
          /\ "drain_acknowledged" \notin evidence
          /\ failureReason' = "drain_not_acknowledged"
          /\ UNCHANGED <<state, vramReleased, evidence>>
       \/ /\ state # "pausing"
          /\ UNCHANGED <<state, vramReleased, evidence, failureReason>>
    /\ UNCHANGED <<admissionEpoch, ticketVars, drainWaiters>>

\* fail_transition, with required the state _failure_targets gives its code:
\* a report against any other state is answered and not recorded.
FailTransition(required) ==
    /\ \/ /\ state = required
          /\ vramReleased' = FALSE
          /\ failureReason' = "transition_failed"
       \/ /\ state # required
          /\ UNCHANGED <<vramReleased, failureReason>>
    /\ UNCHANGED <<state, admissionEpoch, evidence, ticketVars, drainWaiters>>

\* The assignments that reopen admission, common to both ways back.
Reopen ==
    /\ state' = "running"
    /\ evidence' = {}
    /\ vramReleased' = FALSE
    /\ failureReason' = "none"
    /\ UNCHANGED <<ticketVars, drainWaiters>>

\* Faulty variant: an abort that opens a new epoch over undrained tickets.
AbortPauseNewEpoch ==
    \/ state = "pausing" /\ Reopen /\ admissionEpoch' = admissionEpoch + 1
    \/ state # "pausing" /\ UNCHANGED quiesceVars

\* abort_pause: the epoch is kept, its undrained tickets stay releasable.
AbortPause ==
    \/ state = "pausing" /\ Reopen /\ UNCHANGED admissionEpoch
    \/ state # "pausing" /\ UNCHANGED quiesceVars

\* begin_warming
BeginWarming ==
    /\ \/ /\ state = "quiesced"
          /\ state' = "warming"
          /\ evidence' = evidence \cup {"warming_started"}
          /\ vramReleased' = FALSE
          /\ failureReason' = "none"
       \/ /\ state # "quiesced"
          /\ UNCHANGED <<state, evidence, vramReleased, failureReason>>
    /\ UNCHANGED <<admissionEpoch, ticketVars, drainWaiters>>

\* complete_warming
CompleteWarming ==
    \/ /\ state = "warming"
       /\ admissionEpoch < MaxEpoch
       /\ Reopen
       /\ admissionEpoch' = admissionEpoch + 1
    \/ state # "warming" /\ UNCHANGED quiesceVars

Next ==
    \/ AcquireTicket
    \/ \E t \in activeTickets : ReleaseTicket(t)
    \/ BeginPause
    \/ \E w \in Waiters : WaitForDrain(w) \/ DrainObserved(w) \/ DrainTimedOut(w)
    \/ AcknowledgeVramReleased
    \/ \E required \in {"pausing", "warming"} : FailTransition(required)
    \/ AbortPause
    \/ BeginWarming
    \/ CompleteWarming

Spec == Init /\ [][Next]_quiesceVars

----------------------------------------------------------------------------

\* Every variable keeps its type (service_quiesce.py, __init__).
TypeOK ==
    /\ state \in States
    /\ admissionEpoch \in Nat \ {0}
    /\ nextTicketId \in Nat \ {0}
    /\ activeTickets \subseteq Tickets
    /\ evidence \subseteq Evidence
    /\ vramReleased \in BOOLEAN
    /\ failureReason \in Failures
    /\ drainWaiters \subseteq Waiters

\* A compute section still running belongs to the admission epoch now in
\* force, whichever aborts and reopenings happened since it was admitted: an
\* epoch is never advanced over work it admitted (complete_warming, abort_pause).
TicketsOfLiveEpoch ==
    \A t \in activeTickets : t.epoch = admissionEpoch

\* From the moment the GPU is declared released until admission reopens, no
\* compute section runs: neither one admitted before the pause and missed by
\* the drain, nor one admitted by a race with it.
ReleasedMeansNoCompute ==
    state \in {"quiesced", "warming"} => activeTickets = {}

\* An acknowledged drain cannot be overtaken: while a pause is under way, an
\* acknowledgement it carries still describes the tickets, even when the
\* acknowledging waiter entered under an earlier, aborted pause.
DrainEvidenceFresh ==
    (state = "pausing" /\ "drain_acknowledged" \in evidence) => activeTickets = {}

\* The vram_released flag a surface reports is set exactly while quiesced: no
\* failure report, abort or warming leaves it behind.
VramFlagTracksQuiesced ==
    (vramReleased = TRUE) <=> (state = "quiesced")

=============================================================================
