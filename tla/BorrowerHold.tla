---------------------------- MODULE BorrowerHold -----------------------------
(***************************************************************************)
(* Lending the service's GPU to an external borrower                        *)
(* (_service_borrower.py, server/_routes_quiesce.py, cli/_gpu_lease.py,       *)
(* gpu_borrow_lease.py, _gpu_owner.py) over the resource transition.          *)
(*                                                                          *)
(* A borrower is one process session: it takes the machine-wide lease under   *)
(* a fresh capability, asks the service to pause, works, and asks it to       *)
(* resume.  A capability is identified with its session.  Requests wait in    *)
(* the network, outlive their sender, and their answers may be lost.          *)
(*                                                                          *)
(* A thread of Waiters other than Recovery serves one lifecycle request at a  *)
(* time: authorised on the event loop, run in a worker thread, answered on    *)
(* the event loop.  Recovery is the heartbeat's thread.  Event-loop code is   *)
(* one step at a time, but other threads and processes run between its parts. *)
(***************************************************************************)
EXTENDS ResourceTransition

CONSTANTS
    Borrowers,  \* borrower sessions, each with its capability
    Operator,   \* a request that carries no capability
    NoOne,      \* no capability
    Recovery    \* the heartbeat's thread, a member of Waiters or not run at all

ASSUME BorrowersAssumption ==
    /\ Operator \notin Borrowers
    /\ NoOne \notin Borrowers \cup {Operator}

VARIABLES
    lease,    \* whose capability the locked lease record names
    client,   \* where each borrower stands in run_with_borrowed_gpu
    pending,  \* lifecycle requests sent and not yet handled
    bound,    \* _borrower_capability
    loan,     \* lent_to on the owner anchor
    route,    \* the request each thread serves
    asking,   \* history: whose pauses were being served when the service last
              \* became quiesced
    overtaken \* history: at the last binding a resume was let through and not done

borrowerVars == <<lease, client, pending>>
historyVars  == <<asking, overtaken>>
holdVars     == <<bound, loan, route, historyVars>>
lendingVars  == <<residencyVars, borrowerVars, holdVars>>

Idle         == [by |-> NoOne, verb |-> "none", at |-> "free"]

LendingInit ==
    /\ ResidencyInit
    /\ lease = NoOne
    /\ client = [b \in Borrowers |-> "new"]
    /\ pending = {}
    /\ bound = NoOne
    /\ loan = NoOne
    /\ route = [c \in Waiters |-> Idle]
    /\ asking = {}
    /\ overtaken = FALSE

Routes   == Waiters \ {Recovery}
Ask(b, verb) == [by |-> b, verb |-> verb]
LoopFree == \A c \in Waiters : route[c].at # "lending"

----------------------------------------------------------------------------
(* The borrower's process: run_with_borrowed_gpu.                           *)

Becomes(b, s) == client' = [client EXCEPT ![b] = s]

\* Every attempted pause is paired with a resume, added to the requests of sent.
SendResume(b, sent) ==
    /\ Becomes(b, "resuming")
    /\ pending' = sent \cup {Ask(b, "resume")}

AcquireLease(b) ==
    /\ client[b] = "new"
    /\ lease = NoOne
    /\ lease' = b
    /\ Becomes(b, "holding")
    /\ UNCHANGED <<pending, residencyVars, holdVars>>

SendPause(b) ==
    /\ client[b] = "holding"
    /\ Becomes(b, "pausing")
    /\ pending' = pending \cup {Ask(b, "pause")}
    /\ UNCHANGED <<lease, residencyVars, holdVars>>

\* The answer did not come within the client's budget.
GiveUpWaiting(b) ==
    /\ \/ client[b] = "pausing" /\ SendResume(b, pending)
       \/ client[b] = "resuming" /\ Becomes(b, "stranded") /\ UNCHANGED pending
    /\ UNCHANGED <<lease, residencyVars, holdVars>>

FinishWork(b) ==
    /\ client[b] = "working"
    /\ SendResume(b, pending)
    /\ UNCHANGED <<lease, residencyVars, holdVars>>

\* The process ends, in whatever state it is; the OS drops its lock.
Exit(b) ==
    /\ client[b] \notin {"new", "gone"}
    /\ Becomes(b, "gone")
    /\ lease' = IF lease = b THEN NoOne ELSE lease
    /\ UNCHANGED <<pending, residencyVars, holdVars>>

\* An answer reaches its borrower if that still waits for it: a safe pause
\* starts the work, a refused one is undone, an acknowledged resume releases
\* the lease and a refused one keeps it.
Delivered(b, verb, ok, sent) ==
    \/ /\ verb = "pause" /\ b \in Borrowers /\ client[b] = "pausing"
       /\ IF ok THEN Becomes(b, "working") /\ pending' = sent ELSE SendResume(b, sent)
       /\ UNCHANGED lease
    \/ /\ verb = "resume" /\ b \in Borrowers /\ client[b] = "resuming"
       /\ Becomes(b, IF ok THEN "gone" ELSE "stranded")
       /\ lease' = IF ok THEN NoOne ELSE lease
       /\ pending' = sent
    \/ /\ b \in Borrowers => client[b] # (IF verb = "pause" THEN "pausing" ELSE "resuming")
       /\ pending' = sent
       /\ UNCHANGED <<lease, client>>

----------------------------------------------------------------------------
(* The service's lifecycle route: _quiesce_route.                           *)

\* borrower_lease_status: the lock is contended and names this capability.
LeaseVerified(b) == lease = b

\* Faulty variant: an operator may resume a bound hold.
AuthorisedOperatorResumes(by, verb) ==
    \/ by = Operator
    \/ by # Operator /\ LeaseVerified(by) /\ (verb = "pause" \/ bound \in {NoOne, by})

\* validate_borrower_lifecycle_request
Authorised(by, verb) ==
    \/ by = Operator /\ (verb = "pause" \/ bound = NoOne)
    \/ by # Operator /\ LeaseVerified(by) /\ (verb = "pause" \/ bound \in {NoOne, by})

LeaseUnreadable(by) == by # Operator /\ "lease_read" \in Faults

Serve(c, by, verb, at) ==
    route' = [route EXCEPT ![c] = [by |-> by, verb |-> verb, at |-> at]]

\* The thread's request is answered.
Answer(c, ok) ==
    /\ TakeOutcome(c)
    /\ route' = [route EXCEPT ![c] = Idle]
    /\ Delivered(route[c].by, route[c].verb, ok, pending)

Serving(c, at) == c \in Routes /\ route[c].at = at

\* A request is taken up: authorised, or refused and nothing changed.  A pause
\* that comes when MaxEpoch is reached is lost in the network.
Arrive(c, by, verb) ==
    /\ Serving(c, "free")
    /\ verb = "pause" => admissionEpoch < MaxEpoch
    /\ LoopFree
    /\ by # Operator => Ask(by, verb) \in pending
    /\ LET others == pending \ {Ask(by, verb)}
       IN  \/ /\ Authorised(by, verb)
              /\ Serve(c, by, verb, "authorised")
              /\ pending' = others
              /\ UNCHANGED <<lease, client>>
           \/ /\ ~Authorised(by, verb) \/ LeaseUnreadable(by)
              /\ Delivered(by, verb, FALSE, others)
              /\ UNCHANGED route
    /\ UNCHANGED <<residencyVars, bound, loan, historyVars>>

\* The worker thread calls quiesce_resources or resume_resources.
Call(c) ==
    /\ route[c].at = "authorised"
    /\ Request(c, route[c].verb)
    /\ Serve(c, route[c].by, route[c].verb, "called")
    /\ UNCHANGED <<borrowerVars, bound, loan, historyVars>>

\* A pause authorised before MaxEpoch was reached is refused instead of called.
RefuseOverBound(c) ==
    /\ Serving(c, "authorised")
    /\ route[c].verb = "pause" /\ admissionEpoch = MaxEpoch
    /\ Answer(c, FALSE)
    /\ UNCHANGED <<bound, loan, historyVars>>

Returned(c) == Serving(c, "called") /\ At(c, "idle") /\ LoopFree

\* The transition was not achieved, or it is an operator's: nothing to bind.
AnswerUnbound(c) ==
    /\ Returned(c)
    /\ outcome[c] \notin Achieved \/ route[c].by = Operator
    /\ Answer(c, outcome[c] \in Achieved)
    /\ UNCHANGED <<bound, loan, historyVars>>

\* Faulty variant: an observed quiescence binds like one's own.
MayBindObserved(c) ==
    /\ Authorised(route[c].by, "pause")
    /\ SafeToBorrowGpu

\* _post_pause_binding_error, up to the binding: the lease is verified again,
\* and an observed quiescence binds only when some borrower holds it already.
MayBind(c) ==
    /\ Authorised(route[c].by, "pause")
    /\ outcome[c] = "already_quiesced" => bound # NoOne
    /\ SafeToBorrowGpu

\* A borrower's achieved pause goes through the binding.
PostPause(c) ==
    /\ Returned(c)
    /\ route[c].by # Operator /\ route[c].verb = "pause"
    /\ outcome[c] \in Achieved

\* A resume was let through that its thread has yet to make, or to finish.
ResumeUnderWay ==
    \E c \in Waiters :
        /\ route[c].verb = "resume"
        /\ route[c].at = "authorised" \/ ~At(c, "idle")

BindBorrower(c) ==
    /\ PostPause(c) /\ MayBind(c)
    /\ bound' = route[c].by
    /\ overtaken' = ResumeUnderWay
    /\ Serve(c, route[c].by, route[c].verb, "lending")
    /\ UNCHANGED <<residencyVars, borrowerVars, loan, asking>>

RefuseBinding(c) ==
    /\ PostPause(c) /\ (~MayBind(c) \/ LeaseUnreadable(route[c].by))
    /\ Answer(c, FALSE)
    /\ UNCHANGED <<bound, loan, historyVars>>

\* lend_gpu_to_borrower: the loan is recorded for the verified holder's
\* process, or the borrower is told the GPU is not its to use.
LendGpu(c) ==
    /\ Serving(c, "lending")
    /\ \/ /\ LeaseVerified(route[c].by)
          /\ loan' = route[c].by
          /\ Answer(c, TRUE)
       \/ /\ ~LeaseVerified(route[c].by) \/ {"lend", "lease_read"} \cap Faults # {}
          /\ Answer(c, FALSE)
          /\ UNCHANGED loan
    /\ UNCHANGED <<bound, historyVars>>

\* clear_borrower_capability_after_resume
ClearedBy(by) == IF bound = by THEN NoOne ELSE bound

AcknowledgeResume(c) ==
    /\ Returned(c)
    /\ route[c].by # Operator /\ route[c].verb = "resume"
    /\ outcome[c] \in Achieved
    /\ bound' = ClearedBy(route[c].by)
    /\ Answer(c, TRUE)
    /\ UNCHANGED <<loan, historyVars>>

----------------------------------------------------------------------------
(* The heartbeat: resume_lost_borrower_lease, in its own thread.            *)

\* The binding, the state and the lease are read here; the resume comes later.
LookForLostLease ==
    /\ Recovery \in Waiters /\ route[Recovery] = Idle
    /\ bound # NoOne
    /\ state = "quiesced"
    /\ lease = NoOne
    /\ Serve(Recovery, bound, "resume", "authorised")
    /\ UNCHANGED <<residencyVars, borrowerVars, bound, loan, historyVars>>

\* Faulty variant: the recovered binding is kept.
RecoveredKeepsBinding ==
    /\ Recovery \in Waiters /\ route[Recovery].at = "called" /\ At(Recovery, "idle")
    /\ TakeOutcome(Recovery)
    /\ route' = [route EXCEPT ![Recovery] = Idle]
    /\ UNCHANGED <<borrowerVars, bound, loan, historyVars>>

Recovered ==
    /\ Recovery \in Waiters /\ route[Recovery].at = "called" /\ At(Recovery, "idle")
    /\ TakeOutcome(Recovery)
    /\ bound' = IF outcome[Recovery] \in Achieved THEN ClearedBy(route[Recovery].by) ELSE bound
    /\ route' = [route EXCEPT ![Recovery] = Idle]
    /\ UNCHANGED <<borrowerVars, loan, historyVars>>

----------------------------------------------------------------------------
(* The transition itself, which alone ends a loan.                          *)

\* reclaim_gpu, whose caller does not learn that the record could not be written.
LoansAfter(c) ==
    IF ~At(c, "reclaim") THEN {loan}
    ELSE {NoOne} \cup (IF "reclaim" \in Faults THEN {loan} ELSE {})

\* The parties whose pause is being served.
AskingToPause ==
    {b \in Borrowers : \E c \in Waiters :
        route[c].by = b /\ route[c].verb = "pause" /\ route[c].at = "called"}

RunTransition(c) ==
    /\ OwnerStep(c)
    /\ loan' \in LoansAfter(c)
    /\ asking' = IF At(c, "acknowledge") /\ state' = "quiesced" THEN AskingToPause
               ELSE IF state' = "quiesced" THEN asking ELSE {}
    /\ UNCHANGED <<borrowerVars, bound, route, overtaken>>

StopWaiting(c) == JoinTimedOut(c) /\ UNCHANGED <<borrowerVars, holdVars>>

Compute == ComputeStep /\ UNCHANGED <<borrowerVars, holdVars>>

BorrowerStep(b) ==
    \/ AcquireLease(b) \/ SendPause(b) \/ GiveUpWaiting(b) \/ FinishWork(b) \/ Exit(b)

RouteStep(c) ==
    \/ RefuseOverBound(c) \/ AnswerUnbound(c) \/ BindBorrower(c) \/ RefuseBinding(c) \/ LendGpu(c)
    \/ AcknowledgeResume(c)

\* What a thread does of itself; nobody is obliged to ask it for anything.
ThreadStep(c) == Call(c) \/ RouteStep(c) \/ RunTransition(c) \/ StopWaiting(c)

LendingNext ==
    \/ \E b \in Borrowers : BorrowerStep(b)
    \/ \E c \in Waiters :
        \/ \E by \in Borrowers \cup {Operator}, verb \in Directions : Arrive(c, by, verb)
        \/ ThreadStep(c)
    \/ LookForLostLease \/ Recovered
    \/ Compute

LendingSpec == LendingInit /\ [][LendingNext]_lendingVars

\* Threads run and the heartbeat ticks; nobody is obliged to ask for anything, to
\* finish or to exit.  Operators do not go on asking for ever: each tick might
\* otherwise meet a transition in progress and be told of the conflict.
OperatorsFallSilent ==
    <>[][\A c \in Waiters : route'[c].by = Operator => route[c].by = Operator]_lendingVars

LendingFairness ==
    /\ \A c \in Waiters : WF_lendingVars(ThreadStep(c))
    /\ WF_lendingVars(LookForLostLease) /\ WF_lendingVars(Recovered)
    /\ OperatorsFallSilent

FairLendingSpec == LendingSpec /\ LendingFairness

----------------------------------------------------------------------------

\* A borrower at work has the device to itself and is the one it is lent to ("a
\* borrower's process tree and the rebuilt stack never share the device"), unless
\* a resume had been let through before its pause was bound, which only then
\* runs: the parties that have a model on the device, the recorded loan and that
\* one exception follow GpuDevice, however many threads serve requests.
Users == {b \in Borrowers : client[b] = "working"}
             \cup (IF vram = "resident" THEN {Operator} ELSE {})

Device == INSTANCE GpuDevice
              WITH Service <- Operator, users <- Users, grant <- loan, disputed <- overtaken

LendsExclusively == Device!Spec

\* A bound hold whose borrower still has the lease is ended, unbound or warmed up,
\* by its own resume alone: not an operator's, another borrower's or the
\* heartbeat's, unless that was let through before the binding.  And no hold is
\* bound to a borrower whose pause was not being served when the service became
\* quiesced, as an operator's completed pause is by a borrower that merely
\* observes it, but one that a borrower held already (_post_pause_binding_error).
HoldEnds ==
    /\ bound # NoOne /\ lease = bound /\ ~overtaken
    /\ bound' # bound \/ (state = "quiesced" /\ state' # "quiesced")

EndsItsOwn(c) ==
    /\ route[c].by = bound /\ route[c].verb = "resume" /\ route[c].at = "called"
    /\ state' # state => At(c, "begin_warming")

QuiescenceStaysWithItsParty ==
    [][/\ HoldEnds => \E c \in Waiters : EndsItsOwn(c)
       /\ bound' \notin {bound, NoOne} => bound # NoOne \/ bound' \in asking]_lendingVars

\* The heartbeat clears a hold whose lease is gone and has no successor, whatever
\* fails meanwhile, or the service has reported a transition that failed; but for
\* a hold that was overtaken when it was bound (resume_lost_borrower_lease).
HoldClears ==
    (bound # NoOne /\ lease = NoOne /\ ~overtaken)
        ~> (bound = NoOne \/ lease # NoOne \/ failureReason # "none")

=============================================================================
