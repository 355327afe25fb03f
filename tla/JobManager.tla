----------------------------- MODULE JobManager -----------------------------
(***************************************************************************)
(* Control of managed indexing jobs (job_manager/): what an operator asks    *)
(* of a job, what its running attempt is told and answers, what the state    *)
(* file says, and how a service pause, a shutdown or a crash cuts across.    *)
(*                                                                          *)
(* The manager serialises its methods under one lock, so a method is one     *)
(* action.  What the callers do between two methods (a refused dispatch that *)
(* is then deferred or failed, a resume that is then dispatched) is a        *)
(* pending call in "calls", and everything may happen before it runs.        *)
(*                                                                          *)
(* Abstractions: jobs have distinct work identities, so admission does not   *)
(* deduplicate; attempt numbers are left out, a job having at most one       *)
(* attached task; a protected span only delays a checkpoint; a started       *)
(* attempt holds its compute ticket until it releases its resources.         *)
(***************************************************************************)
EXTENDS Naturals

CONSTANTS
    Jobs,
    Watched,      \* jobs whose owner is the watcher; the others have a caller
    Recoverable,  \* index jobs over a corpus: recovered after a crash
    Commands,     \* what operators ask of each job: paused, running, cancelled
    WriteFaults   \* how a state-file write may fail: "unpublished" (the old
                  \* file stays), "published" (replaced, not forced to disk)

ASSUME JobsAssumption ==
    /\ Watched \subseteq Jobs /\ Recoverable \subseteq Jobs
    /\ Commands \in [Jobs -> SUBSET {"paused", "running", "cancelled"}]
    /\ WriteFaults \subseteq {"unpublished", "published"}

VARIABLES
    job,    \* job records in memory: JobSnapshot state and desired_state
    disk,   \* the same records in the state file
    run,    \* how far the attached attempt task is ("none": no runtime owner)
    exit,   \* the AttemptExit of an attempt that has left its worker
    token,  \* its RunControlToken: _desired and _quiesce_requested
    calls,  \* calls that callers of the manager have yet to make, per job
    life,   \* "running", "stopping", or "down" (no process)
    gate,   \* state of the quiesce controller
    owner   \* where the owner of a resource transition stands

recordVars  == <<job, disk>>
attemptVars == <<run, exit, token>>
gateVars    == <<gate, owner>>
jobVars     == <<recordVars, attemptVars, calls, life, gateVars>>

Idle     == {"queued", "paused"}
Live     == {"running", "pausing", "cancelling"}
Settled  == {"succeeded", "failed", "cancelled", "interrupted"}
\* "shut_down" is INTERRUPTED with error kind service_shutdown.
States   == {"absent", "shut_down"} \cup Idle \cup Live \cup Settled
Intents  == {"paused", "running", "cancelled"}
Records  == [state : States, desired : Intents]
Signals  == {"pause", "cancel", "shutdown", "quiesce"}
Exits    == {"none", "done", "certified", "error"} \cup Signals
Tokens   == [desired : {"none", "pause", "cancel", "shutdown"}, quiesce : BOOLEAN]
CallKinds == {"admit", "requeue", "claim", "restore", "defer", "fail"}

NoToken == [desired |-> "none", quiesce |-> FALSE]

Init ==
    /\ job = [j \in Jobs |-> [state |-> "absent", desired |-> "running"]]
    /\ disk = job
    /\ run = [j \in Jobs |-> "none"]
    /\ exit = [j \in Jobs |-> "none"]
    /\ token = [j \in Jobs |-> NoToken]
    /\ calls = [j \in Jobs |-> {}]
    /\ life = "running"
    /\ gate = "running"
    /\ owner = "idle"

----------------------------------------------------------------------------
(* Records and their file.                                                  *)

Writes == {"durable"} \cup WriteFaults

Become(j, s, d) == [job EXCEPT ![j] = [state |-> s, desired |-> d]]

\* _persist_locked by a method that keeps its change whatever the write did.
Persist(new, w) ==
    /\ job' = new
    /\ disk' = IF w = "unpublished" THEN disk ELSE new

\* Faulty variant: a failed write is not rolled back.
TransactKept(new, w) == Persist(new, w)

\* _persist_locked by a method that rolls back a change the file never got.
Transact(new, w) ==
    IF w = "unpublished" THEN UNCHANGED recordVars ELSE Persist(new, w)

\* Whether the caller sees the method succeed, given that its change was kept.
Kept(w)      == w # "unpublished"
Succeeded(w) == w = "durable"

AddCall(j, c)  == [calls EXCEPT ![j] = @ \cup {c}]
DropCall(j, c) == [calls EXCEPT ![j] = @ \ {c}]
Pending(j, c)  == life # "down" /\ c \in calls[j]

\* Queued work without a runtime owner whose intent is to run.
Runnable(j) == job[j] = [state |-> "queued", desired |-> "running"] /\ run[j] = "none"

\* create: an error reaches the caller, who then does not dispatch.
Create(j) ==
    /\ life # "down"
    /\ job[j].state = "absent"
    /\ \E w \in Writes :
        /\ Transact(Become(j, "queued", "running"), w)
        /\ calls' = IF Succeeded(w) THEN AddCall(j, "admit") ELSE calls
    /\ UNCHANGED <<attemptVars, life, gateVars>>

----------------------------------------------------------------------------
(* Dispatch.                                                                *)

\* An ordinary dispatch supersedes a pending recovery claim.
Called(j, c) == [calls EXCEPT ![j] = @ \ {c, "claim"}]

\* begin_shutdown: dispatch stops, claims are dropped and every attached
\* attempt is signalled.
StopDispatch(pending) ==
    /\ life' = "stopping"
    /\ calls' = [j \in Jobs |-> pending[j] \ {"claim"}]
    /\ token' = [j \in Jobs |-> IF run'[j] = "none" THEN token[j]
                                ELSE [token[j] EXCEPT !.desired = "shutdown"]]

\* What the caller does about an error: a tool fails the job it admitted,
\* unless the manager is stopping; the watcher first offers to defer work that
\* the quiesce gate refused; a resume or a claim only logs; a restore that
\* cannot dispatch takes the service down.
Refused(j, c, closed) ==
    LET left == Called(j, c)
    IN  IF c = "restore" THEN StopDispatch(left)
        ELSE /\ calls' = IF c # "admit" \/ (j \notin Watched /\ life = "stopping")
                           THEN left
                         ELSE IF j \in Watched /\ closed
                           THEN [left EXCEPT ![j] = @ \cup {"defer"}]
                         ELSE [left EXCEPT ![j] = @ \cup {"fail"}]
             /\ UNCHANGED <<token, life>>

\* dispatch and start_attempt: the attempt takes a compute ticket and the
\* record says running before the worker can start.  A write that was
\* published but not forced leaves the attempt running and tells the caller
\* that it failed.
DispatchStarts(j, c) ==
    /\ Pending(j, c)
    /\ life = "running" /\ Runnable(j) /\ gate = "running"
    /\ \E w \in Writes :
        /\ Transact(Become(j, "running", "running"), w)
        /\ run' = IF Kept(w) THEN [run EXCEPT ![j] = "live"] ELSE run
        /\ IF Succeeded(w) THEN calls' = Called(j, c) /\ UNCHANGED <<token, life>>
                           ELSE Refused(j, c, FALSE)
    /\ UNCHANGED <<exit, gateVars>>

DispatchRefused(j, c) ==
    /\ Pending(j, c)
    /\ ~(life = "running" /\ Runnable(j) /\ gate = "running")
    /\ UNCHANGED <<recordVars, run, exit, gateVars>>
    /\ Refused(j, c, life = "running" /\ Runnable(j))

Dispatch(j) ==
    \E c \in {"admit", "requeue", "claim", "restore"} :
        DispatchStarts(j, c) \/ DispatchRefused(j, c)

\* defer_unstarted_for_quiesce; the watcher fails a job it could not defer.
DeferUnstarted(j) ==
    /\ Pending(j, "defer")
    /\ \/ /\ Runnable(j)
          /\ \E w \in Writes :
              /\ Transact(Become(j, "paused", "running"), w)
              /\ calls' = IF Succeeded(w) THEN DropCall(j, "defer")
                          ELSE [calls EXCEPT ![j] = (@ \ {"defer"}) \cup {"fail"}]
       \/ /\ ~Runnable(j)
          /\ calls' = [calls EXCEPT ![j] = (@ \ {"defer"}) \cup {"fail"}]
          /\ UNCHANGED recordVars
    /\ UNCHANGED <<attemptVars, life, gateVars>>

\* Faulty variant: whatever became of the job meanwhile is failed.
FailUnstartedUnchecked(j) ==
    /\ Pending(j, "fail")
    /\ \E w \in Writes : Transact(Become(j, "failed", job[j].desired), w)
    /\ calls' = DropCall(j, "fail")
    /\ UNCHANGED <<attemptVars, life, gateVars>>

\* fail_unstarted: only queued work without a runtime owner fails.
FailUnstarted(j) ==
    /\ Pending(j, "fail")
    /\ \/ /\ job[j].state = "queued" /\ run[j] = "none"
          /\ \E w \in Writes : Transact(Become(j, "failed", job[j].desired), w)
       \/ /\ ~(job[j].state = "queued" /\ run[j] = "none")
          /\ UNCHANGED recordVars
    /\ calls' = DropCall(j, "fail")
    /\ UNCHANGED <<attemptVars, life, gateVars>>

----------------------------------------------------------------------------
(* Operator intent: set_desired_state.  The intent is written before the     *)
(* attempt is signalled; the same intent again is already satisfied.         *)

Controls(j, d) ==
    /\ life # "down"
    /\ d \in Commands[j]
    /\ job[j].state \in Idle \cup Live
    /\ job[j].desired # d

\* RunControlToken.request_pause, request_cancel
RequestPause(t)  == IF t.desired \in {"cancel", "shutdown"} THEN t
                    ELSE [t EXCEPT !.desired = "pause"]
RequestCancel(t) == IF t.desired = "shutdown" THEN t
                    ELSE [t EXCEPT !.desired = "cancel"]

\* An accepted intent supersedes a pending recovery claim.
NoClaim(j) == DropCall(j, "claim")

\* _request_pause_locked
Pause(j) ==
    /\ Controls(j, "paused")
    /\ \E w \in Writes :
        \/ /\ job[j].state \in Idle
           /\ Transact(Become(j, "paused", "paused"), w)
           /\ calls' = IF Kept(w) THEN NoClaim(j) ELSE calls
           /\ UNCHANGED token
        \/ /\ job[j].state \in {"running", "pausing"}
           /\ Transact(Become(j, "pausing", "paused"), w)
           /\ token' = IF Kept(w) THEN [token EXCEPT ![j] = RequestPause(@)] ELSE token
           /\ calls' = IF Kept(w) THEN NoClaim(j) ELSE calls
    /\ UNCHANGED <<run, exit, life, gateVars>>

\* Faulty variant: a cancellation whose write was not forced is not delivered.
CancelUndelivered(j) ==
    /\ Controls(j, "cancelled")
    /\ \E w \in Writes :
        \/ /\ job[j].state \in Idle
           /\ Transact(Become(j, "cancelled", "cancelled"), w)
           /\ calls' = IF Kept(w) THEN NoClaim(j) ELSE calls
           /\ UNCHANGED token
        \/ /\ job[j].state \in {"running", "pausing"}
           /\ Transact(Become(j, "cancelling", "cancelled"), w)
           /\ token' = IF Succeeded(w) THEN [token EXCEPT ![j] = RequestCancel(@)] ELSE token
           /\ calls' = IF Kept(w) THEN NoClaim(j) ELSE calls
    /\ UNCHANGED <<run, exit, life, gateVars>>

\* _request_cancel_locked
Cancel(j) ==
    /\ Controls(j, "cancelled")
    /\ \E w \in Writes :
        \/ /\ job[j].state \in Idle
           /\ Transact(Become(j, "cancelled", "cancelled"), w)
           /\ calls' = IF Kept(w) THEN NoClaim(j) ELSE calls
           /\ UNCHANGED token
        \/ /\ job[j].state \in {"running", "pausing"}
           /\ Transact(Become(j, "cancelling", "cancelled"), w)
           /\ token' = IF Kept(w) THEN [token EXCEPT ![j] = RequestCancel(@)] ELSE token
           /\ calls' = IF Kept(w) THEN NoClaim(j) ELSE calls
    /\ UNCHANGED <<run, exit, life, gateVars>>

\* _request_resume_locked of paused work: queue a reconciliation attempt, to
\* be dispatched by the caller if the write was durable.
ResumePaused(j) ==
    /\ Controls(j, "running")
    /\ job[j].state = "paused"
    /\ \E w \in Writes :
        /\ Transact(Become(j, "queued", "running"), w)
        /\ calls' = IF Succeeded(w) THEN [calls EXCEPT ![j] = (@ \ {"claim"}) \cup {"requeue"}]
                    ELSE IF Kept(w) THEN NoClaim(j) ELSE calls
    /\ UNCHANGED <<attemptVars, life, gateVars>>

\* RunControlToken.request_resume: only an undelivered pause is withdrawn.
Withdrawable(j) == token[j].desired = "pause" /\ exit[j] # "pause"

\* The same of an attempt that was asked to pause: running is written first,
\* then the pause is withdrawn; when its delivery won the race, the record
\* goes back to pausing (_restore_delivered_pause_locked, whose own write may
\* fail) and the acknowledgement will requeue the job.
ResumePausing(j) ==
    /\ Controls(j, "running")
    /\ job[j].state = "pausing"
    /\ \/ /\ "unpublished" \in WriteFaults
          /\ UNCHANGED <<recordVars, token, calls>>
       \/ /\ Withdrawable(j)
          /\ Persist(Become(j, "running", "running"), "durable")
          /\ token' = [token EXCEPT ![j].desired = "none"]
          /\ calls' = NoClaim(j)
       \/ /\ ~Withdrawable(j)
          /\ job' = Become(j, "pausing", "running")
          /\ disk' \in {job'} \cup (IF "unpublished" \in WriteFaults
                                     THEN {Become(j, "running", "running")} ELSE {})
          /\ calls' = NoClaim(j)
          /\ UNCHANGED token
    /\ UNCHANGED <<run, exit, life, gateVars>>

Command(j) == Pause(j) \/ Cancel(j) \/ ResumePaused(j) \/ ResumePausing(j)

----------------------------------------------------------------------------
(* The attempt: _run_attempt and its done callback _complete_attempt.        *)

\* The request a checkpoint delivers: _take_signal_locked.
Signal(t) == IF t.desired # "none" THEN t.desired
             ELSE IF t.quiesce THEN "quiesce" ELSE "none"

\* The attempt leaves its worker at a checkpoint, or by ending: certified
\* (its generation was published), done without publication, or in error.
Checkpoint(j) ==
    /\ run[j] = "live"
    /\ Signal(token[j]) # "none"
    /\ run' = [run EXCEPT ![j] = "unwound"]
    /\ exit' = [exit EXCEPT ![j] = Signal(token[j])]
    /\ UNCHANGED <<recordVars, token, calls, life, gateVars>>

WorkEnds(j) ==
    /\ run[j] = "live"
    /\ run' = [run EXCEPT ![j] = "unwound"]
    /\ \E e \in {"done", "certified", "error"} : exit' = [exit EXCEPT ![j] = e]
    /\ UNCHANGED <<recordVars, token, calls, life, gateVars>>

\* release_execution_resources: the ticket goes whatever the write does.
Release(j) ==
    /\ run[j] = "unwound"
    /\ run' = [run EXCEPT ![j] = "released"]
    /\ \E w \in Writes : Persist(job, w)
    /\ UNCHANGED <<exit, token, calls, life, gateVars>>

\* assign_runtime_owner(managed, UNOWNED_RUNTIME)
Disown(j) ==
    /\ run' = [run EXCEPT ![j] = "none"]
    /\ exit' = [exit EXCEPT ![j] = "none"]
    /\ token' = [token EXCEPT ![j] = NoToken]

\* finish_attempt keeps its change in memory when the write fails.
Finish(j, s) ==
    /\ Disown(j)
    /\ \E w \in Writes : Persist(Become(j, s, job[j].desired), w)
    /\ UNCHANGED calls

\* acknowledge_control, and the dispatch that follows a durable requeue.  With
\* no control pending the acknowledgement is ignored: the finished task stays
\* the job's runtime owner.
Acknowledge(j) ==
    \/ /\ job[j].state \notin {"pausing", "cancelling"}
       /\ run' = [run EXCEPT ![j] = "abandoned"]
       /\ UNCHANGED <<recordVars, exit, token, calls>>
    \/ /\ job[j] = [state |-> "pausing", desired |-> "running"]
       /\ gate # "running"
       /\ Disown(j)
       /\ \E w \in Writes : Persist(Become(j, "paused", "running"), w)
       /\ UNCHANGED calls
    \/ /\ job[j] = [state |-> "pausing", desired |-> "running"]
       /\ gate = "running"
       /\ Disown(j)
       /\ \E w \in Writes :
            /\ Persist(Become(j, "queued", "running"), w)
            /\ calls' = IF Succeeded(w) THEN AddCall(j, "requeue") ELSE calls
    \/ /\ job[j].state = "pausing" /\ job[j].desired # "running"
       /\ Disown(j)
       /\ \E w \in Writes : Persist(Become(j, "paused", "paused"), w)
       /\ UNCHANGED calls
    \/ /\ job[j].state = "cancelling"
       /\ Disown(j)
       /\ \E w \in Writes : Persist(Become(j, "cancelled", "cancelled"), w)
       /\ UNCHANGED calls

Stopped(j) == exit[j] \in Signals \/ job[j].state \in {"pausing", "cancelling"}

\* _commit_attempt_exit: an error or a shutdown ends the job; an attempt that
\* was stopped, or asked to, acknowledges that unless it published its work.
\* A write that fails is tried once more, so it fails here only if both did.
Complete(j) ==
    /\ run[j] = "released"
    /\ \/ exit[j] = "error"    /\ Finish(j, "failed")
       \/ exit[j] = "shutdown" /\ Finish(j, "shut_down")
       \/ exit[j] \in {"done", "pause", "cancel", "quiesce"} /\ Stopped(j) /\ Acknowledge(j)
       \/ exit[j] = "done" /\ ~Stopped(j) /\ Finish(j, "succeeded")
       \/ exit[j] = "certified" /\ Finish(j, "succeeded")
    /\ UNCHANGED <<life, gateVars>>

AttemptStep(j) == Checkpoint(j) \/ Release(j) \/ Complete(j)

----------------------------------------------------------------------------
(* A service pause and resume, as far as jobs are concerned                  *)
(* (_service_residency.py; ResourceTransition has the rest of it).           *)

Owner(from, to) == owner = from /\ owner' = to

BeginPause ==
    /\ life # "down"
    /\ gate = "running" /\ gate' = "pausing"
    /\ Owner("idle", "request")
    /\ UNCHANGED <<recordVars, attemptVars, calls, life>>

\* Faulty variant: the signal is sent before the record is known to be kept.
RequestQuiesceSignalsFirst ==
    LET asked == {j \in Jobs : job[j].state = "running" /\ run[j] # "none"}
        held  == [j \in Jobs |-> IF j \in asked
                    THEN [state |-> "pausing", desired |-> "running"] ELSE job[j]]
    IN  /\ Owner("request", "drain")
        /\ \E w \in Writes : Transact(held, w)
        /\ token' = [j \in Jobs |-> IF j \in asked
                       THEN [token[j] EXCEPT !.quiesce = TRUE] ELSE token[j]]
        /\ UNCHANGED <<run, exit, calls, life, gate>>

\* request_quiesce_attempts: every running attempt is recorded as pausing and
\* then signalled; after a write that was not forced it is not signalled.
RequestQuiesceAttempts ==
    LET asked == {j \in Jobs : job[j].state = "running" /\ run[j] # "none"}
        held  == [j \in Jobs |-> IF j \in asked
                    THEN [state |-> "pausing", desired |-> "running"] ELSE job[j]]
    IN  /\ Owner("request", "drain")
        /\ \E w \in Writes :
            /\ Transact(held, w)
            /\ token' = IF Succeeded(w)
                          THEN [j \in Jobs |-> IF j \in asked
                                  THEN [token[j] EXCEPT !.quiesce = TRUE] ELSE token[j]]
                          ELSE token
        /\ UNCHANGED <<run, exit, calls, life, gate>>

\* Attempts whose compute ticket the drain waits for.
Computing == {j \in Jobs : run[j] \in {"live", "unwound"}}

Quiesced ==
    /\ Computing = {}
    /\ gate' = "quiesced"
    /\ Owner("drain", "idle")
    /\ UNCHANGED <<recordVars, attemptVars, calls, life>>

\* The drain timed out, or the release failed: the pause stays unfinished.
PauseFails ==
    /\ Owner("drain", "idle")
    /\ UNCHANGED <<recordVars, attemptVars, calls, life, gate>>

\* A resume warms a quiesced service, aborts an unfinished pause, and of a
\* running service only reconciles held work.
BeginResume ==
    /\ life # "down"
    /\ \/ gate \in {"quiesced", "warming"} /\ gate' = "warming" /\ Owner("idle", "prepare")
       \/ gate = "pausing" /\ Owner("idle", "prepare") /\ UNCHANGED gate
       \/ gate = "running" /\ Owner("idle", "reopened") /\ UNCHANGED gate
    /\ UNCHANGED <<recordVars, attemptVars, calls, life>>

\* prepare_quiesced_resume: held work is queued, queued work is retained.
Held == {j \in Jobs : /\ job[j].state \in Idle
                      /\ job[j].desired = "running"
                      /\ run[j] = "none"}
Prepared == [j \in Jobs |-> IF j \in Held THEN [job[j] EXCEPT !.state = "queued"]
                                          ELSE job[j]]

PrepareQuiescedResume ==
    /\ owner = "prepare"
    /\ \E w \in Writes :
        /\ Transact(Prepared, w)
        /\ owner' = IF Succeeded(w) THEN "reopen" ELSE "idle"
    /\ UNCHANGED <<attemptVars, calls, life, gate>>

Reopen ==
    /\ Owner("reopen", "reopened")
    /\ gate' = "running"
    /\ UNCHANGED <<recordVars, attemptVars, calls, life>>

\* Faulty variant: held work is prepared only before admission opens.
ReopenedUnchecked ==
    /\ Owner("reopened", "idle")
    /\ UNCHANGED <<recordVars, attemptVars, calls, life, gate>>

\* _complete_reopened_recovery: work that was acknowledged while admission
\* opened is prepared too, and all of it is claimed for dispatch; when it
\* cannot be written, admission is closed again.
CompleteReopenedRecovery ==
    /\ Owner("reopened", "idle")
    /\ \E w \in Writes :
        /\ Transact(Prepared, w)
        /\ \/ /\ Succeeded(w)
              /\ calls' = [j \in Jobs |-> calls[j] \cup
                            IF j \in Held /\ life = "running" THEN {"claim"} ELSE {}]
              /\ UNCHANGED gate
           \/ /\ ~Succeeded(w)
              /\ gate' = "pausing"
              /\ UNCHANGED calls
    /\ UNCHANGED <<attemptVars, life>>

PauseStep == RequestQuiesceAttempts \/ Quiesced
ResumeStep == PrepareQuiescedResume \/ Reopen \/ CompleteReopenedRecovery

----------------------------------------------------------------------------
(* The life of the process.                                                 *)

\* begin_shutdown
BeginShutdown ==
    /\ life = "running"
    /\ run' = run
    /\ StopDispatch(calls)
    /\ UNCHANGED <<recordVars, exit, gateVars>>

\* What a process leaves behind: its file.
Down ==
    /\ job' = disk'
    /\ run' = [j \in Jobs |-> "none"]
    /\ exit' = [j \in Jobs |-> "none"]
    /\ token' = [j \in Jobs |-> NoToken]
    /\ calls' = [j \in Jobs |-> {}]
    /\ life' = "down"
    /\ gate' = "running"
    /\ owner' = "idle"

\* wait_for_shutdown finds every attempt released and flushes the records.
CompleteShutdown ==
    /\ life = "stopping"
    /\ \A j \in Jobs : run[j] = "none"
    /\ \E w \in Writes : disk' = IF Kept(w) THEN job ELSE disk
    /\ Down

\* The process dies, or exits over attempts that did not release in time.
Crash ==
    /\ life # "down"
    /\ disk' = disk
    /\ Down

\* Faulty variant: recovered work runs again whatever was asked of it.
RestoreRequeuesAll(j) ==
    LET r == disk[j]
    IN  IF r.state = "paused" \/ (j \in Recoverable /\ r.state \in Live \cup {"shut_down"})
          THEN [state |-> "queued", desired |-> "running"]
        ELSE IF r.state \in Live THEN [r EXCEPT !.state = "interrupted"]
        ELSE r

\* _restore_snapshot_locked: idle work is kept, an interrupted attempt over a
\* corpus is recovered to what its intent asks, any other is interrupted.
Restored(j) ==
    LET r         == disk[j]
        recovered == j \in Recoverable /\ r.state \in Live \cup {"shut_down"}
    IN  IF r.desired = "running" /\ (r.state = "paused" \/ recovered)
          THEN [r EXCEPT !.state = "queued"]
        ELSE IF recovered THEN [r EXCEPT !.state = r.desired]
        ELSE IF r.state \in Live THEN [r EXCEPT !.state = "interrupted"]
        ELSE r

\* _start_job_manager: a start whose restore cannot be written fails; queued
\* work is dispatched after a restore that could.
Restart ==
    /\ life = "down"
    /\ \E w \in Writes :
        /\ Transact([j \in Jobs |-> Restored(j)], w)
        /\ life' = IF Succeeded(w) THEN "running" ELSE "down"
    /\ calls' = [j \in Jobs |->
                  IF life' = "running" /\ job'[j].state = "queued" THEN {"restore"} ELSE {}]
    /\ UNCHANGED <<attemptVars, gateVars>>

----------------------------------------------------------------------------

CallStep(j) == Dispatch(j) \/ DeferUnstarted(j) \/ FailUnstarted(j)
LifeStep    == BeginShutdown \/ CompleteShutdown \/ Crash \/ Restart
GateStep    == BeginPause \/ PauseStep \/ PauseFails \/ BeginResume \/ ResumeStep

Next ==
    \/ \E j \in Jobs : Create(j) \/ CallStep(j) \/ Command(j) \/ AttemptStep(j) \/ WorkEnds(j)
    \/ GateStep
    \/ LifeStep

Spec == Init /\ [][Next]_jobVars

\* A worker reaches its next checkpoint and its cleanup runs.  The work itself
\* may go on for ever, and an operator, a caller or a restart may never come.
FairSpec == Spec /\ \A j \in Jobs : WF_jobVars(AttemptStep(j))

----------------------------------------------------------------------------

\* Every variable keeps its type, and an attempt's exit and control token are
\* gone with the task that owns them (JobRuntimeOwner): the next attempt starts
\* unsignalled.
TypeOK ==
    /\ job \in [Jobs -> Records]
    /\ disk \in [Jobs -> Records]
    /\ run \in [Jobs -> {"none", "live", "unwound", "released", "abandoned"}]
    /\ exit \in [Jobs -> Exits]
    /\ token \in [Jobs -> Tokens]
    /\ calls \in [Jobs -> SUBSET CallKinds]
    /\ life \in {"running", "stopping", "down"}
    /\ gate \in {"running", "pausing", "quiesced", "warming"}
    /\ owner \in {"idle", "request", "drain", "prepare", "reopen", "reopened"}
    /\ \A j \in Jobs : run[j] = "none" => exit[j] = "none" /\ token[j] = NoToken

\* What an operator was told is what a restart will read: the intent in memory
\* is the intent in the file, across failed writes, rollbacks and completions
\* that keep their change in memory only.
IntentIsDurable == \A j \in Jobs : job[j].desired = disk[j].desired

\* Jobs that no operator resumes by hand.
Unresumed == {j \in Jobs : "running" \notin Commands[j]}

\* A working attempt is told to pause or to cancel exactly while its record says
\* that an operator asked for it: the signal follows a write that was kept, be it
\* forced or only published, and no write that was rolled back, and a resume
\* withdraws both or neither.  A service pause signals no attempt whose record
\* an acknowledgement could not settle.  (The reverse does not hold for it: after
\* a write that was published but not forced, records are left pausing without a
\* signal.)
SignalMatchesRecord ==
    \A j \in Jobs : run[j] = "live" =>
        /\ token[j].desired # "shutdown" =>
             /\ (job[j].desired = "paused") <=> (token[j].desired = "pause")
             /\ (job[j].state = "cancelling") <=> (token[j].desired = "cancel")
        /\ j \in Unresumed /\ token[j].quiesce => job[j].state \in {"pausing", "cancelling"}

\* Work that is paused or cancelled is never queued for another attempt behind
\* the operator's back: not by the end of a service pause, a requeue after an
\* unwind, or the recovery of a crash.
OnlyIntentQueues ==
    [][\A j \in Jobs :
        (job[j].state \notin {"absent", "queued"} /\ job'[j].state = "queued")
            => job[j].desired = "running" \/ ResumePaused(j)]_jobVars

\* Outcomes that reached the file are final: no late completion, recovery or
\* deferred call rewrites them.
OutcomesAreFinal ==
    [][\A j \in Jobs : disk[j].state \in Settled => disk'[j] = disk[j]]_jobVars

\* When a service pause is over, no work it held is left behind: whichever
\* acknowledgement raced the reopening, there is none paused whose operator
\* wants it running.  (Known exceptions: a job resumed by hand, or a watcher's,
\* which defers a refused dispatch late.)
HeldWorkReturns ==
    (life # "down" /\ gate = "running" /\ owner = "idle") =>
        \A j \in Unresumed \ Watched : job[j] # [state |-> "paused", desired |-> "running"]

\* A finished attempt always lets go of its job, unless an operator resumed it.
\* (Known exception: a pause and a resume by hand while a service pause unwinds
\* the attempt put the record back to running under an attempt that ends.)
AttemptsLetGo == \A j \in Unresumed : run[j] # "abandoned"

\* Every pause and cancellation of a working attempt is settled.
ControlSettles ==
    \A j \in Unresumed :
        (life # "down" /\ job[j].state \in {"pausing", "cancelling"} /\ job[j].desired # "running")
            ~> (life = "down" \/ job[j].state \notin {"pausing", "cancelling"}
                              \/ job[j].desired = "running")

=============================================================================
