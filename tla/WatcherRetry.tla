---------------------------- MODULE WatcherRetry ----------------------------
(***************************************************************************)
(* The durable retry authority of one watched root and source: the policy  *)
(* file that owes changed paths to the index, the attempts that capture    *)
(* them, the recovery markers a cancelled transaction leaves when it       *)
(* cannot take the file's lock, the operator's full rebuild that pays off  *)
(* what the file could not keep exactly, and the restart that matches an   *)
(* attempt left behind with the job that carried it out.                   *)
(* Every transaction takes the file's lock, reads the file, consumes the   *)
(* markers it may and writes the result, so it is one step; writing a      *)
(* marker takes no lock, and a worker thread whose coroutine was cancelled *)
(* may still commit.  An attempt's token and its job's id are one id.      *)
(***************************************************************************)
EXTENDS Naturals, FiniteSets, FiniteSetsExt, Functions

CONSTANTS
    Paths,        \* the watched files
    MaxScope,     \* how many observations the policy file may keep
    MaxAttempts,  \* bound: attempts reserved
    MaxOpens,     \* bound: watchers opened, over all processes
    MaxProcs      \* bound: processes of the service

ASSUME WatcherAssumption == {MaxScope, MaxAttempts, MaxOpens, MaxProcs} \subseteq Nat \ {0}

VARIABLES
    file,      \* the policy file: what is owed, and the attempt in flight
    markers,   \* the recovery marker files
    proc, up,  \* which process of the service, and whether it runs
    opens,     \* watchers opened so far, each with a policy object
    cur,       \* the running watcher's policy object, 0 when there is none
    phase,     \* how far that watcher has opened
    owned,     \* policy object -> the attempt it owns
    reserved,  \* the process's admission reservations: id -> worker active
    ids,       \* attempts reserved so far
    intake,    \* the observations being persisted, and by which policy
    turn,      \* the admission in progress
    threads,   \* transactions whose coroutine was cancelled, still running
    settling,  \* settlements in progress
    job,       \* the job manager's history, by attempt
    rebuild,   \* the operator's full rebuild
    owed,      \* accepted observations no index run has covered since
    closed     \* attempts settled, fenced by a marker or released

watcherVars == <<file, markers, proc, up, opens, cur, phase, owned, reserved, ids, intake,
                 turn, threads, settling, job, rebuild, owed, closed>>

None == 0
Ids == 1..MaxAttempts
Policies == 0..MaxOpens    \* 0: the passing policy of a rebuild's reconciliation
NoAttempt == [id |-> None, owner |-> None]
NoTurn == [by |-> 0, id |-> None, stage |-> "idle", outcome |-> "none"]
NoIntake == [by |-> 0, batch |-> {}]
NoRebuild == [phase |-> "none", fresh |-> FALSE, quiet |-> FALSE, first |-> FALSE, since |-> {}]
NoJob == [state |-> "absent", by |-> 0, scope |-> {}, since |-> {}]
Outcomes == {"succeeded", "failed", "refused", "interrupted"}

WatcherInit ==
    /\ file = [pending |-> {}, captured |-> {}, refused |-> FALSE, unscoped |-> FALSE,
               attempt |-> NoAttempt]
    /\ markers = {} /\ proc = 1 /\ up = TRUE
    /\ opens = 0 /\ cur = 0 /\ phase = "off" /\ owned = [i \in Policies |-> None]
    /\ reserved = <<>> /\ ids = 0 /\ intake = NoIntake /\ turn = NoTurn
    /\ threads = {} /\ settling = {} /\ job = [i \in Ids |-> NoJob]
    /\ rebuild = NoRebuild /\ owed = {} /\ closed = {}

----------------------------------------------------------------------------
(* The policy file.                                                          *)

\* The file without its attempt, whose captured paths are pending again.
Restored(f) == [f EXCEPT !.pending = @ \cup f.captured, !.captured = {}, !.attempt = NoAttempt]

\* Faulty variant: a marker of this process is consumed while a worker still admits.
ConsumableWhileAdmitting(m, i) == TRUE

\* A marker is consumed by whoever knows its attempt, once its owner is dead, and
\* in its own process once no worker is still admitting that attempt.
Consumable(m, i) ==
    \/ m.id \in {None, file.attempt.id, owned[i]}
    \/ m.owner # proc
    \/ m.id \in DOMAIN reserved => ~reserved[m.id]

Spent(i) == {m \in markers : Consumable(m, i)}
Fenced(i) == {m.id : m \in Spent(i)} \ {None}

\* What a policy object sees when it has the lock: the file after the markers
\* it consumes, and its claims without those the markers fence.
RecoveredFile(i) ==
    LET lost == [file EXCEPT !.refused = TRUE, !.unscoped = TRUE] IN
    IF Spent(i) = {} THEN file
    ELSE IF file.attempt.id \in Fenced(i) THEN Restored(lost) ELSE lost

OwnedAfter(i) == IF owned[i] \in Fenced(i) THEN None ELSE owned[i]

ReservedAfter(i) ==
    Restrict(reserved, {k \in DOMAIN reserved :
                           k \in Fenced(i) => reserved[k] /\ owned[i] # k})

Dropped(k, r) == Restrict(r, DOMAIN r \ {k})

\* The rebuild's start against the file's clocks: refusals and updates recorded
\* from now on are later than a rebuild that already started.  One that ended
\* before a refusal is of no more use.
Outdated(r, refusal, update) ==
    IF refusal /\ r.phase = "done" THEN NoRebuild
    ELSE [r EXCEPT !.fresh = @ /\ ~refusal, !.quiet = @ /\ ~update]

\* One transaction of policy object i: the markers it consumes, then its write.
Transaction(i, newFile, newOwned, newReserved) ==
    /\ file' = newFile
    /\ markers' = markers \ Spent(i)
    /\ owned' = [owned EXCEPT ![i] = newOwned]
    /\ reserved' = newReserved

\* What consuming the markers tells the ghosts and the rebuild.
Consumed(i) == Outdated(rebuild, Spent(i) # {}, Spent(i) # {})

Refresh ==
    /\ up /\ phase = "on" /\ Spent(cur) # {}
    /\ Transaction(cur, RecoveredFile(cur), OwnedAfter(cur), ReservedAfter(cur))
    /\ rebuild' = Consumed(cur)
    /\ closed' = closed \cup Fenced(cur)
    /\ UNCHANGED <<proc, up, opens, cur, phase, ids, intake, turn, threads, settling, job, owed>>

----------------------------------------------------------------------------
(* Observing changes.                                                        *)

Observe(p) ==
    /\ up /\ phase = "on" /\ intake = NoIntake
    /\ intake' = [by |-> cur, batch |-> {p}]
    /\ UNCHANGED <<file, markers, proc, up, opens, cur, phase, owned, reserved, ids, turn,
                   threads, settling, job, rebuild, owed, closed>>

\* The observations become the service's debt, later than every index run that
\* already started.
Accepted(batch) ==
    /\ owed' = owed \cup batch
    /\ job' = [i \in Ids |-> [job[i] EXCEPT !.since = IF job[i].state = "running"
                                                       THEN @ \cup batch ELSE @]]

\* A batch that does not fit is not stored: the refusal stands for it.
MarkScopePending ==
    LET i == intake.by
        f == RecoveredFile(i)
        merged == f.pending \cup intake.batch
        fits == Cardinality(merged) + Cardinality(f.captured) <= MaxScope IN
    /\ up /\ i # 0
    /\ Transaction(i, IF fits THEN [f EXCEPT !.pending = merged]
                              ELSE [f EXCEPT !.refused = TRUE],
                   OwnedAfter(i), ReservedAfter(i))
    /\ Accepted(intake.batch)
    /\ rebuild' = [Outdated(Consumed(i), ~fits, TRUE) EXCEPT
                      !.since = IF rebuild.phase = "running" THEN @ \cup intake.batch ELSE @]
    /\ closed' = closed \cup Fenced(i)
    /\ intake' = NoIntake
    /\ UNCHANGED <<proc, up, opens, cur, phase, ids, turn, threads, settling>>

\* The lock-free handoff of a transaction the loop stopped waiting for: the
\* marker names the attempt its policy owns, whose reservation ends unless a
\* worker is admitting it.
WriteRecoveryMarker(i) ==
    /\ markers' = markers \cup {[id |-> owned[i], owner |-> proc]}
    /\ reserved' = Restrict(reserved, {k \in DOMAIN reserved : k = owned[i] => reserved[k]})

Stopping == up /\ phase = "off"

\* The loop ends before the observations are durable: a marker stands for them,
\* or, when that fails too, they were never accepted.
CancelIntake ==
    /\ Stopping /\ intake # NoIntake
    /\ intake' = NoIntake
    /\ \/ /\ WriteRecoveryMarker(intake.by) /\ Accepted(intake.batch)
          /\ rebuild' = [rebuild EXCEPT !.since = IF rebuild.phase = "running"
                                                  THEN @ \cup intake.batch ELSE @]
       \/ UNCHANGED <<markers, reserved, job, owed, rebuild>>
    /\ UNCHANGED <<file, proc, up, opens, cur, phase, owned, ids, turn, threads, settling, closed>>

----------------------------------------------------------------------------
(* Admission: reserve a token, activate it, capture the pending paths with   *)
(* the attempt, create the job.                                              *)

ReserveAdmission ==
    /\ up /\ phase = "on" /\ turn = NoTurn /\ ids < MaxAttempts
    /\ file.pending # {} /\ ~file.refused /\ owned[cur] = None
    /\ ids' = ids + 1
    /\ owned' = [owned EXCEPT ![cur] = ids + 1]
    /\ reserved' = [k \in DOMAIN reserved \cup {ids + 1} |->
                        IF k = ids + 1 THEN FALSE ELSE reserved[k]]
    /\ turn' = [NoTurn EXCEPT !.by = cur, !.id = ids + 1, !.stage = "reserved"]
    /\ UNCHANGED <<file, markers, proc, up, opens, cur, phase, intake, threads, settling, job,
                   rebuild, owed, closed>>

\* The worker thread of admission t, whose coroutine waits for it or is gone,
\* goes on as u; a thread that ends leaves nothing behind.
ThreadGoesOn(t, u) ==
    \/ t = turn /\ turn' = u /\ UNCHANGED threads
    \/ t \in threads /\ UNCHANGED turn
       /\ threads' = (threads \ {t}) \cup (IF u.stage = "active" THEN {u} ELSE {})

\* A reservation the handoff took away cancels the admission before the lock.
ActivateAdmission(t) ==
    /\ up /\ t.stage = "reserved"
    /\ IF t.id \in DOMAIN reserved /\ owned[t.by] = t.id
       THEN /\ reserved' = [reserved EXCEPT ![t.id] = TRUE]
            /\ ThreadGoesOn(t, [t EXCEPT !.stage = "active"])
            /\ UNCHANGED owned
       ELSE /\ owned' = [owned EXCEPT ![t.by] = IF @ = t.id THEN None ELSE @]
            /\ ThreadGoesOn(t, NoTurn)
            /\ UNCHANGED reserved
    /\ UNCHANGED <<file, markers, proc, up, opens, cur, phase, ids, intake, settling, job, rebuild,
                   owed, closed>>

Admissible(f) == f.pending # {} /\ ~f.refused /\ f.attempt = NoAttempt

\* Under the lock: refused when the token was handed off, when nothing may be
\* admitted or while a retry delay runs (delayed); else the pending paths are
\* captured.
AdmitReserved(t, delayed) ==
    LET f == RecoveredFile(t.by)
        mine == OwnedAfter(t.by) = t.id
        admits == mine /\ Admissible(f) /\ ~delayed IN
    /\ up /\ t.stage = "active"
    /\ Transaction(t.by,
                   IF admits THEN [f EXCEPT !.pending = {}, !.captured = f.pending,
                                            !.attempt = [id |-> t.id, owner |-> proc]]
                   ELSE f,
                   IF admits \/ ~mine THEN OwnedAfter(t.by) ELSE None,
                   Dropped(t.id, ReservedAfter(t.by)))
    /\ rebuild' = [Outdated(Consumed(t.by), FALSE, admits) EXCEPT !.first = @ /\ ~admits]
    /\ closed' = closed \cup Fenced(t.by)
    /\ ThreadGoesOn(t, IF admits THEN [t EXCEPT !.stage = "admitted"] ELSE NoTurn)
    /\ UNCHANGED <<proc, up, opens, cur, phase, ids, intake, settling, job, owed>>

\* The file or its lock is unavailable: the coroutine, when there is one, tries
\* again with what is left of its reservation.
AdmissionUnavailable(t) ==
    /\ up /\ t.stage = "active"
    /\ IF t.id \in DOMAIN reserved
       THEN reserved' = [reserved EXCEPT ![t.id] = FALSE] /\ UNCHANGED owned
       ELSE /\ owned' = [owned EXCEPT ![t.by] = IF @ = t.id THEN None ELSE @]
            /\ UNCHANGED reserved
    /\ ThreadGoesOn(t, [t EXCEPT !.stage = "reserved"])
    /\ UNCHANGED <<file, markers, proc, up, opens, cur, phase, ids, intake, settling, job,
                   rebuild, owed, closed>>

CancelAdmission ==
    /\ Stopping /\ turn.stage \in {"reserved", "active"}
    /\ threads' = threads \cup {turn} /\ turn' = NoTurn
    /\ WriteRecoveryMarker(turn.by) \/ UNCHANGED <<markers, reserved>>
    /\ UNCHANGED <<file, proc, up, opens, cur, phase, owned, ids, intake, settling, job, rebuild,
                   owed, closed>>

\* The captured paths become the scope of one job.  Equivalent work in flight,
\* a failure before creation or a cancellation settles the attempt instead.
CreateJob ==
    /\ up /\ turn.stage = "admitted"
    /\ turn' = NoTurn
    /\ \/ /\ \A k \in Ids : job[k].state # "running"
          /\ job' = [job EXCEPT ![turn.id] = [state |-> "running", by |-> turn.by,
                                              scope |-> file.captured, since |-> {}]]
          /\ UNCHANGED settling
       \/ /\ \E o \in {"failed", "interrupted"} :
                settling' = settling \cup {[by |-> turn.by, id |-> turn.id, outcome |-> o]}
          /\ UNCHANGED job
    /\ UNCHANGED <<file, markers, proc, up, opens, cur, phase, owned, reserved, ids, intake,
                   threads, rebuild, owed, closed>>

----------------------------------------------------------------------------
(* The job's end and the settlement of its attempt.                          *)

Covers(scope, since) == owed' = owed \ (scope \ since)

\* Only a job the watcher dispatched in this process settles its attempt: one
\* the manager restored was bound again without the watcher's callback.
JobEnds(i, o) ==
    /\ up /\ job[i].state = "running"
    /\ job' = [job EXCEPT ![i] = [NoJob EXCEPT !.state = o, !.by = job[i].by]]
    /\ IF o = "succeeded" THEN Covers(job[i].scope, job[i].since) ELSE UNCHANGED owed
    /\ settling' = settling \cup
                     {[by |-> p, id |-> i, outcome |-> o] : p \in {job[i].by} \ {0}}
    /\ UNCHANGED <<file, markers, proc, up, opens, cur, phase, owned, reserved, ids, intake, turn,
                   threads, rebuild, closed>>

\* Faulty variant: any attempt in the file takes the outcome.
AnyAttempt(f, s) == f.attempt # NoAttempt

\* The outcome must belong to the attempt in the file and to this policy.
ActiveAttempt(f, s) == f.attempt.id = s.id /\ OwnedAfter(s.by) = s.id

\* Faulty variant: success drops what was observed during the run as well.
SettledDropsPending(f, o) ==
    IF o = "succeeded" THEN [f EXCEPT !.captured = {}, !.pending = {}, !.attempt = NoAttempt]
                       ELSE Restored(f)

\* Success drops the captured paths alone; any other outcome returns them.
Settled(f, o) ==
    LET settled == IF o = "succeeded" THEN [f EXCEPT !.captured = {}, !.attempt = NoAttempt]
                                      ELSE Restored(f) IN
    [settled EXCEPT !.refused = @ \/ o = "refused"]

\* A settlement (of a task, or of a thread left behind by one) whose attempt is
\* no longer active fails and changes nothing but the markers.  A recovered
\* outcome carries the time the job ended, so it may not count as news (aged).
Settle(s, aged) ==
    LET f == RecoveredFile(s.by)
        active == ActiveAttempt(f, s) IN
    /\ up /\ (aged => job[s.id].by # s.by)
    /\ Transaction(s.by, IF active THEN Settled(f, s.outcome) ELSE f,
                   IF active THEN None ELSE OwnedAfter(s.by),
                   IF active THEN Dropped(s.id, ReservedAfter(s.by)) ELSE ReservedAfter(s.by))
    /\ rebuild' = Outdated(Consumed(s.by),
                           active /\ ~aged /\ ~f.refused /\ s.outcome \in {"failed", "refused"},
                           active /\ ~aged)
    /\ closed' = closed \cup Fenced(s.by) \cup (IF active THEN {s.id} ELSE {})
    /\ UNCHANGED <<proc, up, opens, ids, intake, turn, job, owed>>

\* A watcher that cannot settle what it recovered does not open.
SettlementEnds(s, aged) ==
    /\ s \in settling /\ Settle(s, aged)
    /\ settling' = settling \ {s}
    /\ IF phase = "settling" /\ s.by = cur /\ ~ActiveAttempt(RecoveredFile(s.by), s)
       THEN phase' = "off" /\ cur' = 0
       ELSE UNCHANGED <<phase, cur>>
    /\ UNCHANGED threads

ThreadSettles(s, aged) ==
    /\ s \in threads /\ s.stage = "settle" /\ Settle(s, aged)
    /\ threads' = threads \ {s}
    /\ UNCHANGED <<settling, phase, cur>>

CancelSettlement(s) ==
    /\ Stopping /\ s \in settling
    /\ settling' = settling \ {s}
    /\ threads' = threads \cup {[by |-> s.by, id |-> s.id, stage |-> "settle",
                                 outcome |-> s.outcome]}
    /\ WriteRecoveryMarker(s.by) \/ UNCHANGED <<markers, reserved>>
    /\ UNCHANGED <<file, proc, up, opens, cur, phase, owned, ids, intake, turn, job, rebuild, owed,
                   closed>>

----------------------------------------------------------------------------
(* The operator's full rebuild.                                              *)

RebuildStarts ==
    /\ up /\ rebuild.phase # "running" /\ file.refused
    /\ rebuild' = [phase |-> "running", fresh |-> TRUE, quiet |-> TRUE, first |-> TRUE,
                   since |-> {}]
    /\ UNCHANGED <<file, markers, proc, up, opens, cur, phase, owned, reserved, ids, intake,
                   turn, threads, settling, job, owed, closed>>

RebuildEnds ==
    /\ up /\ rebuild.phase = "running"
    /\ rebuild' = IF rebuild.fresh THEN [rebuild EXCEPT !.phase = "done", !.since = {}]
                  ELSE NoRebuild
    /\ Covers(Paths, rebuild.since)
    /\ UNCHANGED <<file, markers, proc, up, opens, cur, phase, owned, reserved, ids, intake,
                   turn, threads, settling, job, closed>>

\* An attempt whose process is gone may be given up for a rebuild (resolve).
Releases(f, resolve) == resolve /\ f.attempt # NoAttempt /\ f.attempt.owner # proc

\* The rebuild must have started after every refusal on record, after the
\* attempt it gives up, and after the last update when what is owed is unknown.
Eligible(f, r, resolve) ==
    /\ r.phase = "done" /\ r.fresh
    /\ f.refused \/ Releases(f, resolve)
    /\ Releases(f, resolve) => r.first
    /\ f.unscoped => r.quiet

\* Its refusal cleared, the file still owes every path it holds.
ReconcileRebuild(i, resolve) ==
    LET f == RecoveredFile(i)
        releases == Releases(f, resolve)
        rebuilt == [f EXCEPT !.refused = FALSE, !.unscoped = FALSE] IN
    /\ Eligible(f, Consumed(i), resolve)
    /\ Transaction(i, IF releases THEN Restored(rebuilt) ELSE rebuilt,
                   IF releases THEN None ELSE OwnedAfter(i),
                   IF releases THEN Dropped(f.attempt.id, ReservedAfter(i)) ELSE ReservedAfter(i))
    /\ rebuild' = Consumed(i)
    /\ closed' = closed \cup Fenced(i) \cup (IF releases THEN {f.attempt.id} ELSE {})

ReconcileCompletedRebuild ==
    /\ up /\ ReconcileRebuild(0, FALSE)
    /\ UNCHANGED <<proc, up, opens, cur, phase, ids, intake, turn, threads, settling, job, owed>>

----------------------------------------------------------------------------
(* Opening and stopping a watcher, crash and restart.                        *)

\* A watcher opens once the previous one of its process has released what it
\* ran.  An attempt of a dead process is adopted, unless this process already
\* adopted it for an earlier watcher: then the watcher is removed.
Open ==
    LET i == opens + 1
        f == RecoveredFile(i)
        abandoned == f.attempt # NoAttempt /\ f.attempt.owner # proc IN
    /\ up /\ phase = "off" /\ opens < MaxOpens
    /\ intake = NoIntake /\ turn = NoTurn /\ settling = {}
    /\ \A k \in Ids : job[k].state = "running" => job[k].by = 0 /\ k \notin DOMAIN reserved
    /\ IF abandoned /\ f.attempt.id \in DOMAIN ReservedAfter(i)
       THEN Transaction(i, f, None, ReservedAfter(i)) /\ UNCHANGED <<opens, cur, phase>>
       ELSE /\ opens' = i /\ cur' = i /\ phase' = "opening"
            /\ IF abandoned
               THEN Transaction(i, f, f.attempt.id,
                                [k \in DOMAIN ReservedAfter(i) \cup {f.attempt.id} |->
                                     k = f.attempt.id \/ ReservedAfter(i)[k]])
               ELSE Transaction(i, f, None, ReservedAfter(i))
    /\ rebuild' = Consumed(i)
    /\ closed' = closed \cup Fenced(i)
    /\ UNCHANGED <<proc, up, ids, intake, turn, threads, settling, job, owed>>

Recovers(o) ==
    /\ settling' = settling \cup {[by |-> cur, id |-> file.attempt.id, outcome |-> o]}
    /\ UNCHANGED <<file, markers, owned, reserved, rebuild, closed>>

\* The opened watcher matches the attempt in the file with the history of jobs:
\* one that ended settles it, one that goes on keeps it, and one the history
\* does not have (known) is given up for a rebuild or refused.
ReconcileRestartedSlot(known) ==
    LET i == file.attempt.id
        absent == i # None /\ (job[i].state = "absent" \/ ~known) IN
    /\ up /\ phase = "opening"
    /\ i # None /\ job[i].state = "running" => known
    /\ phase' = "settling"
    /\ \/ i # None /\ ~absent /\ job[i].state # "running" /\ Recovers(job[i].state)
       \/ absent /\ Recovers("refused")
       \/ /\ absent \/ (i = None /\ file.refused)
          /\ ReconcileRebuild(cur, TRUE) /\ UNCHANGED settling
       \/ /\ IF i = None THEN TRUE ELSE job[i].state = "running"
          /\ UNCHANGED <<file, markers, owned, reserved, rebuild, closed, settling>>
    /\ UNCHANGED <<proc, up, opens, cur, ids, intake, turn, threads, job, owed>>

StartWatching ==
    /\ up /\ phase = "settling" /\ \A s \in settling : s.by # cur
    /\ phase' = "on"
    /\ UNCHANGED <<file, markers, proc, up, opens, cur, owned, reserved, ids, intake, turn,
                   threads, settling, job, rebuild, owed, closed>>

StopWatching ==
    /\ up /\ phase = "on" /\ opens < MaxOpens
    /\ phase' = "off" /\ cur' = 0
    /\ UNCHANGED <<file, markers, proc, up, opens, owned, reserved, ids, intake, turn,
                   threads, settling, job, rebuild, owed, closed>>

\* The process dies, perhaps between the write that consumes markers and their
\* removal: the markers are consumed again later.
Crash ==
    /\ up /\ proc < MaxProcs
    /\ up' = FALSE /\ cur' = 0 /\ phase' = "off"
    /\ owned' = [i \in Policies |-> None] /\ reserved' = <<>>
    /\ intake' = NoIntake /\ turn' = NoTurn /\ threads' = {} /\ settling' = {}
    /\ \/ UNCHANGED <<file, closed>>
       \/ /\ Spent(cur) # {}
          /\ file' = RecoveredFile(cur) /\ closed' = closed \cup Fenced(cur)
    /\ rebuild' = IF rebuild.phase = "running" THEN NoRebuild
                  ELSE IF file' # file THEN Consumed(cur) ELSE rebuild
    /\ UNCHANGED <<markers, proc, opens, ids, job, owed>>

\* The job manager puts the unfinished jobs, and those a shutdown interrupted,
\* back to work as plain incremental jobs that discover the whole corpus.
Restart(back) ==
    /\ ~up
    /\ up' = TRUE /\ proc' = proc + 1
    /\ job' = [i \in Ids |-> IF job[i].state = "running" \/ i \in back
                             THEN [state |-> "running", by |-> 0, scope |-> Paths, since |-> {}]
                             ELSE job[i]]
    /\ UNCHANGED <<file, markers, opens, cur, phase, owned, reserved, ids, intake, turn,
                   threads, settling, rebuild, owed, closed>>

----------------------------------------------------------------------------
Admissions == {turn} \cup threads

WatcherNext ==
    \/ Refresh
    \/ \E p \in Paths : Observe(p)
    \/ MarkScopePending \/ CancelIntake
    \/ ReserveAdmission
    \/ \E t \in Admissions : ActivateAdmission(t) \/ AdmissionUnavailable(t)
    \/ \E t \in Admissions, delayed \in BOOLEAN : AdmitReserved(t, delayed)
    \/ CancelAdmission \/ CreateJob
    \/ \E i \in Ids, o \in Outcomes : JobEnds(i, o)
    \/ \E s \in settling, aged \in BOOLEAN : SettlementEnds(s, aged)
    \/ \E s \in threads, aged \in BOOLEAN : ThreadSettles(s, aged)
    \/ \E s \in settling : CancelSettlement(s)
    \/ RebuildStarts \/ RebuildEnds \/ ReconcileCompletedRebuild
    \/ Open \/ (\E known \in BOOLEAN : ReconcileRestartedSlot(known))
    \/ StartWatching \/ StopWatching
    \/ Crash
    \/ \E back \in SUBSET {i \in Ids : job[i].state = "interrupted"} : Restart(back)

\* The service's own steps go on: its coroutines, its jobs, and its retries of a
\* file whose lock becomes available again and again.  Nothing is assumed of
\* changes, stops, cancellations, crashes or the operator.
WatcherFairness ==
    /\ WF_watcherVars(Refresh)
    /\ WF_watcherVars(MarkScopePending)
    /\ WF_watcherVars(ActivateAdmission(turn))
    /\ SF_watcherVars(\E delayed \in BOOLEAN : AdmitReserved(turn, delayed))
    /\ WF_watcherVars(CreateJob)
    /\ \A i \in Ids : WF_watcherVars(\E o \in Outcomes : JobEnds(i, o))
    /\ WF_watcherVars(\E s \in settling, aged \in BOOLEAN : SettlementEnds(s, aged))
    /\ WF_watcherVars(\E known \in BOOLEAN : ReconcileRestartedSlot(known))
    /\ WF_watcherVars(StartWatching)

WatcherSpec == WatcherInit /\ [][WatcherNext]_watcherVars /\ WatcherFairness

----------------------------------------------------------------------------
(* Properties.                                                               *)

\* Every change the service accepted and no index run has covered since is held
\* as a pending or captured path of the policy file, or the file is refused or a
\* marker will refuse it, so that only a full rebuild can declare it converged.
AcceptedChangesAreOwed ==
    owed \subseteq file.pending \cup file.captured
                   \cup (IF file.refused \/ markers # {} THEN Paths ELSE {})

\* An attempt leaves the file only by its own outcome, its own marker or a
\* rebuild that outdates it, never by the outcome of another attempt.
OwnOutcomeOnly ==
    [][\A i \in Ids : file.attempt.id = i /\ file'.attempt.id # i => i \in closed']_watcherVars

\* An attempt that was settled or fenced by its marker never comes back, although
\* the thread that admits it may outlive the coroutine that gave it up.
FencedStaysFenced == file.attempt.id \notin closed

\* The running watcher admitted attempt i, or adopted it.
InHand(i) == phase = "on" /\ file.attempt.id = i /\ owned[cur] = i

\* "Restart reconciles fenced attempts with durable job history and either
\* restores exact work, recognizes settlement, or refuses unsafe recovery": an
\* attempt adopted at a restart does not keep its watcher from admitting for ever.
RestartReconcilesFences == \A i \in Ids : InHand(i) ~> ~InHand(i)

=============================================================================
