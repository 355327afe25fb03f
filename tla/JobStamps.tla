----------------------------- MODULE JobStamps -----------------------------
(***************************************************************************)
(* The clocks a managed job records, and what the state file's loader asks   *)
(* of them.  The manager writes every record in one file; the next start     *)
(* refuses the whole file over one record (job_persistence.py), so every     *)
(* control of JobManager must leave each record acceptable, however the wall *)
(* clock moved meanwhile.                                                    *)
(*                                                                          *)
(* Each step of JobManager stamps the records it changes with one reading of *)
(* the clock, which is any value of Clock: nothing keeps it from going back. *)
(* Memory and file have stamps of their own, as they have records: a write   *)
(* that fails leaves the file with the stamps of an older revision, and the   *)
(* end of the process leaves memory with those of the file.                  *)
(***************************************************************************)
EXTENDS JobManager

CONSTANT MaxClock

ASSUME StampsAssumption == MaxClock \in Nat

VARIABLES
    stamp,    \* JobTimestamps of each job in memory
    filed     \* the same in the state file

stampedVars == <<jobVars, stamp, filed>>

Clock    == 0..MaxClock
Unset    == MaxClock + 1
Optional == Clock \cup {Unset}
Ended    == Settled \cup {"shut_down"}

Unstamped == [created |-> 0, changed |-> 0, started |-> Unset, admitted |-> Unset,
              requested |-> Unset, acknowledged |-> Unset, finished |-> Unset]

StampedInit == Init /\ stamp = [j \in Jobs |-> Unstamped] /\ filed = stamp

----------------------------------------------------------------------------
(* _replace_snapshot_locked: a revision never precedes the record's last.    *)

\* Faulty variant: a revision is stamped with the wall clock as it is.
WallClock(s, now) == now

\* ordered_stamp
Ordered(s, now) == IF now < s.changed THEN s.changed ELSE now

Admitted(now) == [Unstamped EXCEPT !.created = now, !.changed = now]

\* start_attempt: a new start discards the former attempt's admission.
Started(s, now) == [s EXCEPT !.changed = now, !.started = now, !.admitted = Unset]

\* _queue_resumed_attempt_locked
Requeued(s, now) == [Unstamped EXCEPT !.created = s.created, !.changed = now]

\* A control request of a working attempt; of idle work it settles at once.
Requested(s, now) == [s EXCEPT !.changed = now, !.requested = now]
Parked(s, now)    == [Requested(s, now) EXCEPT !.acknowledged = now]

\* A resume of a pausing attempt forgets the request; it stays forgotten when
\* the pause turns out to have been delivered.
Withdrawn(s, now) ==
    [s EXCEPT !.changed = now, !.requested = Unset, !.acknowledged = Unset]

Acknowledged(s, now) == [s EXCEPT !.changed = now, !.acknowledged = now, !.finished = Unset]

Finished(s, now) == [s EXCEPT !.changed = now, !.finished = now]

\* A resume of an attempt that an operator asked to pause.
Resumed(old, new) ==
    old.desired = "paused" /\ new.desired = "running" /\ new.state \in {"running", "pausing"}

\* The revision of a record by a running process, from what it was to what it
\* becomes.
Revised(old, new, s, now) ==
    IF old.state = "absent" THEN Admitted(now)
    ELSE IF Resumed(old, new) THEN Withdrawn(s, now)
    ELSE CASE new.state = "queued"                                -> Requeued(s, now)
           [] old.state = "queued" /\ new.state = "running"       -> Started(s, now)
           [] new.state \in {"pausing", "cancelling"}             -> Requested(s, now)
           [] old.state \in Idle /\ new.state = "paused"          -> Parked(s, now)
           [] old.state \in Live /\ new.state = "paused"          -> Acknowledged(s, now)
           [] old.state \in Idle /\ new.state = "cancelled"       -> Finished(Parked(s, now), now)
           [] old.state = "cancelling" /\ new.state = "cancelled" -> Finished(Acknowledged(s, now), now)
           [] new.state \in Ended \ {"cancelled"}                 -> Finished(s, now)

\* The revision of a record by a start: the attempt it finds is requeued, or
\* recovered to the pause or the cancellation it was asked for, acknowledged
\* if there was a request, or it is interrupted.
Recovered(old, new, s, now) ==
    LET settled == [s EXCEPT !.changed = now, !.finished = Unset,
                             !.acknowledged = IF s.requested = Unset THEN Unset ELSE now]
    IN  CASE new.state = "queued"      -> Requeued(s, now)
          [] new.state = "paused"      -> settled
          [] new.state = "cancelled"   -> Finished(settled, now)
          [] new.state = "interrupted" -> Finished(s, now)

Stamped(j, now) ==
    LET s == stamp[j]
    IN  IF job'[j] = job[j] THEN s
        ELSE IF life = "down" THEN Recovered(job[j], job'[j], s, Ordered(s, now))
        ELSE Revised(job[j], job'[j], s, Ordered(s, now))

\* What the write of a step puts in the file is what memory then holds, but for
\* a resume that lost to the pause's delivery and could not write that: the
\* file keeps its first revision.
Filed(j, now) ==
    IF disk'[j] = job'[j] THEN stamp'[j]
    ELSE Revised(job[j], disk'[j], stamp[j], Ordered(stamp[j], now))

\* The end of the process: shutdown may flush the records, and what remains
\* is the file.
ProcessEnds ==
    /\ \/ CompleteShutdown /\ disk' = job /\ filed' = stamp
       \/ (CompleteShutdown \/ Crash) /\ disk' = disk /\ filed' = filed
    /\ stamp' = filed'

\* Any other step.  Where it leaves the file's records as they are, it may have
\* written them again or not at all.
Control ==
    /\ Next
    /\ life' = "down" => life = "down"
    /\ \E now \in Clock :
        /\ stamp' = [j \in Jobs |-> Stamped(j, now)]
        /\ \/ disk' = disk /\ filed' = filed
           \/ /\ disk' = job' \/ disk' # disk
              /\ filed' = [j \in Jobs |-> Filed(j, now)]

\* update_execution_resources, when the worker is admitted to its capacity,
\* writes that down or takes it back.
AcquireAdmission(j) ==
    /\ run[j] = "live"
    /\ \E now \in Clock : stamp' = [stamp EXCEPT ![j].admitted = Ordered(stamp[j], now)]
    /\ filed' = stamp'
    /\ disk' = job
    /\ UNCHANGED <<job, attemptVars, calls, life, gateVars>>

StampedNext == Control \/ ProcessEnds \/ \E j \in Jobs : AcquireAdmission(j)

StampedSpec == StampedInit /\ [][StampedNext]_stampedVars

----------------------------------------------------------------------------
(* What the loader refuses: _validate_persisted_timestamps and               *)
(* _validate_persisted_lifecycle.                                            *)

Precedes(early, late) == early # Unset /\ late # Unset /\ early < late

Acceptable(r) ==
    CASE r.state \in {"queued", "running"}       -> r.desired = "running"
      [] r.state \in {"pausing", "paused"}       -> r.desired \in {"paused", "running"}
      [] r.state = "cancelling"                  -> r.desired = "cancelled"
      [] OTHER                                   -> TRUE

Complaints(r, s) ==
    {c \in {"state change predates creation", "stamp predates creation",
            "admission lacks a start", "acknowledgement lacks a request",
            "acknowledgement predates request", "finish predates start",
            "finish predates the last change", "terminal and finish disagree",
            "state and intent disagree", "live attempt lacks a start"} :
        CASE c = "state change predates creation" -> s.changed < s.created
          [] c = "stamp predates creation" ->
                \E t \in {s.started, s.finished, s.requested, s.acknowledged, s.admitted} :
                    Precedes(t, s.created)
          [] c = "admission lacks a start" -> s.admitted # Unset /\ s.started = Unset
          [] c = "acknowledgement lacks a request" ->
                s.acknowledged # Unset /\ s.requested = Unset
          [] c = "acknowledgement predates request" -> Precedes(s.acknowledged, s.requested)
          [] c = "finish predates start" -> Precedes(s.finished, s.started)
          [] c = "finish predates the last change" -> Precedes(s.finished, s.changed)
          [] c = "terminal and finish disagree" ->
                (r.state \in Ended) # (s.finished # Unset)
          [] c = "state and intent disagree" -> ~Acceptable(r)
          [] c = "live attempt lacks a start" -> r.state \in Live /\ s.started = Unset}

Rejected(j) == IF disk[j].state = "absent" THEN {} ELSE Complaints(disk[j], filed[j])

----------------------------------------------------------------------------

\* What the manager writes its own loader reads, so that no record costs the
\* others their history: after any controls, failed writes, crashes and starts,
\* under a clock that steps back at any moment.  (Known exception: a delivered
\* pause resumed by hand and then parked by a service pause.)
OnlyHeldWorkUnreadable ==
    \A j \in Jobs :
        \/ Rejected(j) = {}
        \/ /\ Rejected(j) = {"acknowledgement lacks a request"}
           /\ disk[j] = [state |-> "paused", desired |-> "running"]

=============================================================================
