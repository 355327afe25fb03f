----------------------------- MODULE JobHistory -----------------------------
(***************************************************************************)
(* The job manager's records: who owns a piece of work, which jobs retried   *)
(* which, what the bounded history keeps, and what of all that is in the     *)
(* state file (job_manager/_records.py, _persistence.py, and the lifecycle   *)
(* calls of _control.py and _progress.py).                                   *)
(*                                                                          *)
(* A lifecycle call holds the manager lock from its reads to the end of its  *)
(* write.  Progress is published in memory and now and then flushed by the   *)
(* publishing thread, which serialises under the manager lock, writes under  *)
(* the write lock alone, and retakes the manager lock to record the write.   *)
(*                                                                          *)
(* Abstractions: a job's control (pauses, attempts, runtime owners) is       *)
(* JobManager's subject, so idle work is "queued", live work "running", and  *)
(* a cancelled job ends like a failed one, both being retryable; the         *)
(* progress of ended work, which nothing changes any more, is left out; job  *)
(* ids are numbered as they are issued, so their order is that of creation,  *)
(* which the clock stamps need not follow.                                   *)
(***************************************************************************)
EXTENDS Naturals, FiniteSets, Functions

CONSTANTS
    MaxJobs,        \* bound: ids issued in a behaviour
    Works,          \* identities of work (active_work_identity)
    Recoverable,    \* those that are an index of a corpus
    MaxActive,      \* max_nonterminal
    MaxHistory,     \* max_terminal_history
    MaxClock,       \* bound: readings of the clock, 0..MaxClock
    MaxProgress,    \* bound: progress publications in one process
    WriteFaults     \* as in JobManager: "unpublished", "published"

ASSUME HistoryAssumption ==
    /\ {MaxJobs, MaxActive, MaxHistory} \subseteq Nat \ {0}
    /\ {MaxClock, MaxProgress} \subseteq Nat
    /\ Recoverable \subseteq Works
    /\ WriteFaults \subseteq {"unpublished", "published"}

VARIABLES
    mem,         \* the manager's records: jobs, and the ring of ended ones
    file,        \* the state file
    issued,      \* ids issued so far
    dirty,       \* _persistence_dirty
    generation,  \* _state_generation
    flushed,     \* _flushed_generation
    writing,     \* the flush that holds the write lock, if any
    settling,    \* flushes whose write ended and is not yet recorded
    life         \* "up", "stopping", "stopped", or "down" (no process)

bookVars    == <<dirty, generation, flushed>>
flushVars   == <<writing, settling>>
historyVars == <<mem, file, issued, bookVars, flushVars, life>>

Ids       == 1..MaxJobs
NoParent  == 0
Active    == {"queued", "running"}
\* "shut_down" is INTERRUPTED with error kind service_shutdown.
Retryable == {"failed", "interrupted", "shut_down"}
Ended     == Retryable \cup {"succeeded", "superseded"}

Absent   == [state |-> "absent", parent |-> NoParent, created |-> 0, progress |-> 0]

\* The records of one generation: retained jobs by id, and the ring of the ended
\* ones, which gives each its place, the newest being 1.
NoRecords == [job |-> [i \in {} |-> Absent], ring |-> [i \in {} |-> 0]]

HistoryInit ==
    /\ mem = NoRecords /\ file = NoRecords /\ issued = 0
    /\ dirty = FALSE /\ generation = 0 /\ flushed = 0
    /\ writing = {} /\ settling = {}
    /\ life = "down"

----------------------------------------------------------------------------
(* Records.                                                                  *)

Retained(m) == DOMAIN m.job
Working(m)  == {i \in Retained(m) : m.job[i].state \in Active}
Claims(m, w) == {i \in Working(m) : m.job[i].work = w}   \* _find_equivalent_active_locked
Children(m, i) == {k \in Retained(m) : m.job[k].parent = i}

With(m, i, r) == [m EXCEPT !.job = [k \in Retained(m) \cup {i} |-> IF k = i THEN r ELSE m.job[k]]]
Moved(m, i, state) == [m EXCEPT !.job[i].state = state]

Without(m, dropped) ==
    LET kept == DOMAIN m.ring \ dropped
    IN  [job  |-> [k \in Retained(m) \ dropped |-> m.job[k]],
         ring |-> [k \in kept |-> Cardinality({j \in kept : m.ring[j] <= m.ring[k]})]]

\* The ring keeps its newest MaxHistory entries.
Trimmed(m) == Without(m, {k \in DOMAIN m.ring : m.ring[k] > MaxHistory})

Appended(ring, i) ==
    [k \in DOMAIN ring \cup {i} |-> IF k = i THEN 1 ELSE ring[k] + 1]

\* _archive_terminal_locked
Retired(m, i, state) ==
    [Moved(m, i, state) EXCEPT !.job[i].progress = 0, !.ring = Appended(m.ring, i)]

Archived(m, i, state) == Trimmed(Retired(m, i, state))

ParentAlone(m, i) ==    \* faulty variant: only the job that was retried
    {k \in Retained(m) : m.job[k].state \in Retryable /\ m.job[i].parent = k}

\* The ancestors a success resolves: up the links as long as they are retained
\* and retryable, the least set closed under them.  _resolve_retry_ancestry_locked
Resolvable(m, i) ==
    LET Closed(S) == \A k \in Retained(m) :
            m.job[k].state \in Retryable /\ (\E c \in S : m.job[c].parent = k) => k \in S
    IN  {k \in Retained(m) \ {i} :
            \A S \in SUBSET Retained(m) : i \in S /\ Closed(S) => k \in S}

Resolved(m, i) ==
    [m EXCEPT !.job = [k \in Retained(m) |->
        IF k \in Resolvable(m, i) THEN [m.job[k] EXCEPT !.state = "superseded"] ELSE m.job[k]]]

----------------------------------------------------------------------------
(* Durability.                                                               *)

\* Faulty variant: lifecycle writes do not take the write lock.
PersistUnlocked(new, keep) ==
    /\ mem' = new /\ file' = new
    /\ dirty' = FALSE /\ flushed' = generation
    /\ UNCHANGED generation

\* _persist_locked and the caller's reaction: a write that was not published is
\* rolled back, dirty flag included, or (keep) retained in memory as unsaved.
Persist(new, keep) ==
    /\ writing = {}
    /\ \/ /\ mem' = new /\ file' = new
          /\ dirty' = FALSE /\ flushed' = generation
       \/ /\ "published" \in WriteFaults
          /\ mem' = new /\ file' = new
          /\ dirty' = TRUE /\ UNCHANGED flushed
       \/ /\ "unpublished" \in WriteFaults /\ keep
          /\ mem' = new /\ dirty' = TRUE
          /\ UNCHANGED <<file, flushed>>
       \/ /\ "unpublished" \in WriteFaults /\ ~keep
          /\ UNCHANGED <<mem, file, dirty, flushed>>
    /\ UNCHANGED generation

Undo == FALSE
Keep == TRUE

Clean == ~dirty /\ flushed = generation

\* flush_persistence
FlushPersistence ==
    /\ life \in {"up", "stopping"}
    /\ ~Clean
    /\ Persist(mem, Keep)
    /\ UNCHANGED <<issued, flushVars, life>>

\* _begin_progress_flush_locked: declines within the time budget or while
\* another thread writes; the publication itself made the manager unclean.
BeginFlush(new, progress) ==
    \/ UNCHANGED writing
    \/ /\ writing = {}
       /\ writing' = {[content |-> new, generation |-> progress]}

\* update_progress, by the thread of a running attempt.
Publish(i) ==
    /\ i \in Working(mem) /\ mem.job[i].state = "running"
    /\ generation < MaxProgress
    /\ generation' = generation + 1
    /\ mem' = [mem EXCEPT !.job[i].progress = generation']
    /\ BeginFlush(mem', generation')
    /\ UNCHANGED <<file, issued, dirty, flushed, settling, life>>

\* _complete_progress_flush, the write and the release of the write lock.
FlushWrites(p) ==
    /\ writing' = writing \ {p}
    /\ \/ /\ file' = p.content
          /\ settling' = settling \cup {[generation |-> p.generation, ok |-> TRUE]}
       \/ /\ WriteFaults # {}
          /\ file' \in {c \in {file, p.content} :
                            \/ c = file /\ "unpublished" \in WriteFaults
                            \/ c = p.content /\ "published" \in WriteFaults}
          /\ settling' = settling \cup {[generation |-> p.generation, ok |-> FALSE]}
    /\ UNCHANGED <<mem, issued, bookVars, life>>

\* Faulty variant: a flush that succeeded clears the dirty flag.
SettleClearsDirty(s) ==
    /\ settling' = settling \ {s}
    /\ flushed' = IF s.ok /\ s.generation > flushed THEN s.generation ELSE flushed
    /\ dirty' = ~s.ok
    /\ UNCHANGED <<mem, file, issued, generation, writing, life>>

\* _complete_progress_flush, its bookkeeping under the manager lock.
FlushSettles(s) ==
    /\ settling' = settling \ {s}
    /\ flushed' = IF s.ok /\ s.generation > flushed THEN s.generation ELSE flushed
    /\ dirty' = (dirty \/ (~s.ok /\ flushed < s.generation))
    /\ UNCHANGED <<mem, file, issued, generation, writing, life>>

----------------------------------------------------------------------------
(* Lifecycle calls, each refused while its guard is false.                   *)

Created(i, w, parent, created) ==
    With(mem, i, [state |-> "queued", parent |-> parent, created |-> created,
                  progress |-> 0, work |-> w])

Admit(w, parent) ==
    /\ issued < MaxJobs
    /\ Cardinality(Working(mem)) < MaxActive
    /\ Claims(mem, w) = {}
    /\ \E now \in 0..MaxClock : Persist(Created(issued + 1, w, parent, now), Undo)
    /\ issued' = IF mem' = mem THEN issued ELSE issued + 1
    /\ UNCHANGED <<flushVars, life>>

Create(w) == life \in {"up", "stopping"} /\ Admit(w, NoParent)

RetryUnclaimed(i) ==    \* faulty variant: a retry does not look for equal work
    /\ life \in {"up", "stopping"} /\ i \in Retained(mem)
    /\ mem.job[i].state \in Retryable
    /\ issued < MaxJobs
    /\ \E now \in 0..MaxClock : Persist(Created(issued + 1, mem.job[i].work, i, now), Undo)
    /\ issued' = IF mem' = mem THEN issued ELSE issued + 1
    /\ UNCHANGED <<flushVars, life>>

Retry(i) ==
    /\ life \in {"up", "stopping"} /\ i \in Retained(mem)
    /\ mem.job[i].state \in Retryable
    /\ Admit(mem.job[i].work, i)

\* start_attempt
Start(i) ==
    /\ life = "up" /\ i \in Working(mem) /\ mem.job[i].state = "queued"
    /\ Persist(Moved(mem, i, "running"), Undo)
    /\ UNCHANGED <<issued, flushVars, life>>

\* finish_attempt: the work ends as it did, or as shut down by a stop.
Finish(i, outcome) ==
    /\ life \in {"up", "stopping"} /\ i \in Working(mem) /\ mem.job[i].state = "running"
    /\ outcome = "shut_down" => life = "stopping"
    /\ LET resolved == IF outcome = "succeeded" THEN Resolved(mem, i) ELSE mem
       IN  Persist(Archived(resolved, i, outcome), Keep)
    /\ UNCHANGED <<issued, flushVars, life>>

\* fail_unstarted, and a cancellation of idle work.
FailUnstarted(i) ==
    /\ life \in {"up", "stopping"} /\ i \in Working(mem) /\ mem.job[i].state = "queued"
    /\ Persist(Archived(mem, i, "failed"), Undo)
    /\ UNCHANGED <<issued, flushVars, life>>

Delete(i) ==
    /\ life \in {"up", "stopping"} /\ i \in Retained(mem) \ Working(mem)
    /\ Persist(Without(mem, {i}), Undo)
    /\ UNCHANGED <<issued, flushVars, life>>

----------------------------------------------------------------------------
(* Service lives.                                                            *)

BeginShutdown ==
    /\ life = "up" /\ life' = "stopping"
    /\ UNCHANGED <<mem, file, issued, bookVars, flushVars>>

\* wait_for_shutdown flushes; complete_shutdown needs every runtime gone.
CompleteShutdown ==
    /\ life = "stopping" /\ life' = "stopped"
    /\ \A i \in Working(mem) : mem.job[i].state = "queued"
    /\ IF Clean THEN UNCHANGED <<mem, file, bookVars>> ELSE Persist(mem, Keep)
    /\ UNCHANGED <<issued, flushVars>>

\* prepare_startup of a manager that stopped cleanly keeps its records.
Reopen ==
    /\ life = "stopped" /\ life' = "up"
    /\ UNCHANGED <<mem, file, issued, bookVars, flushVars>>

\* The process ends, in order or not; a write under way lands or does not.
Exit ==
    /\ life # "down" /\ life' = "down"
    /\ mem' = NoRecords /\ dirty' = FALSE /\ generation' = 0 /\ flushed' = 0
    /\ file' \in {file} \cup {p.content : p \in writing}
    /\ writing' = {} /\ settling' = {}
    /\ UNCHANGED issued

\* The order restored records are compared in: active ones, then the ring.
Before(m, k, i) ==
    k \in Working(m) \/ (i \in DOMAIN m.ring /\ m.ring[k] >= m.ring[i])

\* The last of its work's records by creation stamp; equal stamps keep that order.
Latest(m, i) ==
    \A k \in Retained(m) : m.job[k].work = m.job[i].work =>
        \/ m.job[k].created < m.job[i].created
        \/ m.job[k].created = m.job[i].created /\ Before(m, k, i)

\* Faulty variant: the wall clock alone decides.
ReplayedByClock(m) ==
    {i \in Retained(m) : /\ m.job[i].state = "shut_down"
                         /\ m.job[i].work \in Recoverable
                         /\ Latest(m, i)}

\* Ended records a start puts back to work: recover_shutdown.
Replayed(m) ==
    {i \in Retained(m) : /\ m.job[i].state = "shut_down"
                         /\ m.job[i].work \in Recoverable
                         /\ Claims(m, m.job[i].work) = {}
                         /\ Children(m, i) = {}
                         /\ Latest(m, i)}

Cut(m) == {i \in Working(m) : m.job[i].state = "running" /\ m.job[i].work \notin Recoverable}

\* _restore_jobs_locked: work that was cut takes the newest places, in any order.
Requeued(m, place) ==
    LET replayed == Replayed(m)
        requeued == replayed \cup (Working(m) \ Cut(m))
        before   == Without(m, replayed).ring
    IN  [job  |-> [i \in Retained(m) |->
                      IF i \in requeued
                      THEN [m.job[i] EXCEPT !.state = "queued", !.progress = 0]
                      ELSE IF i \in Cut(m)
                      THEN [m.job[i] EXCEPT !.state = "interrupted", !.progress = 0]
                      ELSE m.job[i]],
         ring |-> [i \in DOMAIN before \cup Cut(m) |->
                      IF i \in Cut(m) THEN place[i] ELSE before[i] + Cardinality(Cut(m))]]

\* _trim_restored_history_locked
Restored(m, place) == Trimmed(Requeued(m, place))

\* restore_persisted, and the start's reaction to its write.
Restart ==
    /\ life = "down"
    /\ \E place \in Injection(Cut(file), 1..Cardinality(Cut(file))) :
           mem' = Restored(file, place)
    /\ file' = mem'
    /\ \/ life' = "up" /\ dirty' = FALSE
       \/ "published" \in WriteFaults /\ life' = "stopping" /\ dirty' = TRUE
    /\ UNCHANGED <<issued, generation, flushed, flushVars>>

----------------------------------------------------------------------------

HistoryNext ==
    \/ \E w \in Works : Create(w)
    \/ \E i \in Ids : \/ Retry(i) \/ Start(i) \/ Publish(i)
                      \/ FailUnstarted(i) \/ Delete(i)
                      \/ \E o \in {"succeeded", "failed", "shut_down"} : Finish(i, o)
    \/ \E p \in writing : FlushWrites(p)
    \/ \E s \in settling : FlushSettles(s)
    \/ FlushPersistence
    \/ BeginShutdown \/ CompleteShutdown \/ Reopen \/ Exit \/ Restart

HistorySpec == HistoryInit /\ [][HistoryNext]_historyVars

----------------------------------------------------------------------------
(* Properties.                                                               *)

Generations == {mem, file} \cup {p.content : p \in writing}

\* However creations, retries, restarts and replays of interrupted work meet,
\* no generation holds two active jobs for one work: in memory they would write
\* one index together, in the file the loader refuses the whole history over it.
OneOwnerPerWork ==
    \A m \in Generations : \A w \in Works : Cardinality(Claims(m, w)) <= 1

\* When a retry succeeds, everything it retried that is still in the history,
\* through any number of links and restarts, has stopped offering a retry and
\* is not put back to work.
LineageSettled ==
    \A m \in Generations : \A i \in Retained(m) :
        m.job[i].state \in {"succeeded", "superseded"} =>
            \A k \in Retained(m) : m.job[i].parent = k => m.job[k].state = "superseded"

\* A manager that takes its records for saved has them in the file: no flush,
\* written outside the manager's lock, overtook or was overtaken by a change.
CleanIsDurable == life # "down" /\ Clean => file = mem

\* A start puts ended work back to work only when nothing later claimed it: no
\* record of the same work that is active or retries it, and none created
\* after it, unless the clock had stepped back by then.
ReplaysOnlyUnclaimedWork ==
    [][\A i \in Retained(file) :
          (life = "down" /\ life' # "down" /\ file.job[i].state \in Ended
              /\ i \in Working(mem'))
          => \A k \in Retained(file) \ {i} :
                file.job[k].work = file.job[i].work =>
                    /\ file.job[k].state \in Ended /\ file.job[k].parent # i
                    /\ k > i => file.job[k].created < file.job[i].created]_historyVars

\* Admitted work is in the file until it ends: no crash, overtaken write or
\* full history makes the service forget it.
AdmittedWorkIsKept ==
    [][\A i \in Working(file) :
          life = "down" \/ i \in Working(mem) => i \in Retained(file')]_historyVars

=============================================================================
