# Verification of the vaultspec-rag service

vaultspec-rag is a resident service that indexes source trees and documents and
answers semantic searches. It owns a GPU, keeps a few project stores open, runs
indexing jobs, and can be asked to give the GPU up for a while. This directory
holds TLA+ models of the parts of it whose correctness depends on the order in
which threads, processes, requests and failures meet; TLC configurations that
check them; and proofs, checked by TLAPS, of what must hold for any number of
jobs, tickets, threads and files.

Paths below are relative to `src/vaultspec_rag/` unless they start with `.vault/`
(the decision records).

## The system

| Part | State it keeps | Operations | Who it talks to |
|---|---|---|---|
| Quiesce controller, `service_quiesce.py` | admission state and epoch, live compute tickets, drain and release evidence | acquire and release a ticket, begin/abort pause, wait for drain, acknowledge release, begin/complete warming | everything that computes takes a ticket; the transition drives it |
| Resource transition, `_service_residency.py` | the one owned transition and its joiners; embedding and reranking models; the recipe to rebuild them | `quiesce_resources`, `resume_resources`, `compute_lease` | controller, job manager, GPU owner record |
| Borrower holds, `_service_borrower.py`, `server/_routes_quiesce.py`, `gpu_borrow_lease.py`, `_gpu_owner.py`, `cli/_gpu_lease.py` | the capability bound to a pause, the machine-wide lease file, the loan on the owner anchor | pause and resume routes, lending, reclaiming, the heartbeat that recovers a lost borrower | HTTP clients in other processes; the transition |
| Job manager, `job_manager/`, `job_control.py`, `job_persistence.py`, `jobs.py` | job records, the state file, attached attempts and their control tokens | create, dispatch, pause/cancel/resume, acknowledge, complete, hold for a service pause, shut down, restore | tools, the watcher, the transition, the state file |
| Project registry, `service.py`, `_service_eviction.py` | warm slots, construction seats, lease counts, transient stores, per-root guards, the shutdown flags | lease, peek, store lease, maintenance, eviction, shutdown, restart | the vector store, whose storage admits one opener |
| Code index pipeline, `indexer/_chunk_producer.py`, `indexer/_consumer_pipeline.py` | a queue bounded in chunks and bytes, one consumer thread, its failures | produce, consume, drain, clean up | checkpoints, the store, run control |
| Incremental indexing, run ledger and publication, `indexer/_checkpoint_common.py`, `indexer/_incremental_commit.py`, `indexer/_run_ledger_*.py`, `_publication_state.py` | commit evidence, receipts, proofs and generations in SQLite; the points in the store | scan, open, mutate, confirm, seal, commit, finalize, settle, replay | the store, whose writes are not in the same transaction; the files, which change meanwhile |
| Watcher, `watcher_*.py` | retry state and recovery marker on disk, a circuit, pending scopes | observe, admit, attempt, settle, recover | job manager, file system |
| Storage maintenance, `storage_*.py` | the storage manifest with the clocks of each root, archives of snapshots | survey, decide, archive, drop, sweep; restore, migrate | the database, the job manager (who is active), stores that record their roots |
| Database child, `qdrant_runtime/` | a child process, its restart budget | spawn, wait until ready, restart, stop | OS, HTTP |
| Anchors, `_anchor_claim.py`, `_machine_lock.py` | lock files with a pid record | claim, observe | other processes |

The rest (search, chunking, preprocess hooks, HTTP plumbing, command line,
monitor, logging, provisioning) is either pure computation or pure I/O.
`PROJECT.json` lists all of it with the reason it is left out.

Three mechanisms tie the parts together. A *ticket* of the controller stands for
every computation on the GPU, and a pause is safe only when the tickets are gone.
The *transition* is the only code that moves the controller, and it asks the job
manager to unwind its attempts and to requeue them later. The *state file*, the
*lease file* and the *owner anchor* outlive processes, so what they say has to be
right whenever a process dies.

### What is hard about it

* The controller's drain gives up its lock: the pause that a waiter waited for
  can be aborted, and another begun, before the waiter wakes.
* A transition does its work outside locks. Compute admission, lazy model loads,
  other callers and partial failures come between any two of its steps, and a
  failed pause can be retried, resumed or left.
* A pause request can outlive its sender, and an answer can be lost; a borrower
  must work only if the loan really stands, and a dead one must not hold the GPU.
* A job command is written first and delivered second; the write can fail, or be
  published without being forced, and the attempt may be unwinding meanwhile for
  another reason (service pause, shutdown, its own end).
* An acknowledgement can fall between the scan that requeues held work and the
  reopening of admission.
* Registry callers wait for a seat while they hold the guard of a root, which
  others may need to free that seat; evictions notify no one.
* A store constructor may finish after the shutdown has drained everything else.
* Every job's record is in one file, whose loader refuses the whole over one
  record: each control must leave stamps and intents the loader accepts, whatever
  the clock did. Progress is serialised under the manager's lock and written
  outside it, beside transitions that write too. Retries, deletions and a bounded
  history meet restarts that put interrupted work back.
* A watcher's transaction waits for a file lock in a thread that its cancelled
  coroutine leaves behind; what it could not take back it leaves as a marker, for
  this process, a later one or an operator's rebuild to find, while the attempt's
  job goes on, ends, or is restored after a crash.
* An index run's producer and its one consumer fail, are interrupted, run out of
  time or wedge independently; the run must end, with the right verdict, and the
  rollback of a failed run must not race the consumer's last write.

* An index run writes to a store and a ledger that share no transaction, over files
  that change between their scan and their read. Readers must be served either the
  old proof or the new one, each with all its points, and the next run must tell
  from what was recorded whether to finish, to undo, or to read again.

* Maintenance destroys on the strength of counts, clocks and liveness probes taken at
  different times, beside jobs that write. A drop may stop half way, and its retry
  archives into the directory that holds the only copy of what is already gone.

`PROJECT.json` lists each hazard at its line, with the properties that cover it.

## Modules

```
QuiesceController <-- ResourceTransition <-- BorrowerHold  - - implements - -> GpuDevice
                                                   ^
                                            ResidencyProofs

JobManager <-- JobStamps                IndexPipeline <-- IndexPipelineProofs
                   ^
            JobManagerProofs            ProjectRegistry <-- ProjectRegistryProofs

JobHistory <-- JobHistoryProofs         WatcherRetry <-- WatcherRetryProofs

Publication <-- PublicationProofs       StorageReclamation <-- StorageReclamationProofs
```

An arrow is EXTENDS. `ResourceTransition` takes the controller's actions as its
steps, and `BorrowerHold` the transition's, so that each runs the one below it as any
caller might; that this is so is a lemma of the proofs and no property of a run.
`GpuDevice` is the abstract specification of all three, instantiated in
`BorrowerHold` with the refinement mapping. `JobManager` has a coarse copy of the gate (four states and the
owner's place), enough to put its steps between those of jobs; `JobStamps` adds the
clocks to its records. The others stand alone.

### QuiesceController

One action per method of `ServiceQuiesceController`, each atomic because the
method holds the condition's lock. `wait_for_drain` alone is three actions, its
wait giving the lock up. The lifecycle timestamps become the set of those that
are present (`evidence`). The module assumes nothing about who calls what, so
its invariants hold even for callers that are not the transition: tickets belong
to the live epoch, a released GPU has no compute, an acknowledged drain is still
true while the pause lasts, the released flag is set exactly in `quiesced`.

### ResourceTransition

`_run_resource_transition`, `_quiesce_resources_once`, `_resume_resources_once`,
`_abort_pause_once` and their helpers. `pc` holds where each caller is; a step of
the owner is one controller call or one critical section. Both models are one
stack: `vram` is resident, detached (references dropped, cache not released) or
free. `Faults` names the external calls that may raise. The job manager's part is
external here and may fail to persist.

The properties say that a compute section never loses the stack under its feet,
that a service published as safe to borrow has no model loaded, that admission never
reopens on a stack the recipe says is missing, and that all compute is of the
admission epoch in force, an acknowledged drain being true of the epoch now closed
(`DrainAccountsForCompute`). The controller alone does not promise the last: a waiter
that an aborted pause left behind would acknowledge a drain while admission is open.
That the transition calls it so that this cannot happen is what is checked. Liveness:
every transition ends, although compute may never drain.

### BorrowerHold

A borrower is one session of `run_with_borrowed_gpu`: lease, pause, work, resume,
exit at any time. Requests sit in `pending`, can outlive the borrower, and an
answer is delivered, or comes to a borrower that no longer waits for it. Any number
of threads serve routes beside each other, each one route at a time. A route is
authorised, makes its call in a worker thread, and then binds, lends and answers on
the event loop; between those parts the routes of other threads, the heartbeat and
other processes go on, and only code that runs on the event loop without giving it
up is one step (`LoopFree`). The heartbeat has its own thread, which reads first and
resumes later. Failures are those of the transition and of the lease file and the
owner anchor: a read of the lease, the loan's record, its withdrawal.

Two history variables. `asking` is whose pauses were being served when the service
last became `quiesced`. `overtaken` is set by each binding: whether a resume had by
then been let through that its thread had yet to make or to finish. Such a resume
runs after the binding and ends the quiescence under the borrower (see the limits);
the properties hold outside of it, and name it.

`LendsExclusively` is the refinement: `GpuDevice` says that a device nobody uses is
promised and then granted, that the service loads no model and takes back no grant
while a borrower uses it, and that a grant is not passed on under its user. A user is
a party with a model on the device; the grant is the loan recorded on the owner
anchor; a promise is a binding, disputed when it was overtaken.
`QuiescenceStaysWithItsParty` is about holds instead: whose resume may end one, and
whom one may be bound to. `HoldClears` is the heartbeat's part: a hold whose borrower
is gone is cleared, or a failed transition has been reported.

### JobManager

A method of the manager is one action. What callers do after it is kept in
`calls` and may run at any later time: a tool fails the job it could not
dispatch, a watcher first defers it, a resume is followed by a dispatch. A write
is `durable`, `unpublished` (the old file stays; a transaction rolls back) or
`published` (replaced but not forced; the caller sees an error, the change
stays). `job` is memory and `disk` the file; a crash keeps only `disk`. The
attempt goes `live`, `unwound`, `released`, `none`; its token collects pause,
cancel, shutdown and quiesce requests with the code's precedence. `Watched` jobs
belong to the watcher, `Recoverable` ones are corpus index jobs, which alone are
recovered after a crash.

### JobStamps

`JobManager` with `JobTimestamps`: a step stamps the records it changes with one
reading of a clock that may go back, clamped as `_replace_snapshot_locked` does.
`stamp` are the stamps in memory and `filed` those of the file: the memory's after a
write that reached it, durable or published, and the old ones after one that did not;
where a resume lost to the pause's delivery the file has the resume's first revision. A
shutdown may write once more (`ProcessEnds`); what remains is the file's. `Complaints` is the loader's validation, `job_persistence.py`, conjunct by
conjunct, of the records of the file.

### JobHistory

The same records seen as history: which work (`active_work_identity`) a job claims,
which job it retries, the ring of ended records that is trimmed, `mem` and `file`
as two generations of all that (the ring, a deque in the code, gives each ended
record its place counted from the newest, and counts anew when one leaves), and the bookkeeping of generations that decides
whether the memory is saved. A lifecycle call is one action, with its write;
progress is published in memory, serialised by `BeginFlush`, written outside the
manager's lock and recorded later. `Restart` decides what is replayed and trims. A
job's control is `JobManager`'s subject and reduced to idle, working and ended.

### WatcherRetry

One watched source. `file` is the policy file: pending paths, those the attempt in
flight captured, whether only a full rebuild may clear what is refused. A
transaction takes the file's lock, consumes the markers it may, and commits in one
step; `threads` are transactions whose coroutine was cancelled and that may still
commit, `markers` what a cancelled caller left instead of the lock. `job` is the job
manager's history of the attempts, `rebuild` an operator's full index, `turn` the
admission in progress, `opens` and `proc` the watcher's and the service's lives.
`owed` is a history variable: observations accepted and not covered since by an
index run that started after them. An attempt's token and its job's id are one id.
The circuit and its backoff are one nondeterministic refusal to admit yet; a scope
that grew too large and a job that asked for a full index are one flag, `refused`.

### ProjectRegistry

A call is one activation by some thread. Its steps are the blocks under the
registry lock, the acquisition of a root guard, and the opening or closing of a
store; a slot and its store are named by the call that built them. Guards are
told apart by the start of the registry that minted them, because a shutdown
forgets them. Access times are abstracted: the least recently used slot can be
any unleased one and any unleased slot can be idle. That is wider than the code
for old slots and exact for fresh ones that were only peeked at, whose last
access is 0. A guard is given back in the step that ends what it protects.

### IndexPipeline

One run of `CodeConsumerPipeline.run`. `thread` is where the run's own thread is:
it chunks files serially or takes them from a pool of workers, submits their
segments to the weighted queue, then drains, cleans up and gives its verdict.
`consumer` is where the consumer thread is: it takes a segment, checks that it
follows the last one, flushes a full slice (encode, write, confirm, account) and
places the segment. `control` is the run control token, `expired` the no-progress
deadline. `Faults` names what may fail: chunking, the support budget, encoding, a
call that never returns, the store, the ledger, a memory sample, the pool. The
caller of an incremental run takes back what a failed run stored without
recording it. Between two changes of shared state the code polls run control many
times; the model polls once. Chunk and byte weights are one weight. A run may
start from what an interrupted attempt recorded.

The properties say that success means that every segment of every file is
recorded, that nothing unrecorded survives a rollback, that the ledger is never
ahead of the store, that the serial producer's "consumer terminated" never hides
why it terminated, and that every run ends.

### Publication

Incremental code runs, one at a time (the writer's lock), over files an editor
changes at any moment. `source` is the tree, `storage` the points in the collection,
`proof` what readers are told is published. `receipt` holds the mutations of the
publication in progress (prepared, applied, confirmed), and while it is open readers
are refused. `gen`, `units`, `states` and `marks` are the run's generation: failures
counted, confirmed units, file outcomes, tombstones; a tombstone without a deletion
marks a file to replay. `run.pc` is where the run is; each of its steps is one ledger
transaction, one store call, or one read of a file, so the process may die between
any two (`Crash`), and any of them may fail (`Fail`, `Unreadable`). A failure inside
the checkpoint's context classifies the generation, after `Discard` when files were
being streamed.

A run first settles what the last one left, `SettleNothing` to `SettleReplay`: a
committed receipt is finished, an empty one rolled back, complete recorded streams
are sealed and committed without reading files, anything else has its points removed
and its files read again. Then `Scan` compares tree and proof, and the run streams,
deletes, seals, reconciles, commits and finishes. A file the scan cannot stat or hash
it takes for absent, and for deleted if it was published (`Scanned`), as the code does
with a warning. A content is cut into the chunks
`Stream` gives it; a point is a file and a chunk.

`gaps` is a history variable: the situations met to which the code has no complete
answer, each recorded where it arises. The properties name the ones they except, so
that everything else is held to them. `FreshStream` is why the model needs no repair
of drifted rows (`_drift_owner.py`): an incremental run never starts over rows of
another attempt. A batch of deletions is one store call here.

### StorageReclamation

One namespace: the collections of a root, its manifest entry and its archive
directory, under `run_maintenance_cycle`. `cycle.at` is where the cycle is; its steps
are single calls to the database, file operations, or reads and writes of the
manifest under its lock: list, count one collection, classify by the entry there is,
advance the grace clock, advance the idle clock and decide, probe the job manager, count again, count and copy one collection, publish the archive's manifest,
remove what it does not name, verify one record, count again, drop one collection,
forget the entry, sweep. Between any two the root may come or go, a job be admitted,
started, write or end, the entry be rewritten, or the service die; any call may fail,
and a drop that failed may have happened. A clock is an age in cycles, no older than
its window: time passes between cycles, so nothing a cycle does is late. `temp` roots
have an idle clock, driven by the counts of successive surveys. A store remembers which
collections it ensured, so a run under which a collection is dropped does not create it
again. A run's file `id` stands for a snapshot's name. `entry.whole` is whether the
entry still names all that `record_root` would.

`owed` is a history variable: what was destroyed, by collection, until it is created
anew or its archive expires. `cycle.touched` and `cycle.late` are history too: what was
written since the liveness probe, and what of it no count has seen. They state the
exceptions of `DestroyedIsRecoverable` (see the limits); no guard reads them.

## What is checked

| Run | Instance | Distinct states | Shows |
|---|---|---|---|
| `residency` | 2 callers, 3 tickets, 3 epochs, all faults, fair | 84,495 | the transition's invariants, compute accounted for by the drain, no hollow reopening, every transition ends |
| `borrower` | 1 borrower, operator, 2 route threads, heartbeat, 1 ticket, 2 epochs, all faults, fair | 429,521 | service and borrower take turns on the device (refinement of `GpuDevice`), a quiescence stays with the party that produced it, a lost borrower's hold is cleared or its failure reported |
| `jobs` | a watcher's, a tool's and a held tool's job, one at a time, all commands and write faults, fair | 60,256 | intents and outcomes survive faults and restarts, signals match records, held work comes back, every stop settles |
| `stamps` | 1 job, 2 clock readings, all write faults | 254,127 | the loader accepts what the manager writes, but for held work |
| `history` | 1 work, 3 jobs, 2 clock readings, 2 progress updates, all write faults | 840,000 | one owner per work, settled lineage, saved means in the file, what a start replays, admitted work stays in the file |
| `registry` | 3 calls of every kind, 2 roots, cap 1, 2 lives, failing closes | 609,694 | open stores answered for, also by a shutdown, seats and cap accounted, leased stores stay open, no caller stranded |
| `pipeline` | 3 files, 4 segments, limit 2, a pool of 2, all faults, fair | 1,164,960 | the run's verdict, its rollback, the ledger; every run ends |
| `watcher` | 2 paths, 2 attempts, 2 watchers, 2 processes | 545,672 | accepted changes stay owed, fenced attempts stay fenced, an attempt is settled by its own outcome |
| `publication` | 2 files, 3 contents, 2 edits, 2 faults, fair | 1,132,992 | a served proof is whole and stored, no stray points, runs recover unaided, success is current, the index converges |
| `reclamation` | 2 collections, 2 points, 1 write, 1 job, 1 fault, fair | 1,138,304 | what was destroyed can be recovered, a dangling namespace is reclaimed |
| `watcher_restart` | as `watcher`, 1 path, fair | violation | finding 1 |
| `emptied_source` | as `publication`, 1 edit, no fault | violation | finding 2 |

Every passing run's properties have a mutant each: a plausible mistake in one
mapped operator (written beside it as a "faulty variant") under which TLC must
find the property violated. The faulty variants are used by nothing else.

### Bounds

* *Tickets and epochs* (3 and 3): a waiter of an aborted pause can wake under the
  next pause, tickets of two admissions overlap, and a third epoch is reached
  only through a full pause. With fewer, the stale waiter never appears.
* *Callers* (2): own, join and conflict; a third caller would only join too.
* *Borrowers* (1) and *route threads* (2, and the heartbeat's): the borrower's pause
  and resume, sent before its end or after, and an operator's requests are served
  beside each other, so that a request can fall between any check and its use: a
  resume between the pause's return, its binding and the loan, a joined pause under an
  operator's, the heartbeat between all of them. One ticket and two epochs: the service
  can be paused, resumed and paused again; a hold of the first epoch meets requests of
  the second. What a second borrower adds, a hold that passes on, is not in the run,
  which then has more than 9 million states; the safety properties of the run are
  theorems for any number of borrowers, threads, tickets and epochs.
* *Jobs of `jobs`* (3 kinds, one admitted at a time): jobs meet only in the gate
  and the file, and the theorems cover any number of them.
* *Clock readings* (2): the clock goes on, stays or steps back between any two
  steps; only the order of stamps is read.
* *Jobs of `history`* (3 of one work, 1 active at a time, 3 ended ones kept): a
  retry of a retry, a job created beside a lineage, a record deleted from the
  middle. Two works meet only in the bound of the ring. With a ring of 2, so that
  records are trimmed, there are 615,885 states and no violation.
* *Progress* (2 publications a process): a flush is overtaken by a newer one.
* *Calls* (3) on 2 roots with 1 seat: the smallest instance with a builder, a
  waiter beneath a guard and a third that replaces or evicts.
* *Files* (3, of 2, 1 and 1 segments, weighing 1, 2 and 2; limit 2; pool of 2): a
  file of two segments can be cut between them, a segment can fill the queue
  alone, a slice is flushed by weight and by a skipped segment, and the pool is
  refilled once. One run: the queue, the slices and the failures of a run are its
  own.
* *Watcher* (2 paths, a file that keeps 2 observations, 2 attempts, 2 watchers,
  2 processes): a change arrives under an attempt, a thread of a cancelled
  admission meets the next attempt, a marker meets a watcher that knows its
  attempt and one that does not. The run does not ask for deadlock: with the
  bounds on watchers and processes used up the system stands still.
* *Files of `publication`* (2; contents of one chunk, of two beginning with that
  one, and of none; 2 edits; 2 faults; 3 failures retire a generation): a stream can
  be cut between its chunks, contents share points, a file can become another's
  sibling in one receipt, and a fault can meet the recovery from a fault. Two of the
  situations in `gaps` need a third edit to do their damage: the safety properties were also
  checked with 3 edits and 3 faults, every file read by its scan (5.0 million states up
  to symmetry, no violation), which takes longer than a run here should. A file its scan
  cannot read is one of the faults.
* *Collections* (2, full or empty) and *points* (2): a drop can stop between two
  collections, an archive can carry one and take the other anew, and contents can change
  under the same count. Grace windows of 1 and 2 cycles tell the tiers apart. With one
  fault a retry meets what the first attempt left; safety was also checked with 2 faults
  (1 point, 4.1 million states), with 2 jobs and 2 writes (1 point, 6.8 million), with
  2 writes and with 2 jobs (2 points, 7.2 and 5.9 million), without a violation; these
  with the classification and both clocks as one step.
* Symmetry is used in `registry` and `watcher`, whose properties name no call,
  root or path and are not liveness properties.

### Fairness

* Transition: its owner is a running thread, and a join is a bounded wait. No
  fairness on compute, which may run for ever: a pause then ends by its timeout.
* Borrowers: threads run (`ThreadStep`: its call, its part of a transition, its
  answer, whichever is next) and the heartbeat ticks. Borrowers need never answer,
  finish or exit. Operators eventually stop asking (`OperatorsFallSilent`): a tick
  that meets somebody's transition is told of the conflict, so an endless stream
  of operator requests could meet every tick.
* Jobs: a worker reaches its next checkpoint and its cleanup runs. Work itself
  need not end; nobody needs to call, command or restart.
* Pipeline: both threads run, pool workers answer, the deadline passes. A consumer
  may wedge in an encoder or store call, and nobody need ever interrupt the run.
  Production and consumption may fail at any step, but fairness covers none of the
  refusals (`ProducerRuns`, `ConsumerRuns`): no run ends because a fault had to
  come. That workers answer is assumed
  because the code waits for them without a deadline (see "Known limits").
* Publication: a run's own steps go on, and the service starts a run again (the
  watcher's retry). Edits and faults are bounded, so they end; nothing else is assumed.
* Watcher (finding 1 only): coroutines, jobs and settlements go on, and a
  transaction that is refused the file's lock or told to wait tries again; nothing
  is assumed of changes, stops, cancellations, crashes or the operator.
* Reclamation: the maintenance loop ticks whatever a cycle came to, and an admitted job
  ends. Roots come and go as they like, and nobody need index.
* Registry: none. That nobody waits for ever is checked as the absence of a state
  in which calls are left and none can go on (`NoCallIsStranded`).

## What is proved

`ResidencyProofs`, of the controller: the four invariants of the controller and its types, for
all numbers of waiters, tickets and epochs. None of the four is inductive alone.
That no ticket is left when `quiesced` is entered needs the drain evidence to be
fresh; that tickets are of the live epoch needs that none survive into `warming`,
where the epoch advances. Their conjunction is inductive, and the proof has one
step per method.

`JobManagerProofs`: for any sets of jobs, owners, commands and write faults,
types, `IntentIsDurable` and `SignalMatchesRecord` as invariants (a command's intent
and its signal agree whatever became of its write, and an attempt told to stop for the
service has a record that says so; that a record which says so has its signal is not
claimed, see the limits), and `OnlyIntentQueues` and `OutcomesAreFinal` as action properties. The inductive
invariant (`JobInv`) adds what records and attempts may be together: memory and
file agree on the intent; a settled record in the file is the one in memory; a
record that says running, pausing or cancelling has an attached attempt while the
process lives, and an attached attempt has such a record; a live attempt's token
says what its record says; without an attempt, exit and token are empty. The
argument is by job: a step changes one job's record (`OneJobWritten`,
`UntouchedStaysSound`) or all of them through the file (`TransactStaysSound`), and
each family of steps has a lemma that the touched job stays sound. Assumption: the
constants' types, `JobsAssumption`. On top of it `ReturnInv` proves
`HeldWorkReturns` and `AttemptsLetGo`: the gate is closed while the service's owner
is anywhere in a pause or a reopening (`GateInv`), only an acknowledgement behind a
closed gate leaves a tool's work held, the reopening takes all of it back, and an
attempt that was told to stop has a record its exit can settle (`Answerable`), save
for the jobs an operator resumes by hand.

`JobManagerProofs`, of the clocks: for any jobs, any clock and any write faults,
`OnlyHeldWorkUnreadable`. `StampInv` adds to `JobInv` that a record is `WellStamped`, in
memory and in the file, each by its own stamps: all its stamps follow its creation; start and request do not follow its
last change, which the next revision can only push forward; an outcome ends at its last
change; an intent that is being delivered has its request, and a live or queued record
no acknowledgement, so that a new request cannot come after an old answer. A step revises a record in one of
fourteen ways while the process runs (`Revision`) and three on a start (`Recovery`), and
each keeps a record well stamped (`Revises`); the one that acknowledges a withdrawn pause is the
exception the property names. The file's record is the memory's, the one it had, or a
first revision of what memory held (`WriteReaches`, `TransactReaches`), so it is well
stamped whether a write failed, was published or was durable.

`IndexPipelineProofs`: for any tree of files, weights, limits, pool and faults,
`NeverBlamesTheConsumer` and `LedgerMatchesStore` (its two halves are theorems of their
own). `BlameInv`
carries the reason of the consumer's end to the verdict. While production lasts no
end of stream has been sent, so a consumer that ends has recorded a failure or a
signal; a signal it was given is not withdrawn, so a producer that found the
consumer gone, and no signal for itself, leaves a failure recorded, which is what
is reported. `StoreInv` says that what the consumer has written and not yet
recorded is in its slice, and that a run reports a failure, and is rolled back,
only after its consumer is dead. `CompleteInv`, for `SuccessIsComplete`, says where
every segment is as long as no failure is on record: of each file the producer has
taken up, a segment is still with the pool or about to be submitted, or queued, held,
in the slice or recorded, unless the file held nothing (`SegmentsAccounted`); the
producer is through with its files before it drains (`ProducerOrder`), and the
consumer ends in good order only by the end of the stream, which is the last thing in
the queue and is met with an empty slice (`ConsumerOrder`). All three go through one
lemma for the run's thread, one for the consumer and one for the rest. Assumption: `PipelineAssumption`, the
constants' types and a queue no segment is too heavy for.

`ResidencyProofs`, of the transition: for any callers, tickets, epochs and faults, a transition calls the controller as any caller might (`TransitionRunsController`), so
the controller's theorems hold of it; beyond them, all compute is of the admission
epoch in force and an acknowledged drain is true of the epoch now closed
(`DrainAccountsForCompute`); a service published as safe to borrow has no model loaded
(`SafeMeansNoModel`), no compute loses its stack, and admission never reopens on a
stack the recipe says is missing. The inductive invariant adds to the controller's:
which steps belong to a transition that owns the drain, and that one caller at a
time is in one (`CallsSound`); what that owner knows at each of its steps of the
state of the controller, which nobody else may change meanwhile (`OwnersKnow`); and
which parts of the stack can be missing in which state (`StackSound`). Everybody
else can only admit, finish and look. Assumptions: `BoundsAssumption`, one bound at
least for epochs, and `FaultsAssumption`, faults drawn from the named ones.

`ResidencyProofs`, of lending: a borrower's, a route's and the heartbeat's steps reach the
service through the transition's actions alone, so `LendingSpec` implements
`ResidencySpec` (`LendingImplementsTransition`) and all of the above holds while the
GPU is lent. Its own invariant says which routes may be in which step and what the
lease allows, and gives `OneBorrowerWorks`: two borrowers never work at once. That a hold passes on only
when the bound borrower lost its lease (`HoldNeverHijacked`) needs no invariant: a
binding is the one step that names another borrower, and it verifies the lease.
Assumption: `BorrowersAssumption`.

`ResidencyProofs`, of turns on the device: for any borrowers, route threads, tickets,
epochs and faults, `LendsExclusively`, the refinement of `GpuDevice` (so that the device
has one user at a time, the one it is granted to if that is a borrower,
`DeviceHasOneUser`), and `QuiescenceStaysWithItsParty`. There is no hypothesis on how
requests are served; both properties name the one case in which the code does not keep
them, a binding over a resume that was let through before (`overtaken`). The inductive
invariant `TurnsInv` adds who asks when: one pause a session, before the work; a resume
only once the GPU was given up; the heartbeat's only for a borrower that is gone
(`RequestsSound`). Then, that a transition runs for the requests its threads serve, and
that whom it tells `quiesced` had asked for it, joined callers included
(`CallsServed`). And what a hold is that was not overtaken (`HoldsSound`): while its
borrower has the lease no resume but its own is under way; while it is being lent there
is none, and until that borrower has left the loan names it and the service is
quiesced. It is kept because whoever is let through later is checked against the
binding, and what was let through earlier made the binding an overtaken one. A
transition that loads models or takes a loan back serves a resume, so it does so under
nobody who relies on a hold (`ReliedIsHeld`, `TransitionHolds`), and each step of
lending is one of the device's, or nothing to it (`LendingStepTakesTurns`).

`JobHistoryProofs`: for any number of jobs, works and progress updates and every way
a write may fail, `OneOwnerPerWork`, `LineageSettled`, `CleanIsDurable`, and the two action
properties. A generation
of records is `Good` when its ids were issued and its records are well formed, no two
active jobs claim one work, and what was retried has ended retryable, superseded once
a retry succeeded. Creation, start, progress, outcome, deletion, trimming and restore
each have a lemma that they make a good generation of a good one; most of them are
instances of `Revises`, which says what may become of a job that has a retry. The
deepest step is a success: `Resolvable`, the least set closed under the links, takes
in all it retried through any number of links, and nothing that is still active. A
replay is good because it wants work nobody claims and a job nobody retried. Since
memory, file and the write under way only ever receive such generations
(`GenerationsFollow`), they are all good. `BooksKept` orders the numbers: a flush
carries the number of its progress, which is larger than that of every flush that
ended; while it is the latest its content is the memory; and a flush that ended well,
unentered, with the latest number found the file equal to the memory or the manager
dirty.

The two action properties need the ring besides (`Ranked`). It holds the ended records
and nothing else; and of two records of one work the earlier lies deeper, unless its
stamp is the larger one (`InOrder`). Counting places anew keeps that order
(`PlacesKeepOrder`), a job is created when all before it have ended, and what a start
takes out of the ring was last of its work by stamp and by place (`ReplayedIsLast`); so
`ReplaysOnlyUnclaimedWork` holds, and a start replays one job of a work at most.
`AdmittedWorkIsKept` holds because every record a call writes still has the working jobs,
because a flush carries the working jobs of the memory it runs beside, and because what a
start trims is not what the crash cut short. The last needs `MaxActive <= MaxHistory`, a
hypothesis of `AdmittedWorkStays`: a crash ends all running work that cannot be resumed,
at most `MaxActive` of it, and it has to fit into the ring; the constants are those of
every life, where the code lets a restart change them. The service ships with 64
(`config/_settings.py:461`) and 256 (`job_manager/models.py:24`). Beyond that no
assumption on the constants is used but their types, `HistoryAssumption`.

`ProjectRegistryProofs`: for any calls and roots, any cap and number of restarts,
`SeatsAreAccounted`, `OpenStoresAreAnsweredFor` and `LeasedStoreStaysOpen`. The
inductive invariant `RegistryInv` has a layer per kind of bookkeeping: which locals a
call has at which point; a seat for every construction and a construction for every
seat, within the cap; a slot's count is the number of its lessees; a slot that left
the registry is torn down only at count zero; a transient store is counted while made
and listed while used; nothing is left once a shutdown reports completion. The guards
are the last layer: in the first life whoever is at a root's storage holds the root's
one guard, and a call that entered a root without a guard came when the shutdown had
emptied everything. A step moves one call, or wakes others besides (`Moves`, `Kept`), so each layer
looks at the call that moves. Assumption: `RegistryAssumption`, types and a `None` that
is no call or root.

`WatcherRetryProofs`: for any paths, attempts, watchers and processes,
`AcceptedChangesAreOwed`, `FencedStaysFenced` and `OwnOutcomeOnly`. That changes stay
owed rests on what the file secures (`DebtSecured`): pending paths, and the captured
ones its attempt's run will not miss; a settlement speaks of a job that did end that
way (`OutcomesTrue`), and the attempt's job covers all that was captured (`Captured`).
That a fenced attempt does not return rests on who may still enter one: an admission
under way, left-behind threads included, has an id of its own with no job yet
(`Admitting`), and as long as its policy owns the id and its reservation stands, it
was not given up (`Claims`). Nearly every step is a transaction, so the layers are
first proved of any transaction. Assumption: `WatcherAssumption`, positive bounds.

`StorageReclamationProofs`: for any collections, points and windows and any number of
writes, jobs and faults, `DestroyedIsRecoverable`. What is owed is in no collection and
has its record and its file (`Secured`): a new manifest carries that record, because
its file is not one of this attempt's copies, whose collections still exist, and file
names are used once; tidying keeps what is named; only a sweep, with which it expires,
or a new collection ends the debt. What a drop destroys is copied, empty or excused: a
copy is of what its collection still holds unless that was written since
(`CopiesHold`), and by the time of the plan every collection is copied, or has been
found empty, unless it was written since (`NothingMissed`). That the excuse is not taken back in
the plan is arithmetic (`CountsTell`): a count that goes on while others write has, as
long as nothing was written after its turn, the total of what it counted (`TotalGrows`,
`TotalStays`), so a cycle whose counts agreed and whose history is clear finds the
surveyed total. The survey's own reading, and the entry and clocks that may change
between its three steps, decide only whether a cycle goes on (`ReadingKeeps`,
`EntryStep`). Assumption: `ReclamationAssumption`, positive windows and finite sets of
collections and points.

`PublicationProofs`: for any files, contents and streams and any number of edits and
faults, `ServedProofIsBacked`, `NoStrayPoints`, `FreshStream`, `SuccessIsCurrent` and
`RecoversUnaided`. The inductive
invariant has a half that holds between any two steps, whatever failed or died
(`LedgerInv`), and one that says what a run knows where it is (`RunInv`). Of the first:
two units never share a point (`UnitsApart`), so applying one undoes no other; what a
receipt says is deleted is gone (`AppliedIsDeleted`), and what is stored is published or
recorded (`NoStrays`); every file that a recovery would not touch has all its points
(`Backing`); a sealed receipt is complete, stored and exactly the difference from the
proof (`LedgerOK`). Replacing the proof by it therefore makes storage and proof agree
(`CommitKeeps`), and so does narrowing a replay's receipt to what it changes, because
what the replay restored is stored and published (`SealReplayKeeps`). Of the second: a
replay's decision outlives its run in the markers (`ModeOK`), and a failed attempt
discards nothing that was published when it began (`ExistingKept`), which is where the
two excepted situations come in. `SuccessIsCurrent` follows the run from its scan
(`CurrentInv`, inductive with the above): files the scan passed over are current; of a
file read, every segment is recorded or queued and nothing of another content is
(`ReadOK`); the deletions that end the stream reach every file that is published and
has nothing any more (`DeleteObsoleteCurrent`), what the scan skipped included; so at the seal the receipt says of each
file what the run read (`SealedEvidence`), also of one that went back to what was
published, and replacing the proof makes it say so.

`RecoversUnaided` asks of every step that may raise why it does not, as long as only
situations the code answers were met (`Clean`); `AbleInv`, inductive with the other two,
is the answer. A recovery is never refused for points its own paths lack, since all
other published points are stored and both sides can be counted (`RecoveryIsBacked`).
The deletions that end the stream, and those a forward recovery adds, are the ones
sealing asks for, one a file (`PlanOK`, `LedgerAble`): a file that has nothing to publish
and was published is one the scan found gone (`SeenOK`), for otherwise a gap was met.
So a mutation that is not recorded yet is the open receipt's to make and shares no point
with another (`CleanIsPreparable`; segments of one file differ because their chunks do),
the receipt covers the changed files when it is sealed (`SealIndexAble`,
`SealReplayAble`, `SealForwardAble`), and by then the generation's account of every file
of the run is the receipt's (`StatesOK`, `SealAccount`), also after a crash
(`RecordOutcomesAble`), which is what finalizing asks (`AccountOK`). Everything else that
ends a run early is an interruption, and is remembered (`OwnerOK`).

Assumptions: `PublicationAssumption`, types and a finite tree; `NoneAssumption`, that
nothing recorded is `None`; `ChunkAssumption`, that a content's chunks are distinct (an
identifier holds the chunk's ordinal in its file, `indexer/_chunk_worker.py:1325`); and
`OutcomeAssumption`, that the outcome `"failed"` is no content.

Each inductive invariant was model-checked on its component's instance before it was
proved.

Only model-checked: liveness, and `NoCallIsStranded`, which asks what is ENABLED.

## Findings

1. `watcher_runtime.py`, run `watcher_restart`: after a crash the attempt's job is
   restored and bound to a completion callback that is not the watcher's. The
   watcher adopts the attempt and nobody settles it; the source is not indexed
   again before the service restarts once more.
2. `indexer/_incremental_commit.py`, run `emptied_source`: a published file that an
   editor empties has its points deleted as stale, while sealing asks for the
   deletion of its path. The run fails, and every later incremental asks for a full
   reindex. `_record_empty_source` says that an empty file needs no run to fail. The
   tests empty files that were never published, or in full builds.

### Known limits and disagreements without a run

* `job_max_nonterminal` is any positive number (`config/_schema.py:528`), the history
  holds 256 records: where more jobs may run than records are kept, a crash can cut more
  work short than the next start keeps records of, and the oldest of them are forgotten
  in the start that ends them (`_persistence.py:192`).
* An operator's pause and then resume of a job, by hand, while a service pause unwinds
  its attempt: the record goes back to `running` but the token's quiesce request stays
  armed (`job_manager/_control.py:519`). The attempt unwinds, its acknowledgement finds
  no control pending and is ignored, and the finished task owns the job until the
  process restarts. `AttemptsLetGo` excepts jobs resumed by hand for it.
* A pause that is delivered, resumed by hand and then overtaken by a service pause
  parks the record with an acknowledgement but no request
  (`job_manager/_control.py:606`), which the loader refuses: the next start quarantines
  the file and every job in it, against `job_manager/_persistence.py:682`.
  `OnlyHeldWorkUnreadable` is the form that holds: no other record is ever refused.
* Incremental publication, by the names `gaps` gives them. *vanished*: as finding 2, for
  a published file that disappears between the scan and its read. *reverted*: a file
  that goes back, between scan and read, to what is published leaves mutations that
  change nothing, and sealing fails. *stale row*: a failed outcome of a file the next
  run no longer attempts keeps its generation from finishing. *unmarked*: a file that is
  unreadable, empty or gone in a replay loses its replay marker
  (`indexer/_run_ledger_files.py:118`), and with it the decision to read it again; a
  third change can then leave a certified proof without its points, against
  `_assert_replayed_parent_paths`. *unrecorded*: a failure between a
  mutation's confirmation and its unit's record makes the discard delete points that
  the receipt counts on (`indexer/_incremental_commit.py:184`), and recovery certifies
  them. These five end in a failed run or a request to rebuild, the last two possibly
  in a proof without points. *closed*: a run that failed before its first write is
  retried under a receipt that was rolled back, until three failures retire it.
  *skipped*: a generation past ingesting is finished and reported as the run's success,
  its own changes left for the next. *restored*: a replay of one restored and one
  changed file fails at its second seal, once. These three heal by themselves, which
  `Converges` says.
* A recovery that fails is not tried again. The heartbeat looks for a lost borrower
  only in `quiesced` (`_service_borrower.py:181`); when the rebuild of its recovery, or
  the requeueing of held jobs after it, fails, the service is `warming`, which no later
  tick considers. The hold stays, although the service-quiesce record says the heartbeat
  still clears it (`.vault/adr/2026-07-24-service-quiesce-adr.md:132`). `HoldClears` asks
  then that the failure was reported.
* An overtaken binding. A resume that was authorised while nobody was bound, a
  borrower's own, an operator's or the heartbeat's, can still be on its way to its worker
  thread when a later pause is bound (`server/_routes_quiesce.py:351`). It then ends the
  quiescence under the new hold: it may reclaim before the loan is recorded
  (`_service_borrower.py:160`), and the stack is rebuilt beside a borrower at work,
  against the comment at `_service_residency.py:122`. A borrower's own such resume, once
  answered, clears a binding of a pause that it outran, and can leave the service
  quiesced with no owner; a binding it leaves behind lets the heartbeat end a later
  operator's pause, and refuses that operator's resume. The properties of `borrower`
  except it and hold for everything else; the next binding that is not overtaken ends the
  exception.
* A pause or cancel that is polled while the drain waits for a consumer that has
  recorded a failure is what the run reports; the failure is dropped
  (`indexer/_consumer_pipeline.py:953`).
* A pause whose cache release failed leaves the references detached
  (`_service_residency.py:353`); the next pause finds nothing to detach, records
  "nothing to restore" and reports `quiesced` although no cache release ever
  completed. TLC shows it when `ResourceTransition` is asked whether `quiesced`
  implies that `vram` is free; the service-quiesce record says it does.
* A shutdown completes over a store that an eviction has taken out and is still
  closing (`service.py:515`, against its own docstring at line 507).
  The second part of `OpenStoresAreAnsweredFor` is the form that holds.
* A pool that breaks after it published files, with nothing embedded yet, is
  replaced by the serial producer, which publishes every file again:
  `_drain_pool` learns how many it had published only when nothing is raised
  (`indexer/_chunk_producer.py:565`). `SuccessIsComplete` holds all the same: the
  consumer skips what is recorded and refuses a stream cut inside a file.
* A producer that fails inside a file can be reported as the consumer's complaint
  that the stream must end at a file end, because the cleanup's end of stream comes
  first and the consumer's failure has precedence.
* A pool worker that hangs hangs the run: `_drain_pending_pool` polls run control
  and not the no-progress deadline (`indexer/_chunk_producer.py:608`).
* A borrower that joins an operator's pause under way is told `quiesced`, not
  `already_quiesced`, and binds that quiescence (`_service_residency.py:299`), though the
  service-quiesce record says an operator's pause is not borrowed
  (`.vault/adr/2026-07-24-service-quiesce-adr.md:101`). `QuiescenceStaysWithItsParty`
  counts every borrower whose pause was being served among those who asked.
* The heartbeat can end an operator's later pause, having read the state before
  it (`_service_borrower.py:191`).
* A withdrawal of the loan that could not be written goes unnoticed (`reclaim_gpu`
  drops the result): the owner anchor then names a borrower that has gone until the next
  loan or withdrawal. `LoansAfter` has it.
* In the model, `_post_pause_binding_error`'s last look at the lease and at the state
  and the binding that follows are one step. They run on the event loop, but the lease
  file or the state may change between them (`_service_borrower.py:124`); the loan, a
  step later, reads the lease again, and a resume that moves the state there was let
  through before and makes the binding an overtaken one.
* A borrower that dies while its pause drains leaves a quiesced service bound to
  nobody, so no heartbeat resumes it (compare `cli/_gpu_lease.py:60`).
* `job_models.py:104` says a terminal record never becomes active again; a restore
  does requeue corpus jobs interrupted by a shutdown. The service-job-control
  record speaks of earlier attempts becoming interrupted at a restart; the code
  recovers corpus jobs by their intent.
* A quiesce request that was published but not forced leaves attempts recorded
  `pausing` without a signal (`job_manager/_control_quiesce.py:143`): the drain has to
  time out. `SignalMatchesRecord` asks of a service pause only that a signal has its
  record, not that a record has its signal. Creations and resumes
  whose write was published but not forced stay queued, undispatched, until a
  restart or a service resume.
* A watcher's job refused by the gate is deferred later, from another thread; if
  the pause ends in between it stays paused with intent to run.
  `HeldWorkReturns` therefore covers tools only.
* A teardown that raises leaves its store open and later openers of that root are
  refused. Across a restart of the registry, calls of the former life can hold a
  guard that the new one has forgotten. `OpenStoresAreAnsweredFor` is stated for the
  first life and without the stores a failed teardown left open.
* The watcher's marks of a cancelled transaction can commit after its coroutine
  gave up; the model has such threads for admissions and settlements only. A
  policy file of an older version, whose attempt names no job, and the bound on the
  number of markers are not modelled.
* Reclamation compares totals. A write after the last count is dropped unseen, since
  the drop reads neither the job manager nor the root again; and two writes that cancel,
  one removing points before a collection is copied and one adding them back after the
  copy is verified, leave the total the survey saw (`storage_reclamation.py:592`), so the
  drop proceeds over a copy without them. `DestroyedIsRecoverable` excepts both.
* An archive attempt that fails after a copy leaves a snapshot no manifest names; if the
  namespace is then emptied and dropped by the empty tier, nothing removes it, and
  a restore refuses the directory (`storage_restore.py:456`), earlier copies included.
* A service that dies between the last drop and `remove_prefix` leaves an entry with an
  expired clock (`storage_survey_ops.py:509`): a restore into that root can be
  reclaimed while it runs. Restore takes no lock against index jobs either.
* A store kept open over the reclamation of its live throwaway root remembers its
  collections as ensured (`store_collections.py:433`); its next run does not create them.
* A re-archive after a partial drop publishes only the proofs of what survived
  (`storage_archive.py:200`), though `_archive_publication_proofs` says a re-archive
  republishes what it reads. The archived bytes stay; their certificates do not.
* The byte cap of the archive can evict what the same cycle archived
  (`storage_archive.py:495`).
* The watcher's model takes the wall clock not to step back, and an observation for
  one path; a batch is several of them.

## Not modelled, and the plan

Not modelled inside the modelled parts: wording and payloads, progress and
telemetry, cancellation of the coroutine that dispatches, timed waits' lengths,
the reranker apart from the encoder, collection locks, the lock files themselves.
What each part of `PROJECT.json` marked `not_modelled` lacks is said there.

Order of work, by what can go wrong:

1. Quiesce controller, its proofs; resource transition; borrower holds. *Done.*
2. Job manager and its proofs. *Done.*
3. Project registry. *Done.*
4. Code index pipeline: producer, weighted queue, one consumer, drain and cleanup,
   and its first proofs. *Done.* Left out: preprocess batch groups, donor reuse,
   content drift, the store's retries.
5. Job lineage and the state file's generations: creation with deduplication and
   capacity, retry, superseding, deletion, trimming, restore in ring order;
   serialisations captured under the lock and written outside it. *Done.*
6. The clocks of job records and the loader's validation. *Done.*
7. Watcher retry: attempt, marker, settlement under cancellation, recovery after
   a crash. *Done*; the controller and intake above it only as far as they drive it.
8. Run ledger and publication, for incremental code runs. *Done*; full builds, the
   scoped variant and the other sources' checkpoints are left.
9. Archive before drop, and the reclamation around it. *Done*; restore is left.
10. Anchors; database child.

Abstract specifications stated: the controller for the transition, `GpuDevice` for
the service and its borrowers. Worth stating: the registry as an exclusive holder
per root.

Every safety property of the publication that holds is proved for incremental runs; full builds and
the scoped variant would share the ledger's half of its invariant.

Liveness, and anything defined by recursion over data, stays with TLC: TLAPS
reasons neither about ENABLED and fairness nor by induction over sequences.
