---------------------------- MODULE IndexPipeline -----------------------------
(***************************************************************************)
(* The code index pipeline (indexer/_chunk_producer.py and                   *)
(* _consumer_pipeline.py): the run's own thread chunks files, serially or    *)
(* through a pool of worker processes, and puts their segments on a queue    *)
(* of bounded weight; one consumer thread packs them into slices, encodes,   *)
(* stores and records each slice.  The run ends by draining the consumer or, *)
(* after a failure, by a cleanup that waits for it only so long.             *)
(*                                                                          *)
(* Abstractions: chunk and byte weights are one weight; a slice's limit is   *)
(* the queue's, as resolve_limits has it; digests, drift and batch rules are *)
(* left out; the many checkpoints between two changes of state are one.      *)
(***************************************************************************)
EXTENDS Naturals, Sequences, SequencesExt, FiniteSetsExt

CONSTANTS
    NumFiles,   \* the files to index are 1 .. NumFiles, in this order
    Parts,      \* Parts[f]: the segments file f is cut into
    Weight,     \* Weight[f]: what each of them weighs
    Limit,      \* queue_max_chunks = slice_max_chunks
    Window,     \* how many files the pool holds at once
    Modes,      \* subset of {"serial", "pool"}: what plan_workers may answer
    Faults,     \* what may fail: a subset of AllFaults
    Sentinel,   \* None, the end of the stream
    Nothing     \* no segment

Files == 1 .. NumFiles
Segments == UNION {{f} \X (1 .. Parts[f]) : f \in Files}
Taken    == [seg : Segments, skip : BOOLEAN]
AllFaults == {"chunk", "measure", "encode", "wedge", "store", "ledger", "sample", "pool"}

ASSUME PipelineAssumption ==
    /\ NumFiles \in Nat \ {0} /\ Limit \in Nat /\ Window \in Nat \ {0}
    /\ Parts \in [Files -> Nat \ {0}]
    /\ Weight \in [Files -> 1 .. Limit]
    /\ Modes \subseteq {"serial", "pool"} /\ Faults \subseteq AllFaults
    /\ Sentinel # Nothing /\ {Sentinel, Nothing} \cap (Segments \cup Taken) = {}

VARIABLES
    mode,        \* how files are chunked: "serial" or "pool"
    thread,      \* where the run's own thread is
    next,        \* the next path to chunk
    current,     \* the file being submitted and its next segment
    inPool,      \* pool: files submitted and not yet taken back
    ready,       \* those whose worker has finished
    broken,      \* the pool has lost a worker
    resolved,    \* files that turned out to hold nothing to index
    queue,       \* WeightedCodeSegmentQueue._items
    consumer,    \* where the consumer thread is
    held,        \* the segment it took: [seg, skip], the Sentinel, or Nothing
    slice,       \* the segments packed so far
    last,        \* previous_segment
    stored,      \* segments whose points are in the store
    committed,   \* segments the run ledger records
    embedded,    \* total[0] > 0
    consumerFault,   \* the first failure in consumer_exceptions, signals apart
    consumerSignal,  \* whether a control signal is among them
    producerFailure, drainFailure,
    control,     \* run control: "none", "requested" or "delivered"
    expired,     \* no durable progress for the run's whole timeout
    outcome      \* how the run ended: "none" until it has

poolVars     == <<mode, next, inPool, ready, broken, resolved>>
consumerExceptions == <<consumerFault, consumerSignal>>
consumerVars == <<consumer, held, slice, last, embedded, consumerExceptions>>
storeVars    == <<stored, committed>>
failureVars  == <<producerFailure, drainFailure, outcome>>
pipelineVars == <<poolVars, thread, current, queue, consumerVars,
                  storeVars, failureVars, control, expired>>

IsFileEnd(s) == s[2] = Parts[s[1]]
SegmentsOf(f) == {s \in Segments : s[1] = f}
WeightOf(segments) == FoldSeq(LAMBDA s, w : w + Weight[s[1]], 0, segments)
QueuedWeight == WeightOf(SelectSeq(queue, LAMBDA s : s # Sentinel))

CanAdmit(s)  == QueuedWeight + Weight[s[1]] <= Limit

Pending      == control # "none"
ConsumerLive == consumer # "dead" /\ consumerFault = "none" /\ ~consumerSignal

FirstWindow == 1 .. Min({Window, NumFiles})

(* A resumed run starts with what an interrupted attempt recorded.           *)
Init ==
    /\ mode \in Modes /\ thread = mode
    /\ inPool = IF mode = "pool" THEN FirstWindow ELSE {}
    /\ next = IF mode = "pool" THEN Cardinality(FirstWindow) + 1 ELSE 1
    /\ ready = {} /\ broken = FALSE /\ resolved = {} /\ current = Nothing
    /\ queue = <<>> /\ slice = <<>> /\ held = Nothing /\ last = Nothing
    /\ consumer = "get"
    /\ committed \in {{}} \cup {{<<f, 1>>} : f \in Files}
    /\ stored = committed /\ embedded = (committed # {})
    /\ consumerFault = "none" /\ consumerSignal = FALSE
    /\ producerFailure = "none" /\ drainFailure = "none"
    /\ control = "none" /\ expired = FALSE /\ outcome = "none"

---------------------------------------------------------------------------
(* The producer, on the run's own thread.                                    *)

Goto(point) == thread' = point
Deliver == control' = IF Pending THEN "delivered" ELSE control

\* An exception leaves the pool's block through its shutdown.
ProducerFails(kind) ==
    /\ producerFailure' = kind
    /\ Goto(IF mode = "pool" THEN "closing" ELSE "finish")

Producing == thread \in {"serial", "pool", "refill", "submit"}

ProducerInterrupted ==
    /\ Producing /\ Pending /\ ProducerFails("signal") /\ Deliver
    /\ UNCHANGED <<poolVars, current, queue, consumerVars, storeVars,
                   drainFailure, outcome, expired>>

\* What a chunked file turns out to be: segments to submit, nothing to index,
\* or a failure that ends the run.
Publish(f, then) ==
    \/ /\ current' = <<f, 1>> /\ Goto("submit") /\ UNCHANGED <<resolved, producerFailure>>
    \/ /\ resolved' = resolved \cup {f} /\ Goto(then) /\ UNCHANGED <<current, producerFailure>>
    \/ /\ "chunk" \in Faults /\ ProducerFails("failure") /\ UNCHANGED <<current, resolved>>

ChunkNext ==
    /\ thread = "serial" /\ ~Pending /\ next \in Files
    /\ next' = next + 1 /\ Publish(next, "serial")
    /\ UNCHANGED <<mode, inPool, ready, broken, queue, consumerVars, storeVars,
                   drainFailure, outcome, control, expired>>

SerialDone ==
    /\ thread = "serial" /\ next \notin Files /\ Goto("finish")
    /\ UNCHANGED <<poolVars, current, queue, consumerVars, storeVars,
                   failureVars, control, expired>>

\* submit_segments, one segment at a time.
EnqueueSegment ==
    /\ thread = "submit" /\ ~Pending /\ ConsumerLive /\ CanAdmit(current)
    /\ queue' = Append(queue, current)
    /\ IF IsFileEnd(current)
       THEN /\ Goto(IF mode = "pool" THEN "refill" ELSE "serial")
            /\ current' = Nothing
       ELSE current' = <<current[1], current[2] + 1>> /\ UNCHANGED thread
    /\ UNCHANGED <<poolVars, consumerVars, storeVars, failureVars, control, expired>>

\* The support budget refuses the segment that exceeds it; a memory sample
\* taken while the queue is full may refuse as well.
MeasureRefuses ==
    /\ thread = "submit" /\ ~Pending /\ "measure" \in Faults /\ ProducerFails("failure")
    /\ UNCHANGED <<poolVars, current, queue, consumerVars, storeVars,
                   drainFailure, outcome, control, expired>>

\* Faulty variant: the deadline is looked at only once the consumer is gone.
QueueWaitIgnoresDeadline ==
    /\ thread = "submit" /\ ~Pending /\ ~ConsumerLive /\ ~CanAdmit(current)
    /\ expired /\ ProducerFails("expired")
    /\ UNCHANGED <<poolVars, current, queue, consumerVars, storeVars,
                   drainFailure, outcome, control, expired>>

QueueWaitExpires ==
    /\ thread = "submit" /\ ~Pending /\ ConsumerLive /\ ~CanAdmit(current)
    /\ expired /\ ProducerFails("expired")
    /\ UNCHANGED <<poolVars, current, queue, consumerVars, storeVars,
                   drainFailure, outcome, control, expired>>

\* The serial producer raises; the pool's loop returns without a failure.
ConsumerGone ==
    /\ thread = "submit" /\ ~Pending /\ ~ConsumerLive
    /\ IF mode = "pool"
       THEN Goto("closing") /\ UNCHANGED producerFailure
       ELSE ProducerFails("gone")
    /\ UNCHANGED <<poolVars, current, queue, consumerVars, storeVars,
                   drainFailure, outcome, control, expired>>

---------------------------------------------------------------------------
(* The pool of worker processes.                                             *)

Unfinished == inPool \ ready

WorkerFinishes(f) ==
    /\ f \in Unfinished /\ ~broken /\ ready' = ready \cup {f}
    /\ UNCHANGED <<mode, next, inPool, broken, resolved, thread, current, queue,
                   consumerVars, storeVars, failureVars, control, expired>>

PoolBreaks ==
    /\ "pool" \in Faults /\ ~broken /\ Unfinished # {} /\ broken' = TRUE
    /\ UNCHANGED <<mode, next, inPool, ready, resolved, thread, current, queue,
                   consumerVars, storeVars, failureVars, control, expired>>

\* _process_future: publish a finished file.
TakeResult(f) ==
    /\ thread = "pool" /\ ~Pending /\ f \in ready
    /\ inPool' = inPool \ {f} /\ ready' = ready \ {f}
    /\ Publish(f, "refill")
    /\ UNCHANGED <<mode, next, broken, queue, consumerVars, storeVars,
                   drainFailure, outcome, control, expired>>

Refill ==
    /\ thread = "refill" /\ ~Pending
    /\ IF next \notin Files
       THEN Goto("pool") /\ UNCHANGED <<next, inPool>>
       ELSE IF broken
            THEN Goto("broken") /\ next' = next + 1 /\ UNCHANGED inPool
            ELSE Goto("pool") /\ inPool' = inPool \cup {next} /\ next' = next + 1
    /\ UNCHANGED <<mode, ready, broken, resolved, current, queue, consumerVars,
                   storeVars, failureVars, control, expired>>

\* A future of a broken pool raises BrokenProcessPool.
BreakSeen ==
    /\ thread = "pool" /\ ~Pending /\ broken /\ Unfinished # {} /\ Goto("broken")
    /\ UNCHANGED <<poolVars, current, queue, consumerVars, storeVars,
                   failureVars, control, expired>>

\* _drain_pool assigns its count of published files together with the return
\* of the drain that has just raised, so after a break it is always zero.
Advanced == 0

AfterBreak ==
    /\ thread = "broken"
    /\ IF Advanced > 0 \/ embedded
       THEN /\ producerFailure' = "broken" /\ Goto("finish")
            /\ UNCHANGED <<mode, next, inPool, ready>>
       ELSE /\ mode' = "serial" /\ Goto("serial") /\ next' = 1
            /\ inPool' = {} /\ ready' = {} /\ UNCHANGED producerFailure
    /\ UNCHANGED <<broken, resolved, current, queue, consumerVars, storeVars,
                   drainFailure, outcome, control, expired>>

\* The loop ends when nothing is pending or the consumer is seen to be gone.
PoolDone ==
    /\ thread = "pool"
    /\ inPool = {} \/ (~Pending /\ ~ConsumerLive)
    /\ Goto("closing")
    /\ UNCHANGED <<poolVars, current, queue, consumerVars, storeVars,
                   failureVars, control, expired>>

\* Leaving the pool waits for the workers that are still at it.
PoolClosed ==
    /\ thread = "closing" /\ (Unfinished = {} \/ broken) /\ Goto("finish")
    /\ UNCHANGED <<poolVars, current, queue, consumerVars, storeVars,
                   failureVars, control, expired>>

---------------------------------------------------------------------------
(* The consumer thread.                                                      *)

Record(kind) ==
    /\ consumerFault' = IF kind # "signal" /\ consumerFault = "none" THEN kind ELSE consumerFault
    /\ consumerSignal' = (consumerSignal \/ kind = "signal")

ConsumerFails(kind) == Record(kind) /\ consumer' = "cleanup"

ConsumerInterrupted ==
    /\ consumer \in {"get", "encode", "account"} /\ Pending
    /\ ConsumerFails("signal") /\ Deliver
    /\ UNCHANGED <<poolVars, thread, current, queue, held, slice, last,
                   embedded, storeVars, failureVars, expired>>

\* A memory sample is over its ceiling, while waiting for work or at the end.
SampleRefuses ==
    /\ "sample" \in Faults
    /\ \/ consumer = "get" /\ queue = <<>> /\ ConsumerFails("failure")
       \/ consumer = "cleanup" /\ Record("failure") /\ consumer' = "dead"
    /\ UNCHANGED <<poolVars, thread, current, queue, held, slice, last,
                   embedded, storeVars, failureVars, control, expired>>

GetSegment ==
    /\ consumer = "get" /\ ~Pending /\ queue # <<>> /\ Head(queue) # Sentinel
    /\ queue' = Tail(queue)
    /\ held' = [seg |-> Head(queue), skip |-> Head(queue) \in committed]
    /\ consumer' = "pack"
    /\ UNCHANGED <<poolVars, thread, current, slice, last, embedded,
                   consumerExceptions, storeVars, failureVars, control, expired>>

\* validate_segment_transition
Follows(s, before) ==
    IF before = Nothing \/ IsFileEnd(before)
    THEN s[2] = 1 /\ (before = Nothing \/ s[1] # before[1])
    ELSE s = <<before[1], before[2] + 1>>

\* A full slice, or one that a skipped segment separates, goes out first.
MustFlush == slice # <<>> /\ (held.skip \/ WeightOf(slice) + Weight[held.seg[1]] > Limit)

PackSegment ==
    /\ consumer = "pack"
    /\ IF Follows(held.seg, last)
       THEN /\ last' = held.seg /\ consumer' = IF MustFlush THEN "encode" ELSE "place"
            /\ UNCHANGED consumerExceptions
       ELSE ConsumerFails("stream") /\ UNCHANGED last
    /\ UNCHANGED <<poolVars, thread, current, queue, held, slice, embedded,
                   storeVars, failureVars, control, expired>>

PlaceSegment ==
    /\ consumer = "place"
    /\ slice' = IF held.skip THEN slice ELSE Append(slice, held.seg)
    /\ held' = Nothing /\ consumer' = "get"
    /\ UNCHANGED <<poolVars, thread, current, queue, last, embedded,
                   consumerExceptions, storeVars, failureVars, control, expired>>

\* The end of the stream: a file may not be left open, the last slice goes out.
GetSentinel ==
    /\ consumer = "get" /\ ~Pending /\ queue # <<>> /\ Head(queue) = Sentinel
    /\ queue' = Tail(queue) /\ held' = Sentinel
    /\ IF last # Nothing /\ ~IsFileEnd(last)
       THEN ConsumerFails("stream")
       ELSE /\ consumer' = IF slice = <<>> THEN "cleanup" ELSE "encode"
            /\ UNCHANGED consumerExceptions
    /\ UNCHANGED <<poolVars, thread, current, slice, last, embedded,
                   storeVars, failureVars, control, expired>>

\* A forward or a store call may fail, or never come back.
EncodeSlice ==
    /\ consumer = "encode" /\ ~Pending
    /\ \/ consumer' = "write" /\ UNCHANGED consumerExceptions
       \/ "encode" \in Faults /\ ConsumerFails("failure")
       \/ "wedge" \in Faults /\ consumer' = "wedged" /\ UNCHANGED consumerExceptions
    /\ UNCHANGED <<poolVars, thread, current, queue, held, slice, last,
                   embedded, storeVars, failureVars, control, expired>>

\* The store is not called once the deadline has passed; a failed call may
\* have written all the same.
WriteSlice ==
    /\ consumer = "write"
    /\ \/ /\ ~expired /\ consumer' = "confirm" /\ stored' = stored \cup ToSet(slice)
          /\ UNCHANGED consumerExceptions
       \/ /\ ~expired /\ "store" \in Faults /\ ConsumerFails("failure")
          /\ stored' \in {stored, stored \cup ToSet(slice)}
       \/ expired /\ ConsumerFails("expired") /\ UNCHANGED stored
    /\ UNCHANGED <<poolVars, thread, current, queue, held, slice, last, embedded,
                   committed, failureVars, control, expired>>

\* The ledger records the slice; only then is the deadline looked at again.
ConfirmSlice ==
    /\ consumer = "confirm"
    /\ \/ /\ committed' = committed \cup ToSet(slice)
          /\ IF expired /\ ~(ToSet(slice) \subseteq committed)
             THEN ConsumerFails("expired")
             ELSE consumer' = "account" /\ UNCHANGED consumerExceptions
       \/ "ledger" \in Faults /\ ConsumerFails("failure") /\ UNCHANGED committed
    /\ UNCHANGED <<poolVars, thread, current, queue, held, slice, last, embedded,
                   stored, failureVars, control, expired>>

\* The slice is counted, then the memory is sampled once more.
AccountSlice ==
    /\ consumer = "account" /\ ~Pending
    /\ embedded' = TRUE /\ slice' = <<>>
    /\ \/ /\ consumer' = IF held = Sentinel THEN "cleanup" ELSE "place"
          /\ UNCHANGED consumerExceptions
       \/ "sample" \in Faults /\ ConsumerFails("failure")
    /\ UNCHANGED <<poolVars, thread, current, queue, held, last, storeVars, failureVars,
                   control, expired>>

ConsumerEnds ==
    /\ consumer = "cleanup" /\ consumer' = "dead"
    /\ UNCHANGED <<poolVars, thread, current, queue, held, slice, last, embedded,
                   consumerExceptions, storeVars, failureVars, control, expired>>

---------------------------------------------------------------------------
(* The end of the run: _finish_weighted_consumer.                            *)

Alive == consumer # "dead"

Finish ==
    /\ thread = "finish" /\ Goto(IF producerFailure = "none" THEN "drain" ELSE "cleanup")
    /\ UNCHANGED <<poolVars, current, queue, consumerVars, storeVars,
                   failureVars, control, expired>>

\* The drain's checkpoint: the deadline first, then run control.
DrainInterrupted ==
    /\ thread \in {"drain", "join"} /\ Alive
    /\ \/ expired /\ drainFailure' = "expired" /\ UNCHANGED control
       \/ ~expired /\ Pending /\ drainFailure' = "signal" /\ Deliver
    /\ Goto("cleanup")
    /\ UNCHANGED <<poolVars, current, queue, consumerVars, storeVars,
                   producerFailure, outcome, expired>>

\* A memory sample is over its ceiling while the drain waits.
DrainSampleRefuses ==
    /\ thread = "join" /\ Alive /\ "sample" \in Faults
    /\ drainFailure' = "failure" /\ Goto("cleanup")
    /\ UNCHANGED <<poolVars, current, queue, consumerVars, storeVars,
                   producerFailure, outcome, control, expired>>

\* The sentinel has no weight and is always admitted.
SendSentinel ==
    /\ thread = "drain" /\ Alive /\ ~expired /\ ~Pending
    /\ queue' = Append(queue, Sentinel) /\ Goto("join")
    /\ UNCHANGED <<poolVars, current, consumerVars, storeVars, failureVars,
                   control, expired>>

DrainDone ==
    /\ thread \in {"drain", "join"} /\ ~Alive /\ Goto("settle")
    /\ UNCHANGED <<poolVars, current, queue, consumerVars, storeVars,
                   failureVars, control, expired>>

Cleanup ==
    /\ thread = "cleanup" /\ Goto("settling")
    /\ queue' = IF Alive THEN Append(queue, Sentinel) ELSE queue
    /\ UNCHANGED <<poolVars, current, consumerVars, storeVars, failureVars,
                   control, expired>>

CleanupDone ==
    /\ thread = "settling" /\ ~Alive /\ Goto("settle")
    /\ UNCHANGED <<poolVars, current, queue, consumerVars, storeVars,
                   failureVars, control, expired>>

\* Faulty variant: a cleanup that timed out goes on to report the failure.
CleanupGivesUp ==
    /\ thread = "settling" /\ Alive /\ Goto("settle")
    /\ UNCHANGED <<poolVars, current, queue, consumerVars, storeVars,
                   failureVars, control, expired>>

CleanupTimesOut ==
    /\ thread = "settling" /\ Alive /\ Goto("returned") /\ outcome' = "unsettled"
    /\ UNCHANGED <<poolVars, current, queue, consumerVars, storeVars,
                   producerFailure, drainFailure, control, expired>>

\* Faulty variants: the consumer's failure is forgotten, or comes last.
VerdictOfProducer ==
    IF drainFailure # "none" THEN drainFailure
    ELSE IF producerFailure # "none" THEN producerFailure
    ELSE IF consumerSignal \/ Pending THEN "signal" ELSE "ok"

VerdictProducerFirst ==
    IF drainFailure # "none" THEN drainFailure
    ELSE IF producerFailure # "none" THEN producerFailure
    ELSE IF consumerFault # "none" THEN consumerFault
    ELSE IF consumerSignal \/ Pending THEN "signal" ELSE "ok"

\* Which failure the run reports.
Verdict ==
    IF drainFailure # "none" THEN drainFailure
    ELSE IF consumerFault # "none" THEN consumerFault
    ELSE IF producerFailure # "none" THEN producerFailure
    ELSE IF consumerSignal \/ Pending THEN "signal" ELSE "ok"

Settle ==
    /\ thread = "settle" /\ outcome' = Verdict /\ Goto("returned")
    /\ control' = IF Verdict = "signal" /\ Pending THEN "delivered" ELSE control
    /\ UNCHANGED <<poolVars, current, queue, consumerVars, storeVars,
                   producerFailure, drainFailure, expired>>

\* The caller takes back what the failed run stored and did not record,
\* unless the consumer may still be writing.  A deletion that fails is only
\* logged: the run then stays as it returned.
DiscardAdditions ==
    /\ thread = "returned" /\ outcome \notin {"ok", "unsettled"}
    /\ stored' = stored \cap committed /\ Goto("rolled back")
    /\ UNCHANGED <<poolVars, current, queue, consumerVars, committed,
                   failureVars, control, expired>>

---------------------------------------------------------------------------
(* Run control and time.                                                     *)

RequestControl ==
    /\ outcome = "none" /\ control = "none" /\ control' = "requested"
    /\ UNCHANGED <<poolVars, thread, current, queue, consumerVars, storeVars,
                   failureVars, expired>>

WithdrawControl ==
    /\ outcome = "none" /\ control = "requested" /\ control' = "none"
    /\ UNCHANGED <<poolVars, thread, current, queue, consumerVars, storeVars,
                   failureVars, expired>>

\* No durable progress for the whole timeout.  Progress recorded later finds
\* the deadline passed, so it is never taken back.
DeadlinePasses ==
    /\ outcome = "none" /\ ~expired /\ expired' = TRUE
    /\ UNCHANGED <<poolVars, thread, current, queue, consumerVars, storeVars,
                   failureVars, control>>

ProducerRuns ==
    \/ ProducerInterrupted \/ ChunkNext \/ SerialDone
    \/ EnqueueSegment \/ QueueWaitExpires \/ ConsumerGone
    \/ \E f \in Files : TakeResult(f)
    \/ Refill \/ BreakSeen \/ AfterBreak \/ PoolDone \/ PoolClosed
    \/ Finish \/ DrainInterrupted \/ SendSentinel \/ DrainDone
    \/ Cleanup \/ CleanupDone \/ CleanupTimesOut \/ Settle

ConsumerRuns ==
    \/ ConsumerInterrupted \/ GetSegment \/ PackSegment \/ PlaceSegment
    \/ GetSentinel \/ EncodeSlice \/ WriteSlice \/ ConfirmSlice \/ AccountSlice \/ ConsumerEnds

\* A refusal may come, and is never counted on.
Producer == ProducerRuns \/ MeasureRefuses \/ DrainSampleRefuses
Consumer == ConsumerRuns \/ SampleRefuses

Next ==
    \/ Producer \/ Consumer \/ DiscardAdditions
    \/ \E f \in Files : WorkerFinishes(f)
    \/ PoolBreaks \/ RequestControl \/ WithdrawControl \/ DeadlinePasses

Spec == Init /\ [][Next]_pipelineVars

\* Both threads run, workers answer, time passes; nothing more is assumed of
\* the consumer, which may wedge.
FairSpec ==
    /\ Spec /\ WF_pipelineVars(ProducerRuns) /\ WF_pipelineVars(ConsumerRuns)
    /\ \A f \in Files : WF_pipelineVars(WorkerFinishes(f))
    /\ WF_pipelineVars(DeadlinePasses)

---------------------------------------------------------------------------

\* A run that reports success has recorded every segment of every file that
\* holds anything to index, whoever failed or stopped early on the way.
SuccessIsComplete ==
    outcome = "ok" =>
        \A f \in Files : f \in resolved \/ SegmentsOf(f) \subseteq committed

\* What a failed run stored and did not record is gone once the caller has
\* taken it back: no write of its consumer is left to come.
RolledBackIsClean == thread = "rolled back" => stored \subseteq committed

\* The ledger never records what the store does not hold, whatever failed in
\* between and whatever a failed run takes back.
LedgerNeverAhead == committed \subseteq stored

\* Ledger and store agree as far as failures allow.
LedgerMatchesStore == LedgerNeverAhead /\ RolledBackIsClean

\* The serial producer's own complaint that its consumer ended is never what
\* the run reports: why the consumer ended is.
NeverBlamesTheConsumer == outcome # "gone"

\* Every run ends: a producer waits neither for a dead nor for a wedged
\* consumer, and neither does the drain.
RunEnds == <>(outcome # "none")
=============================================================================
