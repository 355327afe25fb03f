-------------------------- MODULE IndexPipelineProofs --------------------------
(***************************************************************************)
(* What a run of the index pipeline reports and leaves behind, for any tree, *)
(* any limits and any faults.                                                *)
(***************************************************************************)
EXTENDS IndexPipeline, FiniteSetTheorems, TLAPS

\* While the run's thread may still put a segment on the queue, no sentinel
\* was sent, so a consumer that ended has recorded why.
Feeding == thread \in {"serial", "pool", "refill", "submit", "closing", "broken", "finish"}

StreamIsOpen ==
    Feeding =>
        /\ held # Sentinel
        /\ \A i \in DOMAIN queue : queue[i] # Sentinel
        /\ consumer \in {"cleanup", "dead"} => (consumerFault # "none" \/ consumerSignal = TRUE)

\* A delivered signal is not withdrawn.
SignalStays == (consumerSignal = TRUE) => control = "delivered"

Blame ==
    /\ consumerFault # "gone" /\ drainFailure # "gone"
    /\ producerFailure = "gone" => consumerFault # "none"
    /\ outcome # "gone"

Shape ==
    /\ queue \in Seq(Segments \cup {Sentinel})
    /\ current \in Segments \cup {Nothing}
    /\ thread = "submit" => current \in Segments

BlameInv == Shape /\ StreamIsOpen /\ SignalStays /\ Blame

\* A file's first segment is a segment.
LEMMA FirstPart == \A f \in Files : <<f, 1>> \in Segments
  <1> TAKE f \in Files
  <1>1. 1 \in 1 .. Parts[f]
    BY PipelineAssumption
  <1>2. <<f, 1>> \in {f} \X (1 .. Parts[f])
    BY <1>1
  <1> QED
    BY <1>2 DEF Segments

\* The segment after one that does not end its file is a segment.
LEMMA NextPart ==
    ASSUME NEW s \in Segments, ~IsFileEnd(s)
    PROVE  <<s[1], s[2] + 1>> \in Segments
  <1>1. PICK f \in Files : s \in {f} \X (1 .. Parts[f])
    BY DEF Segments
  <1>2. s[1] = f /\ s[2] \in 1 .. Parts[f] /\ s[2] # Parts[f] /\ Parts[f] \in Nat
    BY <1>1, PipelineAssumption DEF IsFileEnd
  <1>3. s[2] + 1 \in 1 .. Parts[f]
    BY <1>2
  <1>4. <<s[1], s[2] + 1>> \in {f} \X (1 .. Parts[f])
    BY <1>2, <1>3
  <1> QED
    BY <1>4 DEF Segments

\* Neither a segment nor a segment taken is mistaken for an end mark.
LEMMA NoSegmentIsSentinel ==
    /\ Sentinel \notin Segments /\ Nothing \notin Segments
    /\ Sentinel \notin Taken /\ Nothing # Sentinel
  BY PipelineAssumption

\* Taking the head of a queue leaves only what was in it.
LEMMA QueueTail ==
    ASSUME NEW S, NEW q \in Seq(S), q # <<>>
    PROVE  /\ Head(q) \in S /\ Head(q) = q[1] /\ 1 \in DOMAIN q
           /\ Tail(q) \in Seq(S)
           /\ \A i \in DOMAIN Tail(q) : i + 1 \in DOMAIN q /\ Tail(q)[i] = q[i + 1]
  OBVIOUS

\* Putting a segment on the queue leaves what was in it where it was.
LEMMA QueueAppend ==
    ASSUME NEW S, NEW q \in Seq(S), NEW x \in S
    PROVE  /\ Append(q, x) \in Seq(S)
           /\ \A i \in DOMAIN Append(q, x) : Append(q, x)[i] = x \/ (i \in DOMAIN q /\ Append(q, x)[i] = q[i])
  OBVIOUS

\* No one is to blame before the run has begun.
LEMMA BlameInit == Init => BlameInv
  BY PipelineAssumption, NoSegmentIsSentinel
     DEF Init, BlameInv, Shape, StreamIsOpen, SignalStays, Blame, Feeding, FirstWindow

\* Each step of the run's thread keeps the account of who is to blame.
LEMMA BlameProducer == BlameInv /\ Producer => BlameInv'
  <1> SUFFICES ASSUME BlameInv, Producer
               PROVE  BlameInv'
    OBVIOUS
  <1> USE PipelineAssumption
      DEF BlameInv, Shape, StreamIsOpen, SignalStays, Blame, Feeding, Goto, Deliver, Pending,
          ProducerFails, poolVars, consumerExceptions, consumerVars, storeVars, failureVars
  <1>1. CASE ProducerInterrupted
    BY <1>1 DEF ProducerInterrupted, Producing
  <1>2. CASE ChunkNext
    BY <1>2, FirstPart DEF ChunkNext, Publish, Files
  <1>3. CASE SerialDone
    BY <1>3 DEF SerialDone
  <1>4. CASE EnqueueSegment
    <2>1. current \in Segments /\ current # Sentinel
      BY <1>4, NoSegmentIsSentinel DEF EnqueueSegment
    <2>2. queue' \in Seq(Segments \cup {Sentinel})
      BY <1>4, <2>1, QueueAppend DEF EnqueueSegment
    <2>3. \A i \in DOMAIN queue' : queue'[i] # Sentinel
      BY <1>4, <2>1, QueueAppend DEF EnqueueSegment
    <2>4. CASE IsFileEnd(current)
      BY <1>4, <2>1, <2>2, <2>3, <2>4 DEF EnqueueSegment
    <2>5. CASE ~IsFileEnd(current)
      BY <1>4, <2>1, <2>2, <2>3, <2>5, NextPart DEF EnqueueSegment
    <2> QED
      BY <2>4, <2>5
  <1>5. CASE MeasureRefuses
    BY <1>5 DEF MeasureRefuses
  <1>6. CASE QueueWaitExpires
    BY <1>6 DEF QueueWaitExpires
  <1>7. CASE ConsumerGone
    BY <1>7 DEF ConsumerGone, ConsumerLive
  <1>8. ASSUME NEW f \in Files, TakeResult(f) PROVE BlameInv'
    BY <1>8, FirstPart DEF TakeResult, Publish
  <1>9. CASE Refill
    BY <1>9 DEF Refill
  <1>10. CASE BreakSeen
    BY <1>10 DEF BreakSeen
  <1>11. CASE AfterBreak
    BY <1>11 DEF AfterBreak
  <1>12. CASE PoolDone
    BY <1>12 DEF PoolDone
  <1>13. CASE PoolClosed
    BY <1>13 DEF PoolClosed
  <1>14. CASE Finish
    BY <1>14 DEF Finish
  <1>15. CASE DrainInterrupted
    BY <1>15 DEF DrainInterrupted
  <1>16. CASE SendSentinel
    BY <1>16 DEF SendSentinel
  <1>17. CASE DrainDone
    BY <1>17 DEF DrainDone
  <1>18. CASE Cleanup
    BY <1>18 DEF Cleanup
  <1>19. CASE CleanupDone
    BY <1>19 DEF CleanupDone
  <1>20. CASE CleanupTimesOut
    BY <1>20 DEF CleanupTimesOut
  <1>21. CASE Settle
    BY <1>21 DEF Settle, Verdict
  <1>22. CASE DrainSampleRefuses
    BY <1>22 DEF DrainSampleRefuses
  <1> QED
    BY <1>1, <1>2, <1>3, <1>4, <1>5, <1>6, <1>7, <1>8, <1>9, <1>10, <1>11, <1>12,
       <1>13, <1>14, <1>15, <1>16, <1>17, <1>18, <1>19, <1>20, <1>21, <1>22
       DEF Producer, ProducerRuns

\* So does each step of the consumer.
LEMMA BlameConsumer == BlameInv /\ Consumer => BlameInv'
  <1> SUFFICES ASSUME BlameInv, Consumer
               PROVE  BlameInv'
    OBVIOUS
  <1> USE PipelineAssumption
      DEF BlameInv, Shape, StreamIsOpen, SignalStays, Blame, Feeding, Goto, Deliver, Pending,
          ConsumerFails, Record, poolVars, consumerExceptions, consumerVars, storeVars, failureVars
  <1>1. CASE ConsumerInterrupted
    BY <1>1 DEF ConsumerInterrupted
  <1>2. CASE SampleRefuses
    BY <1>2 DEF SampleRefuses
  <1>3. CASE GetSegment
    <2>1. queue' \in Seq(Segments \cup {Sentinel}) /\ Head(queue) \in Segments
      BY <1>3, QueueTail DEF GetSegment
    <2>2. Feeding => \A i \in DOMAIN queue' : queue'[i] # Sentinel
      BY <1>3, QueueTail DEF GetSegment
    <2>3. held' # Sentinel
      <3>1. [seg |-> Head(queue), skip |-> (Head(queue) \in committed)] \in Taken
        BY <2>1 DEF Taken
      <3> QED
        BY <1>3, <3>1, NoSegmentIsSentinel DEF GetSegment
    <2> QED
      BY <1>3, <2>1, <2>2, <2>3 DEF GetSegment
  <1>4. CASE PackSegment
    BY <1>4 DEF PackSegment
  <1>5. CASE PlaceSegment
    BY <1>5 DEF PlaceSegment
  <1>6. CASE GetSentinel
    <2>1. queue' \in Seq(Segments \cup {Sentinel})
      BY <1>6, QueueTail DEF GetSentinel
    <2>2. ~Feeding
      BY <1>6, QueueTail DEF GetSentinel
    <2> QED
      BY <1>6, <2>1, <2>2 DEF GetSentinel
  <1>7. CASE EncodeSlice
    BY <1>7 DEF EncodeSlice
  <1>8. CASE WriteSlice
    BY <1>8 DEF WriteSlice
  <1>9. CASE ConfirmSlice
    BY <1>9 DEF ConfirmSlice
  <1>10. CASE AccountSlice
    BY <1>10 DEF AccountSlice
  <1>11. CASE ConsumerEnds
    BY <1>11 DEF ConsumerEnds
  <1> QED
    BY <1>1, <1>2, <1>3, <1>4, <1>5, <1>6, <1>7, <1>8, <1>9, <1>10, <1>11
       DEF Consumer, ConsumerRuns

\* The caller, the workers, run control and the clock blame nobody.
Surroundings ==
    \/ DiscardAdditions \/ (\E f \in Files : WorkerFinishes(f)) \/ PoolBreaks
    \/ RequestControl \/ WithdrawControl \/ DeadlinePasses

\* What surrounds the run's two threads blames no one.
LEMMA BlameSurroundings == BlameInv /\ (Surroundings \/ UNCHANGED pipelineVars) => BlameInv'
  BY DEF Surroundings, DiscardAdditions, WorkerFinishes, PoolBreaks, RequestControl,
         WithdrawControl, DeadlinePasses, pipelineVars, BlameInv, Shape, StreamIsOpen,
         SignalStays, Blame, Feeding, Goto, poolVars, consumerExceptions, consumerVars,
         storeVars, failureVars

\* For any tree and any faults: a run never reports the serial producer's bare
\* complaint that its consumer ended (_finish_weighted_consumer).  A consumer
\* that ended early recorded a failure, which outranks the complaint, or a
\* signal, which stays pending and stops the producer first.
THEOREM ConsumerIsNeverBlamed == Spec => []NeverBlamesTheConsumer
  <1>1. Init => BlameInv
    BY BlameInit
  <1>2. BlameInv /\ [Next]_pipelineVars => BlameInv'
    <2> SUFFICES ASSUME BlameInv, [Next]_pipelineVars PROVE BlameInv'
      OBVIOUS
    <2>1. Producer \/ Consumer \/ Surroundings \/ UNCHANGED pipelineVars
      BY DEF Next, Surroundings
    <2> QED
      BY <2>1, BlameProducer, BlameConsumer, BlameSurroundings
  <1>3. BlameInv => NeverBlamesTheConsumer
    BY DEF BlameInv, Blame, NeverBlamesTheConsumer
  <1> QED
    BY <1>1, <1>2, <1>3, PTL DEF Spec

---------------------------------------------------------------------------
(* What is in the store.                                                     *)

\* A run that settled, or whose additions were taken back, has no consumer.
SettledIsStill ==
    /\ thread \in {"settle", "rolled back"} => consumer = "dead"
    /\ thread = "returned" => (outcome = "unsettled" \/ consumer = "dead")

\* A slice on its way to the ledger is in the store.
ConfirmsWhatIsStored == consumer = "confirm" => ToSet(slice) \subseteq stored

StoreInv == SettledIsStill /\ ConfirmsWhatIsStored /\ LedgerNeverAhead /\ RolledBackIsClean

\* A resumed run starts with a store that holds what the ledger records.
LEMMA StoreInit == Init => StoreInv
  BY PipelineAssumption
     DEF Init, StoreInv, SettledIsStill, ConfirmsWhatIsStored, LedgerNeverAhead, RolledBackIsClean

\* The run's thread leaves the store alone and settles only without a consumer.
LEMMA StoreProducer == StoreInv /\ Producer => StoreInv'
  <1> SUFFICES ASSUME StoreInv, Producer
               PROVE  StoreInv'
    OBVIOUS
  <1> USE PipelineAssumption
      DEF StoreInv, SettledIsStill, ConfirmsWhatIsStored, LedgerNeverAhead, RolledBackIsClean,
          Goto, Deliver, ProducerFails, Alive, poolVars, consumerExceptions, consumerVars, storeVars, failureVars
  <1>1. CASE ProducerInterrupted
    BY <1>1 DEF ProducerInterrupted
  <1>2. CASE ChunkNext
    BY <1>2 DEF ChunkNext, Publish, Files
  <1>3. CASE SerialDone
    BY <1>3 DEF SerialDone
  <1>4. CASE EnqueueSegment
    BY <1>4 DEF EnqueueSegment
  <1>5. CASE MeasureRefuses
    BY <1>5 DEF MeasureRefuses
  <1>6. CASE QueueWaitExpires
    BY <1>6 DEF QueueWaitExpires
  <1>7. CASE ConsumerGone
    BY <1>7 DEF ConsumerGone
  <1>8. ASSUME NEW f \in Files, TakeResult(f) PROVE StoreInv'
    BY <1>8 DEF TakeResult, Publish
  <1>9. CASE Refill
    BY <1>9 DEF Refill
  <1>10. CASE BreakSeen
    BY <1>10 DEF BreakSeen
  <1>11. CASE AfterBreak
    BY <1>11 DEF AfterBreak
  <1>12. CASE PoolDone
    BY <1>12 DEF PoolDone
  <1>13. CASE PoolClosed
    BY <1>13 DEF PoolClosed
  <1>14. CASE Finish
    BY <1>14 DEF Finish
  <1>15. CASE DrainInterrupted
    BY <1>15 DEF DrainInterrupted
  <1>16. CASE SendSentinel
    BY <1>16 DEF SendSentinel
  <1>17. CASE DrainDone
    BY <1>17 DEF DrainDone
  <1>18. CASE Cleanup
    BY <1>18 DEF Cleanup
  <1>19. CASE CleanupDone
    BY <1>19 DEF CleanupDone
  <1>20. CASE CleanupTimesOut
    BY <1>20 DEF CleanupTimesOut
  <1>21. CASE Settle
    BY <1>21 DEF Settle
  <1>22. CASE DrainSampleRefuses
    BY <1>22 DEF DrainSampleRefuses
  <1> QED
    BY <1>1, <1>2, <1>3, <1>4, <1>5, <1>6, <1>7, <1>8, <1>9, <1>10, <1>11, <1>12,
       <1>13, <1>14, <1>15, <1>16, <1>17, <1>18, <1>19, <1>20, <1>21, <1>22
       DEF Producer, ProducerRuns

\* The consumer writes before it records, and a dead one does neither.
LEMMA StoreConsumer == StoreInv /\ Consumer => StoreInv'
  <1> SUFFICES ASSUME StoreInv, Consumer
               PROVE  StoreInv'
    OBVIOUS
  <1> USE PipelineAssumption
      DEF StoreInv, SettledIsStill, ConfirmsWhatIsStored, LedgerNeverAhead, RolledBackIsClean,
          ConsumerFails, Record, poolVars, consumerExceptions, consumerVars, storeVars, failureVars
  <1>1. CASE ConsumerInterrupted
    BY <1>1 DEF ConsumerInterrupted
  <1>2. CASE SampleRefuses
    BY <1>2 DEF SampleRefuses
  <1>3. CASE GetSegment
    BY <1>3 DEF GetSegment
  <1>4. CASE PackSegment
    BY <1>4 DEF PackSegment
  <1>5. CASE PlaceSegment
    BY <1>5 DEF PlaceSegment
  <1>6. CASE GetSentinel
    BY <1>6 DEF GetSentinel
  <1>7. CASE EncodeSlice
    BY <1>7 DEF EncodeSlice
  <1>8. CASE WriteSlice
    BY <1>8 DEF WriteSlice
  <1>9. CASE ConfirmSlice
    BY <1>9 DEF ConfirmSlice
  <1>10. CASE AccountSlice
    BY <1>10 DEF AccountSlice
  <1>11. CASE ConsumerEnds
    BY <1>11 DEF ConsumerEnds
  <1> QED
    BY <1>1, <1>2, <1>3, <1>4, <1>5, <1>6, <1>7, <1>8, <1>9, <1>10, <1>11
       DEF Consumer, ConsumerRuns

\* What surrounds the run writes nothing to the store.
LEMMA StoreSurroundings == StoreInv /\ (Surroundings \/ UNCHANGED pipelineVars) => StoreInv'
  BY DEF Surroundings, DiscardAdditions, WorkerFinishes, PoolBreaks, RequestControl,
         WithdrawControl, DeadlinePasses, pipelineVars, StoreInv, SettledIsStill,
         ConfirmsWhatIsStored, LedgerNeverAhead, RolledBackIsClean, Goto, poolVars,
         consumerExceptions, consumerVars, storeVars, failureVars

\* The account of who may still write to the store holds throughout.
LEMMA StoreInvariant == Spec => []StoreInv
  <1>1. StoreInv /\ [Next]_pipelineVars => StoreInv'
    <2> SUFFICES ASSUME StoreInv, [Next]_pipelineVars PROVE StoreInv'
      OBVIOUS
    <2>1. Producer \/ Consumer \/ Surroundings \/ UNCHANGED pipelineVars
      BY DEF Next, Surroundings
    <2> QED
      BY <2>1, StoreProducer, StoreConsumer, StoreSurroundings
  <1> QED
    BY <1>1, StoreInit, PTL DEF Spec

\* For any tree and any faults: once the caller has taken a failed run's
\* additions back, the store holds nothing the ledger does not record, because
\* a run that may still have a writing consumer reports itself unsettled.
THEOREM RollbackLeavesNothing == Spec => []RolledBackIsClean
  <1>1. StoreInv => RolledBackIsClean
    BY DEF StoreInv
  <1> QED
    BY <1>1, StoreInvariant, PTL

\* For any tree and any faults: what the run ledger records is in the store.
\* That the rollback spares it needs the consumer dead by then.
THEOREM LedgerFollowsStore == Spec => []LedgerNeverAhead
  <1>1. StoreInv => LedgerNeverAhead
    BY DEF StoreInv
  <1> QED
    BY <1>1, StoreInvariant, PTL

\* For any tree and any faults: ledger and store agree as far as failures allow.
THEOREM LedgerAndStoreAgree == Spec => []LedgerMatchesStore
  <1>1. LedgerNeverAhead /\ RolledBackIsClean => LedgerMatchesStore
    BY DEF LedgerMatchesStore
  <1> QED
    BY <1>1, LedgerFollowsStore, RollbackLeavesNothing, PTL

---------------------------------------------------------------------------
(* Where every segment is.                                                   *)

\* No failure is on record yet.
Healthy ==
    /\ producerFailure = "none" /\ drainFailure = "none"
    /\ consumerFault = "none" /\ consumerSignal = FALSE

\* A segment that was submitted is queued, held, packed or recorded.
Accounted(s) ==
    \/ s \in committed
    \/ \E i \in DOMAIN slice : slice[i] = s
    \/ held \in Taken /\ held.seg = s
    \/ \E i \in DOMAIN queue : queue[i] = s

\* What the producer submits next.
Due(s) == current # Nothing /\ current[1] = s[1] /\ current[2] <= s[2]

\* Of every file the producer has taken up, each segment is accounted for, unless
\* the file held nothing, is still with the pool or is being submitted.  A pool
\* that broke lost files, and the run begins anew or fails.
SegmentsAccounted ==
    Healthy /\ thread # "broken" =>
        \A s \in Segments : s[1] < next =>
            s[1] \in resolved \cup inPool \/ Due(s) \/ Accounted(s)

\* The producer is through with its files before it drains.
ProducerOrder ==
    /\ next \in Nat \ {0} /\ mode \in {"serial", "pool"}
    /\ mode = "serial" => inPool = {}
    /\ thread = "serial" => mode = "serial"
    /\ thread \in {"pool", "refill"} => mode = "pool"
    /\ thread = "pool" /\ inPool = {} => next \notin Files
    /\ thread \in {"cleanup", "settling"} => ~Healthy
    /\ Healthy /\ thread # "submit" => current = Nothing
    /\ Healthy /\ thread \in {"closing", "finish", "drain", "join", "settle"} =>
           next \notin Files /\ inPool = {}

\* The consumer ends in good order only by the end of the stream, which comes last.
ConsumerOrder ==
    /\ held \in Taken \cup {Sentinel, Nothing} /\ slice \in Seq(Segments)
    /\ consumer = "get" => held = Nothing
    /\ consumer \in {"pack", "place"} => held \in Taken
    /\ consumer \in {"encode", "write", "confirm", "account"} => held \in Taken \cup {Sentinel}
    /\ held \in Taken /\ held.skip => held.seg \in committed
    /\ consumer = "account" => \A i \in DOMAIN slice : slice[i] \in committed
    /\ Healthy =>
          /\ thread = "drain" => held # Sentinel /\ \A i \in DOMAIN queue : queue[i] # Sentinel
          /\ \A i \in DOMAIN queue : queue[i] = Sentinel => i = Len(queue)
          /\ held = Sentinel => queue = <<>>
          /\ consumer \in {"cleanup", "dead"} => held = Sentinel /\ slice = <<>>

\* No failure is recorded as a success.
Recorded ==
    "ok" \notin {producerFailure, drainFailure, consumerFault} /\ consumerSignal \in BOOLEAN

CompleteInv ==
    Recorded /\ ProducerOrder /\ ConsumerOrder /\ SegmentsAccounted /\ SuccessIsComplete

\* A failure on record is never taken back.
StaysFailed == Healthy' => Healthy

\* A step that touches neither the queue nor the consumer nor the store.
LEMMA ConsumerIdle ==
  ASSUME ConsumerOrder, StaysFailed, UNCHANGED <<queue, consumerVars, storeVars>>,
         thread' = "drain" => thread = "drain"
  PROVE  ConsumerOrder' /\ \A s : Accounted(s) => Accounted(s)'
  BY DEF ConsumerOrder, StaysFailed, consumerVars, consumerExceptions, storeVars, Accounted

\* Nor does a run that ended learn that it was incomplete.
LEMMA SuccessStays ==
  ASSUME SuccessIsComplete, committed \subseteq committed', resolved \subseteq resolved',
         outcome' = outcome
  PROVE  SuccessIsComplete'
  BY DEF SuccessIsComplete

\* Before the first file is chunked every segment is still to come.
LEMMA CompleteInit == Init => CompleteInv
  <1> SUFFICES ASSUME Init
               PROVE  CompleteInv
    OBVIOUS
  <1>1. /\ NumFiles \in Nat \ {0} /\ Window \in Nat \ {0} /\ Modes \subseteq {"serial", "pool"}
        /\ Sentinel # Nothing /\ Sentinel \notin Taken /\ Nothing \notin Taken
    BY PipelineAssumption
  <1>2. PICK m \in Nat \ {0} : FirstWindow = 1 .. m /\ m <= NumFiles
    BY <1>1 DEF FirstWindow, Min
  <1>3. Cardinality(FirstWindow) = m /\ FirstWindow \subseteq Files /\ 1 \in FirstWindow
    BY <1>1, <1>2, FS_Interval DEF Files
  <1>4. \A s \in Segments : s[1] \in Files
    BY DEF Segments
  <1>5. mode \in {"serial", "pool"} /\ thread = mode /\ current = Nothing
    BY <1>1 DEF Init
  <1>6. ProducerOrder
    BY <1>1, <1>2, <1>3, <1>5 DEF Init, ProducerOrder, Healthy
  <1>7. ConsumerOrder
    BY <1>1 DEF Init, ConsumerOrder
  <1>8. SegmentsAccounted
    BY <1>1, <1>2, <1>3, <1>4, <1>5 DEF Init, SegmentsAccounted, Files
  <1>9. SuccessIsComplete
    BY DEF Init, SuccessIsComplete
  <1>10. Recorded
    BY DEF Init, Recorded
  <1> QED BY <1>6, <1>7, <1>8, <1>9, <1>10 DEF CompleteInv

\* The producer's place in its files is as it was.
LEMMA SegmentsStay ==
  ASSUME SegmentsAccounted, StaysFailed, thread # "broken" \/ thread' = "broken",
         UNCHANGED <<next, current>>, resolved \cup inPool \subseteq resolved' \cup inPool',
         \A s : Accounted(s) => Accounted(s)'
  PROVE  SegmentsAccounted'
  BY DEF SegmentsAccounted, StaysFailed, Due

\* Each step of the run's thread keeps account of every segment.
LEMMA CompleteProducer ==
  ASSUME BlameInv, SettledIsStill, CompleteInv, Producer
  PROVE  CompleteInv'
  <1> USE PipelineAssumption DEF CompleteInv
  <1> DEFINE Quiet == UNCHANGED <<queue, consumerVars, storeVars, outcome>>
  <1>1. ASSUME Quiet, resolved \subseteq resolved', thread' # "drain", StaysFailed,
               Recorded', ProducerOrder', SegmentsAccounted'
        PROVE  CompleteInv'
    BY <1>1, ConsumerIdle, SuccessStays DEF storeVars
  <1>2. ASSUME Quiet, resolved \subseteq resolved', producerFailure' \notin {"none", "ok"},
               thread' \in {"closing", "finish"},
               UNCHANGED <<mode, drainFailure>>, next' \in Nat \ {0},
               mode = "serial" => inPool' = {}
        PROVE  CompleteInv'
    <2>1. ~Healthy'
      BY <1>2 DEF Healthy
    <2>2. ProducerOrder' /\ SegmentsAccounted' /\ StaysFailed /\ Recorded'
      BY <1>2, <2>1 DEF ProducerOrder, SegmentsAccounted, StaysFailed, Recorded, consumerVars, consumerExceptions
    <2> QED BY <1>1, <1>2, <2>2
  <1>3. /\ Feeding => (consumer = "dead" => ~Healthy)
        /\ Feeding /\ ~ConsumerLive => ~Healthy
    BY DEF BlameInv, StreamIsOpen, Healthy, ConsumerLive
  <1>4. \A s \in Segments : s[1] \in Files
    BY DEF Segments
  <1>5. CASE ProducerInterrupted \/ MeasureRefuses \/ QueueWaitExpires
    BY <1>2, <1>5 DEF ProducerInterrupted, MeasureRefuses, QueueWaitExpires, ProducerFails, Goto,
       poolVars, ProducerOrder, consumerVars, failureVars
  <1>6. CASE ChunkNext
    <2>1. /\ Quiet /\ mode = "serial" /\ inPool = {} /\ next \in Files /\ next' = next + 1
          /\ next \in Nat \ {0} /\ thread = "serial"
          /\ UNCHANGED <<mode, inPool, drainFailure, consumerVars>>
      BY <1>6 DEF ChunkNext, ProducerOrder
    <2>2. CASE resolved' = resolved /\ ProducerFails("failure")
      BY <1>2, <2>1, <2>2 DEF ProducerFails, Goto
    <2>3. CASE /\ current' = <<next, 1>> /\ thread' = "submit"
               /\ UNCHANGED <<resolved, producerFailure>>
      <3>1. StaysFailed /\ Recorded' /\ (Healthy' => Healthy)
        BY <2>1, <2>3 DEF StaysFailed, Healthy, Recorded, consumerVars, consumerExceptions
      <3>2. ProducerOrder'
        BY <2>1, <2>3 DEF ProducerOrder
      <3>3. SegmentsAccounted'
        <4>1. current' # Nothing
          BY <2>1, <2>3, FirstPart, NoSegmentIsSentinel
        <4>2. \A s \in Segments : s[1] = next => Due(s)'
          BY <2>3, <4>1 DEF Due, Segments
        <4>3. \A s \in Segments : s[1] < next' => s[1] < next \/ s[1] = next
          BY <1>4, <2>1 DEF Files
        <4>4. Healthy => current = Nothing
          BY <2>1 DEF ProducerOrder
        <4> QED BY <2>1, <2>3, <3>1, <4>2, <4>3, <4>4, ConsumerIdle DEF SegmentsAccounted, Due
      <3> QED BY <1>1, <2>1, <2>3, <3>1, <3>2, <3>3
    <2>4. CASE /\ resolved' = resolved \cup {next} /\ thread' = "serial"
               /\ UNCHANGED <<current, producerFailure>>
      <3>1. StaysFailed /\ Recorded' /\ (Healthy' => Healthy)
        BY <2>1, <2>4 DEF StaysFailed, Healthy, Recorded, consumerVars, consumerExceptions
      <3>2. ProducerOrder'
        BY <2>1, <2>4, <3>1 DEF ProducerOrder
      <3>3. SegmentsAccounted'
        <4>1. \A s \in Segments : s[1] < next' => s[1] < next \/ s[1] = next
          BY <1>4, <2>1 DEF Files
        <4> QED BY <2>1, <2>4, <3>1, <4>1, ConsumerIdle DEF SegmentsAccounted, Due
      <3> QED BY <1>1, <2>1, <2>4, <3>1, <3>2, <3>3
    <2> QED BY <1>6, <2>2, <2>3, <2>4 DEF ChunkNext, Publish, Goto
  <1>7. ASSUME UNCHANGED <<poolVars, current, queue, consumerVars, storeVars, failureVars>>,
               thread # "broken", thread' # "drain", ProducerOrder'
        PROVE  CompleteInv'
    <2>1. StaysFailed /\ Recorded'
      BY <1>7 DEF StaysFailed, Healthy, Recorded, consumerVars, consumerExceptions, failureVars
    <2>2. \A s : Accounted(s) => Accounted(s)'
      BY <1>7, <2>1, ConsumerIdle
    <2>3. UNCHANGED <<next, current, resolved, inPool, outcome>>
      BY <1>7 DEF poolVars, failureVars
    <2>4. SegmentsAccounted'
      BY <1>7, <2>1, <2>2, <2>3, SegmentsStay
    <2> QED BY <1>1, <1>7, <2>1, <2>3, <2>4
  <1>8. CASE EnqueueSegment
    <2>1. /\ thread = "submit" /\ current \in Segments /\ current # Sentinel /\ current # Nothing
          /\ queue \in Seq(Segments \cup {Sentinel}) /\ queue' = Append(queue, current)
          /\ UNCHANGED <<poolVars, consumerVars, storeVars, failureVars>>
      BY <1>8, NoSegmentIsSentinel DEF EnqueueSegment, BlameInv, Shape
    <2>2. /\ thread' \in {"submit", "refill", "serial"}
          /\ thread' = "serial" => mode # "pool"
          /\ thread' = "refill" => mode = "pool"
          /\ IF IsFileEnd(current) THEN current' = Nothing /\ thread' # "submit"
             ELSE current' = <<current[1], current[2] + 1>> /\ thread' = "submit"
      BY <1>8 DEF EnqueueSegment, Goto
    <2>3. Healthy' <=> Healthy
      BY <2>1 DEF Healthy, failureVars, consumerVars, consumerExceptions
    <2>4. \A i \in DOMAIN queue' : queue'[i] # Sentinel
      BY <2>1, QueueAppend DEF BlameInv, StreamIsOpen, Feeding
    <2>5. ConsumerOrder'
      <3>1. held # Sentinel
        BY <2>1 DEF BlameInv, StreamIsOpen, Feeding
      <3> QED BY <2>1, <2>2, <2>3, <2>4, <3>1 DEF ConsumerOrder, consumerVars, consumerExceptions, storeVars
    <2>6. ProducerOrder'
      BY <2>1, <2>2, <2>3 DEF ProducerOrder, poolVars
    <2>7. \A s : Accounted(s) \/ s = current => Accounted(s)'
      <3>1. \A i \in DOMAIN queue : i \in DOMAIN queue' /\ queue'[i] = queue[i]
        BY <2>1
      <3>2. Len(queue) + 1 \in DOMAIN queue' /\ queue'[Len(queue) + 1] = current
        BY <2>1
      <3>3. \A s : (\E i \in DOMAIN queue : queue[i] = s) \/ s = current
                       => \E i \in DOMAIN queue' : queue'[i] = s
        BY <3>1, <3>2
      <3>4. UNCHANGED <<committed, slice, held>>
        BY <2>1 DEF consumerVars, storeVars
      <3> QED BY <3>3, <3>4 DEF Accounted
    <2>8. SegmentsAccounted'
      <3>1. \A s \in Segments : Due(s) => s = current \/ Due(s)'
        <4>1. SUFFICES ASSUME NEW s \in Segments, s[1] = current[1], current[2] <= s[2], s # current
                       PROVE  Due(s)'
          BY DEF Due
        <4>2. PICK f \in Files : s \in {f} \X (1 .. Parts[f])
          BY DEF Segments
        <4>3. PICK g \in Files : current \in {g} \X (1 .. Parts[g])
          BY <2>1 DEF Segments
        <4>4. f = g /\ s[2] # current[2] /\ Parts[f] \in Nat
          BY <4>1, <4>2, <4>3
        <4>5. ~IsFileEnd(current) /\ current[2] + 1 <= s[2]
          BY <4>1, <4>2, <4>3, <4>4 DEF IsFileEnd
        <4>6. current' \in Segments /\ current' # Nothing
          BY <2>1, <2>2, <4>5, NextPart, NoSegmentIsSentinel
        <4> QED BY <2>2, <4>1, <4>5, <4>6 DEF Due
      <3>2. UNCHANGED <<next, resolved, inPool>> /\ thread # "broken"
        BY <2>1 DEF poolVars
      <3> QED BY <2>3, <2>7, <3>1, <3>2 DEF SegmentsAccounted
    <2>9. Recorded' /\ SuccessIsComplete'
      BY <2>1, SuccessStays DEF Recorded, failureVars, poolVars, storeVars, consumerVars, consumerExceptions
    <2> QED BY <2>5, <2>6, <2>8, <2>9
  <1>9. CASE ConsumerGone
    <2>1. /\ ~Healthy /\ Quiet /\ resolved' = resolved /\ thread' \in {"closing", "finish"}
          /\ UNCHANGED <<mode, inPool, next, drainFailure, consumerVars>>
          /\ producerFailure' \in {producerFailure, "gone"}
      BY <1>3, <1>9 DEF ConsumerGone, Feeding, ProducerFails, Goto, poolVars, failureVars
    <2>2. ~Healthy'
      BY <1>3, <1>9, <2>1 DEF ConsumerGone, Feeding, Healthy, consumerVars, consumerExceptions
    <2>3. StaysFailed /\ Recorded' /\ ProducerOrder' /\ SegmentsAccounted'
      BY <2>1, <2>2 DEF StaysFailed, Recorded, ProducerOrder, SegmentsAccounted, consumerVars, consumerExceptions
    <2> QED BY <1>1, <2>1, <2>3
  <1>10. CASE SerialDone \/ BreakSeen \/ PoolDone \/ PoolClosed \/ DrainDone \/ CleanupDone
    <2>1. /\ UNCHANGED <<poolVars, current, queue, consumerVars, storeVars, failureVars>>
          /\ thread # "broken" /\ thread' # "drain"
      BY <1>10 DEF SerialDone, BreakSeen, PoolDone, PoolClosed, DrainDone, CleanupDone, Goto
    <2>2. Healthy' <=> Healthy
      BY <2>1 DEF Healthy, failureVars, consumerVars, consumerExceptions
    <2>3. ProducerOrder'
      <3>1. UNCHANGED <<mode, next, inPool, current>>
        BY <2>1 DEF poolVars
      <3>2. CASE SerialDone \/ BreakSeen
        BY <2>2, <3>1, <3>2 DEF SerialDone, BreakSeen, ProducerOrder, Goto
      <3>3. CASE PoolDone
        BY <1>3, <2>2, <3>1, <3>3 DEF PoolDone, ProducerOrder, Goto, Feeding
      <3>4. CASE PoolClosed \/ DrainDone \/ CleanupDone
        BY <2>2, <3>1, <3>4 DEF PoolClosed, DrainDone, CleanupDone, ProducerOrder, Goto
      <3> QED BY <1>10, <3>2, <3>3, <3>4
    <2> QED BY <1>7, <2>1, <2>3
  <1>11. ASSUME NEW f \in Files, TakeResult(f)
         PROVE  CompleteInv'
    <2>1. /\ Quiet /\ thread = "pool" /\ mode' = mode /\ next' = next /\ mode = "pool"
          /\ inPool' = inPool \ {f} /\ UNCHANGED <<drainFailure, consumerVars>>
          /\ queue' = queue /\ storeVars' = storeVars /\ next \in Nat \ {0}
      BY <1>11 DEF TakeResult, ProducerOrder
    <2>2. CASE resolved' = resolved /\ ProducerFails("failure")
      BY <1>2, <2>1, <2>2 DEF ProducerFails, Goto
    <2>3. CASE \/ /\ current' = <<f, 1>> /\ thread' = "submit"
                  /\ UNCHANGED <<resolved, producerFailure>>
               \/ /\ resolved' = resolved \cup {f} /\ thread' = "refill"
                  /\ UNCHANGED <<current, producerFailure>>
      <3>1. StaysFailed /\ Recorded' /\ (Healthy' => Healthy)
        BY <2>1, <2>3 DEF StaysFailed, Healthy, Recorded, consumerVars, consumerExceptions
      <3>2. ProducerOrder'
        BY <2>1, <2>3, <3>1 DEF ProducerOrder
      <3>3. SegmentsAccounted'
        <4>1. \A s : Accounted(s) => Accounted(s)'
          BY <2>1, <2>3, <3>1, ConsumerIdle
        <4>2. \A s \in Segments : ~Due(s) \/ ~Healthy
          BY <2>1 DEF ProducerOrder, Due
        <4>3. CASE current' = <<f, 1>> /\ resolved' = resolved
          <5>1. current' # Nothing
            BY <4>3, FirstPart, NoSegmentIsSentinel
          <5>2. \A s \in Segments : s[1] = f => Due(s)'
            BY <4>3, <5>1 DEF Due, Segments
          <5> QED BY <2>1, <3>1, <4>1, <4>2, <4>3, <5>2 DEF SegmentsAccounted
        <4>4. CASE resolved' = resolved \cup {f} /\ current' = current
          BY <2>1, <3>1, <4>1, <4>2, <4>4 DEF SegmentsAccounted
        <4> QED BY <2>3, <4>3, <4>4
      <3> QED BY <1>1, <2>1, <2>3, <3>1, <3>2, <3>3
    <2> QED BY <1>11, <2>2, <2>3 DEF TakeResult, Publish, Goto
  <1>12. CASE Refill
    <2>1. /\ Quiet /\ thread = "refill" /\ mode' = mode /\ thread' \in {"pool", "broken"}
          /\ UNCHANGED <<resolved, current, queue, consumerVars, storeVars, failureVars>>
      BY <1>12 DEF Refill, Goto, failureVars
    <2>2. StaysFailed /\ Recorded' /\ (Healthy' <=> Healthy)
      BY <2>1 DEF StaysFailed, Healthy, Recorded, consumerVars, consumerExceptions, failureVars
    <2>3. /\ next \in Nat \ {0}
          /\ \/ next \notin Files /\ UNCHANGED <<next, inPool>>
             \/ thread' = "broken" /\ next' = next + 1 /\ inPool' = inPool
             \/ thread' = "pool" /\ next' = next + 1 /\ inPool' = inPool \cup {next}
      BY <1>12 DEF Refill, Goto, ProducerOrder
    <2>4. ProducerOrder'
      <3>1. /\ mode' = "pool" /\ next' \in Nat \ {0} /\ current' = current
            /\ thread' = "pool" /\ inPool' = {} => next' \notin Files
        BY <2>1, <2>3 DEF ProducerOrder
      <3>2. Healthy => current = Nothing
        BY <2>1 DEF ProducerOrder
      <3> QED BY <2>1, <2>2, <3>1, <3>2 DEF ProducerOrder
    <2>5. SegmentsAccounted'
      <3>1. \A s : Accounted(s) => Accounted(s)'
        BY <2>1, <2>2, ConsumerIdle
      <3>2. thread' # "broken" => \A s \in Segments : s[1] < next' => s[1] < next \/ s[1] \in inPool'
        BY <1>4, <2>3 DEF Files
      <3>3. inPool \subseteq inPool'
        BY <2>3
      <3> QED BY <2>1, <2>2, <3>1, <3>2, <3>3 DEF SegmentsAccounted, Due
    <2> QED BY <1>1, <2>1, <2>2, <2>4, <2>5
  <1>13. CASE AfterBreak
    <2>1. Quiet /\ resolved' = resolved /\ UNCHANGED <<drainFailure, consumerVars>>
      BY <1>13 DEF AfterBreak
    <2>2. CASE producerFailure' = "broken" /\ thread' = "finish" /\ UNCHANGED <<mode, next, inPool>>
      BY <1>2, <2>1, <2>2 DEF ProducerOrder
    <2>3. CASE /\ mode' = "serial" /\ thread' = "serial" /\ next' = 1 /\ inPool' = {}
               /\ UNCHANGED <<producerFailure, current>>
      <3>1. StaysFailed /\ Recorded' /\ (Healthy' <=> Healthy)
        BY <2>1, <2>3 DEF StaysFailed, Healthy, Recorded, consumerVars, consumerExceptions
      <3>2. ProducerOrder'
        BY <1>13, <2>1, <2>3, <3>1 DEF ProducerOrder, AfterBreak
      <3>3. SegmentsAccounted'
        BY <1>4, <2>3 DEF SegmentsAccounted, Files
      <3> QED BY <1>1, <2>1, <2>3, <3>1, <3>2, <3>3
    <2> QED BY <1>13, <2>2, <2>3 DEF AfterBreak, Goto
  <1>14. CASE Finish
    <2>1. /\ UNCHANGED <<poolVars, current, queue, consumerVars, storeVars, failureVars>>
          /\ thread = "finish"
      BY <1>14 DEF Finish
    <2>2. CASE thread' = "cleanup" /\ producerFailure # "none"
      <3>1. ~Healthy /\ ~Healthy'
        BY <2>1, <2>2 DEF Healthy, failureVars
      <3>2. ProducerOrder'
        BY <2>1, <2>2, <3>1 DEF ProducerOrder, poolVars
      <3> QED BY <1>7, <2>1, <2>2, <3>2
    <2>3. CASE thread' = "drain"
      <3>1. (Healthy' <=> Healthy) /\ StaysFailed /\ Recorded'
        BY <2>1 DEF StaysFailed, Recorded, Healthy, failureVars, consumerVars, consumerExceptions
      <3>2. ProducerOrder'
        BY <2>1, <2>3, <3>1 DEF ProducerOrder, poolVars
      <3>3. held # Sentinel /\ \A i \in DOMAIN queue : queue[i] # Sentinel
        BY <2>1 DEF BlameInv, StreamIsOpen, Feeding
      <3>4. ConsumerOrder' /\ \A s : Accounted(s) => Accounted(s)'
        BY <2>1, <3>1, <3>3 DEF ConsumerOrder, Accounted, consumerVars, consumerExceptions, storeVars
      <3>5. UNCHANGED <<next, current, resolved, inPool, outcome, committed>>
        BY <2>1 DEF poolVars, failureVars, storeVars
      <3>6. SegmentsAccounted' /\ SuccessIsComplete'
        BY <2>1, <3>1, <3>4, <3>5, SegmentsStay, SuccessStays
      <3> QED BY <3>1, <3>2, <3>4, <3>6
    <2> QED BY <1>14, <2>2, <2>3 DEF Finish, Goto
  <1>15. CASE DrainInterrupted \/ DrainSampleRefuses
    <2>1. /\ Quiet /\ UNCHANGED <<poolVars, current, consumerVars, producerFailure>>
          /\ drainFailure' \notin {"none", "ok"} /\ thread' = "cleanup"
      BY <1>15 DEF DrainInterrupted, DrainSampleRefuses, Goto
    <2>2. ~Healthy' /\ resolved' = resolved
      BY <2>1 DEF Healthy, poolVars
    <2>3. StaysFailed /\ Recorded' /\ ProducerOrder' /\ SegmentsAccounted'
      BY <2>1, <2>2 DEF StaysFailed, Recorded, ProducerOrder, SegmentsAccounted, poolVars, consumerVars, consumerExceptions
    <2> QED BY <1>1, <2>1, <2>2, <2>3
  <1>16. CASE SendSentinel
    <2>1. /\ thread = "drain" /\ thread' = "join" /\ queue' = Append(queue, Sentinel)
          /\ queue \in Seq(Segments \cup {Sentinel})
          /\ UNCHANGED <<poolVars, current, consumerVars, storeVars, failureVars>>
          /\ consumer # "dead"
      BY <1>16 DEF SendSentinel, Goto, Alive, BlameInv, Shape
    <2>2. (Healthy' <=> Healthy) /\ StaysFailed /\ Recorded'
      BY <2>1 DEF StaysFailed, Recorded, Healthy, failureVars, consumerVars, consumerExceptions
    <2>3. UNCHANGED <<mode, next, current, resolved, inPool, outcome, committed, held, slice, consumer>>
      BY <2>1 DEF poolVars, failureVars, storeVars, consumerVars
    <2>4. ProducerOrder'
      BY <2>1, <2>2, <2>3 DEF ProducerOrder
    <2>5. /\ Len(queue') = Len(queue) + 1 /\ DOMAIN queue' = 1 .. Len(queue')
          /\ \A i \in DOMAIN queue : i \in DOMAIN queue' /\ queue'[i] = queue[i]
          /\ \A i \in DOMAIN queue' : i \in DOMAIN queue \/ i = Len(queue')
      BY <2>1
    <2>6. ConsumerOrder'
      BY <2>1, <2>2, <2>3, <2>5 DEF ConsumerOrder
    <2>7. \A s : Accounted(s) => Accounted(s)'
      BY <2>3, <2>5 DEF Accounted
    <2>8. SegmentsAccounted' /\ SuccessIsComplete'
      BY <2>1, <2>2, <2>3, <2>7, SegmentsStay, SuccessStays
    <2> QED BY <2>2, <2>4, <2>6, <2>8
  <1>17. CASE Cleanup
    <2>1. /\ thread = "cleanup" /\ thread' = "settling"
          /\ UNCHANGED <<poolVars, current, consumerVars, storeVars, failureVars>>
      BY <1>17 DEF Cleanup, Goto
    <2>2. ~Healthy /\ ~Healthy' /\ Recorded'
      BY <2>1 DEF ProducerOrder, Recorded, Healthy, failureVars, consumerVars, consumerExceptions
    <2>3. UNCHANGED <<mode, next, current, resolved, inPool, outcome, committed, held, slice, consumer>>
      BY <2>1 DEF poolVars, failureVars, storeVars, consumerVars
    <2>4. ProducerOrder' /\ ConsumerOrder' /\ SegmentsAccounted'
      BY <2>1, <2>2, <2>3 DEF ProducerOrder, ConsumerOrder, SegmentsAccounted
    <2> QED BY <2>2, <2>3, <2>4, SuccessStays
  <1>18. CASE CleanupTimesOut \/ Settle
    <2>1. /\ UNCHANGED <<poolVars, current, queue, consumerVars, storeVars, producerFailure, drainFailure>>
          /\ thread' = "returned" /\ thread \in {"settling", "settle"}
          /\ outcome' = "unsettled" \/ (thread = "settle" /\ outcome' = Verdict)
      BY <1>18 DEF CleanupTimesOut, Settle, Goto
    <2>2. (Healthy' <=> Healthy) /\ StaysFailed /\ Recorded'
      BY <2>1 DEF StaysFailed, Recorded, Healthy, consumerVars, consumerExceptions
    <2>3. UNCHANGED <<mode, next, current, resolved, inPool, committed>>
      BY <2>1 DEF poolVars, storeVars
    <2>4. ProducerOrder'
      BY <2>1, <2>2, <2>3 DEF ProducerOrder
    <2>5. ConsumerOrder' /\ \A s : Accounted(s) => Accounted(s)'
      BY <2>1, <2>2, ConsumerIdle
    <2>6. SegmentsAccounted'
      BY <2>1, <2>2, <2>3, <2>5, SegmentsStay
    <2>7. SuccessIsComplete'
      <3>1. SUFFICES ASSUME outcome' = "ok", NEW f \in Files, f \notin resolved,
                            NEW s \in Segments, s[1] = f
                     PROVE  s \in committed
        BY <2>3 DEF SuccessIsComplete, SegmentsOf
      <3>2. Healthy /\ thread = "settle"
        BY <2>1, <3>1 DEF Verdict, Recorded, Healthy
      <3>3. next \notin Files /\ inPool = {} /\ current = Nothing /\ next \in Nat \ {0}
        BY <3>2 DEF ProducerOrder
      <3>4. f < next
        BY <3>3 DEF Files
      <3>5. Accounted(s)
        BY <3>1, <3>2, <3>3, <3>4 DEF SegmentsAccounted, Due
      <3>6. held = Sentinel /\ slice = <<>> /\ queue = <<>>
        BY <3>2 DEF SettledIsStill, ConsumerOrder
      <3> QED BY <3>5, <3>6, NoSegmentIsSentinel DEF Accounted
    <2> QED BY <2>2, <2>4, <2>5, <2>6, <2>7
  <1> QED
    BY <1>5, <1>6, <1>8, <1>9, <1>10, <1>11, <1>12, <1>13, <1>14, <1>15, <1>16, <1>17, <1>18
       DEF Producer, ProducerRuns

\* So does each step of the consumer: what leaves the queue is held, then packed,
\* then recorded.
LEMMA CompleteConsumer ==
  ASSUME BlameInv, CompleteInv, Consumer
  PROVE  CompleteInv'
  <1> USE PipelineAssumption DEF CompleteInv
  <1> DEFINE Elsewhere == UNCHANGED <<poolVars, thread, current, failureVars>>
             Well == UNCHANGED consumerExceptions
  <1>1. ASSUME Elsewhere, Recorded', StaysFailed, ConsumerOrder', committed \subseteq committed',
               Healthy' => \A s : Accounted(s) => Accounted(s)'
        PROVE  CompleteInv'
    <2>1. UNCHANGED <<mode, next, inPool, resolved, thread, current, outcome>>
      BY <1>1 DEF poolVars, failureVars
    <2>2. ProducerOrder'
      BY <1>1, <2>1 DEF ProducerOrder, StaysFailed
    <2>3. SegmentsAccounted'
      BY <1>1, <2>1 DEF SegmentsAccounted, StaysFailed, Due
    <2>4. SuccessIsComplete'
      BY <1>1, <2>1, SuccessStays
    <2> QED BY <1>1, <2>2, <2>3, <2>4
  <1>2. ASSUME Elsewhere, Well
        PROVE  Recorded' /\ StaysFailed /\ (Healthy' <=> Healthy)
    BY <1>2 DEF Recorded, StaysFailed, Healthy, failureVars, consumerExceptions
  <1>3. ASSUME NEW kind \in {"signal", "failure", "stream", "expired"}, Record(kind)
        PROVE  ~Healthy' /\ (Elsewhere => Recorded')
    BY <1>3 DEF Record, Healthy, Recorded, failureVars
  <1>4. ASSUME NEW kind \in {"signal", "failure", "stream", "expired"}, Record(kind), Elsewhere,
               consumer' \in {"cleanup", "dead"}, held' \in Taken \cup {Sentinel, Nothing},
               slice' \in Seq(Segments), held' \in Taken /\ held'.skip => held'.seg \in committed',
               committed \subseteq committed'
        PROVE  CompleteInv'
    <2>1. ~Healthy' /\ Recorded'
      BY <1>3, <1>4
    <2>2. ConsumerOrder' /\ StaysFailed
      BY <1>4, <2>1 DEF ConsumerOrder, StaysFailed
    <2> QED BY <1>1, <1>4, <2>1, <2>2
  <1>5. ASSUME NEW kind \in {"signal", "failure", "stream", "expired"}, Record(kind), Elsewhere,
               consumer' \in {"cleanup", "dead"}, UNCHANGED <<held, slice>>,
               committed \subseteq committed'
        PROVE  CompleteInv'
    <2>1. /\ held \in Taken \cup {Sentinel, Nothing} /\ slice \in Seq(Segments)
          /\ held \in Taken /\ held.skip => held.seg \in committed
      BY DEF ConsumerOrder
    <2> QED BY <1>4, <1>5, <2>1
  <1>6. ASSUME Elsewhere, Well, UNCHANGED <<held, slice, queue>>, committed \subseteq committed',
               ConsumerOrder'
        PROVE  CompleteInv'
    <2>1. \A s : Accounted(s) => Accounted(s)'
      BY <1>6 DEF Accounted
    <2> QED BY <1>1, <1>2, <1>6, <2>1
  <1>7. CASE ConsumerInterrupted
    <2>1. /\ Record("signal") /\ consumer' = "cleanup" /\ Elsewhere
          /\ UNCHANGED <<held, slice>> /\ committed \subseteq committed'
      BY <1>7 DEF ConsumerInterrupted, ConsumerFails, storeVars, failureVars
    <2> HIDE DEF Elsewhere
    <2> QED BY <1>5, <2>1
  <1>8. CASE SampleRefuses
    <2>1. /\ Record("failure") /\ consumer' \in {"cleanup", "dead"} /\ Elsewhere
          /\ UNCHANGED <<held, slice>> /\ committed \subseteq committed'
      BY <1>8 DEF SampleRefuses, ConsumerFails, storeVars, failureVars
    <2> HIDE DEF Elsewhere
    <2> QED BY <1>5, <2>1
  <1>9. CASE GetSegment
    <2> DEFINE h == Head(queue)
    <2>1. /\ h \in Segments /\ queue' = Tail(queue) /\ queue \in Seq(Segments \cup {Sentinel})
          /\ queue # <<>> /\ consumer = "get" /\ consumer' = "pack" /\ held = Nothing
          /\ held' = [seg |-> h, skip |-> h \in committed]
          /\ Elsewhere /\ Well /\ UNCHANGED <<slice, storeVars>>
      BY <1>9, QueueTail DEF GetSegment, BlameInv, Shape, failureVars, ConsumerOrder
    <2>2. held' \in Taken /\ held'.seg = h /\ (held'.skip => h \in committed)
      <3>1. (h \in committed) \in BOOLEAN
        OBVIOUS
      <3> HIDE DEF h
      <3> QED BY <2>1, <3>1 DEF Taken
    <2>3. /\ \A i \in DOMAIN queue :
               queue[i] = h \/ (i - 1 \in DOMAIN Tail(queue) /\ Tail(queue)[i - 1] = queue[i])
          /\ \A i \in DOMAIN Tail(queue) : i + 1 \in DOMAIN queue /\ Tail(queue)[i] = queue[i + 1]
          /\ Len(Tail(queue)) = Len(queue) - 1 /\ Len(queue) \in Nat
          /\ DOMAIN Tail(queue) \subseteq Nat
      BY <2>1
    <2>4. \A s : Accounted(s) => Accounted(s)'
      <3>1. \A s : (\E i \in DOMAIN queue : queue[i] = s)
                       => s = h \/ \E i \in DOMAIN queue' : queue'[i] = s
        BY <2>1, <2>3
      <3>2. held \notin Taken /\ UNCHANGED <<committed, slice>>
        BY <2>1, NoSegmentIsSentinel DEF storeVars
      <3> HIDE DEF h
      <3> QED BY <2>2, <3>1, <3>2 DEF Accounted
    <2>5. ConsumerOrder'
      <3>1. held' # Sentinel /\ held' # Nothing
        BY <2>2, NoSegmentIsSentinel
      <3>2. Healthy' => Healthy /\ \A i \in DOMAIN queue : queue[i] = Sentinel => i = Len(queue)
        BY <1>2, <2>1 DEF ConsumerOrder
      <3>3. Healthy' => \A i \in DOMAIN queue' : queue'[i] = Sentinel => i = Len(queue')
        BY <2>1, <2>3, <3>2
      <3>4. Healthy' /\ thread' = "drain" => \A i \in DOMAIN queue' : queue'[i] # Sentinel
        BY <2>1, <2>3, <3>2 DEF ConsumerOrder
      <3>5. UNCHANGED committed
        BY <2>1 DEF storeVars
      <3>6. slice' \in Seq(Segments)
        BY <2>1 DEF ConsumerOrder
      <3> HIDE DEF h
      <3> QED BY <2>1, <2>2, <3>1, <3>3, <3>4, <3>5, <3>6 DEF ConsumerOrder
    <2> QED BY <1>1, <1>2, <2>1, <2>4, <2>5 DEF storeVars
  <1>10. CASE PackSegment
    <2>1. /\ consumer = "pack" /\ Elsewhere /\ UNCHANGED <<held, slice, queue, committed>>
          /\ held \in Taken
      BY <1>10 DEF PackSegment, failureVars, storeVars, ConsumerOrder
    <2>2. CASE ConsumerFails("stream")
      BY <1>5, <2>1, <2>2 DEF ConsumerFails
    <2>3. CASE consumer' \in {"encode", "place"} /\ Well
      <3>1. ConsumerOrder'
        BY <1>2, <2>1, <2>3 DEF ConsumerOrder
      <3> QED BY <1>6, <2>1, <2>3, <3>1
    <2> QED BY <1>10, <2>2, <2>3 DEF PackSegment
  <1>11. CASE PlaceSegment
    <2>1. /\ consumer = "place" /\ consumer' = "get" /\ Elsewhere /\ Well /\ held' = Nothing
          /\ UNCHANGED <<queue, committed>> /\ held \in Taken /\ slice \in Seq(Segments)
          /\ slice' = IF held.skip THEN slice ELSE Append(slice, held.seg)
          /\ held.skip => held.seg \in committed
      BY <1>11 DEF PlaceSegment, failureVars, storeVars, ConsumerOrder
    <2>2. held.seg \in Segments
      BY <2>1 DEF Taken
    <2>3. slice' \in Seq(Segments)
      BY <2>1, <2>2
    <2>4. ConsumerOrder'
      BY <1>2, <2>1, <2>3, NoSegmentIsSentinel DEF ConsumerOrder
    <2>5. /\ \A s : (\E i \in DOMAIN slice : slice[i] = s) => \E i \in DOMAIN slice' : slice'[i] = s
          /\ held.seg \in committed \/ \E i \in DOMAIN slice' : slice'[i] = held.seg
      <3>1. CASE held.skip
        BY <2>1, <3>1
      <3>2. CASE ~held.skip
        <4>1. /\ \A i \in DOMAIN slice : i \in DOMAIN slice' /\ slice'[i] = slice[i]
              /\ Len(slice) + 1 \in DOMAIN slice' /\ slice'[Len(slice) + 1] = held.seg
          BY <2>1, <2>2, <3>2
        <4> QED BY <4>1
      <3> QED BY <3>1, <3>2
    <2>6. \A s : Accounted(s) => Accounted(s)'
      BY <2>1, <2>5 DEF Accounted
    <2> QED BY <1>1, <1>2, <2>1, <2>4, <2>6
  <1>12. CASE GetSentinel
    <2>1. /\ consumer = "get" /\ queue # <<>> /\ queue' = Tail(queue) /\ held' = Sentinel
          /\ queue \in Seq(Segments \cup {Sentinel}) /\ queue[1] = Sentinel
          /\ Elsewhere /\ UNCHANGED <<slice, committed>> /\ held = Nothing
          /\ slice \in Seq(Segments)
      BY <1>12, QueueTail DEF GetSentinel, failureVars, storeVars, ConsumerOrder, BlameInv, Shape
    <2>2. CASE ConsumerFails("stream")
      BY <1>4, <2>1, <2>2, NoSegmentIsSentinel DEF ConsumerFails
    <2>3. CASE Well /\ consumer' = IF slice = <<>> THEN "cleanup" ELSE "encode"
      <3>1. Healthy' <=> Healthy
        BY <1>2, <2>1, <2>3
      <3>2. Healthy => queue' = <<>>
        <4>1. Healthy => Len(queue) = 1
          <5>1. 1 \in DOMAIN queue
            BY <2>1
          <5> QED BY <2>1, <5>1 DEF ConsumerOrder
        <4> QED BY <2>1, <4>1
      <3>3. Healthy => thread # "drain"
        BY <2>1 DEF ConsumerOrder
      <3>4. ConsumerOrder'
        BY <2>1, <2>3, <3>1, <3>2, <3>3, NoSegmentIsSentinel DEF ConsumerOrder
      <3>5. Healthy' => \A s : Accounted(s) => Accounted(s)' \/ s = Sentinel
        BY <2>1, <3>1, NoSegmentIsSentinel DEF Accounted, ConsumerOrder
      <3>6. SegmentsAccounted'
        BY <2>1, <3>1, <3>5, NoSegmentIsSentinel DEF SegmentsAccounted, Due, poolVars
      <3>7. ProducerOrder' /\ SuccessIsComplete'
        <4>1. UNCHANGED <<mode, next, inPool, resolved, thread, current, outcome>>
          BY <2>1 DEF poolVars, failureVars
        <4> QED BY <2>1, <3>1, <4>1, SuccessStays DEF ProducerOrder
      <3> QED BY <1>2, <2>1, <2>3, <3>4, <3>6, <3>7
    <2> QED BY <1>12, <2>2, <2>3 DEF GetSentinel
  <1>13. CASE EncodeSlice
    <2>1. consumer = "encode" /\ Elsewhere /\ UNCHANGED <<held, slice, queue, committed>>
      BY <1>13 DEF EncodeSlice, failureVars, storeVars
    <2>2. CASE ConsumerFails("failure")
      BY <1>5, <2>1, <2>2 DEF ConsumerFails
    <2>3. CASE consumer' \in {"write", "wedged"} /\ Well
      <3>1. ConsumerOrder'
        BY <1>2, <2>1, <2>3 DEF ConsumerOrder
      <3> QED BY <1>6, <2>1, <2>3, <3>1
    <2> QED BY <1>13, <2>2, <2>3 DEF EncodeSlice
  <1>14. CASE WriteSlice
    <2>1. consumer = "write" /\ Elsewhere /\ UNCHANGED <<held, slice, queue, committed>>
      BY <1>14 DEF WriteSlice, failureVars
    <2>2. CASE ConsumerFails("failure") \/ ConsumerFails("expired")
      BY <1>5, <2>1, <2>2 DEF ConsumerFails
    <2>3. CASE consumer' = "confirm" /\ Well
      <3>1. ConsumerOrder'
        BY <1>2, <2>1, <2>3 DEF ConsumerOrder
      <3> QED BY <1>6, <2>1, <2>3, <3>1
    <2> QED BY <1>14, <2>2, <2>3 DEF WriteSlice
  <1>15. CASE ConfirmSlice
    <2>1. /\ consumer = "confirm" /\ Elsewhere /\ UNCHANGED <<held, slice, queue>>
          /\ committed \subseteq committed'
      BY <1>15 DEF ConfirmSlice, failureVars
    <2>2. CASE ConsumerFails("failure") \/ ConsumerFails("expired")
      BY <1>5, <2>1, <2>2 DEF ConsumerFails
    <2>3. CASE consumer' = "account" /\ Well /\ committed' = committed \cup ToSet(slice)
      <3>1. \A i \in DOMAIN slice' : slice'[i] \in committed'
        BY <2>1, <2>3 DEF ToSet
      <3>2. ConsumerOrder'
        BY <1>2, <2>1, <2>3, <3>1 DEF ConsumerOrder
      <3> QED BY <1>6, <2>1, <2>3, <3>2
    <2> QED BY <1>15, <2>2, <2>3 DEF ConfirmSlice
  <1>16. CASE AccountSlice
    <2>1. /\ consumer = "account" /\ Elsewhere /\ UNCHANGED <<held, queue, committed>>
          /\ slice' = <<>> /\ \A i \in DOMAIN slice : slice[i] \in committed
          /\ held \in Taken \cup {Sentinel}
      BY <1>16 DEF AccountSlice, failureVars, storeVars, ConsumerOrder
    <2>2. slice' \in Seq(Segments) /\ (held \in Taken /\ held.skip => held.seg \in committed)
      BY <2>1 DEF ConsumerOrder
    <2>3. CASE ConsumerFails("failure")
      BY <1>4, <2>1, <2>2, <2>3 DEF ConsumerFails
    <2>4. CASE Well /\ consumer' = IF held = Sentinel THEN "cleanup" ELSE "place"
      <3>1. ConsumerOrder'
        BY <1>2, <2>1, <2>2, <2>4 DEF ConsumerOrder
      <3>2. \A s : Accounted(s) => Accounted(s)'
        BY <2>1 DEF Accounted
      <3> QED BY <1>1, <1>2, <2>1, <2>4, <3>1, <3>2
    <2> QED BY <1>16, <2>3, <2>4 DEF AccountSlice
  <1>17. CASE ConsumerEnds
    <2>1. /\ consumer = "cleanup" /\ consumer' = "dead" /\ Elsewhere /\ Well
          /\ UNCHANGED <<held, slice, queue, committed>>
      BY <1>17 DEF ConsumerEnds, failureVars, storeVars
    <2>2. ConsumerOrder'
      BY <1>2, <2>1 DEF ConsumerOrder
    <2> QED BY <1>6, <2>1, <2>2
  <1> QED
    BY <1>7, <1>8, <1>9, <1>10, <1>11, <1>12, <1>13, <1>14, <1>15, <1>16, <1>17
       DEF Consumer, ConsumerRuns

\* What surrounds the run moves no segment.
LEMMA CompleteSurroundings ==
  ASSUME CompleteInv, Surroundings \/ UNCHANGED pipelineVars
  PROVE  CompleteInv'
  <1> USE DEF CompleteInv
  <1>1. /\ UNCHANGED <<mode, next, current, resolved, inPool, queue, committed, outcome>>
        /\ UNCHANGED <<consumer, held, slice, consumerFault, consumerSignal,
                       producerFailure, drainFailure>>
        /\ thread' = thread \/ (thread' = "rolled back" /\ thread = "returned")
    <2> USE DEF poolVars, consumerExceptions, consumerVars, storeVars, failureVars
    <2>1. CASE DiscardAdditions
      BY <2>1 DEF DiscardAdditions, Goto
    <2>2. CASE (\E f \in Files : WorkerFinishes(f)) \/ PoolBreaks
      BY <2>2 DEF WorkerFinishes, PoolBreaks
    <2>3. CASE RequestControl \/ WithdrawControl \/ DeadlinePasses
      BY <2>3 DEF RequestControl, WithdrawControl, DeadlinePasses
    <2>4. CASE UNCHANGED pipelineVars
      BY <2>4 DEF pipelineVars
    <2> QED BY <2>1, <2>2, <2>3, <2>4 DEF Surroundings
  <1>2. Recorded' /\ (Healthy' <=> Healthy)
    BY <1>1 DEF Recorded, Healthy
  <1>3. ProducerOrder' /\ ConsumerOrder'
    BY <1>1, <1>2 DEF ProducerOrder, ConsumerOrder
  <1>4. \A s : Accounted(s) => Accounted(s)'
    BY <1>1 DEF Accounted
  <1>5. SegmentsAccounted' /\ SuccessIsComplete'
    BY <1>1, <1>2, <1>4, SegmentsStay, SuccessStays DEF StaysFailed
  <1> QED BY <1>2, <1>3, <1>5

\* For any tree and any faults: a run that reports success has recorded every
\* segment of every file that holds anything (_finish_weighted_consumer).  As long
\* as no failure is on record, a segment submitted is queued, held, packed or
\* recorded; the drain's end of stream comes after all of them, and the consumer
\* ends without a failure only there, its last slice recorded.
THEOREM SuccessLeavesNothingOut == Spec => []SuccessIsComplete
  <1> DEFINE Inv == BlameInv /\ StoreInv /\ CompleteInv
  <1>1. Init => Inv
    BY BlameInit, StoreInit, CompleteInit
  <1>2. Inv /\ [Next]_pipelineVars => Inv'
    <2> SUFFICES ASSUME Inv, [Next]_pipelineVars PROVE Inv'
      OBVIOUS
    <2>1. Producer \/ Consumer \/ Surroundings \/ UNCHANGED pipelineVars
      BY DEF Next, Surroundings
    <2>2. BlameInv' /\ StoreInv'
      BY <2>1, BlameProducer, BlameConsumer, BlameSurroundings, StoreProducer, StoreConsumer,
         StoreSurroundings
    <2>3. CompleteInv'
      BY <2>1, CompleteProducer, CompleteConsumer, CompleteSurroundings DEF StoreInv
    <2> QED BY <2>2, <2>3
  <1>3. Inv => SuccessIsComplete
    BY DEF CompleteInv
  <1> QED
    BY <1>1, <1>2, <1>3, PTL DEF Spec

=============================================================================
