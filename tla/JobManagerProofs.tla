-------------------------- MODULE JobManagerProofs ---------------------------
(***************************************************************************)
(* The job manager's safety, for every number of jobs and every way a write  *)
(* may fail.  Memory and file drift apart whenever a method keeps a change   *)
(* that the file did not take, so none of the properties is inductive alone: *)
(* what holds them up is that both records of a job stay coherent (a state   *)
(* always carries the intent that led to it), that the two never disagree    *)
(* about the intent, and that a job has an attached task exactly while its    *)
(* record says that an attempt is live.  The last part is about the clocks   *)
(* of JobStamps.                                                             *)
(***************************************************************************)
EXTENDS JobStamps, TLAPS

\* A record's state carries the intent that led to it.
Coherent(r) ==
    /\ r.state \in {"queued", "running"} => r.desired = "running"
    /\ r.state = "pausing" => r.desired # "cancelled"
    /\ r.state = "cancelling" => r.desired = "cancelled"

\* The two records of a job.
RecordsAgree(j) ==
    /\ Coherent(job[j]) /\ Coherent(disk[j])
    /\ job[j].desired = disk[j].desired
    /\ disk[j].state \in Settled => job[j] = disk[j]

\* The record of a job and the attempt attached to it.
AttemptAgrees(j) ==
    /\ run[j] # "none" => job[j].state \in Live /\ disk[j].state \notin Settled
    /\ life # "down" /\ job[j].state \in Live => run[j] # "none"
    /\ run[j] = "none" => exit[j] = "none" /\ token[j] = NoToken
    /\ run[j] = "live" => exit[j] = "none"
    /\ (run[j] = "live" /\ token[j].desired # "shutdown") =>
        /\ (job[j].desired = "paused") <=> (token[j].desired = "pause")
        /\ (job[j].state = "cancelling") <=> (token[j].desired = "cancel")

Sound(j) == RecordsAgree(j) /\ AttemptAgrees(j)

RecordTypes ==
    /\ job \in [Jobs -> Records]
    /\ disk \in [Jobs -> Records]

AttemptTypes ==
    /\ run \in [Jobs -> {"none", "live", "unwound", "released", "abandoned"}]
    /\ exit \in [Jobs -> Exits]
    /\ token \in [Jobs -> Tokens]

ManagerTypes ==
    /\ calls \in [Jobs -> SUBSET CallKinds]
    /\ life \in {"running", "stopping", "down"}
    /\ gate \in {"running", "pausing", "quiesced", "warming"}
    /\ owner \in {"idle", "request", "drain", "prepare", "reopen", "reopened"}

JobsSound ==
    /\ RecordTypes
    /\ AttemptTypes
    /\ \A j \in Jobs : Sound(j)
    /\ life = "down" => \A j \in Jobs : run[j] = "none"

\* The conjunction that is inductive.
JobInv ==
    /\ JobsSound
    /\ ManagerTypes

----------------------------------------------------------------------------
(* What a write does to the records.                                        *)

\* A record is replaced by another one, and no other job's.
LEMMA BecomeReplaces ==
    ASSUME RecordTypes, NEW i \in Jobs, NEW s \in States, NEW d \in Intents
    PROVE  /\ Become(i, s, d) \in [Jobs -> Records]
           /\ Become(i, s, d)[i] = [state |-> s, desired |-> d]
           /\ \A k \in Jobs \ {i} : Become(i, s, d)[k] = job[k]
  BY DEF RecordTypes, Become, Records

\* A method that keeps its change changes memory, and the file or not.
LEMMA PersistKeeps ==
    ASSUME RecordTypes, NEW new \in [Jobs -> Records], NEW w \in Writes, Persist(new, w)
    PROVE  /\ RecordTypes'
           /\ job' = new
           /\ disk' = disk \/ disk' = new
  BY DEF RecordTypes, Persist

\* A method that rolls back changes both or neither.
LEMMA TransactIsAtomic ==
    ASSUME RecordTypes, NEW new \in [Jobs -> Records], NEW w \in Writes, Transact(new, w)
    PROVE  /\ RecordTypes'
           /\ \/ ~Kept(w) /\ job' = job /\ disk' = disk
              \/ Kept(w) /\ job' = new /\ disk' = new
  BY DEF RecordTypes, Transact, Persist, Kept, recordVars

\* Either way the write of one job's change leaves the other records alone, up
\* to bringing their file records up to date.
LEMMA OneJobWritten ==
    ASSUME RecordTypes, NEW i \in Jobs, NEW s \in States, NEW d \in Intents, NEW w \in Writes,
           Persist(Become(i, s, d), w) \/ Transact(Become(i, s, d), w)
    PROVE  /\ RecordTypes'
           /\ \A k \in Jobs \ {i} :
                job'[k] = job[k] /\ (disk'[k] = disk[k] \/ disk'[k] = job[k])
  <1>1. Become(i, s, d) \in [Jobs -> Records] /\ \A k \in Jobs \ {i} : Become(i, s, d)[k] = job[k]
    BY DEF RecordTypes, Become, Records
  <1> QED BY <1>1, PersistKeeps, TransactIsAtomic

\* A job whose record and attempt are left alone stays sound, also when
\* another job's write brings its file record up to date, and when shutdown
\* signals its attempt.
LEMMA UntouchedStaysSound ==
    ASSUME NEW k \in Jobs, Sound(k),
           job'[k] = job[k], disk'[k] = disk[k] \/ disk'[k] = job[k],
           run'[k] = run[k], exit'[k] = exit[k], life' = life \/ life # "down",
           \/ token'[k] = token[k]
           \/ run[k] # "none" /\ token'[k].desired = "shutdown"
    PROVE  Sound(k)'
  <1>1. job[k].state \in Live => job[k].state \notin Settled
    BY DEF Live, Settled
  <1> QED
    BY <1>1 DEF Sound, RecordsAgree, AttemptAgrees

\* A step that leaves all records and attempts alone keeps them sound.
LEMMA InertStaysSound ==
    ASSUME JobsSound, UNCHANGED <<recordVars, attemptVars>>,
           life' = life \/ (life # "down" /\ life' # "down")
    PROVE  JobsSound'
  BY DEF JobsSound, RecordTypes, AttemptTypes, recordVars, attemptVars,
         Sound, RecordsAgree, AttemptAgrees

\* A write of one job's change, kept or rolled back, leaves the others sound.
LEMMA OneJobWrites ==
    ASSUME JobsSound, NEW i \in Jobs, NEW s \in States, NEW d \in Intents, NEW w \in Writes,
           Persist(Become(i, s, d), w) \/ Transact(Become(i, s, d), w),
           life # "down",
           \A k \in Jobs \ {i} : /\ run'[k] = run[k] /\ exit'[k] = exit[k]
                                 /\ \/ token'[k] = token[k]
                                    \/ run[k] # "none" /\ token'[k].desired = "shutdown"
    PROVE  RecordTypes' /\ \A k \in Jobs \ {i} : Sound(k)'
  <1>1. /\ RecordTypes'
        /\ \A k \in Jobs \ {i} : job'[k] = job[k] /\ (disk'[k] = disk[k] \/ disk'[k] = job[k])
    BY OneJobWritten DEF JobsSound
  <1>2. ASSUME NEW k \in Jobs \ {i}
        PROVE  Sound(k)'
    BY <1>1, UntouchedStaysSound DEF JobsSound
  <1> QED BY <1>1, <1>2

\* A change of one job that is rolled back when its write fails, made while
\* no attempt starts or ends, keeps all jobs sound if it leaves that job sound.
LEMMA TransactStaysSound ==
    ASSUME JobsSound, NEW i \in Jobs, NEW s \in States, NEW d \in Intents, NEW w \in Writes,
           Transact(Become(i, s, d), w), AttemptTypes',
           life # "down", life' # "down",
           run' = run, exit' = exit,
           \A k \in Jobs \ {i} : token'[k] = token[k],
           ~Kept(w) => token' = token,
           ( /\ job'[i] = [state |-> s, desired |-> d]
             /\ disk'[i] = job'[i] ) => Sound(i)'
    PROVE  JobsSound'
  <1>1. RecordTypes' /\ \A k \in Jobs \ {i} : Sound(k)'
    BY OneJobWrites
  <1>2. Sound(i)'
    <2>1. CASE ~Kept(w) /\ job' = job /\ disk' = disk
      BY <2>1, UntouchedStaysSound DEF JobsSound
    <2>2. CASE Kept(w) /\ job' = Become(i, s, d) /\ disk' = Become(i, s, d)
      BY <2>2, BecomeReplaces DEF JobsSound
    <2> QED BY <2>1, <2>2, BecomeReplaces, TransactIsAtomic DEF JobsSound
  <1> QED BY <1>1, <1>2 DEF JobsSound

----------------------------------------------------------------------------
(* The steps of callers and operators.                                      *)

\* Work that is created, deferred, failed or resumed before it has an attempt
\* keeps every job sound.
LEMMA UnstartedWork ==
    ASSUME JobsSound, NEW i \in Jobs,
           Create(i) \/ DeferUnstarted(i) \/ FailUnstarted(i) \/ ResumePaused(i)
    PROVE  JobsSound'
  <1> USE DEF JobsSound, States, Intents, Settled, Idle, Live
  <1>d. life # "down" /\ life' = life /\ UNCHANGED attemptVars
    BY DEF Create, DeferUnstarted, FailUnstarted, ResumePaused, Controls, Pending
  <1>1. CASE UNCHANGED recordVars
    BY <1>1, <1>d, InertStaysSound
  <1>2. ASSUME NEW s \in {"queued", "paused", "failed"}, NEW d \in Intents, NEW w \in Writes,
               Transact(Become(i, s, d), w),
               run[i] = "none", s # "failed" => d = "running"
        PROVE  JobsSound'
    <2>1. AttemptTypes'
      BY <1>d DEF AttemptTypes, attemptVars
    <2>2. ASSUME job'[i] = [state |-> s, desired |-> d], disk'[i] = job'[i]
          PROVE  Sound(i)'
      BY <1>2, <1>d, <2>2 DEF Sound, RecordsAgree, AttemptAgrees, Coherent, attemptVars
    <2> QED BY <1>2, <1>d, <2>1, <2>2, TransactStaysSound DEF attemptVars
  <1>3. job[i].state \notin Live => run[i] = "none"
    BY DEF Sound, AttemptAgrees
  <1>4. CASE Create(i)
    BY <1>4, <1>2, <1>3 DEF Create
  <1>5. CASE DeferUnstarted(i)
    BY <1>5, <1>1, <1>2 DEF DeferUnstarted, Runnable
  <1>6. CASE FailUnstarted(i)
    <2>1. job[i].desired \in Intents
      BY DEF RecordTypes, Records
    <2> QED BY <1>6, <1>1, <1>2, <2>1 DEF FailUnstarted
  <1>7. CASE ResumePaused(i)
    BY <1>7, <1>2, <1>3 DEF ResumePaused
  <1> QED BY <1>4, <1>5, <1>6, <1>7

\* A pause, whose signal follows its write, keeps every job sound.
LEMMA PauseStaysSound ==
    ASSUME JobsSound, NEW i \in Jobs, Pause(i)
    PROVE  JobsSound'
  <1> USE DEF JobsSound, States, Intents, Settled, Idle, Live
  <1>d. Sound(i) /\ life # "down" /\ life' = life /\ run' = run /\ exit' = exit
    BY DEF Pause, Controls
  <1> PICK w \in Writes :
        \/ /\ job[i].state \in Idle
           /\ Transact(Become(i, "paused", "paused"), w)
           /\ UNCHANGED token
        \/ /\ job[i].state \in {"running", "pausing"}
           /\ Transact(Become(i, "pausing", "paused"), w)
           /\ token' = IF Kept(w) THEN [token EXCEPT ![i] = RequestPause(@)] ELSE token
    BY DEF Pause
  <1>1. AttemptTypes'
    BY <1>d DEF AttemptTypes, RequestPause, Tokens
  <1>2. CASE /\ job[i].state \in Idle
             /\ Transact(Become(i, "paused", "paused"), w)
             /\ token' = token
    <2>1. ASSUME job'[i] = [state |-> "paused", desired |-> "paused"], disk'[i] = job'[i]
          PROVE  Sound(i)'
      BY <1>2, <1>d, <2>1 DEF Sound, RecordsAgree, AttemptAgrees, Coherent
    <2> QED BY <1>1, <1>2, <1>d, <2>1, TransactStaysSound
  <1>3. CASE /\ job[i].state \in {"running", "pausing"}
             /\ Transact(Become(i, "pausing", "paused"), w)
             /\ token' = IF Kept(w) THEN [token EXCEPT ![i] = RequestPause(@)] ELSE token
    <2>1. CASE ~Kept(w)
      BY <1>3, <1>d, <2>1, TransactIsAtomic, BecomeReplaces, InertStaysSound
         DEF recordVars, attemptVars
    <2>2. CASE Kept(w)
      <3>1. token'[i] = RequestPause(token[i]) /\ \A k \in Jobs \ {i} : token'[k] = token[k]
        BY <1>3, <2>2 DEF AttemptTypes
      <3>2. /\ token[i].desired \in {"cancel", "shutdown"} => token'[i] = token[i]
            /\ token[i].desired \notin {"cancel", "shutdown"} => token'[i].desired = "pause"
        BY <3>1 DEF RequestPause, AttemptTypes, Tokens
      <3>3. ASSUME job'[i] = [state |-> "pausing", desired |-> "paused"], disk'[i] = job'[i]
            PROVE  Sound(i)'
        BY <1>3, <1>d, <3>2, <3>3
           DEF Sound, RecordsAgree, AttemptAgrees, Coherent, AttemptTypes
      <3> QED BY <1>1, <1>3, <1>d, <2>2, <3>1, <3>3, TransactStaysSound
    <2> QED BY <2>1, <2>2
  <1> QED BY <1>2, <1>3

\* A cancellation, which replaces a pause but not a shutdown, keeps every job
\* sound.
LEMMA CancelStaysSound ==
    ASSUME JobsSound, NEW i \in Jobs, Cancel(i)
    PROVE  JobsSound'
  <1> USE DEF JobsSound, States, Intents, Settled, Idle, Live
  <1>d. Sound(i) /\ life # "down" /\ life' = life /\ run' = run /\ exit' = exit
    BY DEF Cancel, Controls
  <1> PICK w \in Writes :
        \/ /\ job[i].state \in Idle
           /\ Transact(Become(i, "cancelled", "cancelled"), w)
           /\ UNCHANGED token
        \/ /\ job[i].state \in {"running", "pausing"}
           /\ Transact(Become(i, "cancelling", "cancelled"), w)
           /\ token' = IF Kept(w) THEN [token EXCEPT ![i] = RequestCancel(@)] ELSE token
    BY DEF Cancel
  <1>1. AttemptTypes'
    BY <1>d DEF AttemptTypes, RequestCancel, Tokens
  <1>2. CASE /\ job[i].state \in Idle
             /\ Transact(Become(i, "cancelled", "cancelled"), w)
             /\ token' = token
    <2>1. ASSUME job'[i] = [state |-> "cancelled", desired |-> "cancelled"], disk'[i] = job'[i]
          PROVE  Sound(i)'
      BY <1>2, <1>d, <2>1 DEF Sound, RecordsAgree, AttemptAgrees, Coherent
    <2> QED BY <1>1, <1>2, <1>d, <2>1, TransactStaysSound
  <1>3. CASE /\ job[i].state \in {"running", "pausing"}
             /\ Transact(Become(i, "cancelling", "cancelled"), w)
             /\ token' = IF Kept(w) THEN [token EXCEPT ![i] = RequestCancel(@)] ELSE token
    <2>1. CASE ~Kept(w)
      BY <1>3, <1>d, <2>1, TransactIsAtomic, BecomeReplaces, InertStaysSound
         DEF recordVars, attemptVars
    <2>2. CASE Kept(w)
      <3>1. token'[i] = RequestCancel(token[i]) /\ \A k \in Jobs \ {i} : token'[k] = token[k]
        BY <1>3, <2>2 DEF AttemptTypes
      <3>2. /\ token[i].desired = "shutdown" => token'[i] = token[i]
            /\ token[i].desired # "shutdown" => token'[i].desired = "cancel"
        BY <3>1 DEF RequestCancel, AttemptTypes, Tokens
      <3>3. ASSUME job'[i] = [state |-> "cancelling", desired |-> "cancelled"], disk'[i] = job'[i]
            PROVE  Sound(i)'
        BY <1>3, <1>d, <3>2, <3>3
           DEF Sound, RecordsAgree, AttemptAgrees, Coherent, AttemptTypes
      <3> QED BY <1>1, <1>3, <1>d, <2>2, <3>1, <3>3, TransactStaysSound
    <2> QED BY <2>1, <2>2
  <1> QED BY <1>2, <1>3

\* A resume of an attempt that was asked to pause, whether it withdraws the
\* pause or loses to its delivery, keeps every job sound.
LEMMA ResumePausingStaysSound ==
    ASSUME JobsSound, NEW i \in Jobs, ResumePausing(i)
    PROVE  JobsSound'
  <1> USE DEF JobsSound, States, Intents, Settled, Idle, Live
  <1>d. /\ Sound(i) /\ life # "down" /\ life' = life /\ run' = run /\ exit' = exit
        /\ job[i].state = "pausing" /\ job[i].desired # "running"
    BY DEF ResumePausing, Controls
  <1>1. CASE UNCHANGED <<recordVars, token>>
    BY <1>1, <1>d, InertStaysSound DEF attemptVars
  <1>2. CASE /\ Withdrawable(i)
             /\ Persist(Become(i, "running", "running"), "durable")
             /\ token' = [token EXCEPT ![i].desired = "none"]
    <2>1. AttemptTypes'
      BY <1>2, <1>d DEF AttemptTypes, Tokens
    <2>2. token'[i].desired = "none" /\ \A k \in Jobs \ {i} : token'[k] = token[k]
      BY <1>2 DEF AttemptTypes, Tokens
    <2>3. RecordTypes' /\ \A k \in Jobs \ {i} : Sound(k)'
      BY <1>2, <1>d, <2>2, OneJobWrites DEF Writes
    <2>4. job'[i] = [state |-> "running", desired |-> "running"] /\ disk'[i] = job'[i]
      BY <1>2, BecomeReplaces DEF Persist
    <2>5. Sound(i)'
      BY <1>d, <2>2, <2>4 DEF Sound, RecordsAgree, AttemptAgrees, Coherent
    <2> QED BY <1>d, <2>1, <2>3, <2>5
  <1>3. CASE /\ ~Withdrawable(i)
             /\ job' = Become(i, "pausing", "running")
             /\ disk' \in {job'} \cup (IF "unpublished" \in WriteFaults
                                        THEN {Become(i, "running", "running")} ELSE {})
             /\ token' = token
    <2>1. AttemptTypes'
      BY <1>3, <1>d DEF AttemptTypes
    <2>2. /\ Become(i, "pausing", "running") \in [Jobs -> Records]
          /\ Become(i, "pausing", "running")[i] = [state |-> "pausing", desired |-> "running"]
          /\ \A k \in Jobs \ {i} : Become(i, "pausing", "running")[k] = job[k]
      BY BecomeReplaces
    <2>3. /\ Become(i, "running", "running") \in [Jobs -> Records]
          /\ Become(i, "running", "running")[i] = [state |-> "running", desired |-> "running"]
          /\ \A k \in Jobs \ {i} : Become(i, "running", "running")[k] = job[k]
      BY BecomeReplaces
    <2>4. disk' = Become(i, "pausing", "running") \/ disk' = Become(i, "running", "running")
      BY <1>3
    <2>5. RecordTypes'
      BY <1>3, <2>2, <2>3, <2>4 DEF RecordTypes
    <2>6. ASSUME NEW k \in Jobs \ {i} PROVE Sound(k)'
      BY <1>3, <1>d, <2>2, <2>3, <2>4, UntouchedStaysSound
    <2>7. run[i] = "live" => token[i].desired # "pause"
      BY <1>3, <1>d DEF Withdrawable, Sound, AttemptAgrees
    <2>8. Sound(i)'
      BY <1>3, <1>d, <2>2, <2>3, <2>4, <2>7
         DEF Sound, RecordsAgree, AttemptAgrees, Coherent
    <2> QED BY <1>d, <2>1, <2>5, <2>6, <2>8
  <1> QED BY <1>1, <1>2, <1>3 DEF ResumePausing

\* A shutdown signals exactly the attached attempts, and nothing else changes.
LEMMA SignalledStaysSound ==
    ASSUME JobsSound, UNCHANGED <<recordVars, run, exit>>, life # "down", life' # "down",
           \/ token' = token
           \/ token' = [j \in Jobs |-> IF run'[j] = "none" THEN token[j]
                                       ELSE [token[j] EXCEPT !.desired = "shutdown"]]
    PROVE  JobsSound'
  <1>1. RecordTypes' /\ AttemptTypes'
    BY DEF JobsSound, RecordTypes, AttemptTypes, Tokens, recordVars
  <1>2. ASSUME NEW k \in Jobs
        PROVE  token'[k] = token[k] \/ (run[k] # "none" /\ token'[k].desired = "shutdown")
    BY DEF JobsSound, AttemptTypes, Tokens
  <1>3. ASSUME NEW k \in Jobs
        PROVE  Sound(k)'
    BY <1>2, UntouchedStaysSound DEF JobsSound, recordVars
  <1> QED BY <1>1, <1>3 DEF JobsSound

\* A dispatch keeps every job sound, whether it starts the attempt, starts it
\* and reports a failure, or is refused; also when that stops the manager.
LEMMA DispatchStaysSound ==
    ASSUME JobsSound, NEW i \in Jobs, Dispatch(i)
    PROVE  JobsSound'
  <1> USE DEF JobsSound
  <1> PICK c \in {"admit", "requeue", "claim", "restore"} :
        DispatchStarts(i, c) \/ DispatchRefused(i, c)
    BY DEF Dispatch
  <1> DEFINE Signalled ==
        \/ token' = token
        \/ token' = [j \in Jobs |-> IF run'[j] = "none" THEN token[j]
                                    ELSE [token[j] EXCEPT !.desired = "shutdown"]]
  <1>1. ASSUME NEW closed \in BOOLEAN, Refused(i, c, closed)
        PROVE  Signalled /\ (life' = life \/ life' = "stopping")
    BY <1>1 DEF Refused, StopDispatch
  <1>d. life # "down"
    BY DEF DispatchStarts, DispatchRefused, Pending
  <1>2. CASE DispatchRefused(i, c)
    BY <1>1, <1>2, <1>d, SignalledStaysSound DEF DispatchRefused
  <1>3. CASE DispatchStarts(i, c)
    <2> PICK w \in Writes :
        /\ Transact(Become(i, "running", "running"), w)
        /\ run' = IF Kept(w) THEN [run EXCEPT ![i] = "live"] ELSE run
        /\ IF Succeeded(w) THEN UNCHANGED <<token, life>> ELSE Refused(i, c, FALSE)
      BY <1>3 DEF DispatchStarts
    <2>1. Signalled /\ (life' = life \/ life' = "stopping") /\ exit' = exit
      BY <1>1, <1>3 DEF DispatchStarts
    <2>2. job[i].state = "queued" /\ run[i] = "none"
      BY <1>3 DEF DispatchStarts, Runnable
    <2> HIDE DEF Signalled
    <2>t. "running" \in States /\ "running" \in Intents
      BY DEF States, Live, Intents
    <2>3. CASE ~Kept(w)
      <3>1. job' = job /\ disk' = disk /\ run' = run
        BY <2>3, <2>t, BecomeReplaces, TransactIsAtomic
      <3> QED BY <1>d, <2>1, <3>1, SignalledStaysSound DEF Signalled, recordVars
    <2>4. CASE Kept(w)
      <3>1. /\ job'[i] = [state |-> "running", desired |-> "running"]
            /\ disk'[i] = job'[i]
        BY <2>4, <2>t, BecomeReplaces, TransactIsAtomic
      <3>2. run'[i] = "live" /\ \A k \in Jobs \ {i} : run'[k] = run[k]
        BY <2>4 DEF AttemptTypes
      <3>3. AttemptTypes'
        BY <2>1, <2>4 DEF AttemptTypes, Tokens, Signalled
      <3>4. ASSUME NEW k \in Jobs
            PROVE  \/ token'[k] = token[k]
                   \/ run'[k] # "none" /\ token'[k].desired = "shutdown"
        BY <2>1 DEF AttemptTypes, Tokens, Signalled
      <3>5. RecordTypes' /\ \A k \in Jobs \ {i} : Sound(k)'
        BY <1>d, <2>1, <2>t, <3>2, <3>4, OneJobWrites
      <3>6. exit'[i] = "none" /\ token[i].desired = "none"
        BY <2>1, <2>2 DEF Sound, AttemptAgrees, NoToken
      <3>7. Sound(i)'
        BY <3>1, <3>2, <3>4, <3>6
           DEF Sound, RecordsAgree, AttemptAgrees, Coherent, Live, Settled
      <3> QED BY <1>d, <2>1, <3>3, <3>5, <3>7
    <2> QED BY <2>3, <2>4
  <1> QED BY <1>2, <1>3

----------------------------------------------------------------------------
(* The steps of the attempt.                                                *)

\* An attempt that leaves its worker, at a checkpoint or by ending, and its
\* release of resources keep every job sound.
LEMMA UnwindingStaysSound ==
    ASSUME JobsSound, NEW i \in Jobs, Checkpoint(i) \/ WorkEnds(i) \/ Release(i)
    PROVE  JobsSound'
  <1> USE DEF JobsSound
  <1>1. run[i] # "none" /\ run[i] # "abandoned" /\ life # "down" /\ life' = life /\ token' = token
    BY DEF Checkpoint, WorkEnds, Release
  <1>2. /\ run'[i] \in {"unwound", "released"} /\ AttemptTypes'
        /\ \A k \in Jobs \ {i} : run'[k] = run[k] /\ exit'[k] = exit[k]
    <2>1. Signal(token[i]) \in Signals \cup {"none"}
      BY DEF Signal, AttemptTypes, Tokens, Signals
    <2> QED BY <1>1, <2>1 DEF Checkpoint, WorkEnds, Release, AttemptTypes, Exits
  <1>3. job' = job /\ (disk' = disk \/ disk' = job)
    BY DEF Checkpoint, WorkEnds, Release, recordVars, Persist
  <1>4. RecordTypes'
    BY <1>3 DEF RecordTypes
  <1>5. ASSUME NEW k \in Jobs \ {i} PROVE Sound(k)'
    BY <1>1, <1>2, <1>3, UntouchedStaysSound
  <1>6. Sound(i)'
    BY <1>1, <1>2, <1>3 DEF Sound, RecordsAgree, AttemptAgrees, Live, Settled
  <1> QED BY <1>1, <1>2, <1>4, <1>5, <1>6

\* An attempt that hands its job over, its record changed in memory and
\* perhaps in the file, keeps every job sound.
LEMMA HandOverStaysSound ==
    ASSUME JobsSound, NEW i \in Jobs, NEW s \in States, NEW d \in Intents, NEW w \in Writes,
           run[i] = "released", Disown(i), life' = life,
           Persist(Become(i, s, d), w),
           s \notin Live, s = "queued" => d = "running", d = job[i].desired
    PROVE  JobsSound'
  <1> USE DEF JobsSound
  <1>1. life # "down"
    OBVIOUS
  <1>2. /\ AttemptTypes'
        /\ run'[i] = "none" /\ exit'[i] = "none" /\ token'[i] = NoToken
        /\ \A k \in Jobs \ {i} : run'[k] = run[k] /\ exit'[k] = exit[k] /\ token'[k] = token[k]
    BY DEF Disown, AttemptTypes, Exits, Tokens, NoToken
  <1>3. RecordTypes' /\ \A k \in Jobs \ {i} : Sound(k)'
    BY <1>1, <1>2, OneJobWrites
  <1>4. /\ job'[i] = [state |-> s, desired |-> d]
        /\ disk'[i] = disk[i] \/ disk'[i] = job'[i]
    BY BecomeReplaces, PersistKeeps
  <1>5. Sound(i)'
    BY <1>2, <1>4 DEF Sound, RecordsAgree, AttemptAgrees, Coherent, Live
  <1> QED BY <1>1, <1>2, <1>3, <1>5

\* The completion of an attempt keeps every job sound, whichever of its
\* outcomes it commits.
LEMMA CompleteStaysSound ==
    ASSUME JobsSound, NEW i \in Jobs, Complete(i)
    PROVE  JobsSound'
  <1> USE DEF JobsSound
  <1>1. /\ run[i] = "released" /\ life' = life
        /\ job[i] \in Records /\ Sound(i)
    BY DEF Complete, RecordTypes
  <1>2. ASSUME NEW s \in {"failed", "shut_down", "succeeded"}, Finish(i, s)
        PROVE  JobsSound'
    <2> PICK w \in Writes : Persist(Become(i, s, job[i].desired), w)
      BY <1>2 DEF Finish
    <2>1. s \in States /\ s \notin Live /\ s # "queued" /\ job[i].desired \in Intents
      BY <1>1 DEF States, Settled, Live, Records
    <2> QED BY <1>1, <1>2, <2>1, HandOverStaysSound DEF Finish
  <1>3. CASE Acknowledge(i)
    <2>1. CASE /\ job[i].state \notin {"pausing", "cancelling"}
               /\ run' = [run EXCEPT ![i] = "abandoned"]
               /\ UNCHANGED <<recordVars, exit, token>>
      <3>1. AttemptTypes' /\ run'[i] = "abandoned" /\ \A k \in Jobs \ {i} : run'[k] = run[k]
        BY <2>1 DEF AttemptTypes
      <3>2. RecordTypes'
        BY <2>1 DEF RecordTypes, recordVars
      <3>3. ASSUME NEW k \in Jobs \ {i} PROVE Sound(k)'
        BY <1>1, <2>1, <3>1, UntouchedStaysSound DEF recordVars
      <3>4. Sound(i)'
        BY <1>1, <2>1, <3>1 DEF Sound, RecordsAgree, AttemptAgrees, recordVars
      <3> QED BY <1>1, <3>1, <3>2, <3>3, <3>4
    <2>2. ASSUME NEW s \in {"paused", "queued", "cancelled"}, NEW d \in Intents, NEW w \in Writes,
                 Disown(i), Persist(Become(i, s, d), w),
                 d = job[i].desired, s = "queued" => d = "running"
          PROVE  JobsSound'
      <3>1. s \in States /\ s \notin Live
        BY DEF States, Idle, Settled, Live
      <3> QED BY <1>1, <2>2, <3>1, HandOverStaysSound
    <2>3. /\ job[i].state = "pausing" /\ job[i].desired # "running" => job[i].desired = "paused"
          /\ job[i].state = "cancelling" => job[i].desired = "cancelled"
      BY <1>1 DEF Sound, RecordsAgree, Coherent, Records, Intents
    <2> QED BY <1>3, <2>1, <2>2, <2>3 DEF Acknowledge, Intents
  <1> QED BY <1>2, <1>3 DEF Complete

----------------------------------------------------------------------------
(* The steps of a service pause, and the life of the process.               *)

\* The request to unwind every running attempt keeps every job sound.
LEMMA QuiesceRequestStaysSound ==
    ASSUME JobsSound, RequestQuiesceAttempts
    PROVE  JobsSound'
  <1> USE DEF JobsSound
  <1> DEFINE asked == {j \in Jobs : job[j].state = "running" /\ run[j] # "none"}
             held  == [j \in Jobs |-> IF j \in asked
                         THEN [state |-> "pausing", desired |-> "running"] ELSE job[j]]
  <1> PICK w \in Writes :
        /\ Transact(held, w)
        /\ token' = IF Succeeded(w)
                      THEN [j \in Jobs |-> IF j \in asked
                              THEN [token[j] EXCEPT !.quiesce = TRUE] ELSE token[j]]
                      ELSE token
    BY DEF RequestQuiesceAttempts
  <1>1. run' = run /\ exit' = exit /\ life' = life
    BY DEF RequestQuiesceAttempts
  <1>2. held \in [Jobs -> Records]
    BY DEF RecordTypes, Records, States, Live, Intents
  <1>3. /\ AttemptTypes'
        /\ \A k \in Jobs : /\ k \notin asked => token'[k] = token[k]
                           /\ token'[k].desired = token[k].desired
    BY <1>1 DEF AttemptTypes, Tokens
  <1>4. /\ RecordTypes'
        /\ \/ ~Kept(w) /\ job' = job /\ disk' = disk
           \/ Kept(w) /\ job' = held /\ disk' = held
    BY <1>2, TransactIsAtomic
  <1>5. ~Kept(w) => token' = token
    BY DEF Kept, Succeeded
  <1>6. ASSUME NEW k \in Jobs
        PROVE  Sound(k)'
    <2>1. CASE job'[k] = job[k] /\ (disk'[k] = disk[k] \/ disk'[k] = job[k]) /\ token'[k] = token[k]
      BY <1>1, <2>1, UntouchedStaysSound
    <2>2. CASE k \in asked /\ Kept(w)
      <3>1. /\ job'[k] = [state |-> "pausing", desired |-> "running"]
            /\ disk'[k] = job'[k]
        BY <1>4, <2>2
      <3> QED
        BY <1>1, <1>3, <2>2, <3>1
           DEF Sound, RecordsAgree, AttemptAgrees, Coherent, Live, Settled
    <2> QED BY <1>3, <1>4, <1>5, <2>1, <2>2
  <1> QED BY <1>1, <1>3, <1>4, <1>6

\* Queueing the work that a service pause held keeps every job sound.
LEMMA PreparedStaysSound ==
    ASSUME JobsSound, NEW w \in Writes, Transact(Prepared, w),
           UNCHANGED <<attemptVars, life>>
    PROVE  JobsSound'
  <1> USE DEF JobsSound, attemptVars
  <1>1. Prepared \in [Jobs -> Records]
    BY DEF Prepared, RecordTypes, Records, States, Idle
  <1>2. /\ RecordTypes'
        /\ \/ ~Kept(w) /\ job' = job /\ disk' = disk
           \/ Kept(w) /\ job' = Prepared /\ disk' = Prepared
    BY <1>1, TransactIsAtomic
  <1>3. AttemptTypes'
    BY DEF AttemptTypes
  <1>4. ASSUME NEW k \in Jobs
        PROVE  Sound(k)'
    <2>1. CASE job'[k] = job[k] /\ (disk'[k] = disk[k] \/ disk'[k] = job[k])
      BY <2>1, UntouchedStaysSound
    <2>2. CASE k \in Held /\ job' = Prepared /\ disk' = Prepared
      <3>1. job'[k].state = "queued" /\ job'[k].desired = "running" /\ disk'[k] = job'[k]
        BY <2>2 DEF Prepared, Held, RecordTypes, Records
      <3>2. run[k] = "none"
        BY <2>2 DEF Held
      <3> QED
        BY <3>1, <3>2 DEF Sound, RecordsAgree, AttemptAgrees, Coherent, Live, Settled
    <2> QED BY <1>2, <2>1, <2>2 DEF Prepared
  <1> QED BY <1>2, <1>3, <1>4

\* Every step of the service's own transitions keeps every job sound.
LEMMA GateStaysSound ==
    ASSUME JobsSound, GateStep
    PROVE  JobsSound'
  <1>1. CASE BeginPause \/ Quiesced \/ PauseFails \/ BeginResume \/ Reopen
    BY <1>1, InertStaysSound
       DEF BeginPause, Quiesced, PauseFails, BeginResume, Reopen
  <1>2. CASE RequestQuiesceAttempts
    BY <1>2, QuiesceRequestStaysSound
  <1>3. CASE PrepareQuiescedResume
    BY <1>3, PreparedStaysSound DEF PrepareQuiescedResume
  <1>4. CASE CompleteReopenedRecovery
    BY <1>4, PreparedStaysSound DEF CompleteReopenedRecovery
  <1> QED BY <1>1, <1>2, <1>3, <1>4 DEF GateStep, PauseStep, ResumeStep

\* What a process leaves behind is sound: its file.
LEMMA DownStaysSound ==
    ASSUME JobsSound, Down, disk' = disk \/ disk' = job
    PROVE  JobsSound'
  <1> USE DEF JobsSound, Down
  <1>1. RecordTypes'
    BY DEF RecordTypes
  <1>2. AttemptTypes'
    BY DEF AttemptTypes, Exits, Tokens, NoToken
  <1>3. ASSUME NEW k \in Jobs
        PROVE  Sound(k)'
    <2>1. run'[k] = "none" /\ exit'[k] = "none" /\ token'[k] = NoToken /\ job'[k] = disk'[k]
      BY <1>3
    <2>2. Coherent(disk'[k])
      BY DEF Sound, RecordsAgree
    <2> QED BY <2>1, <2>2 DEF Sound, RecordsAgree, AttemptAgrees
  <1> QED BY <1>1, <1>2, <1>3

\* What a restart makes of a record is coherent, keeps its intent, and is no
\* live attempt; and a settled record is left alone.
LEMMA RestoredIsIdle ==
    ASSUME JobsSound, NEW k \in Jobs
    PROVE  /\ Restored(k) \in Records
           /\ Coherent(Restored(k))
           /\ Restored(k).desired = disk[k].desired
           /\ Restored(k).state \notin Live
           /\ disk[k].state \in Settled => Restored(k) = disk[k]
  <1>1. disk[k] \in Records /\ Coherent(disk[k])
    BY DEF JobsSound, RecordTypes, Sound, RecordsAgree
  <1> QED
    BY <1>1 DEF Restored, Coherent, Records, States, Intents, Idle, Live, Settled

\* A shutdown, a crash and a restart keep every job sound.
LEMMA LifeStaysSound ==
    ASSUME JobsSound, LifeStep
    PROVE  JobsSound'
  <1>1. CASE BeginShutdown
    BY <1>1, SignalledStaysSound DEF BeginShutdown, StopDispatch
  <1>2. CASE CompleteShutdown \/ Crash
    BY <1>2, DownStaysSound DEF CompleteShutdown, Crash
  <1>3. CASE Restart
    <2> DEFINE new == [j \in Jobs |-> Restored(j)]
    <2> PICK w \in Writes :
        Transact(new, w) /\ life' = IF Succeeded(w) THEN "running" ELSE "down"
      BY <1>3 DEF Restart
    <2>1. new \in [Jobs -> Records]
      BY RestoredIsIdle
    <2>2. /\ RecordTypes'
          /\ \/ ~Kept(w) /\ job' = job /\ disk' = disk
             \/ Kept(w) /\ job' = new /\ disk' = new
      BY <2>1, TransactIsAtomic DEF JobsSound
    <2>3. life = "down" /\ run' = run /\ exit' = exit /\ token' = token
      BY <1>3 DEF Restart, attemptVars
    <2>4. AttemptTypes' /\ \A k \in Jobs : run'[k] = "none"
      BY <2>3 DEF JobsSound, AttemptTypes
    <2>5. ASSUME NEW k \in Jobs
          PROVE  Sound(k)'
      <3>1. CASE ~Kept(w) /\ job' = job /\ disk' = disk
        BY <2>3, <3>1, UntouchedStaysSound DEF JobsSound, Kept, Succeeded
      <3>2. CASE job' = new /\ disk' = new
        <4>1. job'[k] = Restored(k) /\ disk'[k] = Restored(k)
          BY <3>2
        <4>2. run[k] = "none" /\ Sound(k)
          BY <2>3 DEF JobsSound
        <4> QED
          BY <2>3, <4>1, <4>2, RestoredIsIdle DEF Sound, RecordsAgree, AttemptAgrees
      <3> QED BY <2>2, <3>1, <3>2
    <2> QED BY <2>2, <2>4, <2>5 DEF JobsSound
  <1> QED BY <1>1, <1>2, <1>3 DEF LifeStep

----------------------------------------------------------------------------
(* All steps.                                                               *)

\* Every step keeps every job sound.
LEMMA JobsStaySound ==
    ASSUME JobsSound, [Next]_jobVars
    PROVE  JobsSound'
  <1>1. ASSUME NEW j \in Jobs,
               Create(j) \/ CallStep(j) \/ Command(j) \/ AttemptStep(j) \/ WorkEnds(j)
        PROVE  JobsSound'
    BY <1>1, UnstartedWork, DispatchStaysSound, PauseStaysSound, CancelStaysSound,
       ResumePausingStaysSound, UnwindingStaysSound, CompleteStaysSound
       DEF CallStep, Command, AttemptStep
  <1>2. CASE UNCHANGED jobVars
    BY <1>2, InertStaysSound DEF jobVars
  <1> QED BY <1>1, <1>2, GateStaysSound, LifeStaysSound DEF Next

----------------------------------------------------------------------------
(* The other variables.                                                     *)

\* Every step keeps the types of the pending calls, the process and the gate.
LEMMA ManagerTypesPreserved ==
    ASSUME JobInv, [Next]_jobVars
    PROVE  ManagerTypes'
  <1> USE DEF JobInv, ManagerTypes
  <1>g. ASSUME NEW j \in Jobs,
               Create(j) \/ CallStep(j) \/ Command(j) \/ AttemptStep(j) \/ WorkEnds(j)
        PROVE  UNCHANGED gateVars
    BY <1>g DEF Create, CallStep, Dispatch, DispatchStarts, DispatchRefused, DeferUnstarted,
                FailUnstarted, Command, Pause, Cancel, ResumePaused, ResumePausing,
                AttemptStep, Checkpoint, Release, Complete, WorkEnds
  <1>1. ASSUME NEW j \in Jobs, Dispatch(j)
        PROVE  calls' \in [Jobs -> SUBSET CallKinds] /\ life' \in {"running", "stopping", "down"}
    BY <1>1 DEF Dispatch, DispatchStarts, DispatchRefused, Refused, StopDispatch, Called, CallKinds
  <1>2. ASSUME NEW j \in Jobs, Create(j) \/ DeferUnstarted(j) \/ FailUnstarted(j) \/ Command(j)
        PROVE  calls' \in [Jobs -> SUBSET CallKinds] /\ life' = life
    BY <1>2 DEF Create, DeferUnstarted, FailUnstarted, Command, Pause, Cancel, ResumePaused,
                ResumePausing, NoClaim, AddCall, DropCall, CallKinds
  <1>3. ASSUME NEW j \in Jobs, AttemptStep(j) \/ WorkEnds(j)
        PROVE  calls' \in [Jobs -> SUBSET CallKinds] /\ life' = life
    BY <1>3 DEF AttemptStep, Checkpoint, Release, Complete, WorkEnds, Finish, Acknowledge,
                AddCall, CallKinds
  <1>4. CASE GateStep
    <2>1. calls' \in [Jobs -> SUBSET CallKinds]
      BY <1>4 DEF GateStep, BeginPause, PauseStep, PauseFails, BeginResume, ResumeStep,
                  RequestQuiesceAttempts, Quiesced, PrepareQuiescedResume, Reopen,
                  CompleteReopenedRecovery, CallKinds
    <2>2. /\ life' = life
          /\ gate' \in {"running", "pausing", "quiesced", "warming"}
          /\ owner' \in {"idle", "request", "drain", "prepare", "reopen", "reopened"}
      BY <1>4 DEF GateStep, BeginPause, PauseStep, PauseFails, BeginResume, ResumeStep,
                  RequestQuiesceAttempts, Quiesced, PrepareQuiescedResume, Reopen,
                  CompleteReopenedRecovery, Owner
    <2> QED BY <2>1, <2>2
  <1>5. CASE LifeStep
    <2>1. calls' \in [Jobs -> SUBSET CallKinds]
      BY <1>5 DEF LifeStep, BeginShutdown, StopDispatch, CompleteShutdown, Crash, Down,
                  Restart, CallKinds
    <2>2. /\ life' \in {"running", "stopping", "down"}
          /\ UNCHANGED gateVars \/ (gate' = "running" /\ owner' = "idle")
      BY <1>5 DEF LifeStep, BeginShutdown, StopDispatch, CompleteShutdown, Crash, Down, Restart
    <2> QED BY <2>1, <2>2 DEF gateVars
  <1>6. CASE UNCHANGED jobVars
    BY <1>6 DEF jobVars, gateVars
  <1> QED
    BY <1>g, <1>1, <1>2, <1>3, <1>4, <1>5, <1>6 DEF Next, CallStep, gateVars

\* The manager starts without jobs.
LEMMA InitSound == Init => JobInv
  <1> SUFFICES ASSUME Init PROVE JobInv
    OBVIOUS
  <1>1. RecordTypes
    BY DEF Init, RecordTypes, Records, States, Intents
  <1>2. AttemptTypes
    BY DEF Init, AttemptTypes, Exits, Tokens, NoToken
  <1>3. ManagerTypes
    BY DEF Init, ManagerTypes
  <1>4. ASSUME NEW k \in Jobs PROVE Sound(k)
    BY DEF Init, Sound, RecordsAgree, AttemptAgrees, Coherent, Live, Settled
  <1>5. life # "down"
    BY DEF Init
  <1> QED BY <1>1, <1>2, <1>3, <1>4, <1>5 DEF JobInv, JobsSound

\* The inductive invariant always holds.
THEOREM JobInvariant == Spec => []JobInv
  <1>1. JobInv /\ [Next]_jobVars => JobInv'
    BY JobsStaySound, ManagerTypesPreserved DEF JobInv
  <1> QED BY InitSound, <1>1, PTL DEF Spec

\* Every variable keeps its type, and the exit and the control token of an
\* attempt are gone with the task that owned them (TypeOK).
THEOREM JobTypeCorrect == Spec => []TypeOK
  <1>1. JobInv => TypeOK
    BY DEF JobInv, JobsSound, RecordTypes, AttemptTypes, ManagerTypes, TypeOK, Sound, AttemptAgrees
  <1> QED BY JobInvariant, <1>1, PTL

\* What an operator was told is what a restart will read, for every number of
\* jobs and whichever writes fail.
THEOREM OperatorIntentIsDurable == Spec => []IntentIsDurable
  <1>1. JobInv => IntentIsDurable
    BY DEF JobInv, JobsSound, IntentIsDurable, Sound, RecordsAgree
  <1> QED BY JobInvariant, <1>1, PTL

----------------------------------------------------------------------------
(* What a step may do to a record.                                          *)

\* Left alone, up to its file record; or changed before it had an outcome.
LeftAlone(k) == job'[k] = job[k] /\ (disk'[k] = disk[k] \/ disk'[k] = job[k])

Changed(k) ==
    /\ job[k].state \notin Settled
    /\ job'[k].state = "queued" =>
         job[k].state = "absent" \/ job[k].desired = "running" \/ ResumePaused(k)

\* Read back from the file by a new process.
ReadBack(k) ==
    \/ job'[k] = disk'[k] /\ (disk'[k] = disk[k] \/ disk'[k] = job[k])
    \/ job'[k] = Restored(k) /\ disk'[k] = Restored(k)

Moves(k) == LeftAlone(k) \/ Changed(k) \/ ReadBack(k)

\* A method that changes one job that has no outcome yet moves every record.
LEMMA OneJobMoves ==
    ASSUME JobsSound, NEW i \in Jobs, NEW s \in States, NEW d \in Intents, NEW w \in Writes,
           Persist(Become(i, s, d), w) \/ Transact(Become(i, s, d), w),
           job[i].state \notin Settled,
           s = "queued" => job[i].state = "absent" \/ job[i].desired = "running" \/ ResumePaused(i),
           NEW k \in Jobs
    PROVE  Moves(k)
  <1>1. CASE k # i
    BY <1>1, OneJobWritten DEF JobsSound, Moves, LeftAlone
  <1>2. CASE k = i
    <2>1. job'[i] = [state |-> s, desired |-> d] \/ (job' = job /\ disk' = disk)
      BY BecomeReplaces, PersistKeeps, TransactIsAtomic DEF JobsSound
    <2> QED BY <1>2, <2>1 DEF Moves, LeftAlone, Changed
  <1> QED BY <1>1, <1>2

\* Whatever step is taken, every record moves in one of these ways.
LEMMA RecordsMove ==
    ASSUME JobsSound, [Next]_jobVars, NEW k \in Jobs
    PROVE  Moves(k)
  <1> USE DEF JobsSound
  <1>0. CASE UNCHANGED recordVars
    BY <1>0 DEF recordVars, Moves, LeftAlone
  <1>t. \A i \in Jobs : job[i].desired \in Intents
    BY DEF RecordTypes, Records
  <1>1. ASSUME NEW i \in Jobs, Create(i) \/ CallStep(i)
        PROVE  Moves(k)
    <2>1. ASSUME NEW s \in {"queued", "running", "paused", "failed"},
                 NEW d \in Intents, NEW w \in Writes,
                 Transact(Become(i, s, d), w), job[i].state \in {"absent", "queued"},
                 s = "queued" => job[i].state = "absent"
          PROVE  Moves(k)
      <3>1. s \in States /\ job[i].state \notin Settled
        BY <2>1 DEF States, Idle, Live, Settled
      <3> QED BY <2>1, <3>1, OneJobMoves
    <2>2. "running" \in Intents
      BY DEF Intents
    <2>3. CASE Create(i)
      BY <2>1, <2>2, <2>3 DEF Create
    <2>4. CASE Dispatch(i)
      <3> PICK c \in {"admit", "requeue", "claim", "restore"} :
            DispatchStarts(i, c) \/ DispatchRefused(i, c)
        BY <2>4 DEF Dispatch
      <3>1. CASE DispatchStarts(i, c)
        BY <2>1, <2>2, <3>1 DEF DispatchStarts, Runnable
      <3>2. CASE DispatchRefused(i, c)
        BY <1>0, <3>2 DEF DispatchRefused
      <3> QED BY <3>1, <3>2
    <2>5. CASE DeferUnstarted(i)
      BY <1>0, <2>1, <2>2, <2>5 DEF DeferUnstarted, Runnable
    <2>6. CASE FailUnstarted(i)
      BY <1>0, <1>t, <2>1, <2>6 DEF FailUnstarted
    <2> QED BY <1>1, <2>3, <2>4, <2>5, <2>6 DEF CallStep
  <1>2. ASSUME NEW i \in Jobs, Pause(i) \/ Cancel(i) \/ ResumePaused(i)
        PROVE  Moves(k)
    <2>1. job[i].state \notin Settled
      BY <1>2 DEF Pause, Cancel, ResumePaused, Controls, Idle, Live, Settled
    <2> QED
      BY <1>2, <2>1, OneJobMoves
         DEF Pause, Cancel, ResumePaused, States, Intents, Idle, Live, Settled
  <1>3. ASSUME NEW i \in Jobs, ResumePausing(i)
        PROVE  Moves(k)
    <2>1. job[i].state \notin Settled
      BY <1>3 DEF ResumePausing, Controls, Idle, Live, Settled
    <2>2. ASSUME NEW s \in {"pausing", "running"}
          PROVE  /\ Become(i, s, "running")[i].state = s
                 /\ k # i => Become(i, s, "running")[k] = job[k]
      BY DEF RecordTypes, Become
    <2>3. \/ UNCHANGED recordVars
          \/ /\ job' = Become(i, "pausing", "running") \/ job' = Become(i, "running", "running")
             /\ disk' = Become(i, "pausing", "running") \/ disk' = Become(i, "running", "running")
      BY <1>3 DEF ResumePausing, Persist
    <2> QED
      BY <1>0, <2>1, <2>2, <2>3 DEF Moves, LeftAlone, Changed
  <1>4. ASSUME NEW i \in Jobs, AttemptStep(i) \/ WorkEnds(i)
        PROVE  Moves(k)
    <2>1. CASE Checkpoint(i) \/ WorkEnds(i)
      BY <1>0, <2>1 DEF Checkpoint, WorkEnds
    <2>2. CASE Release(i)
      BY <2>2 DEF Release, Persist, Moves, LeftAlone
    <2>3. CASE Complete(i)
      <3>1. job[i].state \in Live /\ job[i].state \notin Settled
        BY <2>3 DEF Complete, Sound, AttemptAgrees, Live, Settled
      <3>2. ASSUME NEW s \in {"failed", "shut_down", "succeeded"}, Finish(i, s)
            PROVE  Moves(k)
        <4>1. s \in States /\ s # "queued"
          BY DEF States, Settled
        <4> QED BY <1>t, <3>1, <3>2, <4>1, OneJobMoves DEF Finish
      <3>3. CASE Acknowledge(i)
        BY <1>0, <3>1, <3>3, OneJobMoves DEF Acknowledge, States, Intents, Idle, Settled
      <3> QED BY <2>3, <3>2, <3>3 DEF Complete
    <2> QED BY <1>4, <2>1, <2>2, <2>3 DEF AttemptStep
  <1>5. CASE GateStep
    <2>1. CASE RequestQuiesceAttempts
      <3>1. \/ job'[k] = job[k] /\ (disk'[k] = disk[k] \/ disk'[k] = job[k])
            \/ job[k].state = "running" /\ job'[k].state = "pausing"
        BY <2>1 DEF RequestQuiesceAttempts, Transact, Persist, recordVars
      <3> QED BY <3>1 DEF Moves, LeftAlone, Changed, Settled
    <2>2. ASSUME NEW w \in Writes, Transact(Prepared, w)
          PROVE  Moves(k)
      <3>1. \/ job'[k] = job[k] /\ (disk'[k] = disk[k] \/ disk'[k] = job[k])
            \/ job[k].state \in Idle /\ job[k].desired = "running"
        BY <2>2 DEF Prepared, Held, Transact, Persist, recordVars
      <3> QED BY <3>1 DEF Moves, LeftAlone, Changed, Settled, Idle
    <2> QED
      BY <1>0, <1>5, <2>1, <2>2
         DEF GateStep, BeginPause, PauseStep, PauseFails, BeginResume, ResumeStep,
             Quiesced, PrepareQuiescedResume, Reopen, CompleteReopenedRecovery
  <1>6. CASE LifeStep
    <2>1. CASE BeginShutdown
      BY <1>0, <2>1 DEF BeginShutdown
    <2>2. CASE CompleteShutdown \/ Crash
      BY <2>2 DEF CompleteShutdown, Crash, Down, Moves, ReadBack
    <2>3. CASE Restart
      <3>1. UNCHANGED recordVars \/ (job'[k] = Restored(k) /\ disk'[k] = Restored(k))
        BY <2>3 DEF Restart, Transact, Persist
      <3> QED BY <1>0, <3>1 DEF Moves, ReadBack
    <2> QED BY <1>6, <2>1, <2>2, <2>3 DEF LifeStep
  <1> QED
    BY <1>0, <1>1, <1>2, <1>3, <1>4, <1>5, <1>6 DEF Next, Command, jobVars, recordVars

\* Work that is paused or cancelled is never queued behind the operator's back.
THEOREM OnlyResumesQueuePausedWork == Spec => OnlyIntentQueues
  <1>1. ASSUME JobInv, [Next]_jobVars, NEW k \in Jobs,
               job[k].state \notin {"absent", "queued"}, job'[k].state = "queued"
        PROVE  job[k].desired = "running" \/ ResumePaused(k)
    <2>1. Sound(k) /\ Sound(k)'
      BY <1>1, JobsStaySound DEF JobInv, JobsSound
    <2>2. job'[k].desired = "running"
      BY <1>1, <2>1 DEF Sound, RecordsAgree, Coherent
    <2>3. Moves(k)
      BY <1>1, RecordsMove DEF JobInv
    <2>4. Restored(k).desired = disk[k].desired
      BY <1>1, RestoredIsIdle DEF JobInv
    <2> QED
      BY <1>1, <2>1, <2>2, <2>3, <2>4
         DEF Moves, LeftAlone, Changed, ReadBack, Sound, RecordsAgree
  <1>2. JobInv /\ [Next]_jobVars =>
          [\A j \in Jobs :
              (job[j].state \notin {"absent", "queued"} /\ job'[j].state = "queued")
                  => job[j].desired = "running" \/ ResumePaused(j)]_jobVars
    BY <1>1
  <1> QED BY JobInvariant, <1>2, PTL DEF Spec, OnlyIntentQueues

\* An outcome that reached the file is never rewritten.
THEOREM RecordedOutcomesAreFinal == Spec => OutcomesAreFinal
  <1>1. ASSUME JobInv, [Next]_jobVars, NEW k \in Jobs, disk[k].state \in Settled
        PROVE  disk'[k] = disk[k]
    <2>1. job[k] = disk[k]
      BY <1>1 DEF JobInv, JobsSound, Sound, RecordsAgree
    <2>2. Moves(k)
      BY <1>1, RecordsMove DEF JobInv
    <2>3. Restored(k) = disk[k]
      BY <1>1, RestoredIsIdle DEF JobInv
    <2> QED BY <1>1, <2>1, <2>2, <2>3 DEF Moves, LeftAlone, Changed, ReadBack
  <1>2. JobInv /\ [Next]_jobVars =>
          [\A j \in Jobs : disk[j].state \in Settled => disk'[j] = disk[j]]_jobVars
    BY <1>1
  <1> QED BY JobInvariant, <1>2, PTL DEF Spec, OutcomesAreFinal

----------------------------------------------------------------------------
(* What a stopped attempt, and work held by a service pause, can count on.   *)

\* An attempt that was told to stop, or has stopped because it was, has a record
\* that its acknowledgement settles.
Answerable(j) ==
    run[j] # "none" =>
        /\ run[j] # "abandoned"
        /\ \/ exit[j] \in {"pause", "cancel", "quiesce"}
           \/ token[j].quiesce
           \/ token[j].desired \in {"pause", "cancel"}
           => job[j].state \in {"pausing", "cancelling"}

HeldRecord == [state |-> "paused", desired |-> "running"]

\* The gate is closed for as long as a transition of the service is under way,
\* and only a watcher defers what the gate refused.
GateInv ==
    /\ owner \in {"request", "drain", "prepare", "reopen"} => gate # "running"
    /\ life = "down" => gate = "running" /\ owner = "idle"
    /\ \A j \in Jobs \ Watched : "defer" \notin calls[j]

ReturnInv == JobInv /\ GateInv /\ HeldWorkReturns /\ \A j \in Unresumed : Answerable(j)

\* A change of one job that is written leaves every other job answerable.
LEMMA OthersStayAnswerable ==
    ASSUME NEW k \in Jobs, Answerable(k), job'[k] = job[k], run'[k] = run[k], exit'[k] = exit[k],
           \/ token'[k] = token[k]
           \/ token'[k].desired = "shutdown" /\ token'[k].quiesce = token[k].quiesce
    PROVE  Answerable(k)'
  BY DEF Answerable

\* The record that one job's written change leaves in memory.
LEMMA WhatIsWritten ==
    ASSUME RecordTypes, NEW i \in Jobs, NEW s \in States, NEW d \in Intents, NEW w \in Writes,
           Persist(Become(i, s, d), w) \/ Transact(Become(i, s, d), w)
    PROVE  /\ \A k \in Jobs \ {i} : job'[k] = job[k]
           /\ job'[i] = job[i] \/ job'[i] = [state |-> s, desired |-> d]
  BY OneJobWritten, BecomeReplaces, PersistKeeps, TransactIsAtomic

\* Only an acknowledgement while the gate is closed leaves work held that no
\* watcher owns: a deferral is the watcher's.
LEMMA OnlyClosedGateHolds ==
    ASSUME ReturnInv, NEW i \in Jobs,
           Create(i) \/ CallStep(i) \/ Command(i) \/ AttemptStep(i) \/ WorkEnds(i),
           NEW k \in Jobs \ Watched, job'[k] = HeldRecord
    PROVE  job[k] = HeldRecord \/ gate # "running"
  <1> USE DEF ReturnInv, JobInv, JobsSound, States, Idle, Live, Settled, Intents
  <1>0. CASE UNCHANGED job
    BY <1>0
  <1>1. ASSUME NEW s \in States, NEW d \in Intents, NEW w \in Writes,
               Persist(Become(i, s, d), w) \/ Transact(Become(i, s, d), w),
               s # "paused" \/ d # "running" \/ i \in Watched \/ gate # "running"
        PROVE  job[k] = HeldRecord \/ gate # "running"
    BY <1>1, WhatIsWritten DEF HeldRecord
  <1>t. job[i].desired \in Intents
    BY DEF RecordTypes, Records
  <1>2. CASE Create(i)
    BY <1>1, <1>2 DEF Create
  <1>3. CASE Dispatch(i)
    BY <1>0, <1>1, <1>3 DEF Dispatch, DispatchStarts, DispatchRefused, recordVars
  <1>4. CASE DeferUnstarted(i)
    <2>1. i \in Watched
      BY <1>4 DEF DeferUnstarted, Pending, GateInv
    <2> QED BY <1>0, <1>1, <1>4, <2>1 DEF DeferUnstarted, recordVars
  <1>5. CASE FailUnstarted(i)
    BY <1>0, <1>1, <1>5, <1>t DEF FailUnstarted, recordVars
  <1>6. CASE Pause(i)
    BY <1>1, <1>6 DEF Pause
  <1>7. CASE Cancel(i)
    BY <1>1, <1>7 DEF Cancel
  <1>8. CASE ResumePaused(i)
    BY <1>1, <1>8 DEF ResumePaused
  <1>9. CASE ResumePausing(i)
    <2>1. \/ UNCHANGED job
          \/ \E s \in {"running", "pausing"} : job' = Become(i, s, "running")
      BY <1>9 DEF ResumePausing, Persist, recordVars
    <2>2. ASSUME NEW s \in {"running", "pausing"}, job' = Become(i, s, "running")
          PROVE  job[k] = HeldRecord
      <3>1. job'[i] = [state |-> s, desired |-> "running"] /\ (k # i => job'[k] = job[k])
        BY <2>2, BecomeReplaces
      <3> QED BY <2>2, <3>1 DEF HeldRecord
    <2> QED BY <1>0, <2>1, <2>2
  <1>10. CASE Checkpoint(i) \/ WorkEnds(i) \/ Release(i)
    BY <1>0, <1>10 DEF Checkpoint, WorkEnds, Release, Persist, recordVars
  <1>11. CASE Complete(i)
    <2>1. ASSUME NEW s \in {"failed", "shut_down", "succeeded"}, Finish(i, s)
          PROVE  job[k] = HeldRecord \/ gate # "running"
      BY <1>1, <1>t, <2>1 DEF Finish
    <2>2. CASE Acknowledge(i)
      BY <1>0, <1>1, <2>2 DEF Acknowledge, recordVars
    <2> QED BY <1>11, <2>1, <2>2 DEF Complete
  <1> QED
    BY <1>2, <1>3, <1>4, <1>5, <1>6, <1>7, <1>8, <1>9, <1>10, <1>11
       DEF CallStep, Command, AttemptStep

\* The gate's own account is kept by every step.
LEMMA GateInvStays ==
    ASSUME JobInv, GateInv, [Next]_jobVars
    PROVE  GateInv'
  <1> USE DEF JobInv, ManagerTypes, GateInv
  <1>1. ASSUME NEW i \in Jobs,
               Create(i) \/ CallStep(i) \/ Command(i) \/ AttemptStep(i) \/ WorkEnds(i)
        PROVE  /\ UNCHANGED gateVars
               /\ life' = "down" => life = "down"
               /\ \A j \in Jobs \ Watched : "defer" \in calls'[j] => "defer" \in calls[j]
    <2>1. CASE Dispatch(i)
      BY <2>1 DEF Dispatch, DispatchStarts, DispatchRefused, Refused, StopDispatch, Called, Pending
    <2>2. CASE Create(i) \/ DeferUnstarted(i) \/ FailUnstarted(i)
      BY <2>2 DEF Create, DeferUnstarted, FailUnstarted, AddCall, DropCall
    <2>3. CASE Command(i)
      BY <2>3 DEF Command, Pause, Cancel, ResumePaused, ResumePausing, NoClaim, DropCall
    <2>4. CASE AttemptStep(i) \/ WorkEnds(i)
      BY <2>4 DEF AttemptStep, Checkpoint, Release, Complete, WorkEnds, Finish, Acknowledge, AddCall
    <2> QED BY <1>1, <2>1, <2>2, <2>3, <2>4 DEF CallStep
  <1>2. CASE \E i \in Jobs :
               Create(i) \/ CallStep(i) \/ Command(i) \/ AttemptStep(i) \/ WorkEnds(i)
    <2> PICK i \in Jobs :
          Create(i) \/ CallStep(i) \/ Command(i) \/ AttemptStep(i) \/ WorkEnds(i)
      BY <1>2
    <2>1. UNCHANGED <<gate, owner>> /\ (life' = "down" => life = "down")
      BY <1>1 DEF gateVars
    <2>2. \A j \in Jobs \ Watched : "defer" \in calls'[j] => "defer" \in calls[j]
      BY <1>1
    <2> QED BY <2>1, <2>2
  <1>3. CASE GateStep
    <2>1. /\ life' = life /\ life # "down"
          /\ owner' \in {"request", "drain", "prepare", "reopen"} => gate' # "running"
      BY <1>3 DEF GateStep, BeginPause, PauseStep, PauseFails, BeginResume, ResumeStep,
                  RequestQuiesceAttempts, Quiesced, PrepareQuiescedResume, Reopen,
                  CompleteReopenedRecovery, Owner
    <2>2. \A j \in Jobs : "defer" \in calls'[j] => "defer" \in calls[j]
      BY <1>3 DEF GateStep, BeginPause, PauseStep, PauseFails, BeginResume, ResumeStep,
                  RequestQuiesceAttempts, Quiesced, PrepareQuiescedResume, Reopen,
                  CompleteReopenedRecovery
    <2> QED BY <2>1, <2>2
  <1>4. CASE LifeStep
    BY <1>4 DEF LifeStep, BeginShutdown, StopDispatch, CompleteShutdown, Crash, Down, Restart, gateVars
  <1>5. CASE UNCHANGED jobVars
    BY <1>5 DEF jobVars, gateVars
  <1> QED BY <1>2, <1>3, <1>4, <1>5 DEF Next

\* A restart holds nothing whose operator wants it running.
LEMMA RestoredIsNotHeld == \A j \in Jobs : Restored(j) # HeldRecord
  BY DEF Restored, HeldRecord

\* The gate opens only over work that was prepared.
LEMMA HeldWorkStays ==
    ASSUME ReturnInv, [Next]_jobVars
    PROVE  HeldWorkReturns'
  <1> USE DEF ReturnInv, HeldWorkReturns, HeldRecord, Unresumed
  <1>1. CASE \E i \in Jobs :
               Create(i) \/ CallStep(i) \/ Command(i) \/ AttemptStep(i) \/ WorkEnds(i)
    <2> PICK i \in Jobs :
          Create(i) \/ CallStep(i) \/ Command(i) \/ AttemptStep(i) \/ WorkEnds(i)
      BY <1>1
    <2>1. UNCHANGED <<gate, owner>> /\ life # "down"
      <3>1. CASE Create(i) \/ CallStep(i)
        BY <3>1 DEF Create, CallStep, Dispatch, DispatchStarts, DispatchRefused, DeferUnstarted,
                    FailUnstarted, Pending, gateVars
      <3>2. CASE Command(i)
        BY <3>2 DEF Command, Pause, Cancel, ResumePaused, ResumePausing, Controls, gateVars
      <3>3. CASE AttemptStep(i) \/ WorkEnds(i)
        <4>1. run[i] # "none" /\ UNCHANGED gateVars
          BY <3>3 DEF AttemptStep, Checkpoint, Release, Complete, WorkEnds
        <4> QED BY <4>1 DEF JobInv, JobsSound, gateVars
      <3> QED BY <3>1, <3>2, <3>3
    <2> QED BY <2>1, OnlyClosedGateHolds
  <1>2. CASE GateStep
    <2>1. CASE CompleteReopenedRecovery
      <3>1. ASSUME gate' = "running", NEW j \in Jobs, job'[j] = HeldRecord
            PROVE  FALSE
        <4>1. PICK w \in Writes : Transact(Prepared, w) /\ Succeeded(w)
          BY <2>1, <3>1 DEF CompleteReopenedRecovery
        <4>2. job'[j] = Prepared[j]
          BY <4>1 DEF Transact, Persist, Succeeded
        <4>3. job[j].state = "paused" => run[j] = "none"
          BY DEF JobInv, JobsSound, Sound, AttemptAgrees, Live
        <4>4. CASE j \in Held
          BY <3>1, <4>2, <4>4 DEF Prepared, JobInv, JobsSound, RecordTypes, Records
        <4>5. CASE j \notin Held
          BY <3>1, <4>2, <4>3, <4>5 DEF Prepared, Held, Idle
        <4> QED BY <4>4, <4>5
      <3> QED BY <3>1
    <2>2. CASE ~CompleteReopenedRecovery
      <3>1. owner' # "idle" \/ gate' # "running"
        BY <1>2, <2>2
           DEF GateStep, BeginPause, PauseStep, PauseFails, BeginResume, ResumeStep,
               RequestQuiesceAttempts, Quiesced, PrepareQuiescedResume, Reopen, Owner, GateInv
      <3> QED BY <3>1
    <2> QED BY <2>1, <2>2
  <1>3. CASE LifeStep
    <2>1. CASE BeginShutdown
      BY <2>1 DEF BeginShutdown, StopDispatch, recordVars, gateVars
    <2>2. CASE CompleteShutdown \/ Crash
      BY <2>2 DEF CompleteShutdown, Crash, Down
    <2>3. CASE Restart
      <3>1. life' # "down" => \A j \in Jobs : job'[j] = Restored(j)
        BY <2>3 DEF Restart, Transact, Persist, Succeeded
      <3> QED BY <3>1, RestoredIsNotHeld
    <2> QED BY <1>3, <2>1, <2>2, <2>3 DEF LifeStep
  <1>4. CASE UNCHANGED jobVars
    BY <1>4 DEF jobVars, recordVars, gateVars
  <1> QED BY <1>1, <1>2, <1>3, <1>4 DEF Next

\* Every step leaves the attempts of jobs that nobody resumes answerable.
LEMMA AnswerableStays ==
    ASSUME ReturnInv, [Next]_jobVars, NEW k \in Unresumed
    PROVE  Answerable(k)'
  <1> USE DEF ReturnInv, JobInv, JobsSound, Unresumed, States, Idle, Live, Settled, Intents
  <1>k. /\ k \in Jobs /\ Answerable(k) /\ Sound(k)
        /\ run[k] \in {"none", "live", "unwound", "released", "abandoned"}
        /\ token[k] \in Tokens /\ exit[k] \in Exits
    BY DEF AttemptTypes
  <1>0. CASE UNCHANGED <<job, run, exit, token>>
    BY <1>0, <1>k, OthersStayAnswerable
  <1>n. ASSUME run'[k] = "none" PROVE Answerable(k)'
    BY <1>n DEF Answerable
  <1>1. ASSUME NEW i \in Jobs,
               Create(i) \/ CallStep(i) \/ Command(i) \/ AttemptStep(i) \/ WorkEnds(i)
        PROVE  Answerable(k)'
    <2>1. CASE Create(i) \/ DeferUnstarted(i) \/ FailUnstarted(i) \/ ResumePaused(i)
      <3>1. UNCHANGED attemptVars
        BY <2>1 DEF Create, DeferUnstarted, FailUnstarted, ResumePaused
      <3>2. CASE run[k] = "none"
        BY <1>n, <3>1, <3>2 DEF attemptVars
      <3>3. CASE run[k] # "none"
        <4>1. job[k].state \in Live
          BY <1>k, <3>3 DEF Sound, AttemptAgrees
        <4>2. job'[k] = job[k]
          <5>1. UNCHANGED job \/ \E s \in States, d \in Intents, w \in Writes :
                                   Transact(Become(i, s, d), w)
            <6>1. job[i].desired \in Intents
              BY DEF RecordTypes, Records
            <6> QED BY <2>1, <6>1 DEF Create, DeferUnstarted, FailUnstarted, ResumePaused, recordVars
          <5>2. i # k \/ UNCHANGED job
            BY <2>1, <3>3, <4>1 DEF Create, DeferUnstarted, FailUnstarted, ResumePaused, Runnable, recordVars
          <5> QED BY <5>1, <5>2, WhatIsWritten, <1>k
        <4> QED BY <1>k, <3>1, <4>2, OthersStayAnswerable DEF attemptVars
      <3> QED BY <3>2, <3>3
    <2>2. CASE Dispatch(i)
      <3>1. UNCHANGED exit /\ (run'[k] = run[k] \/ (k = i /\ run[k] = "none" /\ run'[k] = "live"))
            /\ (job'[k] = job[k] \/ (k = i /\ run[k] = "none"))
        <4>1. CASE \E c \in {"admit", "requeue", "claim", "restore"} : DispatchRefused(i, c)
          BY <4>1 DEF DispatchRefused, recordVars
        <4>2. CASE \E c \in {"admit", "requeue", "claim", "restore"} : DispatchStarts(i, c)
          BY <1>k, <4>2, WhatIsWritten DEF DispatchStarts, Runnable
        <4> QED BY <2>2, <4>1, <4>2 DEF Dispatch
      <3>2. token'[k] = token[k] \/ (run'[k] # "none" /\ token'[k] = [token[k] EXCEPT !.desired = "shutdown"])
        BY <1>k, <2>2 DEF Dispatch, DispatchStarts, DispatchRefused, Refused, StopDispatch
      <3>3. run[k] = "none" => exit[k] = "none" /\ token[k] = NoToken
        BY <1>k DEF Sound, AttemptAgrees
      <3>4. CASE run[k] = "none"
        BY <1>k, <3>1, <3>2, <3>3, <3>4 DEF Answerable, NoToken, Tokens
      <3>5. CASE run[k] # "none"
        <4>1. token'[k] = token[k] \/ (token'[k].desired = "shutdown" /\ token'[k].quiesce = token[k].quiesce)
          BY <1>k, <3>2 DEF Tokens
        <4> QED BY <1>k, <3>1, <3>5, <4>1, OthersStayAnswerable
      <3> QED BY <3>4, <3>5
    <2>3. CASE Pause(i) \/ Cancel(i)
      <3>0. UNCHANGED <<run, exit>>
        BY <2>3 DEF Pause, Cancel
      <3>1. CASE i # k
        <4>1. job'[k] = job[k]
          <5>1. \E s \in States, d \in Intents, w \in Writes : Transact(Become(i, s, d), w)
            BY <2>3 DEF Pause, Cancel
          <5> QED BY <1>k, <3>1, <5>1, WhatIsWritten
        <4>2. token'[k] = token[k]
          <5>1. \/ token' = token \/ token' = [token EXCEPT ![i] = RequestPause(@)]
                \/ token' = [token EXCEPT ![i] = RequestCancel(@)]
            BY <2>3 DEF Pause, Cancel
          <5> QED BY <1>k, <3>1, <5>1 DEF AttemptTypes
        <4> QED BY <1>k, <3>0, <4>1, <4>2, OthersStayAnswerable
      <3>2. CASE i = k /\ run[k] # "none"
        <4>1. job[k].state \in Live
          BY <1>k, <3>2 DEF Sound, AttemptAgrees
        <4>2. PICK w \in Writes, s \in {"pausing", "cancelling"}, d \in Intents :
                 /\ Transact(Become(k, s, d), w)
                 /\ ~Kept(w) => token' = token
          BY <2>3, <3>2, <4>1 DEF Pause, Cancel
        <4>3. CASE ~Kept(w)
          <5>1. s \in States /\ Become(k, s, d) \in [Jobs -> Records]
            BY <1>k, BecomeReplaces
          <5>2. job' = job /\ token' = token
            BY <1>k, <4>2, <4>3, <5>1, TransactIsAtomic
          <5> QED BY <1>k, <3>0, <5>2, OthersStayAnswerable
        <4>4. CASE Kept(w)
          <5>1. job'[k].state = s
            <6>0. s \in States
              OBVIOUS
            <6>1. /\ Become(k, s, d) \in [Jobs -> Records]
                  /\ Become(k, s, d)[k] = [state |-> s, desired |-> d]
              BY <1>k, <6>0, BecomeReplaces
            <6>2. job' = Become(k, s, d)
              BY <4>2, <4>4, <6>1, TransactIsAtomic
            <6> QED BY <6>1, <6>2
          <5> QED BY <1>k, <3>0, <5>1 DEF Answerable
        <4> QED BY <4>3, <4>4
      <3> QED BY <1>n, <3>0, <3>1, <3>2
    <2>4. CASE ResumePausing(i)
      <3>1. i # k
        BY <2>4 DEF ResumePausing, Controls
      <3>2. job'[k] = job[k] /\ token'[k] = token[k] /\ UNCHANGED <<run, exit>>
        <4>1. \/ UNCHANGED job
              \/ \E s \in {"running", "pausing"} : job' = Become(i, s, "running")
          BY <2>4 DEF ResumePausing, Persist, recordVars
        <4>2. \A s \in {"running", "pausing"} : Become(i, s, "running")[k] = job[k]
          BY <1>k, <3>1, BecomeReplaces
        <4>3. job'[k] = job[k]
          BY <4>1, <4>2
        <4>4. token'[k] = token[k]
          BY <1>k, <2>4, <3>1 DEF ResumePausing, AttemptTypes
        <4> QED BY <2>4, <4>3, <4>4 DEF ResumePausing
      <3> QED BY <1>k, <3>2, OthersStayAnswerable
    <2>5. CASE (AttemptStep(i) \/ WorkEnds(i)) /\ i # k
      <3>1. run'[k] = run[k] /\ exit'[k] = exit[k] /\ token'[k] = token[k]
        BY <1>k, <2>5 DEF AttemptStep, Checkpoint, WorkEnds, Release, Complete, Finish,
                          Acknowledge, Disown, AttemptTypes
      <3>2. job'[k] = job[k]
        <4>1. CASE Complete(i)
          <5>1. job[i].desired \in Intents
            BY DEF RecordTypes, Records
          <5>2. \/ UNCHANGED job
                \/ \E s \in States, d \in Intents, w \in Writes : Persist(Become(i, s, d), w)
            BY <4>1, <5>1 DEF Complete, Finish, Acknowledge, recordVars
          <5> QED BY <1>k, <2>5, <5>2, WhatIsWritten
        <4>2. CASE Checkpoint(i) \/ WorkEnds(i) \/ Release(i)
          BY <4>2 DEF Checkpoint, WorkEnds, Release, Persist, recordVars
        <4> QED BY <2>5, <4>1, <4>2 DEF AttemptStep
      <3> QED BY <1>k, <3>1, <3>2, OthersStayAnswerable
    <2>6. CASE Checkpoint(k)
      <3>1. /\ run[k] = "live" /\ job' = job /\ token' = token /\ run'[k] = "unwound"
            /\ exit'[k] = Signal(token[k]) /\ Signal(token[k]) # "none"
        BY <1>k, <2>6 DEF Checkpoint, AttemptTypes, recordVars
      <3>2. exit'[k] \in {"pause", "cancel", "quiesce"} =>
               token[k].quiesce \/ token[k].desired \in {"pause", "cancel"}
        BY <1>k, <3>1 DEF Signal, Tokens
      <3> QED BY <1>k, <3>1, <3>2 DEF Answerable
    <2>7. CASE WorkEnds(k)
      <3>1. /\ run[k] = "live" /\ job' = job /\ token' = token /\ run'[k] = "unwound"
            /\ exit'[k] \in {"done", "certified", "error"}
        BY <1>k, <2>7 DEF WorkEnds, AttemptTypes, recordVars
      <3> QED BY <1>k, <3>1 DEF Answerable
    <2>8. CASE Release(k)
      <3>1. run[k] = "unwound" /\ job' = job /\ token' = token /\ exit' = exit /\ run'[k] = "released"
        BY <1>k, <2>8 DEF Release, Persist, AttemptTypes
      <3> QED BY <1>k, <3>1 DEF Answerable
    <2>9. CASE Complete(k)
      <3>1. ASSUME Disown(k) PROVE Answerable(k)'
        BY <1>k, <1>n, <3>1 DEF Disown, AttemptTypes
      <3>2. ASSUME Acknowledge(k), Stopped(k), exit[k] \in {"done", "pause", "cancel", "quiesce"},
                   run[k] = "released"
            PROVE  Disown(k)
        <4>1. job[k].state \in {"pausing", "cancelling"}
          BY <1>k, <3>2 DEF Stopped, Answerable, Signals
        <4> QED BY <3>2, <4>1 DEF Acknowledge
      <3> QED BY <2>9, <3>1, <3>2 DEF Complete, Finish
    <2> QED
      BY <1>1, <2>1, <2>2, <2>3, <2>4, <2>5, <2>6, <2>7, <2>8, <2>9
         DEF CallStep, Command, AttemptStep
  <1>2. CASE GateStep
    <2>1. CASE RequestQuiesceAttempts
      <3>1. UNCHANGED <<run, exit>>
        BY <2>1 DEF RequestQuiesceAttempts
      <3>2. \/ job'[k] = job[k] /\ token'[k] = token[k]
            \/ job'[k].state = "pausing"
        BY <1>k, <2>1 DEF RequestQuiesceAttempts, Transact, Persist, recordVars, Succeeded
      <3> QED BY <1>k, <3>1, <3>2 DEF Answerable
    <2>2. CASE PrepareQuiescedResume \/ CompleteReopenedRecovery
      <3>1. UNCHANGED attemptVars
        BY <2>2 DEF PrepareQuiescedResume, CompleteReopenedRecovery
      <3>2. run[k] # "none" => job'[k] = job[k]
        BY <1>k, <2>2 DEF PrepareQuiescedResume, CompleteReopenedRecovery, Transact, Persist,
                          recordVars, Prepared, Held
      <3> QED BY <1>k, <3>1, <3>2 DEF Answerable, attemptVars
    <2> QED
      BY <1>0, <1>2, <2>1, <2>2
         DEF GateStep, BeginPause, PauseStep, PauseFails, BeginResume, ResumeStep,
             Quiesced, Reopen, recordVars, attemptVars
  <1>3. CASE LifeStep
    <2>1. CASE BeginShutdown
      <3>1. /\ UNCHANGED <<job, run, exit>>
            /\ token'[k] = token[k] \/ token'[k] = [token[k] EXCEPT !.desired = "shutdown"]
        BY <1>k, <2>1 DEF BeginShutdown, StopDispatch, recordVars
      <3>2. token'[k] = token[k] \/ (token'[k].desired = "shutdown" /\ token'[k].quiesce = token[k].quiesce)
        BY <1>k, <3>1 DEF Tokens
      <3> QED BY <1>k, <3>1, <3>2, OthersStayAnswerable
    <2>2. CASE CompleteShutdown \/ Crash
      BY <1>k, <1>n, <2>2 DEF CompleteShutdown, Crash, Down
    <2>3. CASE Restart
      BY <1>k, <1>n, <2>3 DEF Restart, attemptVars
    <2> QED BY <1>3, <2>1, <2>2, <2>3 DEF LifeStep
  <1>4. CASE UNCHANGED jobVars
    BY <1>0, <1>4 DEF jobVars, recordVars, attemptVars
  <1> QED BY <1>1, <1>2, <1>3, <1>4 DEF Next

\* Whatever acknowledgement races the reopening of the gate, and whichever writes
\* fail: what a stopped attempt and held work count on always holds.
THEOREM ReturnInvariant == Spec => []ReturnInv
  <1>1. Init => ReturnInv
    BY InitSound DEF Init, ReturnInv, GateInv, HeldWorkReturns, Answerable, Unresumed
  <1>2. ReturnInv /\ [Next]_jobVars => ReturnInv'
    <2> SUFFICES ASSUME ReturnInv, [Next]_jobVars PROVE ReturnInv'
      OBVIOUS
    <2>1. JobInv'
      BY JobsStaySound, ManagerTypesPreserved DEF ReturnInv, JobInv
    <2>2. GateInv' /\ HeldWorkReturns'
      BY GateInvStays, HeldWorkStays DEF ReturnInv
    <2>3. \A j \in Unresumed : Answerable(j)'
      BY AnswerableStays
    <2> QED BY <2>1, <2>2, <2>3 DEF ReturnInv, Unresumed
  <1> QED BY <1>1, <1>2, PTL DEF Spec

\* When a service pause is over, no work that it held is left behind
\* (_complete_reopened_recovery), for any number of jobs.
THEOREM NothingStaysHeld == Spec => []HeldWorkReturns
  <1>1. ReturnInv => HeldWorkReturns
    BY DEF ReturnInv
  <1> QED BY ReturnInvariant, <1>1, PTL

\* A working attempt is told to pause or to cancel exactly while its record says
\* that an operator asked for it, and by a service pause only over a record that
\* its acknowledgement settles, for any number of jobs and whichever writes fail
\* (_request_pause_locked, _request_cancel_locked, request_quiesce_attempts).
THEOREM SignalsMatchRecords == Spec => []SignalMatchesRecord
  <1>1. ReturnInv => SignalMatchesRecord
    <2> SUFFICES ASSUME ReturnInv, NEW j \in Jobs, run[j] = "live"
                 PROVE  /\ token[j].desired # "shutdown" =>
                             /\ (job[j].desired = "paused") <=> (token[j].desired = "pause")
                             /\ (job[j].state = "cancelling") <=> (token[j].desired = "cancel")
                        /\ j \in Unresumed /\ token[j].quiesce
                             => job[j].state \in {"pausing", "cancelling"}
      BY DEF SignalMatchesRecord
    <2>1. Sound(j)
      BY DEF ReturnInv, JobInv, JobsSound
    <2>2. j \in Unresumed => Answerable(j)
      BY DEF ReturnInv
    <2> QED BY <2>1, <2>2 DEF Sound, AttemptAgrees, Answerable
  <1> QED BY ReturnInvariant, <1>1, PTL

\* A finished attempt always lets go of a job that no operator resumes
\* (acknowledge_control finds a record that it can settle).
THEOREM EveryAttemptLetsGo == Spec => []AttemptsLetGo
  <1>1. ReturnInv => AttemptsLetGo
    BY DEF ReturnInv, AttemptsLetGo, Answerable
  <1> QED BY ReturnInvariant, <1>1, PTL

----------------------------------------------------------------------------
(* The clocks of a record (JobStamps), in memory and in the file.           *)

\* The revisions a running process makes of a record.
Revision(old, new) ==
    \/ old.state = "absent" /\ new = [state |-> "queued", desired |-> "running"]
    \/ old.state \in {"paused", "pausing"} /\ new = [state |-> "queued", desired |-> "running"]
    \/ old.state = "queued" /\ new = [state |-> "running", desired |-> "running"]
    \/ old.state = "queued" /\ new = [state |-> "paused", desired |-> "running"]
    \/ old.state = "queued" /\ new = [state |-> "failed", desired |-> "running"]
    \/ old.state \in Idle /\ new = [state |-> "paused", desired |-> "paused"]
    \/ old.state \in Idle /\ new = [state |-> "cancelled", desired |-> "cancelled"]
    \/ old.state \in {"running", "pausing"} /\ new = [state |-> "pausing", desired |-> "paused"]
    \/ old.state \in {"running", "pausing"} /\ new = [state |-> "cancelling", desired |-> "cancelled"]
    \/ old.state = "running" /\ new = [state |-> "pausing", desired |-> "running"]
    \/ /\ old = [state |-> "pausing", desired |-> "paused"]
       /\ new.state \in {"running", "pausing"} /\ new.desired = "running"
    \/ old.state = "pausing" /\ new.state = "paused" /\ new.desired = old.desired
    \/ old.state = "cancelling" /\ new = [state |-> "cancelled", desired |-> "cancelled"]
    \/ old.state \in Live /\ new.state \in {"failed", "shut_down", "succeeded"}

\* The revisions a start makes of a record, or a service resume that has
\* outlived its process.
Recovery(old, new) ==
    \/ old.state \in {"paused"} \cup Live \cup {"shut_down"}
       /\ new = [state |-> "queued", desired |-> "running"]
    \/ old.state \in Live \cup {"shut_down"} /\ old.desired \in {"paused", "cancelled"}
       /\ new = [state |-> old.desired, desired |-> old.desired]
    \/ old.state \in Live /\ new = [state |-> "interrupted", desired |-> old.desired]

\* A record is kept or revised, and a file that is written takes what memory
\* then holds, or a revision of what it held.
Revises(k) ==
    /\ job'[k] = job[k] \/ Revision(job[k], job'[k])
    /\ disk' = disk \/ disk'[k] = job'[k] \/ Revision(job[k], disk'[k])

\* What a write leaves in memory and in the file.
LEMMA WriteReaches ==
    ASSUME NEW new, NEW w \in Writes, Persist(new, w) \/ Transact(new, w)
    PROVE  (job' = job \/ job' = new) /\ (disk' = disk \/ disk' = job')
  BY DEF Persist, Transact, recordVars

LEMMA TransactReaches ==
    ASSUME NEW new, NEW w \in Writes, Transact(new, w)
    PROVE  (job' = job /\ disk' = disk) \/ (job' = new /\ disk' = new)
  BY DEF Persist, Transact, recordVars

\* One job's write revises that job's record alone.
LEMMA OneJobRevised ==
    ASSUME RecordTypes, NEW i \in Jobs, NEW s \in States, NEW d \in Intents,
           NEW w \in Writes, Persist(Become(i, s, d), w) \/ Transact(Become(i, s, d), w),
           Revision(job[i], [state |-> s, desired |-> d]),
           NEW k \in Jobs
    PROVE  Revises(k)
  <1>1. (job' = job \/ job' = Become(i, s, d)) /\ (disk' = disk \/ disk' = job')
    BY WriteReaches
  <1> QED BY <1>1, BecomeReplaces DEF Revises

\* Whichever writes fail, a running process revises records in these ways only.
LEMMA RunningRevises ==
    ASSUME JobsSound, Next, life # "down", life' # "down", NEW k \in Jobs
    PROVE  Revises(k)
  <1> USE DEF JobsSound
  <1> DEFINE Goal == Revises(k)
  <1>0. ASSUME job' = job, disk' = disk PROVE Goal
    BY <1>0 DEF Revises
  <1>s. ASSUME NEW i \in Jobs
        PROVE  job[i] \in Records /\ Coherent(job[i]) /\ Sound(i)
    BY <1>s DEF RecordTypes, Sound, RecordsAgree
  <1>1. ASSUME NEW i \in Jobs, Create(i) \/ CallStep(i)
        PROVE  Goal
    <2>1. ASSUME NEW s \in {"queued", "running", "paused", "failed"}, NEW w \in Writes,
                 Transact(Become(i, s, "running"), w),
                 IF s = "queued" THEN job[i].state = "absent" ELSE job[i].state = "queued"
          PROVE  Goal
      <3>1. s \in States /\ "running" \in Intents
        BY DEF States, Idle, Live, Settled, Intents
      <3>2. Revision(job[i], [state |-> s, desired |-> "running"])
        BY <2>1 DEF Revision
      <3> QED BY <2>1, <3>1, <3>2, OneJobRevised
    <2>2. CASE Create(i)
      BY <2>1, <2>2 DEF Create
    <2>3. CASE Dispatch(i)
      <3> PICK c \in {"admit", "requeue", "claim", "restore"} :
            DispatchStarts(i, c) \/ DispatchRefused(i, c)
        BY <2>3 DEF Dispatch
      <3>1. CASE DispatchStarts(i, c)
        BY <2>1, <3>1 DEF DispatchStarts, Runnable
      <3>2. CASE DispatchRefused(i, c)
        BY <1>0, <3>2 DEF DispatchRefused, recordVars
      <3> QED BY <3>1, <3>2
    <2>4. CASE DeferUnstarted(i)
      BY <1>0, <2>1, <2>4 DEF DeferUnstarted, Runnable, recordVars
    <2>5. CASE FailUnstarted(i)
      BY <1>0, <1>s, <2>1, <2>5 DEF FailUnstarted, Coherent, recordVars
    <2> QED BY <1>1, <2>2, <2>3, <2>4, <2>5 DEF CallStep
  <1>2. ASSUME NEW i \in Jobs, Pause(i) \/ Cancel(i) \/ ResumePaused(i)
        PROVE  Goal
    <2>1. ASSUME NEW s \in {"paused", "pausing", "cancelled", "cancelling", "queued"},
                 NEW d \in Intents, NEW w \in Writes,
                 Transact(Become(i, s, d), w), Revision(job[i], [state |-> s, desired |-> d])
          PROVE  Goal
      <3>1. s \in States
        BY DEF States, Idle, Live, Settled
      <3> QED BY <2>1, <3>1, OneJobRevised
    <2>2. CASE Pause(i)
      BY <2>1, <2>2 DEF Pause, Revision, Intents
    <2>3. CASE Cancel(i)
      BY <2>1, <2>3 DEF Cancel, Revision, Intents
    <2>4. CASE ResumePaused(i)
      BY <2>1, <2>4 DEF ResumePaused, Revision, Intents
    <2> QED BY <1>2, <2>2, <2>3, <2>4
  <1>3. ASSUME NEW i \in Jobs, ResumePausing(i)
        PROVE  Goal
    <2>1. \/ job' = job /\ disk' = disk
          \/ \E s \in {"pausing", "running"} :
                /\ job' = Become(i, s, "running")
                /\ disk' = job' \/ disk' = Become(i, "running", "running")
      BY <1>3 DEF ResumePausing, Persist, recordVars
    <2>2. job[i] = [state |-> "pausing", desired |-> "paused"]
      BY <1>3, <1>s DEF ResumePausing, Controls, Coherent, Records, Intents
    <2>3. ASSUME NEW s \in {"pausing", "running"}, job' = Become(i, s, "running"),
                 disk' = job' \/ disk' = Become(i, "running", "running")
          PROVE  Goal
      <3>1. {s, "running"} \subseteq States /\ "running" \in Intents
        BY DEF States, Live, Intents
      <3>2. /\ Revision(job[i], [state |-> s, desired |-> "running"])
            /\ Revision(job[i], [state |-> "running", desired |-> "running"])
        BY <2>2 DEF Revision
      <3>3. ASSUME NEW r \in {s, "running"}
            PROVE  /\ Become(i, r, "running")[i] = [state |-> r, desired |-> "running"]
                   /\ k # i => Become(i, r, "running")[k] = job[k]
        BY <3>1, BecomeReplaces
      <3>4. job'[k] = job[k] \/ Revision(job[k], job'[k])
        BY <2>3, <3>2, <3>3
      <3>5. disk'[k] = job'[k] \/ Revision(job[k], disk'[k])
        BY <2>3, <3>2, <3>3
      <3> QED BY <3>4, <3>5 DEF Revises
    <2> QED BY <1>0, <2>1, <2>3
  <1>4. ASSUME NEW i \in Jobs, AttemptStep(i) \/ WorkEnds(i)
        PROVE  Goal
    <2>1. CASE Checkpoint(i) \/ WorkEnds(i)
      BY <1>0, <2>1 DEF Checkpoint, WorkEnds, recordVars
    <2>2. CASE Release(i)
      BY <2>2, WriteReaches DEF Release, Revises
    <2>3. CASE Complete(i)
      <3>1. job[i].state \in Live
        BY <2>3, <1>s DEF Complete, Sound, AttemptAgrees
      <3>2. ASSUME NEW s \in {"failed", "shut_down", "succeeded"}, Finish(i, s)
            PROVE  Goal
        <4>1. s \in States /\ job[i].desired \in Intents
          BY <1>s DEF States, Settled, Records
        <4>2. Revision(job[i], [state |-> s, desired |-> job[i].desired])
          BY <3>1 DEF Revision
        <4> QED BY <3>2, <4>1, <4>2, OneJobRevised DEF Finish
      <3>3. CASE Acknowledge(i)
        <4>1. ASSUME NEW s \in {"paused", "queued", "cancelled"}, NEW d \in Intents, NEW w \in Writes,
                     Persist(Become(i, s, d), w), Revision(job[i], [state |-> s, desired |-> d])
              PROVE  Goal
          <5>1. s \in States
            BY DEF States, Idle, Settled
          <5> QED BY <4>1, <5>1, OneJobRevised
        <4>2. job[i].state = "pausing" /\ job[i].desired # "running" => job[i].desired = "paused"
          BY <1>s DEF Coherent, Records, Intents
        <4> QED BY <1>0, <3>3, <4>1, <4>2 DEF Acknowledge, Revision, Intents, recordVars
      <3> QED BY <2>3, <3>2, <3>3 DEF Complete
    <2> QED BY <1>4, <2>1, <2>2, <2>3 DEF AttemptStep
  <1>5. CASE GateStep
    <2>1. CASE RequestQuiesceAttempts
      <3>1. PICK w \in Writes :
              Transact([j \in Jobs |->
                          IF j \in {i \in Jobs : job[i].state = "running" /\ run[i] # "none"}
                          THEN [state |-> "pausing", desired |-> "running"] ELSE job[j]], w)
        BY <2>1 DEF RequestQuiesceAttempts
      <3> QED BY <3>1, TransactReaches DEF Revision, Revises
    <2>2. ASSUME NEW w \in Writes, Transact(Prepared, w)
          PROVE  Goal
      <3>1. (job' = job /\ disk' = disk) \/ (job' = Prepared /\ disk' = Prepared)
        BY <2>2, TransactReaches
      <3>2. k \in Held /\ job[k].state # "paused" => job[k].state = "queued"
        BY DEF Held, Idle
      <3>3. k \in Held => Prepared[k] = [state |-> "queued", desired |-> "running"]
        BY <1>s DEF Prepared, Held, Records
      <3>4. k \in Held /\ job[k].state = "queued" => job[k] = [state |-> "queued", desired |-> "running"]
        BY <1>s DEF Held, Records
      <3> QED BY <3>1, <3>2, <3>3, <3>4 DEF Prepared, Revision, Revises
    <2>3. CASE PrepareQuiescedResume \/ CompleteReopenedRecovery
      BY <2>2, <2>3 DEF PrepareQuiescedResume, CompleteReopenedRecovery
    <2> QED
      BY <1>0, <1>5, <2>1, <2>3
         DEF GateStep, BeginPause, PauseStep, PauseFails, BeginResume, ResumeStep,
             Quiesced, Reopen, recordVars
  <1>6. CASE LifeStep
    BY <1>0, <1>6 DEF LifeStep, BeginShutdown, CompleteShutdown, Crash, Down, Restart, recordVars
  <1> QED BY <1>1, <1>2, <1>3, <1>4, <1>5, <1>6 DEF Next, Command

\* A record that the process left in its file is requeued, settled as its
\* intent asked, or interrupted.
LEMMA StartRecovers ==
    ASSUME JobsSound, disk = job, Next, life = "down", NEW k \in Jobs
    PROVE  disk' = job' /\ (job'[k] = job[k] \/ Recovery(job[k], job'[k]))
  <1> USE DEF JobsSound
  <1>s. job[k] \in Records /\ Coherent(job[k])
    BY DEF RecordTypes, Sound, RecordsAgree
  <1>1. Restored(k) = job[k] \/ Recovery(job[k], Restored(k))
    <2>1. CASE job[k].desired = "running"
      BY <1>s, <2>1 DEF Restored, Recovery, Records, Coherent, Live
    <2>2. CASE job[k].desired # "running"
      BY <1>s, <2>2 DEF Restored, Recovery, Records, Intents, Coherent, Live
    <2> QED BY <2>1, <2>2
  <1>2. CASE Restart
    <2>1. /\ job' = job \/ job' = [j \in Jobs |-> Restored(j)]
          /\ disk' = job'
      BY <1>2, TransactReaches DEF Restart
    <2> QED BY <1>1, <2>1
  <1>3. ASSUME NEW w \in Writes, Transact(Prepared, w)
        PROVE  disk' = job' /\ (job'[k] = job[k] \/ Recovery(job[k], job'[k]))
    <2>1. (job' = job \/ job' = Prepared) /\ disk' = job'
      BY <1>3, TransactReaches
    <2>2. /\ k \notin Held => Prepared[k] = job[k]
          /\ k \in Held => Prepared[k] = [state |-> "queued", desired |-> "running"]
      BY <1>s DEF Prepared, Held, Records
    <2>3. k \in Held => job[k].state = "paused" \/ job[k] = [state |-> "queued", desired |-> "running"]
      BY <1>s DEF Held, Idle, Records
    <2> QED BY <2>1, <2>2, <2>3 DEF Recovery
  <1>4. CASE UNCHANGED recordVars
    BY <1>4 DEF recordVars
  <1>5. CASE GateStep
    <2>1. CASE RequestQuiesceAttempts
      <3>1. \A i \in Jobs : run[i] = "none"
        OBVIOUS
      <3>2. PICK w \in Writes :
              Transact([j \in Jobs |->
                          IF j \in {i \in Jobs : job[i].state = "running" /\ run[i] # "none"}
                          THEN [state |-> "pausing", desired |-> "running"] ELSE job[j]], w)
        BY <2>1 DEF RequestQuiesceAttempts
      <3> QED BY <3>1, <3>2, TransactReaches
    <2>2. CASE PrepareQuiescedResume \/ CompleteReopenedRecovery
      BY <1>3, <2>2 DEF PrepareQuiescedResume, CompleteReopenedRecovery
    <2> QED
      BY <1>4, <1>5, <2>1, <2>2
         DEF GateStep, BeginPause, PauseStep, PauseFails, BeginResume, ResumeStep,
             Quiesced, Reopen
  <1>6. CASE LifeStep
    BY <1>2, <1>6 DEF LifeStep, BeginShutdown, CompleteShutdown, Crash
  <1>7. ASSUME NEW j \in Jobs,
               Create(j) \/ CallStep(j) \/ Command(j) \/ AttemptStep(j) \/ WorkEnds(j)
        PROVE  FALSE
    BY <1>7 DEF Create, CallStep, Dispatch, DispatchStarts, DispatchRefused, DeferUnstarted,
                FailUnstarted, Pending, Command, Pause, Cancel, ResumePaused, ResumePausing,
                Controls, AttemptStep, Checkpoint, Release, Complete, WorkEnds
  <1> QED BY <1>5, <1>6, <1>7 DEF Next

\* The stamps of one record: those it has are in the order the loader asks
\* for, an admission or a live attempt has a start, an intent that is being
\* delivered has its request, an acknowledgement too unless a resume by hand
\* withdrew it, and exactly an outcome has an
\* end, which is the record's last change.
Stamps == [created : Clock, changed : Clock, started : Optional, admitted : Optional,
           requested : Optional, acknowledged : Optional, finished : Optional]

WellStamped(r, s) ==
    /\ s \in Stamps
    /\ Acceptable(r)
    /\ r.state = "absent" => s = Unstamped
    /\ s.created <= s.changed
    /\ s.started # Unset => s.created <= s.started /\ s.started <= s.changed
    /\ s.admitted # Unset => s.started # Unset /\ s.created <= s.admitted
    /\ s.requested # Unset => s.created <= s.requested /\ s.requested <= s.changed
    /\ s.acknowledged # Unset =>
         /\ s.created <= s.acknowledged
         /\ IF s.requested = Unset THEN r = [state |-> "paused", desired |-> "running"]
                                   ELSE s.requested <= s.acknowledged
    /\ s.finished # Unset => s.finished = s.changed
    /\ r.state \in Ended <=> s.finished # Unset
    /\ r.state \in Live => s.started # Unset
    /\ r.state \in Live \cup {"queued"} => s.acknowledged = Unset
    /\ r.state \in {"pausing", "cancelling"} /\ r.desired # "running" => s.requested # Unset

StampInv ==
    /\ JobInv
    /\ life = "down" => disk = job /\ filed = stamp
    /\ stamp \in [Jobs -> Stamps] /\ filed \in [Jobs -> Stamps]
    /\ \A k \in Jobs : WellStamped(job[k], stamp[k]) /\ WellStamped(disk[k], filed[k])

\* Whatever the wall clock says, a revision never precedes the record's last.
LEMMA OrderedStamp ==
    ASSUME NEW s \in Stamps, NEW now \in Clock
    PROVE  Ordered(s, now) \in Clock /\ s.changed <= Ordered(s, now)
  BY StampsAssumption DEF Ordered, Stamps, Clock

\* The values a stamp may have.
LEMMA StampValues ==
    /\ Optional = Clock \cup {Unset} /\ Unset \notin Clock /\ 0 \in Clock
    /\ \A t \in Clock : t \in Nat
    /\ Unstamped \in Stamps
  <1>1. Optional = Clock \cup {Unset} /\ Unset \notin Clock /\ 0 \in Clock /\ \A t \in Clock : t \in Nat
    BY StampsAssumption DEF Optional, Clock, Unset
  <1> QED BY <1>1 DEF Unstamped, Stamps

\* The stamps of a record that has no live attempt, no outcome and no request.
LEMMA RequeuedFields ==
    ASSUME NEW s \in Stamps, NEW t \in Clock, NEW u, u = Requeued(s, t)
    PROVE  /\ u \in Stamps /\ u.created = s.created /\ u.changed = t
           /\ u.started = Unset /\ u.admitted = Unset /\ u.requested = Unset
           /\ u.acknowledged = Unset /\ u.finished = Unset
  <1>1. /\ Unstamped.started = Unset /\ Unstamped.admitted = Unset /\ Unstamped.requested = Unset
        /\ Unstamped.acknowledged = Unset /\ Unstamped.finished = Unset
    BY DEF Unstamped
  <1> QED BY <1>1, StampValues DEF Requeued, Stamps

LEMMA AdmittedFields ==
    ASSUME NEW t \in Clock, NEW u, u = Admitted(t)
    PROVE  /\ u \in Stamps /\ u.created = t /\ u.changed = t
           /\ u.started = Unset /\ u.admitted = Unset /\ u.requested = Unset
           /\ u.acknowledged = Unset /\ u.finished = Unset
  <1>1. /\ Unstamped.started = Unset /\ Unstamped.admitted = Unset /\ Unstamped.requested = Unset
        /\ Unstamped.acknowledged = Unset /\ Unstamped.finished = Unset
    BY DEF Unstamped
  <1> QED BY <1>1, StampValues DEF Admitted, Stamps

\* A record that is queued, or that a resume withdrew, is well stamped.
LEMMA QueuedWell ==
    ASSUME NEW r \in Records, r = [state |-> "queued", desired |-> "running"],
           NEW u \in Stamps, u.created <= u.changed,
           u.started = Unset, u.admitted = Unset, u.requested = Unset,
           u.acknowledged = Unset, u.finished = Unset
    PROVE  WellStamped(r, u)
  <1>1. Acceptable(r) /\ r.state \notin Ended \cup Live
    BY DEF Acceptable, Ended, Settled, Live
  <1> QED BY <1>1 DEF WellStamped

\* A revision by a running process keeps a record well stamped.
LEMMA RevisedWell ==
    ASSUME NEW old \in Records, NEW new \in Records, Revision(old, new),
           NEW s, WellStamped(old, s), NEW t \in Clock, s.changed <= t,
           NEW u, u = Revised(old, new, s, t)
    PROVE  WellStamped(new, u)
  <1>s. s \in Stamps /\ Acceptable(old)
    BY DEF WellStamped
  <1>v. /\ s.created \in Clock /\ s.changed \in Clock /\ s.created <= t
        /\ s.requested # Unset => s.requested <= t
        /\ s.started # Unset => s.started <= t
        /\ t # Unset
    BY <1>s, StampValues DEF WellStamped, Stamps
  <1>1. CASE old.state = "absent"
    <2>1. new = [state |-> "queued", desired |-> "running"] /\ u = Admitted(t)
      BY <1>1 DEF Revision, Revised, Idle, Live
    <2>2. u.created <= u.changed
      BY <2>1, AdmittedFields, StampValues
    <2> QED BY <2>1, <2>2, AdmittedFields, QueuedWell
  <1>2. CASE old.state # "absent" /\ Resumed(old, new)
    <2>1. /\ old = [state |-> "pausing", desired |-> "paused"]
          /\ new.state \in {"running", "pausing"} /\ new.desired = "running"
      BY <1>s, <1>2 DEF Revision, Resumed, Acceptable, Records, Idle, Live
    <2>2. u = Withdrawn(s, t)
      BY <1>2 DEF Revised
    <2>3. /\ u \in Stamps /\ u.created = s.created /\ u.changed = t /\ u.started = s.started
          /\ u.admitted = s.admitted /\ u.requested = Unset /\ u.acknowledged = Unset
          /\ u.finished = s.finished
      BY <1>s, <2>2, StampValues DEF Withdrawn, Stamps
    <2>4. Acceptable(new) /\ new.state \in Live /\ new.state \notin Ended
      BY <2>1 DEF Acceptable, Live, Ended, Settled
    <2>5. old.state \in Live /\ old.state \notin Ended
      BY <2>1 DEF Live, Ended, Settled
    <2> QED BY <1>v, <2>1, <2>3, <2>4, <2>5 DEF WellStamped
  <1> DEFINE Plain == old.state # "absent" /\ ~Resumed(old, new)
  <1>3. CASE Plain /\ new.state = "queued"
    <2>1. new = [state |-> "queued", desired |-> "running"] /\ u = Requeued(s, t)
      BY <1>3 DEF Revision, Revised, Live, Idle, Ended, Settled
    <2> QED BY <1>s, <1>v, <2>1, RequeuedFields, QueuedWell
  <1>4. CASE Plain /\ new.state = "running"
    <2>1. old.state = "queued" /\ new = [state |-> "running", desired |-> "running"]
      BY <1>4 DEF Revision, Resumed
    <2>2. u = Started(s, t)
      BY <1>4, <2>1 DEF Revised, Live, Idle, Ended, Settled
    <2>3. /\ u \in Stamps /\ u.created = s.created /\ u.changed = t /\ u.started = t
          /\ u.admitted = Unset /\ u.requested = s.requested /\ u.acknowledged = s.acknowledged
          /\ u.finished = s.finished
      BY <1>s, <2>2, StampValues DEF Started, Stamps
    <2>4. Acceptable(new) /\ new.state \in Live /\ new.state \notin Ended /\ old.state \notin Ended
      BY <2>1 DEF Acceptable, Live, Ended, Settled
    <2> QED BY <1>v, <2>1, <2>3, <2>4, StampValues DEF WellStamped, Stamps
  <1>5. CASE Plain /\ new.state \in {"pausing", "cancelling"}
    <2>1. /\ old.state \in Live
          /\ new.state = "pausing" => new.desired \in {"paused", "running"}
          /\ new.state = "cancelling" => new.desired = "cancelled"
      BY <1>5 DEF Revision, Resumed, Live
    <2>2. u = Requested(s, t)
      BY <1>5, <2>1 DEF Revised, Live, Idle, Ended, Settled
    <2>3. /\ u \in Stamps /\ u.created = s.created /\ u.changed = t /\ u.started = s.started
          /\ u.admitted = s.admitted /\ u.requested = t /\ u.acknowledged = s.acknowledged
          /\ u.finished = s.finished
      BY <1>s, <2>2, StampValues DEF Requested, Stamps
    <2>4. Acceptable(new) /\ new.state \in Live /\ new.state \notin Ended /\ old.state \notin Ended
      BY <1>5, <2>1 DEF Acceptable, Live, Ended, Settled
    <2> QED BY <1>v, <1>5, <2>1, <2>3, <2>4, StampValues DEF WellStamped, Stamps
  <1>6. CASE Plain /\ old.state \in Idle /\ new.state = "paused"
    <2>1. new.desired \in {"paused", "running"}
      BY <1>6 DEF Revision, Idle
    <2>2. u = Parked(s, t)
      BY <1>6 DEF Revised, Live, Idle, Ended, Settled
    <2>3. /\ u \in Stamps /\ u.created = s.created /\ u.changed = t /\ u.started = s.started
          /\ u.admitted = s.admitted /\ u.requested = t /\ u.acknowledged = t
          /\ u.finished = s.finished
      BY <1>s, <2>2, StampValues DEF Parked, Requested, Stamps
    <2>4. Acceptable(new) /\ new.state \notin Live \cup Ended /\ old.state \notin Ended
      BY <1>6, <2>1 DEF Acceptable, Live, Idle, Ended, Settled
    <2> QED BY <1>v, <1>6, <2>1, <2>3, <2>4, StampValues DEF WellStamped, Stamps
  <1>7. CASE Plain /\ old.state \in Live /\ new.state = "paused"
    <2>1. /\ old.state = "pausing" /\ new.desired = old.desired
          /\ new.desired \in {"paused", "running"}
      BY <1>s, <1>7 DEF Revision, Acceptable, Idle, Live
    <2>2. u = Acknowledged(s, t)
      BY <1>7 DEF Revised, Live, Idle, Ended, Settled
    <2>3. /\ u \in Stamps /\ u.created = s.created /\ u.changed = t /\ u.started = s.started
          /\ u.admitted = s.admitted /\ u.requested = s.requested /\ u.acknowledged = t
          /\ u.finished = Unset
      BY <1>s, <2>2, StampValues DEF Acknowledged, Stamps
    <2>4. Acceptable(new) /\ new.state \notin Live \cup Ended
      BY <1>7, <2>1 DEF Acceptable, Live, Ended, Settled
    <2>5. s.requested = Unset => new = [state |-> "paused", desired |-> "running"]
      BY <1>7, <2>1 DEF WellStamped, Records
    <2>6. old.state \in Live /\ new.state \notin {"pausing", "cancelling", "queued", "absent"}
      BY <1>7
    <2>7. s.requested # Unset => u.requested <= u.acknowledged
      BY <1>v, <2>3
    <2> QED BY <1>v, <2>3, <2>4, <2>5, <2>6, <2>7, StampValues DEF WellStamped, Stamps
  <1>8. CASE Plain /\ old.state \in Idle /\ new.state = "cancelled"
    <2>2. u = Finished(Parked(s, t), t)
      BY <1>8 DEF Revised, Live, Idle, Ended, Settled
    <2>3. /\ u \in Stamps /\ u.created = s.created /\ u.changed = t /\ u.started = s.started
          /\ u.admitted = s.admitted /\ u.requested = t /\ u.acknowledged = t
          /\ u.finished = t
      BY <1>s, <2>2, StampValues DEF Finished, Parked, Requested, Stamps
    <2>4. Acceptable(new) /\ new.state \notin Live /\ new.state \in Ended
      BY <1>8 DEF Acceptable, Live, Idle, Ended, Settled
    <2> QED BY <1>v, <1>8, <2>3, <2>4, StampValues DEF WellStamped, Stamps
  <1>9. CASE Plain /\ old.state = "cancelling" /\ new.state = "cancelled"
    <2>2. u = Finished(Acknowledged(s, t), t)
      BY <1>9 DEF Revised, Live, Idle, Ended, Settled
    <2>3. /\ u \in Stamps /\ u.created = s.created /\ u.changed = t /\ u.started = s.started
          /\ u.admitted = s.admitted /\ u.requested = s.requested /\ u.acknowledged = t
          /\ u.finished = t
      BY <1>s, <2>2, StampValues DEF Finished, Acknowledged, Stamps
    <2>4. Acceptable(new) /\ new.state \notin Live /\ new.state \in Ended
      BY <1>9 DEF Acceptable, Live, Ended, Settled
    <2>5. s.requested # Unset
      BY <1>s, <1>9 DEF WellStamped, Acceptable
    <2> QED BY <1>v, <1>9, <2>3, <2>4, <2>5, StampValues DEF WellStamped, Stamps
  <1>10. CASE Plain /\ new.state \in Ended \ {"cancelled"}
    <2>1. old.state \in Live \cup {"queued"}
      BY <1>10 DEF Revision, Ended, Settled
    <2>2. u = Finished(s, t)
      BY <1>10 DEF Revised, Live, Idle, Ended, Settled
    <2>3. /\ u \in Stamps /\ u.created = s.created /\ u.changed = t /\ u.started = s.started
          /\ u.admitted = s.admitted /\ u.requested = s.requested /\ u.acknowledged = s.acknowledged
          /\ u.finished = t
      BY <1>s, <2>2, StampValues DEF Finished, Stamps
    <2>4. Acceptable(new) /\ new.state \notin Live \cup {"queued"} /\ new.state \in Ended
          /\ new.state \notin {"absent", "pausing", "cancelling"}
      BY <1>10 DEF Acceptable, Live, Ended, Settled
    <2> QED BY <1>v, <1>10, <2>1, <2>3, <2>4, StampValues DEF WellStamped, Stamps
  <1> QED
    BY <1>1, <1>2, <1>3, <1>4, <1>5, <1>6, <1>7, <1>8, <1>9, <1>10
       DEF Revision, Idle, Live, Ended, Settled

\* A recovery by a start keeps a record well stamped.
LEMMA RecoveredWell ==
    ASSUME NEW old \in Records, NEW new \in Records, Recovery(old, new),
           NEW s, WellStamped(old, s), NEW t \in Clock, s.changed <= t,
           NEW u, u = Recovered(old, new, s, t)
    PROVE  WellStamped(new, u)
  <1>s. s \in Stamps /\ Acceptable(old)
    BY DEF WellStamped
  <1>v. /\ s.created \in Clock /\ s.changed \in Clock /\ s.created <= t
        /\ s.requested # Unset => s.requested <= t
        /\ s.started # Unset => s.started <= t
        /\ t # Unset
    BY <1>s, StampValues DEF WellStamped, Stamps
  <1>n. /\ old.state # "absent"
        /\ new.state \in {"queued", "paused", "cancelled", "interrupted"}
    BY DEF Recovery, Live
  <1>1. CASE new.state = "queued"
    <2>1. new = [state |-> "queued", desired |-> "running"]
      BY <1>1 DEF Recovery
    <2>2. u = Requeued(s, t)
      BY <1>1 DEF Recovered
    <2> QED BY <1>s, <1>v, <2>1, <2>2, RequeuedFields, QueuedWell
  <1>2. CASE new.state = "interrupted"
    <2>1. u = Finished(s, t) /\ old.state \in Live
      BY <1>2 DEF Recovered, Recovery
    <2>2. /\ u \in Stamps /\ u.created = s.created /\ u.changed = t /\ u.started = s.started
          /\ u.admitted = s.admitted /\ u.requested = s.requested /\ u.acknowledged = s.acknowledged
          /\ u.finished = t
      BY <1>s, <2>1, StampValues DEF Finished, Stamps
    <2>3. Acceptable(new) /\ new.state \notin Live /\ new.state \in Ended
      BY <1>2 DEF Acceptable, Live, Ended, Settled
    <2> QED BY <1>v, <1>2, <2>1, <2>2, <2>3, StampValues DEF WellStamped, Stamps
  <1>3. CASE new.state \in {"paused", "cancelled"}
    <2> DEFINE settled == [s EXCEPT !.changed = t, !.finished = Unset,
                             !.acknowledged = IF s.requested = Unset THEN Unset ELSE t]
    <2>1. /\ new.state = "paused" => u = settled /\ new.desired = "paused"
          /\ new.state = "cancelled" => u = Finished(settled, t) /\ new.desired = "cancelled"
      BY <1>3 DEF Recovered, Recovery
    <2>2. /\ settled \in Stamps /\ settled.created = s.created /\ settled.changed = t
          /\ settled.started = s.started /\ settled.admitted = s.admitted
          /\ settled.requested = s.requested /\ settled.finished = Unset
          /\ settled.acknowledged = IF s.requested = Unset THEN Unset ELSE t
      BY <1>s, StampValues DEF Stamps
    <2> HIDE DEF settled
    <2>3. /\ u \in Stamps /\ u.created = s.created /\ u.changed = t /\ u.started = s.started
          /\ u.admitted = s.admitted /\ u.requested = s.requested
          /\ u.acknowledged = IF s.requested = Unset THEN Unset ELSE t
          /\ u.finished = IF new.state = "paused" THEN Unset ELSE t
      BY <1>3, <2>1, <2>2, StampValues DEF Finished, Stamps
    <2>4. /\ Acceptable(new) /\ new.state \notin Live
          /\ new.state \in Ended <=> new.state = "cancelled"
      BY <1>3, <2>1 DEF Acceptable, Live, Ended, Settled
    <2> QED BY <1>v, <1>3, <2>3, <2>4, StampValues DEF WellStamped, Stamps
  <1> QED BY <1>n, <1>1, <1>2, <1>3

\* The loader has nothing to say against a well-stamped record, but for the
\* acknowledgement of a pause that a resume by hand withdrew.
LEMMA WellStampedIsRead ==
    ASSUME NEW r, NEW s, WellStamped(r, s)
    PROVE  \/ Complaints(r, s) = {}
           \/ /\ Complaints(r, s) = {"acknowledgement lacks a request"}
              /\ r = [state |-> "paused", desired |-> "running"]
  <1>s. /\ s \in Stamps /\ s.created \in Nat /\ s.changed \in Nat
        /\ \A t \in {s.started, s.admitted, s.requested, s.acknowledged, s.finished} :
              t # Unset => t \in Nat
    BY StampValues DEF WellStamped, Stamps
  <1>1. \A t \in {s.started, s.finished, s.requested, s.acknowledged, s.admitted} :
            ~Precedes(t, s.created)
    BY <1>s DEF Precedes, WellStamped
  <1>2. /\ ~(s.changed < s.created)
        /\ ~(s.admitted # Unset /\ s.started = Unset)
        /\ ~Precedes(s.acknowledged, s.requested)
        /\ ~Precedes(s.finished, s.started)
        /\ ~Precedes(s.finished, s.changed)
    BY <1>s DEF Precedes, WellStamped
  <1>3. /\ (r.state \in Ended) = (s.finished # Unset)
        /\ Acceptable(r)
        /\ ~(r.state \in Live /\ s.started = Unset)
    BY DEF WellStamped
  <1>4. Complaints(r, s) \subseteq {"acknowledgement lacks a request"}
    BY <1>1, <1>2, <1>3 DEF Complaints
  <1>5. "acknowledgement lacks a request" \in Complaints(r, s)
          => s.acknowledged # Unset /\ s.requested = Unset
    BY DEF Complaints
  <1> QED BY <1>4, <1>5 DEF WellStamped

\* A step of a running process, or of a start, whatever the clock reads, keeps
\* all records well stamped.
LEMMA ControlKeepsStamps ==
    ASSUME StampInv, JobInv', Control
    PROVE  StampInv'
  <1> USE DEF StampInv
  <1> PICK now \in Clock :
        /\ stamp' = [j \in Jobs |-> Stamped(j, now)]
        /\ \/ disk' = disk /\ filed' = filed
           \/ /\ disk' = job' \/ disk' # disk
              /\ filed' = [j \in Jobs |-> Filed(j, now)]
    BY DEF Control
  <1>n. Next /\ (life' = "down" => life = "down")
    BY DEF Control
  <1>r. \A k \in Jobs : job[k] \in Records /\ job'[k] \in Records /\ disk'[k] \in Records
    BY DEF JobInv, JobsSound, RecordTypes
  <1>t. ASSUME NEW k \in Jobs
        PROVE  Ordered(stamp[k], now) \in Clock /\ stamp[k].changed <= Ordered(stamp[k], now)
    BY OrderedStamp
  <1>m. ASSUME NEW k \in Jobs
        PROVE  WellStamped(job'[k], stamp'[k])
    <2>1. stamp'[k] = Stamped(k, now)
      OBVIOUS
    <2>2. CASE job'[k] = job[k]
      BY <2>1, <2>2 DEF Stamped
    <2>3. CASE job'[k] # job[k] /\ life # "down"
      <3>1. Revision(job[k], job'[k])
        BY <1>n, <2>3, RunningRevises DEF JobInv, Revises
      <3>2. stamp'[k] = Revised(job[k], job'[k], stamp[k], Ordered(stamp[k], now))
        BY <2>1, <2>3 DEF Stamped
      <3> QED BY <1>r, <1>t, <3>1, <3>2, RevisedWell
    <2>4. CASE job'[k] # job[k] /\ life = "down"
      <3>1. Recovery(job[k], job'[k])
        BY <1>n, <2>4, StartRecovers DEF JobInv
      <3>2. stamp'[k] = Recovered(job[k], job'[k], stamp[k], Ordered(stamp[k], now))
        BY <2>1, <2>4 DEF Stamped
      <3> QED BY <1>r, <1>t, <3>1, <3>2, RecoveredWell
    <2> QED BY <2>2, <2>3, <2>4
  <1>f. ASSUME NEW k \in Jobs
        PROVE  WellStamped(disk'[k], filed'[k])
    <2>1. CASE disk' = disk /\ filed' = filed
      BY <2>1
    <2>2. CASE disk'[k] = job'[k] /\ filed'[k] = stamp'[k]
      BY <1>m, <2>2
    <2>3. CASE /\ disk'[k] # job'[k] /\ disk' # disk
               /\ filed'[k] = Revised(job[k], disk'[k], stamp[k], Ordered(stamp[k], now))
      <3>1. life # "down"
        BY <1>n, <2>3, StartRecovers DEF JobInv
      <3>2. Revision(job[k], disk'[k])
        BY <1>n, <2>3, <3>1, RunningRevises DEF JobInv, Revises
      <3> QED BY <1>r, <1>t, <2>3, <3>2, RevisedWell
    <2> QED BY <2>1, <2>2, <2>3 DEF Filed
  <1>s. stamp' \in [Jobs -> Stamps] /\ filed' \in [Jobs -> Stamps]
    <2>1. filed' = filed \/ filed' = [j \in Jobs |-> Filed(j, now)]
      OBVIOUS
    <2> QED BY <1>m, <1>f, <2>1 DEF WellStamped
  <1>d. ASSUME life' = "down" PROVE disk' = job' /\ filed' = stamp'
    <2>1. disk' = job'
      <3>1. CASE Jobs = {}
        BY <3>1 DEF JobInv, JobsSound, RecordTypes
      <3>2. ASSUME NEW k \in Jobs PROVE disk' = job'
        BY <1>n, <1>d, StartRecovers DEF JobInv
      <3> QED BY <3>1, <3>2
    <2>2. CASE disk' = disk /\ filed' = filed
      <3>1. job' = job
        BY <1>n, <1>d, <2>1, <2>2
      <3>2. stamp' = stamp
        BY <3>1 DEF Stamped
      <3> QED BY <1>n, <1>d, <2>1, <2>2, <3>2
    <2>3. CASE filed' = [j \in Jobs |-> Filed(j, now)]
      <3>1. \A j \in Jobs : Filed(j, now) = stamp'[j]
        BY <2>1 DEF Filed
      <3> QED BY <1>s, <2>1, <2>3, <3>1
    <2> QED BY <2>2, <2>3
  <1> QED BY <1>m, <1>f, <1>s, <1>d

\* An admission is written down with the start it belongs to.
LEMMA AdmissionKeepsStamps ==
    ASSUME StampInv, NEW j \in Jobs, AcquireAdmission(j)
    PROVE  StampInv'
  <1> USE DEF StampInv
  <1> PICK now \in Clock : stamp' = [stamp EXCEPT ![j].admitted = Ordered(stamp[j], now)]
    BY DEF AcquireAdmission
  <1> DEFINE t == Ordered(stamp[j], now)
  <1>1. t \in Clock /\ stamp[j].changed <= t
    BY OrderedStamp
  <1>2. /\ UNCHANGED <<job, run, exit, token, calls, life, gate, owner>>
        /\ disk' = job /\ filed' = stamp' /\ run[j] = "live"
    BY DEF AcquireAdmission, attemptVars, gateVars
  <1>3. job[j].state \in Live /\ life # "down"
    BY <1>2 DEF JobInv, JobsSound, Sound, AttemptAgrees
  <1>4. JobInv'
    <2>1. RecordTypes' /\ AttemptTypes' /\ ManagerTypes'
      BY <1>2 DEF JobInv, JobsSound, RecordTypes, AttemptTypes, ManagerTypes
    <2>2. ASSUME NEW k \in Jobs PROVE Sound(k)'
      <3>1. Sound(k) /\ (job[k].state \in Live => job[k].state \notin Settled)
        BY DEF JobInv, JobsSound, Live, Settled
      <3> QED BY <1>2, <3>1 DEF Sound, RecordsAgree, AttemptAgrees
    <2> QED BY <1>2, <1>3, <2>1, <2>2 DEF JobInv, JobsSound
  <1> HIDE DEF t
  <1>5. /\ stamp'[j] \in Stamps /\ stamp'[j].admitted = t
        /\ stamp'[j].created = stamp[j].created /\ stamp'[j].changed = stamp[j].changed
        /\ stamp'[j].started = stamp[j].started /\ stamp'[j].requested = stamp[j].requested
        /\ stamp'[j].acknowledged = stamp[j].acknowledged
        /\ stamp'[j].finished = stamp[j].finished
        /\ \A k \in Jobs \ {j} : stamp'[k] = stamp[k]
        /\ stamp' \in [Jobs -> Stamps]
    <2> HIDE DEF StampInv
    <2>1. stamp \in [Jobs -> Stamps]
      BY DEF StampInv
    <2>2. stamp' = [stamp EXCEPT ![j] = [@ EXCEPT !.admitted = t]]
      BY DEF t
    <2>3. /\ stamp'[j] = [stamp[j] EXCEPT !.admitted = t]
          /\ \A k \in Jobs \ {j} : stamp'[k] = stamp[k]
      BY <2>1, <2>2
    <2>4. stamp'[j] \in Stamps
      BY <1>1, <2>1, <2>3, StampValues DEF Stamps
    <2> QED BY <2>1, <2>2, <2>3, <2>4 DEF Stamps
  <1>6. stamp[j].created \in Nat /\ stamp[j].changed \in Nat /\ t \in Nat
    BY <1>1, StampValues DEF Stamps
  <1>7. WellStamped(job[j], stamp'[j])
    <2>1. job[j].state # "absent"
      BY <1>3 DEF Live
    <2> QED BY <1>1, <1>3, <1>5, <1>6, <2>1 DEF WellStamped
  <1>8. ASSUME NEW k \in Jobs
        PROVE  WellStamped(job'[k], stamp'[k]) /\ WellStamped(disk'[k], filed'[k])
    BY <1>2, <1>5, <1>7
  <1> QED BY <1>2, <1>3, <1>4, <1>5, <1>8

\* Every step keeps the records of memory and of the file well stamped.
LEMMA StampInvStays ==
    ASSUME StampInv, [StampedNext]_stampedVars
    PROVE  StampInv'
  <1>0. JobInv
    BY DEF StampInv
  <1>1. CASE Control
    <2>1. JobInv'
      BY <1>0, <1>1, JobsStaySound, ManagerTypesPreserved DEF JobInv, Control
    <2> QED BY <1>1, <2>1, ControlKeepsStamps
  <1>2. CASE ProcessEnds
    <2>1. Next
      BY <1>2 DEF ProcessEnds, Next, LifeStep
    <2>2. JobInv'
      BY <1>0, <2>1, JobsStaySound, ManagerTypesPreserved DEF JobInv
    <2>3. /\ job' = disk' /\ stamp' = filed'
          /\ (disk' = job /\ filed' = stamp) \/ (disk' = disk /\ filed' = filed)
      BY <1>2 DEF ProcessEnds, CompleteShutdown, Crash, Down
    <2> QED BY <2>2, <2>3 DEF StampInv
  <1>3. CASE \E j \in Jobs : AcquireAdmission(j)
    BY <1>3, AdmissionKeepsStamps
  <1>4. CASE UNCHANGED stampedVars
    <2>1. UNCHANGED jobVars /\ stamp' = stamp /\ filed' = filed
      BY <1>4 DEF stampedVars
    <2>2. JobInv'
      BY <1>0, <2>1, JobsStaySound, ManagerTypesPreserved DEF JobInv
    <2> QED BY <2>1, <2>2 DEF StampInv, jobVars, recordVars
  <1> QED BY <1>1, <1>2, <1>3, <1>4 DEF StampedNext

\* Every record has the stamps the loader asks for, whichever writes fail.
THEOREM StampInvariant == StampedSpec => []StampInv
  <1>1. StampedInit => StampInv
    <2> SUFFICES ASSUME StampedInit PROVE StampInv
      OBVIOUS
    <2>1. \A k \in Jobs : WellStamped([state |-> "absent", desired |-> "running"], Unstamped)
      <3>1. Acceptable([state |-> "absent", desired |-> "running"])
        BY DEF Acceptable
      <3>2. /\ Unstamped.created = 0 /\ Unstamped.changed = 0 /\ Unstamped.started = Unset
            /\ Unstamped.admitted = Unset /\ Unstamped.requested = Unset
            /\ Unstamped.acknowledged = Unset /\ Unstamped.finished = Unset
        BY DEF Unstamped
      <3> QED BY <3>1, <3>2, StampValues DEF WellStamped, Ended, Settled, Live
    <2> QED BY <2>1, InitSound, StampValues DEF StampedInit, Init, StampInv
  <1>2. StampInv /\ [StampedNext]_stampedVars => StampInv'
    BY StampInvStays
  <1> QED BY <1>1, <1>2, PTL DEF StampedSpec

\* What the manager writes its own loader reads, whatever controls, service
\* pauses, failed writes, crashes and starts came before and however the clock
\* stepped back (_replace_snapshot_locked against job_persistence), for every
\* number of jobs and every clock.
THEOREM ManagerReadsItsFile == StampedSpec => []OnlyHeldWorkUnreadable
  <1>1. StampInv => OnlyHeldWorkUnreadable
    <2> SUFFICES ASSUME StampInv, NEW j \in Jobs
                 PROVE  \/ Rejected(j) = {}
                        \/ /\ Rejected(j) = {"acknowledgement lacks a request"}
                           /\ disk[j] = [state |-> "paused", desired |-> "running"]
      BY DEF OnlyHeldWorkUnreadable
    <2>1. WellStamped(disk[j], filed[j])
      BY DEF StampInv
    <2>2. \/ Complaints(disk[j], filed[j]) = {}
          \/ /\ Complaints(disk[j], filed[j]) = {"acknowledgement lacks a request"}
             /\ disk[j] = [state |-> "paused", desired |-> "running"]
      BY <2>1, WellStampedIsRead
    <2> QED BY <2>2 DEF Rejected
  <1> QED BY StampInvariant, <1>1, PTL

=============================================================================
