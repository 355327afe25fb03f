------------------------- MODULE WatcherRetryProofs -------------------------
(***************************************************************************)
(* Proofs about the watcher's durable retry authority: what it accepted is  *)
(* owed until an index run covers it, an attempt leaves the policy file     *)
(* only by its own end, and one that was given up never comes back.         *)
(*                                                                          *)
(* All but a few steps are transactions on the policy file, so the layers   *)
(* of the invariant are first proved of what any transaction does, and then *)
(* of what each of them does besides.                                       *)
(***************************************************************************)
EXTENDS WatcherRetry, TLAPS

----------------------------------------------------------------------------
(* The inductive invariant.                                                 *)

Attempt   == [id : Ids, owner : Nat] \cup {NoAttempt}
Marker    == [id : Ids \cup {None}, owner : Nat]
Admission == [by : Policies, id : Ids \cup {None},
              stage : {"idle", "reserved", "active", "admitted", "settle"},
              outcome : Outcomes \cup {"none"}]
Settlement == [by : Policies, id : Ids, outcome : Outcomes]
FileState == [pending : SUBSET Paths, captured : SUBSET Paths, refused : BOOLEAN,
              unscoped : BOOLEAN, attempt : Attempt]
JobState  == [state : Outcomes \cup {"absent", "running"}, by : Policies,
              scope : SUBSET Paths, since : SUBSET Paths]
RebuildState == [phase : {"none", "running", "done"}, fresh : BOOLEAN, quiet : BOOLEAN,
                 first : BOOLEAN, since : SUBSET Paths]

TypeOK ==
    /\ file \in FileState
    /\ markers \in SUBSET Marker
    /\ proc \in Nat /\ up \in BOOLEAN /\ opens \in 0..MaxOpens /\ cur \in Policies
    /\ owned \in [Policies -> Ids \cup {None}]
    /\ \A k \in DOMAIN reserved : k \in Ids /\ reserved[k] \in BOOLEAN
    /\ ids \in 0..MaxAttempts
    /\ intake \in [by : Policies, batch : SUBSET Paths]
    /\ turn \in Admission /\ threads \in SUBSET Admission
    /\ settling \in SUBSET Settlement
    /\ job \in [Ids -> JobState]
    /\ rebuild \in RebuildState
    /\ owed \in SUBSET Paths /\ closed \in SUBSET Ids

\* Admissions that have not captured their paths yet.
Entering(t) == t.stage \in {"reserved", "active"}

\* Every admission under way has an id of its own, for which no job exists.
Admitting ==
    /\ turn.stage \in {"idle", "reserved", "active", "admitted"}
    /\ turn.stage # "idle" => turn.id \in 1..ids /\ job[turn.id].state = "absent"
    /\ \A t \in threads : /\ Entering(t) \/ t.stage = "settle"
                          /\ Entering(t) => /\ t.id \in 1..ids /\ t.id # turn.id
                                            /\ job[t.id].state = "absent"
    /\ \A t, u \in threads : Entering(t) /\ Entering(u) /\ t.id = u.id => t = u
    /\ \A k \in Ids : k > ids => job[k].state = "absent"
    /\ ~up => turn = NoTurn /\ threads = {}

\* The file captured paths for its attempt alone, and the attempt's job takes
\* them all.
Captured ==
    /\ file.attempt.id = None => file.captured = {}
    /\ file.attempt.id # None /\ job[file.attempt.id].state = "running"
           => file.captured \subseteq job[file.attempt.id].scope

\* A settlement is of an attempt, and one of success of a job that succeeded.
OutcomesTrue ==
    /\ \A s \in settling : s.outcome = "succeeded" => job[s.id].state = "succeeded"
    /\ \A t \in threads : t.stage = "settle" =>
           t.id \in Ids /\ (t.outcome = "succeeded" => job[t.id].state = "succeeded")

\* What an attempt's index run misses of what was captured for it: the changes
\* accepted since it started, and once it succeeded whatever is still owed.
Missed(i) == IF i = None THEN {}
             ELSE IF job[i].state = "running" THEN job[i].since
             ELSE IF job[i].state = "succeeded" THEN Paths ELSE {}

\* The paths the file holds for a run to come, and those a full rebuild that
\* started after every refusal has not covered.
Secured(f) == f.pending \cup (f.captured \ Missed(f.attempt.id))
Recent == IF rebuild.phase = "running" THEN rebuild.since ELSE Paths
Current == rebuild.phase # "none" /\ rebuild.fresh

DebtSecured ==
    /\ file.refused \/ markers # {} \/ owed \subseteq Secured(file)
    /\ Current => markers # {} \/ owed \cap Recent \subseteq Secured(file)

\* Every id in use was given out.
Known ==
    /\ file.attempt.id <= ids /\ closed \subseteq 1..ids
    /\ \A i \in Policies : owned[i] <= ids
    /\ \A m \in markers : m.id <= ids

\* An entering admission is nobody else's; as long as its policy owns it and its
\* reservation stands, it was not given up.
Claim(t) ==
    /\ t.id # file.attempt.id
    /\ \A m \in markers : m.id = t.id => m.owner = proc
    /\ \A i \in Policies : owned[i] = t.id => i = t.by
    /\ owned[t.by] = t.id =>
           /\ t.stage = "active" => t.id \in DOMAIN reserved
           /\ t.id \in DOMAIN reserved => /\ t.id \notin closed
                                          /\ reserved[t.id] = (t.stage = "active")

Claims == \A t \in Admissions : Entering(t) => Claim(t)

WatcherInv ==
    /\ TypeOK /\ Admitting /\ OutcomesTrue /\ Captured /\ DebtSecured /\ Known /\ Claims
    /\ FencedStaysFenced

----------------------------------------------------------------------------
(* What any transaction does.                                               *)

\* The constants are numbers.
LEMMA Bounds == /\ MaxAttempts \in Nat /\ MaxOpens \in Nat
                /\ Ids = 1..MaxAttempts /\ Policies = 0..MaxOpens
                /\ 0 \in Policies /\ None = 0 /\ None \notin Ids
  BY WatcherAssumption DEF Ids, Policies, None

\* The ids that a policy's markers fence.
LEMMA FencedIds ==
  ASSUME TypeOK, NEW i \in Policies
  PROVE  /\ Fenced(i) \in SUBSET Ids /\ Spent(i) \subseteq markers
         /\ Spent(i) = {} => Fenced(i) = {}
         /\ \A k \in Fenced(i) : \E m \in markers : m.id = k /\ Consumable(m, i)
  BY DEF TypeOK, Fenced, Spent, Marker

\* The file as its lock's holder sees it: refused if it consumed a marker, and
\* without its attempt if a marker fenced that.
LEMMA RecoveredFacts ==
  ASSUME TypeOK, NEW i \in Policies
  PROVE  /\ RecoveredFile(i) \in FileState
         /\ Spent(i) = {} => RecoveredFile(i) = file
         /\ Spent(i) # {} \/ file.refused => RecoveredFile(i).refused
         /\ \/ /\ RecoveredFile(i).pending = file.pending
               /\ RecoveredFile(i).captured = file.captured
               /\ RecoveredFile(i).attempt = file.attempt
               /\ file.attempt.id \notin Fenced(i)
            \/ /\ RecoveredFile(i).pending = file.pending \cup file.captured
               /\ RecoveredFile(i).captured = {}
               /\ RecoveredFile(i).attempt = NoAttempt
               /\ file.attempt.id \in Fenced(i)
  <1> DEFINE lost == [file EXCEPT !.refused = TRUE, !.unscoped = TRUE]
  <1>1. /\ file \in FileState /\ lost \in FileState
        /\ lost.pending = file.pending /\ lost.captured = file.captured
        /\ lost.attempt = file.attempt /\ lost.refused
    BY DEF TypeOK, FileState
  <1>2. NoAttempt \in Attempt
    BY DEF Attempt
  <1>3. CASE Spent(i) = {}
    BY <1>1, <1>3, FencedIds DEF RecoveredFile
  <1>4. CASE Spent(i) # {} /\ file.attempt.id \notin Fenced(i)
    <2>1. RecoveredFile(i) = lost
      BY <1>4 DEF RecoveredFile
    <2> HIDE DEF lost
    <2> QED BY <1>1, <1>4, <2>1
  <1>5. CASE Spent(i) # {} /\ file.attempt.id \in Fenced(i)
    <2>1. RecoveredFile(i) = Restored(lost)
      BY <1>5 DEF RecoveredFile
    <2> HIDE DEF lost
    <2> QED BY <1>1, <1>2, <1>5, <2>1 DEF Restored, FileState
  <1> QED BY <1>3, <1>4, <1>5

\* A file given its captured paths back.
LEMMA RestoredFacts ==
  ASSUME NEW f \in FileState
  PROVE  /\ Restored(f) \in FileState /\ Restored(f).refused = f.refused
         /\ Restored(f).pending = f.pending \cup f.captured
         /\ Restored(f).captured = {} /\ Restored(f).attempt = NoAttempt
  <1>1. NoAttempt \in Attempt
    BY DEF Attempt
  <1> QED BY <1>1 DEF Restored, FileState

\* A file whose attempt is settled.
LEMMA SettledFacts ==
  ASSUME NEW f \in FileState, NEW o
  PROVE  /\ Settled(f, o) \in FileState
         /\ f.refused => Settled(f, o).refused
         /\ Settled(f, o).captured = {} /\ Settled(f, o).attempt = NoAttempt
         /\ o = "succeeded" => Settled(f, o).pending = f.pending
         /\ o # "succeeded" => Settled(f, o).pending = f.pending \cup f.captured
  <1> DEFINE g == IF o = "succeeded" THEN [f EXCEPT !.captured = {}, !.attempt = NoAttempt]
                                     ELSE Restored(f)
  <1>1. NoAttempt \in Attempt
    BY DEF Attempt
  <1>2. /\ g \in FileState /\ g.refused = f.refused
        /\ g.captured = {} /\ g.attempt = NoAttempt
        /\ o = "succeeded" => g.pending = f.pending
        /\ o # "succeeded" => g.pending = f.pending \cup f.captured
    BY <1>1, RestoredFacts DEF FileState
  <1>3. Settled(f, o) = [g EXCEPT !.refused = @ \/ o = "refused"]
    BY DEF Settled
  <1> HIDE DEF g
  <1> QED BY <1>2, <1>3 DEF FileState

\* What is left of the claims and the reservations.
LEMMA AfterFacts ==
  ASSUME TypeOK, NEW i \in Policies
  PROVE  /\ OwnedAfter(i) \in Ids \cup {None}
         /\ OwnedAfter(i) # None => OwnedAfter(i) = owned[i] /\ owned[i] \notin Fenced(i)
         /\ DOMAIN ReservedAfter(i) \subseteq DOMAIN reserved
         /\ \A k \in DOMAIN ReservedAfter(i) :
               /\ ReservedAfter(i)[k] = reserved[k]
               /\ k \in Fenced(i) => reserved[k] /\ owned[i] # k
         /\ \A k \in DOMAIN reserved :
               k \notin DOMAIN ReservedAfter(i) =>
                   k \in Fenced(i) /\ (~reserved[k] \/ owned[i] = k)
  <1>1. OwnedAfter(i) \in {owned[i], None}
    BY DEF OwnedAfter
  <1> QED BY <1>1 DEF TypeOK, OwnedAfter, ReservedAfter, Restrict

\* The rebuild's clocks only ever lose what they showed.
LEMMA OutdatedFacts ==
  ASSUME NEW r \in RebuildState, NEW refusal \in BOOLEAN, NEW update \in BOOLEAN
  PROVE  LET o == Outdated(r, refusal, update) IN
         /\ o \in RebuildState
         /\ o.phase # "none" /\ o.fresh =>
               /\ r.phase = o.phase /\ r.fresh /\ o.since = r.since /\ ~refusal
         /\ r.phase = "running" => o.phase = "running" /\ o.since = r.since
  BY DEF Outdated, NoRebuild, RebuildState

\* What consuming the markers tells a rebuild.
LEMMA ConsumedFacts ==
  ASSUME TypeOK, NEW i \in Policies
  PROVE  /\ Consumed(i) \in RebuildState
         /\ Consumed(i).phase # "none" /\ Consumed(i).fresh =>
               /\ rebuild.phase = Consumed(i).phase /\ rebuild.fresh
               /\ Consumed(i).since = rebuild.since /\ Spent(i) = {}
         /\ rebuild.phase = "running" =>
               Consumed(i).phase = "running" /\ Consumed(i).since = rebuild.since
  BY OutdatedFacts DEF Consumed, TypeOK

----------------------------------------------------------------------------
(* Types.                                                                   *)

FileTyped ==
    /\ file \in FileState /\ markers \in SUBSET Marker
    /\ owned \in [Policies -> Ids \cup {None}]
    /\ \A k \in DOMAIN reserved : k \in Ids /\ reserved[k] \in BOOLEAN

\* A transaction writes a file, and reservations that it was given.
LEMMA TransactionTyped ==
  ASSUME TypeOK, NEW i \in Policies, NEW f \in FileState, NEW o \in Ids \cup {None}, NEW r,
         \A k \in DOMAIN r : k \in Ids /\ r[k] \in BOOLEAN,
         Transaction(i, f, o, r)
  PROVE  FileTyped'
  BY DEF Transaction, TypeOK, FileTyped

\* One that only consumes markers.
LEMMA ConsumptionTyped ==
  ASSUME TypeOK, NEW i \in Policies
  PROVE  \A k \in DOMAIN ReservedAfter(i) : k \in Ids /\ ReservedAfter(i)[k] \in BOOLEAN
  BY AfterFacts DEF TypeOK

\* What is left without an id, ...
LEMMA DroppedFacts ==
  ASSUME NEW r, NEW k
  PROVE  /\ DOMAIN Dropped(k, r) = DOMAIN r \ {k}
         /\ \A j \in DOMAIN r \ {k} : Dropped(k, r)[j] = r[j]
  BY DEF Dropped, Restrict

\* ... which is still typed.
LEMMA DroppedTyped ==
  ASSUME TypeOK, NEW i \in Policies, NEW k
  PROVE  \A j \in DOMAIN Dropped(k, ReservedAfter(i)) :
             j \in Ids /\ Dropped(k, ReservedAfter(i))[j] \in BOOLEAN
  <1> DEFINE r == ReservedAfter(i)
  <1>1. \A j \in DOMAIN r : j \in Ids /\ r[j] \in BOOLEAN
    BY ConsumptionTyped
  <1> HIDE DEF r
  <1>2. \A j \in DOMAIN Dropped(k, r) : j \in DOMAIN r /\ Dropped(k, r)[j] = r[j]
    BY DroppedFacts
  <1> QED BY <1>1, <1>2 DEF r

\* A marker's write, or none.
LEMMA MarkerTyped ==
  ASSUME TypeOK, NEW i \in Policies, WriteRecoveryMarker(i) \/ UNCHANGED <<markers, reserved>>
  PROVE  markers' \in SUBSET Marker /\ \A k \in DOMAIN reserved' : k \in Ids /\ reserved'[k] \in BOOLEAN
  BY DEF TypeOK, WriteRecoveryMarker, Marker, Restrict

\* A full rebuild that is reconciled.
LEMMA ReconcileTyped ==
  ASSUME TypeOK, NEW i \in Policies, NEW resolve \in BOOLEAN, ReconcileRebuild(i, resolve)
  PROVE  FileTyped' /\ rebuild' \in RebuildState /\ closed' \in SUBSET Ids
  <1> DEFINE f == RecoveredFile(i)
             rebuilt == [f EXCEPT !.refused = FALSE, !.unscoped = FALSE]
             d == Dropped(f.attempt.id, ReservedAfter(i))
  <1>1. f \in FileState /\ Fenced(i) \in SUBSET Ids
    BY RecoveredFacts, FencedIds
  <1>2. rebuilt \in FileState
    BY <1>1 DEF FileState
  <1>3. Restored(rebuilt) \in FileState
    BY <1>2, RestoredFacts
  <1>4. None \in Ids \cup {None} /\ OwnedAfter(i) \in Ids \cup {None}
    BY AfterFacts
  <1>5. \A k \in DOMAIN d : k \in Ids /\ d[k] \in BOOLEAN
    BY DroppedTyped
  <1>6. FileTyped'
    <2>1. CASE Releases(f, resolve)
      <3>1. Transaction(i, Restored(rebuilt), None, d)
        BY <2>1 DEF ReconcileRebuild
      <3> HIDE DEF f, rebuilt, d
      <3> QED BY <1>3, <1>4, <1>5, <3>1, TransactionTyped
    <2>2. CASE ~Releases(f, resolve)
      <3>1. Transaction(i, rebuilt, OwnedAfter(i), ReservedAfter(i))
        BY <2>2 DEF ReconcileRebuild
      <3> HIDE DEF f, rebuilt, d
      <3> QED BY <1>2, <1>4, <3>1, TransactionTyped, ConsumptionTyped
    <2> QED BY <2>1, <2>2
  <1>7. Releases(f, resolve) => f.attempt.id \in Ids
    BY <1>1 DEF Releases, FileState, Attempt
  <1>8. rebuild' \in RebuildState
    BY ConsumedFacts DEF ReconcileRebuild
  <1> QED BY <1>1, <1>6, <1>7, <1>8 DEF ReconcileRebuild, TypeOK

\* An admission under way, and the thread that goes on with it.
LEMMA EnteringTyped ==
  ASSUME TypeOK, Admitting, NEW t \in Admissions, Entering(t)
  PROVE  t \in Admission /\ t.id \in Ids /\ t.id <= ids /\ t.by \in Policies
  BY Bounds DEF TypeOK, Admitting, Admissions, Entering, Admission

\* The thread goes on as an admission.
LEMMA ThreadTyped ==
  ASSUME TypeOK, NEW t, NEW u \in Admission, ThreadGoesOn(t, u)
  PROVE  turn' \in Admission /\ threads' \in SUBSET Admission
  BY DEF TypeOK, ThreadGoesOn

\* The turn of nobody.
LEMMA NoTurnTyped == NoTurn \in Admission
  BY Bounds DEF NoTurn, Admission

\* What is accepted.
LEMMA AcceptedTyped ==
  ASSUME TypeOK, NEW batch \in SUBSET Paths, Accepted(batch)
  PROVE  /\ owed' \in SUBSET Paths /\ job' \in [Ids -> JobState]
         /\ \A i \in Ids : /\ job'[i].state = job[i].state /\ job'[i].scope = job[i].scope
                           /\ job'[i].since = IF job[i].state = "running"
                                              THEN job[i].since \cup batch ELSE job[i].since
  <1>1. ASSUME NEW i \in Ids
        PROVE  /\ job'[i] \in JobState
               /\ job'[i].state = job[i].state /\ job'[i].scope = job[i].scope
               /\ job'[i].since = IF job[i].state = "running"
                                  THEN job[i].since \cup batch ELSE job[i].since
    <2>1. job[i] \in JobState
      BY DEF TypeOK
    <2>2. job'[i] = [job[i] EXCEPT !.since = IF job[i].state = "running"
                                              THEN @ \cup batch ELSE @]
      BY DEF Accepted
    <2> QED BY <2>1, <2>2 DEF JobState
  <1>2. job' \in [Ids -> JobState]
    BY <1>1 DEF Accepted
  <1> QED BY <1>1, <1>2 DEF Accepted, TypeOK

\* The settlement of an attempt.
LEMMA SettleTyped ==
  ASSUME TypeOK, NEW s, s.by \in Policies, s.id \in Ids, NEW aged \in BOOLEAN, Settle(s, aged)
  PROVE  FileTyped' /\ rebuild' \in RebuildState /\ closed' \in SUBSET Ids
  <1> DEFINE f == RecoveredFile(s.by)
             g == IF ActiveAttempt(f, s) THEN Settled(f, s.outcome) ELSE f
             o == IF ActiveAttempt(f, s) THEN None ELSE OwnedAfter(s.by)
             r == IF ActiveAttempt(f, s) THEN Dropped(s.id, ReservedAfter(s.by))
                                         ELSE ReservedAfter(s.by)
  <1>1. f \in FileState /\ Fenced(s.by) \in SUBSET Ids
    BY RecoveredFacts, FencedIds
  <1>2. g \in FileState
    BY <1>1, SettledFacts
  <1>3. o \in Ids \cup {None}
    BY AfterFacts
  <1>4. \A k \in DOMAIN r : k \in Ids /\ r[k] \in BOOLEAN
    BY ConsumptionTyped, DroppedTyped
  <1>5. Transaction(s.by, g, o, r)
    BY DEF Settle
  <1> HIDE DEF g, o, r
  <1>6. FileTyped'
    BY <1>2, <1>3, <1>4, <1>5, TransactionTyped
  <1>7. rebuild' \in RebuildState
    <2>1. Consumed(s.by) \in RebuildState
      BY ConsumedFacts
    <2> DEFINE a == ActiveAttempt(f, s) /\ ~aged /\ ~f.refused /\ s.outcome \in {"failed", "refused"}
               b == ActiveAttempt(f, s) /\ ~aged
    <2>2. rebuild' = Outdated(Consumed(s.by), a, b)
      BY DEF Settle
    <2>3. a \in BOOLEAN /\ b \in BOOLEAN
      OBVIOUS
    <2> HIDE DEF a, b
    <2> QED BY <2>1, <2>2, <2>3, OutdatedFacts
  <1>8. closed' \in SUBSET Ids
    BY <1>1 DEF Settle, TypeOK
  <1> QED BY <1>6, <1>7, <1>8

\* Every admission's policy and id are of their types.
LEMMA TypeNext ==
  ASSUME TypeOK, Admitting, OutcomesTrue, WatcherNext
  PROVE  TypeOK'
  <1>1. ASSUME Refresh
        PROVE  TypeOK'
    <2>1. cur \in Policies /\ Fenced(cur) \in SUBSET Ids
      BY FencedIds DEF TypeOK
    <2>2. FileTyped'
      BY <1>1, <2>1, RecoveredFacts, AfterFacts, ConsumptionTyped, TransactionTyped DEF Refresh
    <2>3. rebuild' \in RebuildState /\ closed' \in SUBSET Ids
      BY <1>1, <2>1, ConsumedFacts DEF Refresh, TypeOK
    <2> QED BY <1>1, <2>2, <2>3 DEF Refresh, TypeOK, FileTyped
  <1>2. ASSUME NEW p \in Paths, Observe(p)
        PROVE  TypeOK'
    BY <1>2 DEF Observe, TypeOK
  <1>3. ASSUME MarkScopePending
        PROVE  TypeOK'
    <2> DEFINE f == RecoveredFile(intake.by)
               merged == f.pending \cup intake.batch
               fits == Cardinality(merged) + Cardinality(f.captured) <= MaxScope
               g == IF fits THEN [f EXCEPT !.pending = merged] ELSE [f EXCEPT !.refused = TRUE]
    <2>1. /\ intake.by \in Policies /\ Fenced(intake.by) \in SUBSET Ids
          /\ f \in FileState /\ intake.batch \in SUBSET Paths
      BY FencedIds, RecoveredFacts DEF TypeOK
    <2>2. g \in FileState
      BY <2>1 DEF FileState
    <2>3. Transaction(intake.by, g, OwnedAfter(intake.by), ReservedAfter(intake.by))
      BY <1>3 DEF MarkScopePending
    <2> HIDE DEF g
    <2>4. FileTyped'
      BY <2>1, <2>2, <2>3, AfterFacts, ConsumptionTyped, TransactionTyped
    <2>5. rebuild' \in RebuildState
      <3>1. Outdated(Consumed(intake.by), ~fits, TRUE) \in RebuildState
        BY <2>1, ConsumedFacts, OutdatedFacts
      <3>2. rebuild' = [Outdated(Consumed(intake.by), ~fits, TRUE) EXCEPT
                           !.since = IF rebuild.phase = "running" THEN @ \cup intake.batch ELSE @]
        BY <1>3 DEF MarkScopePending
      <3> HIDE DEF fits
      <3> QED BY <2>1, <3>1, <3>2 DEF RebuildState
    <2>6. owed' \in SUBSET Paths /\ job' \in [Ids -> JobState]
      BY <1>3, <2>1, AcceptedTyped DEF MarkScopePending
    <2>7. closed' \in SUBSET Ids /\ intake' = NoIntake
      BY <1>3, <2>1 DEF MarkScopePending, TypeOK
    <2>8. NoIntake \in [by : Policies, batch : SUBSET Paths]
      BY Bounds DEF NoIntake
    <2> QED BY <1>3, <2>4, <2>5, <2>6, <2>7, <2>8 DEF MarkScopePending, TypeOK, FileTyped
  <1>4. ASSUME CancelIntake
        PROVE  TypeOK'
    <2>1. intake.by \in Policies /\ intake.batch \in SUBSET Paths
      BY DEF TypeOK
    <2>2. NoIntake \in [by : Policies, batch : SUBSET Paths]
      BY Bounds DEF NoIntake
    <2>3. /\ markers' \in SUBSET Marker
          /\ \A k \in DOMAIN reserved' : k \in Ids /\ reserved'[k] \in BOOLEAN
      BY <1>4, <2>1, MarkerTyped DEF CancelIntake
    <2>4. owed' \in SUBSET Paths /\ job' \in [Ids -> JobState]
      BY <1>4, <2>1, AcceptedTyped DEF CancelIntake, TypeOK
    <2>5. rebuild' \in RebuildState
      BY <1>4, <2>1 DEF CancelIntake, TypeOK, RebuildState
    <2> QED BY <1>4, <2>2, <2>3, <2>4, <2>5 DEF CancelIntake, TypeOK
  <1>5. ASSUME ReserveAdmission
        PROVE  TypeOK'
    <2>1. ids + 1 \in Ids /\ ids + 1 \in 0..MaxAttempts
      BY <1>5, Bounds DEF ReserveAdmission, TypeOK
    <2>2. \A k \in DOMAIN reserved' : k \in Ids /\ reserved'[k] \in BOOLEAN
      BY <1>5, <2>1 DEF ReserveAdmission, TypeOK
    <2>3. turn' \in Admission
      <3>1. turn' = [NoTurn EXCEPT !.by = cur, !.id = ids + 1, !.stage = "reserved"]
        BY <1>5 DEF ReserveAdmission
      <3>2. cur \in Policies
        BY DEF TypeOK
      <3> QED BY <2>1, <3>1, <3>2 DEF NoTurn, Admission
    <2> QED BY <1>5, <2>1, <2>2, <2>3 DEF ReserveAdmission, TypeOK
  <1>6. ASSUME NEW t \in Admissions, ActivateAdmission(t)
        PROVE  TypeOK'
    <2>1. t \in Admission /\ t.id \in Ids /\ t.by \in Policies
      BY <1>6, EnteringTyped DEF ActivateAdmission, Entering
    <2>2. turn' \in Admission /\ threads' \in SUBSET Admission
      <3>1. [t EXCEPT !.stage = "active"] \in Admission
        BY <2>1 DEF Admission
      <3> QED BY <1>6, <3>1, NoTurnTyped, ThreadTyped DEF ActivateAdmission
    <2>3. \A k \in DOMAIN reserved' : k \in Ids /\ reserved'[k] \in BOOLEAN
      BY <1>6 DEF ActivateAdmission, TypeOK
    <2>4. owned' \in [Policies -> Ids \cup {None}]
      BY <1>6, <2>1 DEF ActivateAdmission, TypeOK
    <2> QED BY <1>6, <2>2, <2>3, <2>4 DEF ActivateAdmission, TypeOK
  <1>7. ASSUME NEW t \in Admissions, AdmissionUnavailable(t)
        PROVE  TypeOK'
    <2>1. t \in Admission /\ t.id \in Ids /\ t.by \in Policies
      BY <1>7, EnteringTyped DEF AdmissionUnavailable, Entering
    <2>2. turn' \in Admission /\ threads' \in SUBSET Admission
      <3>1. [t EXCEPT !.stage = "reserved"] \in Admission
        BY <2>1 DEF Admission
      <3> QED BY <1>7, <3>1, ThreadTyped DEF AdmissionUnavailable
    <2>3. \A k \in DOMAIN reserved' : k \in Ids /\ reserved'[k] \in BOOLEAN
      BY <1>7 DEF AdmissionUnavailable, TypeOK
    <2>4. owned' \in [Policies -> Ids \cup {None}]
      BY <1>7, <2>1 DEF AdmissionUnavailable, TypeOK
    <2> QED BY <1>7, <2>2, <2>3, <2>4 DEF AdmissionUnavailable, TypeOK
  <1>8. ASSUME NEW t \in Admissions, NEW delayed \in BOOLEAN, AdmitReserved(t, delayed)
        PROVE  TypeOK'
    <2> DEFINE f == RecoveredFile(t.by)
               mine == OwnedAfter(t.by) = t.id
               admits == mine /\ Admissible(f) /\ ~delayed
               g == IF admits THEN [f EXCEPT !.pending = {}, !.captured = f.pending,
                                             !.attempt = [id |-> t.id, owner |-> proc]]
                              ELSE f
               o == IF admits \/ ~mine THEN OwnedAfter(t.by) ELSE None
               u == IF admits THEN [t EXCEPT !.stage = "admitted"] ELSE NoTurn
    <2>1. t \in Admission /\ t.id \in Ids /\ t.by \in Policies
      BY <1>8, EnteringTyped DEF AdmitReserved, Entering
    <2>2. f \in FileState /\ Fenced(t.by) \in SUBSET Ids
      BY <2>1, RecoveredFacts, FencedIds
    <2>3. g \in FileState
      <3>1. [id |-> t.id, owner |-> proc] \in Attempt
        BY <2>1 DEF Attempt, TypeOK
      <3> QED BY <2>2, <3>1 DEF FileState
    <2>4. o \in Ids \cup {None} /\ u \in Admission
      BY <2>1, AfterFacts, NoTurnTyped DEF Admission
    <2>5. /\ Transaction(t.by, g, o, Dropped(t.id, ReservedAfter(t.by)))
          /\ rebuild' = [Outdated(Consumed(t.by), FALSE, admits) EXCEPT !.first = @ /\ ~admits]
          /\ closed' = closed \cup Fenced(t.by) /\ ThreadGoesOn(t, u)
      BY <1>8 DEF AdmitReserved
    <2>6. admits \in BOOLEAN
      OBVIOUS
    <2> HIDE DEF f, admits, g, o, u
    <2>7. FileTyped'
      BY <2>1, <2>3, <2>4, <2>5, DroppedTyped, TransactionTyped
    <2>8. rebuild' \in RebuildState
      <3>1. Outdated(Consumed(t.by), FALSE, admits) \in RebuildState
        BY <2>1, <2>6, ConsumedFacts, OutdatedFacts
      <3> QED BY <2>5, <2>6, <3>1 DEF RebuildState
    <2>9. turn' \in Admission /\ threads' \in SUBSET Admission
      BY <2>4, <2>5, ThreadTyped
    <2> QED BY <1>8, <2>2, <2>5, <2>7, <2>8, <2>9 DEF AdmitReserved, TypeOK, FileTyped
  <1>9. ASSUME CancelAdmission
        PROVE  TypeOK'
    <2>1. turn.by \in Policies /\ threads' \in SUBSET Admission /\ turn' \in Admission
      BY <1>9, NoTurnTyped DEF CancelAdmission, TypeOK, Admission
    <2>2. /\ markers' \in SUBSET Marker
          /\ \A k \in DOMAIN reserved' : k \in Ids /\ reserved'[k] \in BOOLEAN
      BY <1>9, <2>1, MarkerTyped DEF CancelAdmission
    <2> QED BY <1>9, <2>1, <2>2 DEF CancelAdmission, TypeOK
  <1>10. ASSUME CreateJob
         PROVE  TypeOK'
    <2>1. turn \in Admission /\ turn.id \in Ids
      BY <1>10, Bounds DEF CreateJob, Admitting, TypeOK
    <2>2. settling' \in SUBSET Settlement
      BY <1>10, <2>1 DEF CreateJob, TypeOK, Settlement, Admission, Outcomes
    <2>3. job' \in [Ids -> JobState]
      <3>1. [state |-> "running", by |-> turn.by, scope |-> file.captured, since |-> {}] \in JobState
        BY <2>1 DEF JobState, Admission, TypeOK, FileState
      <3> QED BY <1>10, <2>1, <3>1 DEF CreateJob, TypeOK
    <2> QED BY <1>10, <2>2, <2>3, NoTurnTyped DEF CreateJob, TypeOK
  <1>11. ASSUME NEW i \in Ids, NEW o \in Outcomes, JobEnds(i, o)
         PROVE  TypeOK'
    <2>1. job[i] \in JobState
      BY DEF TypeOK
    <2>2. job' \in [Ids -> JobState]
      <3>1. [NoJob EXCEPT !.state = o, !.by = job[i].by] \in JobState
        BY <2>1 DEF NoJob, JobState
      <3> QED BY <1>11, <3>1 DEF JobEnds, TypeOK
    <2>3. settling' \in SUBSET Settlement
      BY <1>11, <2>1 DEF JobEnds, TypeOK, Settlement, JobState
    <2>4. owed' \in SUBSET Paths
      BY <1>11 DEF JobEnds, Covers, TypeOK
    <2> QED BY <1>11, <2>2, <2>3, <2>4 DEF JobEnds, TypeOK
  <1>12. ASSUME NEW s \in settling, NEW aged \in BOOLEAN, SettlementEnds(s, aged)
         PROVE  TypeOK'
    <2>1. s.by \in Policies /\ s.id \in Ids
      BY DEF TypeOK, Settlement
    <2>2. FileTyped' /\ rebuild' \in RebuildState /\ closed' \in SUBSET Ids
      BY <1>12, <2>1, SettleTyped DEF SettlementEnds
    <2> QED BY <1>12, <2>2, Bounds DEF SettlementEnds, Settle, TypeOK, FileTyped
  <1>13. ASSUME NEW s \in threads, NEW aged \in BOOLEAN, ThreadSettles(s, aged)
         PROVE  TypeOK'
    <2>1. s.by \in Policies /\ s.id \in Ids
      BY <1>13 DEF TypeOK, Admission, ThreadSettles, OutcomesTrue
    <2>2. FileTyped' /\ rebuild' \in RebuildState /\ closed' \in SUBSET Ids
      BY <1>13, <2>1, SettleTyped DEF ThreadSettles
    <2> QED BY <1>13, <2>2 DEF ThreadSettles, Settle, TypeOK, FileTyped
  <1>14. ASSUME NEW s \in settling, CancelSettlement(s)
         PROVE  TypeOK'
    <2>1. s \in Settlement
      BY DEF TypeOK
    <2>2. /\ markers' \in SUBSET Marker
          /\ \A k \in DOMAIN reserved' : k \in Ids /\ reserved'[k] \in BOOLEAN
      BY <1>14, <2>1, MarkerTyped DEF CancelSettlement, Settlement
    <2>3. threads' \in SUBSET Admission
      BY <1>14, <2>1 DEF CancelSettlement, TypeOK, Settlement, Admission
    <2> QED BY <1>14, <2>2, <2>3 DEF CancelSettlement, TypeOK
  <1>15. ASSUME RebuildStarts \/ RebuildEnds
         PROVE  TypeOK'
    <2>1. rebuild' \in RebuildState
      <3>1. CASE RebuildStarts
        BY <3>1 DEF RebuildStarts, RebuildState
      <3>2. CASE RebuildEnds
        BY <3>2 DEF RebuildEnds, TypeOK, RebuildState, NoRebuild
      <3> QED BY <1>15, <3>1, <3>2
    <2> QED BY <1>15, <2>1 DEF RebuildStarts, RebuildEnds, Covers, TypeOK
  <1>16. ASSUME ReconcileCompletedRebuild
         PROVE  TypeOK'
    <2>1. FileTyped' /\ rebuild' \in RebuildState /\ closed' \in SUBSET Ids
      BY <1>16, FALSE \in BOOLEAN, Bounds, ReconcileTyped DEF ReconcileCompletedRebuild
    <2> QED BY <1>16, <2>1 DEF ReconcileCompletedRebuild, TypeOK, FileTyped
  <1>17. ASSUME Open
         PROVE  TypeOK'
    <2> DEFINE i == opens + 1
               f == RecoveredFile(i)
               abandoned == f.attempt # NoAttempt /\ f.attempt.owner # proc
               r == [k \in DOMAIN ReservedAfter(i) \cup {f.attempt.id} |->
                        k = f.attempt.id \/ ReservedAfter(i)[k]]
    <2>1. i \in Policies /\ i \in 0..MaxOpens
      BY <1>17, Bounds DEF Open, TypeOK
    <2>2. f \in FileState /\ Fenced(i) \in SUBSET Ids
      BY <2>1, RecoveredFacts, FencedIds
    <2>3. abandoned => f.attempt.id \in Ids
      BY <2>2 DEF FileState, Attempt
    <2>4. abandoned => \A k \in DOMAIN r : k \in Ids /\ r[k] \in BOOLEAN
      BY <2>1, <2>3, ConsumptionTyped
    <2>5. /\ \/ Transaction(i, f, None, ReservedAfter(i))
             \/ abandoned /\ Transaction(i, f, f.attempt.id, r)
          /\ \/ opens' = i /\ cur' = i /\ phase' = "opening"
             \/ UNCHANGED <<opens, cur, phase>>
          /\ rebuild' = Consumed(i) /\ closed' = closed \cup Fenced(i)
      BY <1>17 DEF Open
    <2> HIDE DEF i, f, r, abandoned
    <2>6. FileTyped'
      BY <2>1, <2>2, <2>3, <2>4, <2>5, ConsumptionTyped, TransactionTyped
    <2>7. rebuild' \in RebuildState /\ closed' \in SUBSET Ids
      BY <2>1, <2>2, <2>5, ConsumedFacts DEF TypeOK
    <2> QED BY <1>17, <2>1, <2>5, <2>6, <2>7 DEF Open, TypeOK, FileTyped
  <1>18. ASSUME NEW known \in BOOLEAN, ReconcileRestartedSlot(known)
         PROVE  TypeOK'
    <2>1. FileTyped' /\ rebuild' \in RebuildState /\ closed' \in SUBSET Ids
      BY <1>18, ReconcileTyped DEF ReconcileRestartedSlot, Recovers, TypeOK, FileTyped
    <2>2. settling' \in SUBSET Settlement
      <3>1. file.attempt.id \in Ids \cup {None}
        BY DEF TypeOK, FileState, Attempt, NoAttempt
      <3>2. file.attempt.id # None => job[file.attempt.id] \in JobState
        BY <3>1 DEF TypeOK
      <3>3. cur \in Policies /\ settling \in SUBSET Settlement
        BY DEF TypeOK
      <3>4. ASSUME NEW o \in Outcomes, Recovers(o), file.attempt.id \in Ids
            PROVE  settling' \in SUBSET Settlement
        BY <3>3, <3>4 DEF Recovers, Settlement
      <3>5. ASSUME file.attempt.id # None, job[file.attempt.id].state \notin {"absent", "running"}
            PROVE  job[file.attempt.id].state \in Outcomes
        BY <3>2, <3>5 DEF JobState
      <3>6. "refused" \in Outcomes
        BY DEF Outcomes
      <3> QED BY <1>18, <3>1, <3>3, <3>4, <3>5, <3>6 DEF ReconcileRestartedSlot
    <2> QED BY <1>18, <2>1, <2>2 DEF ReconcileRestartedSlot, TypeOK, FileTyped
  <1>19. ASSUME StartWatching \/ StopWatching
         PROVE  TypeOK'
    BY <1>19, Bounds DEF StartWatching, StopWatching, TypeOK
  <1>20. ASSUME Crash
         PROVE  TypeOK'
    <2>1. file' \in FileState /\ closed' \in SUBSET Ids
      BY <1>20, RecoveredFacts, FencedIds DEF Crash, TypeOK
    <2>2. rebuild' \in RebuildState
      BY <1>20, ConsumedFacts DEF Crash, TypeOK, RebuildState, NoRebuild
    <2>3. owned' \in [Policies -> Ids \cup {None}] /\ DOMAIN reserved' = {}
      BY <1>20 DEF Crash
    <2>4. NoIntake \in [by : Policies, batch : SUBSET Paths] /\ 0 \in Policies
      BY Bounds DEF NoIntake
    <2> QED BY <1>20, <2>1, <2>2, <2>3, <2>4, NoTurnTyped DEF Crash, TypeOK
  <1>21. ASSUME NEW back \in SUBSET {i \in Ids : job[i].state = "interrupted"}, Restart(back)
         PROVE  TypeOK'
    <2>1. [state |-> "running", by |-> 0, scope |-> Paths, since |-> {}] \in JobState
      BY Bounds DEF JobState
    <2>2. job' \in [Ids -> JobState] /\ proc' \in Nat
      BY <1>21, <2>1 DEF Restart, TypeOK
    <2> QED BY <1>21, <2>2 DEF Restart, TypeOK
  <1> QED BY <1>1, <1>2, <1>3, <1>4, <1>5, <1>6, <1>7, <1>8, <1>9, <1>10, <1>11, <1>12, <1>13,
             <1>14, <1>15, <1>16, <1>17, <1>18, <1>19, <1>20, <1>21 DEF WatcherNext

----------------------------------------------------------------------------
(* Admissions and their ids.                                                *)

\* Two admissions under way have different ids.
LEMMA DistinctIds ==
  ASSUME Admitting, NEW t \in Admissions, NEW u \in Admissions,
         Entering(t), Entering(u), t.id = u.id
  PROVE  t = u
  BY DEF Admitting, Admissions, Entering

\* An admission goes on under its id, or ends.
LEMMA AdmissionGoesOn ==
  ASSUME TypeOK, Admitting, up, NEW t \in Admissions, Entering(t), NEW u,
         u = NoTurn \/ (u.id = t.id /\ u.stage \in {"reserved", "active", "admitted"}),
         ThreadGoesOn(t, u), UNCHANGED <<ids, job, up>>
  PROVE  /\ Admitting'
         /\ \A w \in threads' : w.stage = "settle" => w \in threads
         /\ \A w \in Admissions' : Entering(w) => w = u \/ (w \in Admissions /\ w.id # t.id)
  <1>1. t.id \in 1..ids /\ job[t.id].state = "absent"
    BY DEF Admitting, Admissions, Entering
  <1>2. NoTurn.stage = "idle" /\ NoTurn.id = None
    BY DEF NoTurn
  <1>3. CASE t = turn /\ turn' = u /\ UNCHANGED threads
    <2>1. \A w \in threads : Entering(w) => w.id \in 1..ids /\ w.id # t.id
      BY <1>3 DEF Admitting
    <2>2. Admitting'
      BY <1>1, <1>2, <1>3, <2>1, Bounds DEF Admitting, Entering
    <2>3. \A w \in Admissions' : w = u \/ w \in threads
      BY <1>3 DEF Admissions
    <2> QED BY <1>3, <2>1, <2>2, <2>3 DEF Admissions
  <1>4. CASE /\ t \in threads /\ UNCHANGED turn
             /\ threads' = (threads \ {t}) \cup (IF u.stage = "active" THEN {u} ELSE {})
    <2>1. \A w \in threads : Entering(w) /\ w # t => w.id # t.id
      BY <1>4 DEF Admitting
    <2>2. t.id # turn.id
      BY <1>4 DEF Admitting
    <2>3. \A w \in threads' : \/ w \in threads /\ w # t
                              \/ w = u /\ u.stage = "active" /\ u.id = t.id
      BY <1>2, <1>4
    <2>4. Admitting'
      <3>1. \A w \in threads' : /\ Entering(w) \/ w.stage = "settle"
                                /\ Entering(w) => /\ w.id \in 1..ids /\ w.id # turn.id
                                                  /\ job[w.id].state = "absent"
        BY <1>1, <2>2, <2>3 DEF Admitting, Entering
      <3>2. \A v, w \in threads' : Entering(v) /\ Entering(w) /\ v.id = w.id => v = w
        BY <2>1, <2>3 DEF Admitting
      <3> QED BY <1>4, <3>1, <3>2 DEF Admitting, Entering
    <2>5. \A w \in Admissions' : Entering(w) => w = u \/ (w \in Admissions /\ w.id # t.id)
      BY <1>4, <2>1, <2>2, <2>3 DEF Admissions
    <2>6. \A w \in threads' : w.stage = "settle" => w \in threads
      BY <2>3
    <2> QED BY <2>4, <2>5, <2>6
  <1> QED BY <1>3, <1>4 DEF ThreadGoesOn

\* No admission goes on, and no job begins or ends.
LEMMA AdmittingStays ==
  ASSUME TypeOK, Admitting, UNCHANGED <<turn, ids, up>>,
         threads' \subseteq threads \cup {s \in threads' : s.stage = "settle"},
         up \/ threads' = {},
         \A i \in Ids : job'[i].state = job[i].state
  PROVE  Admitting' /\ \A w \in Admissions' : Entering(w) => w \in Admissions
  <1>1. \A w \in threads' : w.stage = "settle" \/ w \in threads
    OBVIOUS
  <1>2. \A w \in threads' : Entering(w) => w \in threads
    BY <1>1 DEF Entering
  <1>3. \A w \in Admissions' : Entering(w) => w \in Admissions
    BY <1>2 DEF Admissions
  <1>4. \A i \in 1..ids : job'[i].state = job[i].state
    BY Bounds DEF TypeOK
  <1> QED BY <1>1, <1>2, <1>3, <1>4 DEF Admitting, Entering

\* Admissions stay apart, whatever happens.
LEMMA AdmittingNext ==
  ASSUME TypeOK, Admitting, WatcherNext
  PROVE  Admitting'
  <1>1. ASSUME NEW batch, Accepted(batch)
        PROVE  \A i \in Ids : job'[i].state = job[i].state
    <2>1. \A i \in Ids : job[i] \in JobState
      BY DEF TypeOK
    <2> QED BY <1>1, <2>1 DEF Accepted, JobState
  <1>2. CASE Refresh \/ RebuildStarts \/ RebuildEnds \/ ReconcileCompletedRebuild \/ Open
             \/ StartWatching \/ StopWatching
    <2>1. UNCHANGED <<turn, threads, ids, up, job>> /\ up
      BY <1>2 DEF Refresh, RebuildStarts, RebuildEnds, ReconcileCompletedRebuild, Open,
         StartWatching, StopWatching
    <2> QED BY <2>1, AdmittingStays
  <1>3. CASE MarkScopePending \/ CancelIntake
    <2>1. UNCHANGED <<turn, threads, ids, up>> /\ up
      BY <1>3 DEF MarkScopePending, CancelIntake, Stopping
    <2>2. \A i \in Ids : job'[i].state = job[i].state
      BY <1>1, <1>3 DEF MarkScopePending, CancelIntake
    <2> QED BY <2>1, <2>2, AdmittingStays
  <1>4. ASSUME \/ \E p \in Paths : Observe(p)
               \/ \E known \in BOOLEAN : ReconcileRestartedSlot(known)
               \/ \E s \in settling, aged \in BOOLEAN : SettlementEnds(s, aged)
        PROVE  Admitting'
    <2>1. UNCHANGED <<turn, threads, ids, up, job>> /\ up
      BY <1>4 DEF Observe, ReconcileRestartedSlot, SettlementEnds, Settle
    <2> QED BY <2>1, AdmittingStays
  <1>5. ASSUME \/ \E s \in threads, aged \in BOOLEAN : ThreadSettles(s, aged)
               \/ \E s \in settling : CancelSettlement(s)
        PROVE  Admitting'
    <2>1. /\ UNCHANGED <<turn, ids, up, job>> /\ up
          /\ threads' \subseteq threads \cup {s \in threads' : s.stage = "settle"}
      BY <1>5 DEF ThreadSettles, Settle, CancelSettlement, Stopping
    <2> QED BY <2>1, AdmittingStays
  <1>6. CASE ReserveAdmission
    <2>1. /\ turn' = [NoTurn EXCEPT !.by = cur, !.id = ids + 1, !.stage = "reserved"]
          /\ ids' = ids + 1 /\ UNCHANGED <<threads, job, up>> /\ up /\ ids + 1 \in Ids
      BY <1>6, Bounds DEF ReserveAdmission, TypeOK
    <2>2. turn'.id = ids + 1 /\ turn'.stage = "reserved" /\ ids \in Nat
      BY <2>1 DEF NoTurn, TypeOK
    <2>3. job[ids + 1].state = "absent" /\ \A k \in Ids : k > ids + 1 => job[k].state = "absent"
      BY <2>1, <2>2, Bounds DEF Admitting
    <2>4. \A t \in threads : Entering(t) => t.id \in 1..(ids + 1) /\ t.id # ids + 1
      BY <2>2 DEF Admitting
    <2>5. \A t \in threads : /\ Entering(t) \/ t.stage = "settle"
                             /\ Entering(t) => job[t.id].state = "absent"
      BY DEF Admitting
    <2>6. turn'.id \in 1..ids'
      BY <2>1, <2>2
    <2> QED BY <2>1, <2>2, <2>3, <2>4, <2>5, <2>6 DEF Admitting, Entering
  <1>7. ASSUME NEW t \in Admissions, ActivateAdmission(t) \/ AdmissionUnavailable(t)
        PROVE  Admitting'
    <2>1. Entering(t) /\ up /\ UNCHANGED <<ids, job, up>> /\ t \in Admission
      BY <1>7 DEF ActivateAdmission, AdmissionUnavailable, Entering, Admissions, TypeOK
    <2>2. \/ ThreadGoesOn(t, NoTurn)
          \/ ThreadGoesOn(t, [t EXCEPT !.stage = "active"])
          \/ ThreadGoesOn(t, [t EXCEPT !.stage = "reserved"])
      BY <1>7 DEF ActivateAdmission, AdmissionUnavailable
    <2>3. /\ [t EXCEPT !.stage = "active"].id = t.id /\ [t EXCEPT !.stage = "active"].stage = "active"
          /\ [t EXCEPT !.stage = "reserved"].id = t.id
          /\ [t EXCEPT !.stage = "reserved"].stage = "reserved"
      BY <2>1 DEF Admission
    <2> QED BY <2>1, <2>2, <2>3, AdmissionGoesOn
  <1>8. ASSUME NEW t \in Admissions, NEW delayed \in BOOLEAN, AdmitReserved(t, delayed)
        PROVE  Admitting'
    <2>1. Entering(t) /\ up /\ UNCHANGED <<ids, job, up>> /\ t \in Admission
      BY <1>8 DEF AdmitReserved, Entering, Admissions, TypeOK
    <2>2. ThreadGoesOn(t, NoTurn) \/ ThreadGoesOn(t, [t EXCEPT !.stage = "admitted"])
      BY <1>8 DEF AdmitReserved
    <2>3. /\ [t EXCEPT !.stage = "admitted"].id = t.id
          /\ [t EXCEPT !.stage = "admitted"].stage = "admitted"
      BY <2>1 DEF Admission
    <2> QED BY <2>1, <2>2, <2>3, AdmissionGoesOn
  <1>9. CASE CancelAdmission
    <2>1. /\ threads' = threads \cup {turn} /\ turn' = NoTurn /\ Entering(turn) /\ up
          /\ UNCHANGED <<ids, job, up>>
      BY <1>9 DEF CancelAdmission, Stopping, Entering
    <2>2. NoTurn.stage = "idle" /\ NoTurn.id = None
      BY DEF NoTurn
    <2>3. turn.id \in 1..ids /\ job[turn.id].state = "absent"
      BY <2>1 DEF Admitting, Entering
    <2>4. \A t \in threads : Entering(t) => t.id \in 1..ids /\ t.id # turn.id
      BY DEF Admitting
    <2> QED BY <2>1, <2>2, <2>3, <2>4, Bounds DEF Admitting, Entering
  <1>10. CASE CreateJob
    <2>1. /\ turn' = NoTurn /\ UNCHANGED <<threads, ids, up>> /\ up /\ turn.stage = "admitted"
          /\ \A i \in Ids \ {turn.id} : job'[i] = job[i]
      BY <1>10 DEF CreateJob, TypeOK
    <2>2. NoTurn.stage = "idle"
      BY DEF NoTurn
    <2>3. turn.id \in 1..ids /\ ids \in Nat
      BY <2>1, Bounds DEF Admitting, TypeOK
    <2>4. \A t \in threads : Entering(t) => t.id \in Ids /\ t.id # turn.id /\ t.id # NoTurn.id
      BY Bounds DEF Admitting, NoTurn, TypeOK
    <2> QED BY <2>1, <2>2, <2>3, <2>4 DEF Admitting, Entering
  <1>11. ASSUME NEW i \in Ids, NEW o \in Outcomes, JobEnds(i, o)
         PROVE  Admitting'
    <2>1. /\ UNCHANGED <<turn, threads, ids, up>> /\ up /\ job[i].state = "running"
          /\ \A j \in Ids \ {i} : job'[j] = job[j]
      BY <1>11 DEF JobEnds, TypeOK
    <2>2. \A j \in Ids : job[j].state = "absent" => job'[j] = job[j]
      BY <2>1
    <2>3. 1..ids \subseteq Ids
      BY Bounds DEF TypeOK
    <2> QED BY <2>1, <2>2, <2>3 DEF Admitting, Entering
  <1>12. CASE Crash
    <2>1. NoTurn.stage = "idle"
      BY DEF NoTurn
    <2> QED BY <1>12, <2>1 DEF Crash, Admitting
  <1>13. ASSUME NEW back \in SUBSET {i \in Ids : job[i].state = "interrupted"}, Restart(back)
         PROVE  Admitting'
    <2>1. /\ UNCHANGED <<turn, threads, ids>> /\ turn = NoTurn /\ threads = {} /\ up'
          /\ \A i \in Ids : job[i].state = "absent" => job'[i] = job[i]
      BY <1>13 DEF Restart, Admitting
    <2>2. NoTurn.stage = "idle"
      BY DEF NoTurn
    <2> QED BY <2>1, <2>2 DEF Admitting
  <1> QED BY <1>2, <1>3, <1>4, <1>5, <1>6, <1>7, <1>8, <1>9, <1>10, <1>11, <1>12, <1>13
         DEF WatcherNext

----------------------------------------------------------------------------
(* Outcomes.                                                                *)

\* A job that succeeded stays so, and another's end says nothing new.
LEMMA OutcomesNext ==
  ASSUME TypeOK, Admitting, OutcomesTrue, WatcherNext
  PROVE  OutcomesTrue'
  <1> DEFINE Done(i) == job[i].state = "succeeded"
             Old(s) == s \in settling \/ (s \in threads /\ s.stage = "settle")
             Right(s) == s.id \in Ids /\ (s.outcome = "succeeded" => job'[s.id].state = "succeeded")
  <1>1. SUFFICES /\ \A s \in settling' : Right(s)
                 /\ \A t \in threads' : t.stage = "settle" => Right(t)
    BY DEF OutcomesTrue
  <1>2. \A s : Old(s) => s.id \in Ids /\ (s.outcome = "succeeded" => Done(s.id))
    BY DEF OutcomesTrue, TypeOK, Settlement
  <1>3. \A i \in Ids : Done(i) => job'[i].state = "succeeded"
    <2>1. ASSUME NEW batch, Accepted(batch), NEW i \in Ids
          PROVE  job'[i].state = job[i].state
      <3>1. job[i] \in JobState
        BY DEF TypeOK
      <3> QED BY <2>1, <3>1 DEF Accepted, JobState
    <2>2. CASE UNCHANGED job
      BY <2>2
    <2>3. CASE CreateJob
      <3>1. turn.stage = "admitted" /\ \A i \in Ids \ {turn.id} : job'[i] = job[i]
        BY <2>3 DEF CreateJob, TypeOK
      <3>2. job[turn.id].state # "succeeded"
        BY <3>1 DEF Admitting
      <3> QED BY <3>1, <3>2
    <2>4. ASSUME NEW i \in Ids, NEW o \in Outcomes, JobEnds(i, o)
          PROVE  \A j \in Ids : Done(j) => job'[j].state = "succeeded"
      <3>1. job[i].state = "running" /\ \A j \in Ids \ {i} : job'[j] = job[j]
        BY <2>4 DEF JobEnds, TypeOK
      <3> QED BY <3>1
    <2>5. ASSUME NEW back \in SUBSET {i \in Ids : job[i].state = "interrupted"}, Restart(back)
          PROVE  \A j \in Ids : Done(j) => job'[j].state = "succeeded"
      BY <2>5 DEF Restart
    <2>6. CASE MarkScopePending \/ CancelIntake
      BY <2>1, <2>2, <2>6 DEF MarkScopePending, CancelIntake
    <2> QED BY <2>2, <2>3, <2>4, <2>5, <2>6 DEF WatcherNext, Refresh, Observe, ReserveAdmission,
           ActivateAdmission, AdmissionUnavailable, AdmitReserved, CancelAdmission, SettlementEnds,
           ThreadSettles, Settle, CancelSettlement, RebuildStarts, RebuildEnds,
           ReconcileCompletedRebuild, Open, ReconcileRestartedSlot, StartWatching, StopWatching, Crash
  <1>4. \A s : Old(s) => Right(s)
    BY <1>2, <1>3
  <1> HIDE DEF Right, Done
  <1>5. CASE settling' \subseteq settling /\ \A t \in threads' : t.stage = "settle" => t \in threads
    BY <1>4, <1>5
  <1>6. ASSUME NEW t \in Admissions,
               \/ ActivateAdmission(t) \/ AdmissionUnavailable(t)
               \/ \E delayed \in BOOLEAN : AdmitReserved(t, delayed)
        PROVE  settling' \subseteq settling /\ \A w \in threads' : w.stage = "settle" => w \in threads
    <2>1. t \in Admission /\ UNCHANGED settling
      BY <1>6 DEF TypeOK, Admissions, ActivateAdmission, AdmissionUnavailable, AdmitReserved
    <2>2. PICK u \in {NoTurn, [t EXCEPT !.stage = "active"], [t EXCEPT !.stage = "reserved"],
                      [t EXCEPT !.stage = "admitted"]} : ThreadGoesOn(t, u)
      BY <1>6 DEF ActivateAdmission, AdmissionUnavailable, AdmitReserved
    <2>3. u.stage # "settle"
      BY <2>1, <2>2 DEF NoTurn, Admission
    <2> QED BY <2>1, <2>2, <2>3 DEF ThreadGoesOn
  <1>7. CASE CreateJob
    <2>1. \A s \in settling' : s \in settling \/ (s.id = turn.id /\ s.outcome # "succeeded")
      BY <1>7 DEF CreateJob
    <2>2. turn.id \in Ids
      BY <1>7, Bounds DEF CreateJob, Admitting, TypeOK
    <2> QED BY <1>4, <1>7, <2>1, <2>2 DEF CreateJob, Right
  <1>8. ASSUME NEW i \in Ids, NEW o \in Outcomes, JobEnds(i, o)
        PROVE  /\ \A s \in settling' : Right(s)
               /\ \A t \in threads' : t.stage = "settle" => Right(t)
    <2>1. \A s \in settling' : s \in settling \/ (s.id = i /\ s.outcome = o)
      BY <1>8 DEF JobEnds
    <2>2. job'[i].state = o
      BY <1>8 DEF JobEnds, TypeOK, NoJob
    <2> QED BY <1>4, <1>8, <2>1, <2>2 DEF JobEnds, Right
  <1>9. ASSUME NEW s \in settling, CancelSettlement(s)
        PROVE  /\ \A t \in settling' : Right(t)
               /\ \A t \in threads' : t.stage = "settle" => Right(t)
    <2>1. settling' \subseteq settling
          /\ \A t \in threads' : t \in threads \/ (t.id = s.id /\ t.outcome = s.outcome)
      BY <1>9 DEF CancelSettlement
    <2> QED BY <1>4, <2>1 DEF Right
  <1>10. CASE CancelAdmission
    <2>1. settling' = settling /\ threads' = threads \cup {turn} /\ turn.stage # "settle"
      BY <1>10 DEF CancelAdmission
    <2> QED BY <1>5, <2>1
  <1>11. ASSUME NEW known \in BOOLEAN, ReconcileRestartedSlot(known)
         PROVE  /\ \A s \in settling' : Right(s)
                /\ \A t \in threads' : t.stage = "settle" => Right(t)
    <2> DEFINE i == file.attempt.id
    <2>1. i \in Ids \cup {None}
      BY DEF TypeOK, FileState, Attempt, NoAttempt
    <2>2. \A s \in settling' : \/ s \in settling
                               \/ i # None /\ s.id = i /\ s.outcome \in {job[i].state, "refused"}
      <3>1. \/ UNCHANGED settling
            \/ i # None /\ (Recovers(job[i].state) \/ Recovers("refused"))
        BY <1>11 DEF ReconcileRestartedSlot
      <3>2. ASSUME NEW o, Recovers(o)
            PROVE  \A s \in settling' : s \in settling \/ (s.id = i /\ s.outcome = o)
        BY <3>2 DEF Recovers
      <3> QED BY <3>1, <3>2
    <2>3. UNCHANGED <<job, threads>>
      BY <1>11 DEF ReconcileRestartedSlot
    <2> QED BY <1>4, <2>1, <2>2, <2>3 DEF Right
  <1>12. CASE \/ Refresh \/ MarkScopePending \/ CancelIntake \/ ReserveAdmission \/ RebuildStarts
              \/ RebuildEnds \/ ReconcileCompletedRebuild \/ Open \/ StartWatching \/ StopWatching
              \/ Crash
    BY <1>5, <1>12 DEF Refresh, MarkScopePending, CancelIntake, ReserveAdmission, RebuildStarts,
       RebuildEnds, ReconcileCompletedRebuild, Open, StartWatching, StopWatching, Crash
  <1>13. CASE \/ \E p \in Paths : Observe(p)
              \/ \E s \in settling, aged \in BOOLEAN : SettlementEnds(s, aged)
              \/ \E s \in threads, aged \in BOOLEAN : ThreadSettles(s, aged)
              \/ \E back \in SUBSET {i \in Ids : job[i].state = "interrupted"} : Restart(back)
    BY <1>5, <1>13 DEF Observe, SettlementEnds, ThreadSettles, Restart
  <1> QED BY <1>5, <1>6, <1>7, <1>8, <1>9, <1>10, <1>11, <1>12, <1>13 DEF WatcherNext

----------------------------------------------------------------------------
(* What the file captured, and the debt it stands for.                      *)

\* The file goes on with what it captured for the same attempt, or with nothing.
SameOrLess ==
    \/ file'.attempt.id = None /\ file'.captured = {}
    \/ file'.attempt.id = file.attempt.id /\ file'.captured \subseteq file.captured

\* Running jobs were running, on the same scope.
ScopesKept ==
    \A i \in Ids : job'[i].state = "running" =>
        job[i].state = "running" /\ job'[i].scope = job[i].scope

\* A step that changes neither the attempt's captured paths nor its job's scope.
LEMMA CapturedStays ==
  ASSUME TypeOK, Captured, SameOrLess, ScopesKept
  PROVE  Captured'
  <1>1. file.attempt.id \in Ids \cup {None}
    BY DEF TypeOK, FileState, Attempt, NoAttempt
  <1> QED BY <1>1 DEF Captured, SameOrLess, ScopesKept

\* A step that leaves the jobs alone misses what was missed.
LEMMA SecuredThen ==
  ASSUME UNCHANGED job
  PROVE  Secured(file)' = Secured(file')
  BY DEF Secured, Missed

\* Consuming markers loses no path, nor does giving captured paths back.
LEMMA RecoveredSecured ==
  ASSUME TypeOK, NEW i \in Policies
  PROVE  Secured(file) \subseteq Secured(RecoveredFile(i))
  BY RecoveredFacts DEF Secured

\* A file given its captured paths back secures no less.
LEMMA RestoredSecured ==
  ASSUME NEW f \in FileState
  PROVE  Secured(f) \subseteq Secured(Restored(f))
  BY RestoredFacts DEF Secured

\* The debt of a step that accepts new paths, or none.
LEMMA DebtCarried ==
  ASSUME DebtSecured, NEW new,
         owed' \subseteq owed \cup new,
         owed' \cap owed \cap Secured(file) \subseteq Secured(file)' \cup new,
         file.refused \/ markers # {} => file'.refused \/ markers' # {},
         file'.refused \/ markers' # {} \/ new \subseteq Secured(file)',
         Current' => /\ Current
                     /\ markers # {} => markers' # {}
                     /\ owed' \cap Recent' \subseteq Recent \cup new
                     /\ markers' # {} \/ new \subseteq Secured(file)'
  PROVE  DebtSecured'
  <1>1. file'.refused \/ markers' # {} \/ owed' \subseteq Secured(file)'
    BY DEF DebtSecured
  <1>2. Current' => markers' # {} \/ owed' \cap Recent' \subseteq Secured(file)'
    BY DEF DebtSecured
  <1> QED BY <1>1, <1>2 DEF DebtSecured

\* A step that concerns neither the file nor the debt.
LEMMA DebtStays ==
  ASSUME DebtSecured, UNCHANGED <<file, job, rebuild, owed>>, markers \subseteq markers'
  PROVE  DebtSecured'
  <1>1. Secured(file)' = Secured(file)
    BY SecuredThen
  <1>2. Recent' = Recent /\ Current' = Current
    BY DEF Recent, Current
  <1> QED BY <1>1, <1>2 DEF DebtSecured

\* A transaction that accepts nothing and forgets nothing.
LEMMA TransactionDebt ==
  ASSUME TypeOK, DebtSecured, NEW i \in Policies, UNCHANGED <<job, owed>>,
         markers' = markers \ Spent(i),
         owed \cap Secured(RecoveredFile(i)) \subseteq Secured(file'),
         RecoveredFile(i).refused => file'.refused,
         Current' => /\ Consumed(i).phase # "none" /\ Consumed(i).fresh
                     /\ rebuild'.phase = Consumed(i).phase /\ rebuild'.since = Consumed(i).since
  PROVE  DebtSecured'
  <1>1. Secured(file)' = Secured(file')
    BY SecuredThen
  <1>2. owed' \cap owed \cap Secured(file) \subseteq Secured(file)'
    BY <1>1, RecoveredSecured
  <1>3. file.refused \/ Spent(i) # {} => file'.refused
    BY RecoveredFacts
  <1>4. Current' => Current /\ Spent(i) = {} /\ Recent' = Recent
    BY ConsumedFacts DEF Current, Recent
  <1> QED BY <1>2, <1>3, <1>4, DebtCarried

\* Accepting a batch makes running jobs miss it.
LEMMA AcceptedMisses ==
  ASSUME TypeOK, NEW batch \in SUBSET Paths, Accepted(batch), NEW i \in Ids \cup {None}
  PROVE  Missed(i)' \subseteq Missed(i) \cup batch
  <1>1. CASE i = None
    BY <1>1 DEF Missed
  <1>2. CASE i \in Ids
    BY <1>2, AcceptedTyped DEF Missed
  <1> QED BY <1>1, <1>2

\* A full rebuild that is reconciled covers what is owed, but for what the file
\* holds: it clears a refusal that stood for nothing more.
LEMMA ReconcileDebt ==
  ASSUME TypeOK, Captured, DebtSecured, NEW i \in Policies, NEW resolve \in BOOLEAN,
         ReconcileRebuild(i, resolve), UNCHANGED <<job, owed>>
  PROVE  DebtSecured' /\ SameOrLess
  <1> DEFINE f == RecoveredFile(i)
             rebuilt == [f EXCEPT !.refused = FALSE, !.unscoped = FALSE]
  <1>1. /\ Consumed(i).phase = "done" /\ Consumed(i).fresh
        /\ rebuild' = Consumed(i)
    BY DEF ReconcileRebuild, Eligible
  <1>2. /\ rebuild.phase = "done" /\ rebuild.fresh /\ Spent(i) = {}
        /\ rebuild'.phase = "done"
    BY <1>1, ConsumedFacts
  <1>3. f = file /\ file \in FileState
    BY <1>2, RecoveredFacts DEF TypeOK
  <1>4. /\ file' = rebuilt \/ file' = Restored(rebuilt)
        /\ markers' = markers
    BY <1>2, FencedIds DEF ReconcileRebuild, Transaction
  <1>5. /\ rebuilt \in FileState /\ rebuilt.pending = file.pending
        /\ rebuilt.captured = file.captured /\ rebuilt.attempt = file.attempt
    BY <1>3 DEF FileState
  <1> HIDE DEF rebuilt, f
  <1>6. Secured(file) \subseteq Secured(file)'
    <2>1. Secured(rebuilt) = Secured(file)
      BY <1>5 DEF Secured
    <2> QED BY <1>4, <1>5, <2>1, RestoredSecured, SecuredThen
  <1>7. owed \subseteq Secured(file) \/ markers # {}
    BY <1>2 DEF DebtSecured, Current, Recent, TypeOK
  <1>8. SameOrLess
    <2>1. file' = Restored(rebuilt) => file'.attempt.id = None /\ file'.captured = {}
      BY <1>5, RestoredFacts DEF NoAttempt
    <2> QED BY <1>4, <1>5, <2>1 DEF SameOrLess
  <1> QED BY <1>4, <1>6, <1>7, <1>8 DEF DebtSecured

\* A settlement drops what its attempt captured only if a job that succeeded
\* has covered it, but for what was accepted since.
LEMMA SettleDebt ==
  ASSUME TypeOK, DebtSecured, NEW s, s.by \in Policies, s.id \in Ids, NEW aged \in BOOLEAN,
         s.outcome = "succeeded" => job[s.id].state = "succeeded", Settle(s, aged)
  PROVE  DebtSecured' /\ SameOrLess
  <1> DEFINE f == RecoveredFile(s.by)
             a == ActiveAttempt(f, s) /\ ~aged /\ ~f.refused /\ s.outcome \in {"failed", "refused"}
             b == ActiveAttempt(f, s) /\ ~aged
  <1>1. f \in FileState
    BY RecoveredFacts
  <1>2. /\ markers' = markers \ Spent(s.by) /\ UNCHANGED <<job, owed>>
        /\ \/ file' = f
           \/ file' = Settled(f, s.outcome) /\ f.attempt.id = s.id
    BY DEF Settle, Transaction, ActiveAttempt
  <1>3. f.refused => file'.refused
    BY <1>1, <1>2, SettledFacts
  <1>4. Secured(f) \subseteq Secured(file')
    <2>1. CASE file' = f
      BY <2>1
    <2>2. CASE file' = Settled(f, s.outcome) /\ f.attempt.id = s.id
      <3>1. CASE s.outcome # "succeeded"
        BY <1>1, <2>2, <3>1, SettledFacts DEF Secured
      <3>2. CASE s.outcome = "succeeded"
        <4>1. Missed(s.id) = Paths
          BY <3>2, Bounds DEF Missed
        <4>2. f.captured \subseteq Paths
          BY <1>1 DEF FileState
        <4> QED BY <1>1, <2>2, <3>2, <4>1, <4>2, SettledFacts DEF Secured
      <3> QED BY <3>1, <3>2
    <2> QED BY <1>2, <2>1, <2>2
  <1>5. Current' => /\ Consumed(s.by).phase # "none" /\ Consumed(s.by).fresh
                    /\ rebuild'.phase = Consumed(s.by).phase
                    /\ rebuild'.since = Consumed(s.by).since
    <2>1. Consumed(s.by) \in RebuildState
      BY ConsumedFacts
    <2>2. rebuild' = Outdated(Consumed(s.by), a, b)
      BY DEF Settle
    <2>3. a \in BOOLEAN /\ b \in BOOLEAN
      OBVIOUS
    <2> HIDE DEF a, b
    <2> QED BY <2>1, <2>2, <2>3, OutdatedFacts DEF Current
  <1>6. SameOrLess
    <2>1. Settled(f, s.outcome).captured = {} /\ Settled(f, s.outcome).attempt.id = None
      BY <1>1, SettledFacts DEF NoAttempt
    <2> QED BY <1>2, <2>1, RecoveredFacts DEF SameOrLess, NoAttempt
  <1>7. DebtSecured'
    <2> HIDE DEF f
    <2> QED BY <1>2, <1>3, <1>4, <1>5, TransactionDebt DEF f
  <1> QED BY <1>6, <1>7

\* Observations that were persisted, or for which a marker stands.
LEMMA IntakeDebt ==
  ASSUME TypeOK, Captured, DebtSecured, MarkScopePending \/ CancelIntake
  PROVE  DebtSecured' /\ Captured'
  <1> DEFINE batch == intake.batch
  <1>1. /\ batch \in SUBSET Paths /\ intake.by \in Policies
        /\ file.attempt.id \in Ids \cup {None}
    BY DEF TypeOK, FileState, Attempt, NoAttempt
  <1>2. Accepted(batch) => ScopesKept /\ owed' = owed \cup batch
    BY <1>1, AcceptedTyped DEF Accepted, ScopesKept
  <1>3. PICK k \in Ids \cup {None} : k = file.attempt.id
    BY <1>1
  <1>4. CASE CancelIntake /\ UNCHANGED <<markers, reserved, job, owed, rebuild>>
    <2>1. UNCHANGED file
      BY <1>4 DEF CancelIntake
    <2>2. SameOrLess /\ ScopesKept
      BY <1>4, <2>1 DEF SameOrLess, ScopesKept
    <2> QED BY <1>4, <2>1, <2>2, DebtStays, CapturedStays
  <1>5. CASE CancelIntake /\ WriteRecoveryMarker(intake.by) /\ Accepted(batch)
    <2>1. UNCHANGED file /\ markers' # {}
      BY <1>5 DEF CancelIntake, WriteRecoveryMarker
    <2>2. Captured'
      BY <1>2, <1>5, <2>1, CapturedStays DEF SameOrLess
    <2> QED BY <2>1, <2>2 DEF DebtSecured
  <1>6. CASE MarkScopePending
    <2> DEFINE i == intake.by
               f == RecoveredFile(i)
               merged == f.pending \cup batch
               fits == Cardinality(merged) + Cardinality(f.captured) <= MaxScope
               out == Outdated(Consumed(i), ~fits, TRUE)
    <2>1. /\ Accepted(batch) /\ markers' = markers \ Spent(i)
          /\ fits => file' = [f EXCEPT !.pending = merged]
          /\ ~fits => file' = [f EXCEPT !.refused = TRUE]
          /\ rebuild' = [out EXCEPT !.since = IF rebuild.phase = "running" THEN @ \cup batch ELSE @]
      BY <1>6 DEF MarkScopePending, Transaction
    <2>2. f \in FileState
      BY <1>1, RecoveredFacts
    <2>3. /\ file'.attempt = f.attempt /\ file'.captured = f.captured
          /\ f.pending \subseteq file'.pending
          /\ f.refused => file'.refused
          /\ fits => batch \subseteq file'.pending
          /\ ~fits => file'.refused
      BY <2>1, <2>2 DEF FileState
    <2>4. Consumed(i) \in RebuildState /\ fits \in BOOLEAN
      BY <1>1, ConsumedFacts
    <2>5. /\ out \in RebuildState
          /\ out.phase # "none" /\ out.fresh =>
                /\ Consumed(i).phase = out.phase /\ Consumed(i).fresh
                /\ out.since = Consumed(i).since /\ fits
      BY <2>4, OutdatedFacts
    <2> HIDE DEF f, out, fits, merged
    <2>6. /\ rebuild'.phase = out.phase /\ rebuild'.fresh = out.fresh
          /\ rebuild'.since \subseteq out.since \cup batch
      BY <2>1, <2>5 DEF RebuildState
    <2>7. Current' => /\ Current /\ fits /\ Spent(i) = {}
                      /\ Recent' \subseteq Recent \cup batch
      <3>1. ASSUME Current'
            PROVE  /\ out.phase # "none" /\ out.fresh /\ rebuild.phase = out.phase /\ rebuild.fresh
                   /\ out.since = rebuild.since /\ Spent(i) = {} /\ fits
        BY <1>1, <2>5, <2>6, <3>1, ConsumedFacts DEF Current
      <3> QED BY <2>6, <3>1 DEF Current, Recent
    <2>8. Secured(file) \subseteq Secured(file)' \cup batch
      <3>1. Missed(k)' \subseteq Missed(k) \cup batch
        BY <1>1, <2>1, AcceptedMisses
      <3>2. CASE f.attempt = file.attempt /\ f.captured = file.captured /\ f.pending = file.pending
        <4>1. Secured(file)' = file'.pending \cup (file'.captured \ Missed(k)')
          BY <1>3, <2>3, <3>2 DEF Secured, Missed
        <4> QED BY <1>3, <2>3, <3>1, <3>2, <4>1 DEF Secured
      <3>3. CASE f.pending = file.pending \cup file.captured
        BY <2>3, <3>3 DEF Secured
      <3> QED BY <1>1, <3>2, <3>3, RecoveredFacts DEF f
    <2>9. fits => batch \subseteq Secured(file)'
      BY <2>3 DEF Secured
    <2>10. file.refused \/ Spent(i) # {} => file'.refused
      BY <1>1, <2>3, RecoveredFacts DEF f
    <2>11. DebtSecured'
      BY <1>2, <2>1, <2>3, <2>7, <2>8, <2>9, <2>10, DebtCarried
    <2>12. SameOrLess
      <3>1. NoAttempt.id = None
        BY DEF NoAttempt
      <3> QED BY <1>1, <2>3, <3>1, RecoveredFacts DEF SameOrLess, f
    <2> QED BY <1>2, <2>1, <2>11, <2>12, CapturedStays
  <1>7. CancelIntake => \/ UNCHANGED <<markers, reserved, job, owed, rebuild>>
                        \/ WriteRecoveryMarker(intake.by) /\ Accepted(batch)
    BY DEF CancelIntake
  <1> QED BY <1>4, <1>5, <1>6, <1>7

\* Admission: what was pending is captured, and no run has started on it.
LEMMA AdmissionDebt ==
  ASSUME TypeOK, Admitting, Captured, DebtSecured,
         NEW t \in Admissions, NEW delayed \in BOOLEAN, AdmitReserved(t, delayed)
  PROVE  DebtSecured' /\ Captured'
  <1> DEFINE f == RecoveredFile(t.by)
             admits == OwnedAfter(t.by) = t.id /\ Admissible(f) /\ ~delayed
             out == Outdated(Consumed(t.by), FALSE, admits)
  <1>1. /\ t.id \in Ids /\ t.by \in Policies /\ job[t.id].state = "absent"
        /\ f \in FileState
    <2>1. Entering(t)
      BY DEF AdmitReserved, Entering
    <2>2. job[t.id].state = "absent"
      BY <2>1 DEF Admitting, Admissions, Entering
    <2> QED BY <2>1, <2>2, EnteringTyped, RecoveredFacts
  <1>2. /\ markers' = markers \ Spent(t.by) /\ UNCHANGED <<job, owed>>
        /\ \/ file' = f
           \/ /\ admits
              /\ file' = [f EXCEPT !.pending = {}, !.captured = f.pending,
                                   !.attempt = [id |-> t.id, owner |-> proc]]
        /\ rebuild' = [out EXCEPT !.first = @ /\ ~admits]
    BY DEF AdmitReserved, Transaction
  <1>3. f.captured \subseteq file.captured
        /\ (f.attempt = NoAttempt => f.captured = {})
    BY <1>1, RecoveredFacts DEF Captured, NoAttempt
  <1>4. Consumed(t.by) \in RebuildState /\ admits \in BOOLEAN
    BY <1>1, ConsumedFacts
  <1>5. /\ out \in RebuildState
        /\ out.phase # "none" /\ out.fresh =>
              /\ Consumed(t.by).phase = out.phase /\ Consumed(t.by).fresh
              /\ out.since = Consumed(t.by).since
    BY <1>4, OutdatedFacts
  <1>6. admits => f.attempt = NoAttempt
    BY DEF Admissible
  <1> HIDE DEF f, out, admits
  <1>7. Current' => /\ Consumed(t.by).phase # "none" /\ Consumed(t.by).fresh
                    /\ rebuild'.phase = Consumed(t.by).phase
                    /\ rebuild'.since = Consumed(t.by).since
    BY <1>2, <1>5 DEF Current, RebuildState
  <1>8. CASE file' = f
    <2>1. SameOrLess /\ ScopesKept
      <3>1. NoAttempt.id = None
        BY DEF NoAttempt
      <3> QED BY <1>1, <1>2, <1>8, <3>1, RecoveredFacts DEF SameOrLess, ScopesKept, f
    <2> QED BY <1>1, <1>2, <1>7, <1>8, <2>1, TransactionDebt, CapturedStays DEF f
  <1>9. CASE /\ admits
             /\ file' = [f EXCEPT !.pending = {}, !.captured = f.pending,
                                  !.attempt = [id |-> t.id, owner |-> proc]]
    <2>1. /\ file'.captured = f.pending /\ file'.attempt.id = t.id /\ file'.refused = f.refused
      BY <1>1, <1>9 DEF FileState
    <2>2. Captured'
      BY <1>1, <1>2, <2>1, Bounds DEF Captured
    <2>3. Missed(t.id) = {}
      BY <1>1, Bounds DEF Missed
    <2>4. Secured(f) \subseteq Secured(file')
      BY <1>3, <1>6, <1>9, <2>1, <2>3 DEF Secured
    <2> QED BY <1>1, <1>2, <1>7, <2>1, <2>2, <2>4, TransactionDebt DEF f
  <1> QED BY <1>2, <1>8, <1>9

\* A job starts on what its attempt captured, ends, or is put back to work.
LEMMA JobDebt ==
  ASSUME TypeOK, Admitting, Captured, DebtSecured,
         \/ CreateJob
         \/ \E i \in Ids, o \in Outcomes : JobEnds(i, o)
         \/ \E back \in SUBSET {i \in Ids : job[i].state = "interrupted"} : Restart(back)
  PROVE  DebtSecured' /\ Captured'
  <1>1. UNCHANGED <<file, markers, rebuild>>
    BY DEF CreateJob, JobEnds, Restart
  <1>2. PICK k \in Ids \cup {None} : k = file.attempt.id
    BY DEF TypeOK, FileState, Attempt, NoAttempt
  <1>3. /\ Secured(file) = file.pending \cup (file.captured \ Missed(k))
        /\ Secured(file)' = file.pending \cup (file.captured \ Missed(k)')
    BY <1>1, <1>2 DEF Secured, Missed
  <1>4. Recent' = Recent /\ Current' = Current
    BY <1>1 DEF Recent, Current
  <1>5. SUFFICES /\ owed' \subseteq owed
                 /\ owed' \cap file.captured \cap Missed(k)' \subseteq Missed(k)
                 /\ k # None /\ job'[k].state = "running" => file.captured \subseteq job'[k].scope
    <2>1. DebtSecured'
      BY <1>1, <1>3, <1>4, <1>5 DEF DebtSecured
    <2>2. Captured'
      BY <1>1, <1>2, <1>5 DEF Captured
    <2> QED BY <2>1, <2>2
  <1>6. CASE CreateJob
    <2>1. /\ UNCHANGED owed /\ turn.stage = "admitted" /\ turn.id \in Ids
          /\ job[turn.id].state = "absent"
      BY <1>6, Bounds DEF CreateJob, Admitting, TypeOK
    <2>2. \A i \in Ids \ {turn.id} : job'[i] = job[i]
      BY <1>6, <2>1 DEF CreateJob, TypeOK
    <2>3. CASE k # turn.id
      BY <1>2, <2>1, <2>2, <2>3 DEF Missed, Captured
    <2>4. CASE k = turn.id
      <3>1. \/ job' = job
            \/ /\ job'[k].state = "running" /\ job'[k].scope = file.captured
               /\ job'[k].since = {}
        BY <1>6, <2>1, <2>4 DEF CreateJob, TypeOK
      <3> QED BY <2>1, <2>4, <3>1, Bounds DEF Missed
    <2> QED BY <2>3, <2>4
  <1>7. ASSUME NEW i \in Ids, NEW o \in Outcomes, JobEnds(i, o)
        PROVE  /\ owed' \subseteq owed
               /\ owed' \cap file.captured \cap Missed(k)' \subseteq Missed(k)
               /\ k # None /\ job'[k].state = "running" => file.captured \subseteq job'[k].scope
    <2>1. /\ job[i].state = "running" /\ job'[i].state = o
          /\ \A j \in Ids \ {i} : job'[j] = job[j]
          /\ o = "succeeded" => owed' = owed \ (job[i].scope \ job[i].since)
          /\ o # "succeeded" => owed' = owed
      BY <1>7 DEF JobEnds, TypeOK, NoJob, Covers
    <2>2. CASE k # i
      BY <1>2, <2>1, <2>2 DEF Missed, Captured
    <2>3. CASE k = i
      <3>1. file.captured \subseteq job[i].scope /\ Missed(k) = job[i].since
        BY <1>2, <2>1, <2>3, Bounds DEF Captured, Missed
      <3>2. job'[i].state # "running"
        BY <2>1 DEF Outcomes
      <3>3. o # "succeeded" => Missed(k)' = {}
        BY <2>1, <2>3, <3>2 DEF Missed
      <3> QED BY <2>1, <2>3, <3>1, <3>2, <3>3
    <2> QED BY <2>2, <2>3
  <1>8. ASSUME NEW back \in SUBSET {i \in Ids : job[i].state = "interrupted"}, Restart(back)
        PROVE  /\ owed' \subseteq owed
               /\ owed' \cap file.captured \cap Missed(k)' \subseteq Missed(k)
               /\ k # None /\ job'[k].state = "running" => file.captured \subseteq job'[k].scope
    <2>1. UNCHANGED owed /\ file.captured \subseteq Paths
      BY <1>8 DEF Restart, TypeOK, FileState
    <2>2. \A i \in Ids : \/ job'[i] = job[i] /\ job[i].state # "running"
                         \/ /\ job'[i].state = "running" /\ job'[i].scope = Paths
                            /\ job'[i].since = {}
      BY <1>8 DEF Restart
    <2> QED BY <1>2, <2>1, <2>2 DEF Missed
  <1> QED BY <1>6, <1>7, <1>8

\* A full rebuild that starts has covered nothing yet; one that ends has covered
\* all but what was accepted since.
LEMMA RebuildDebt ==
  ASSUME TypeOK, Captured, DebtSecured, RebuildStarts \/ RebuildEnds
  PROVE  DebtSecured' /\ Captured'
  <1>1. UNCHANGED <<file, markers, job>>
    BY DEF RebuildStarts, RebuildEnds
  <1>2. Secured(file)' = Secured(file) /\ Captured'
    <2>1. SameOrLess /\ ScopesKept
      BY <1>1 DEF SameOrLess, ScopesKept
    <2> QED BY <1>1, <2>1, SecuredThen, CapturedStays
  <1>3. CASE RebuildStarts
    <2>1. UNCHANGED owed /\ Recent' = {}
      BY <1>3 DEF RebuildStarts, Recent
    <2> QED BY <1>1, <1>2, <2>1 DEF DebtSecured
  <1>4. CASE RebuildEnds
    <2>1. /\ owed' = owed \ (Paths \ rebuild.since) /\ rebuild.phase = "running"
          /\ owed \subseteq Paths /\ rebuild \in RebuildState
      BY <1>4 DEF RebuildEnds, Covers, TypeOK
    <2>2. owed' \subseteq owed \cap Recent
      BY <2>1 DEF Recent
    <2>3. Current' => Current
      BY <1>4, <2>1 DEF Current, RebuildEnds, NoRebuild
    <2> QED BY <1>1, <1>2, <2>2, <2>3 DEF DebtSecured
  <1> QED BY <1>3, <1>4

\* The process dies: the file it may have recovered only remembers more.
LEMMA CrashDebt ==
  ASSUME TypeOK, Captured, DebtSecured, Crash
  PROVE  DebtSecured' /\ Captured'
  <1>1. /\ UNCHANGED <<markers, job, owed>> /\ cur \in Policies
        /\ \/ UNCHANGED file
           \/ Spent(cur) # {} /\ file' = RecoveredFile(cur)
    BY DEF Crash, TypeOK
  <1>2. SameOrLess /\ ScopesKept
    <2>1. NoAttempt.id = None
      BY DEF NoAttempt
    <2> QED BY <1>1, <2>1, RecoveredFacts DEF SameOrLess, ScopesKept
  <1>3. DebtSecured'
    <2>1. CASE UNCHANGED file
      <3>1. Current' => Current /\ Recent' = Recent
        BY <2>1 DEF Crash, Current, Recent, NoRebuild
      <3> QED BY <1>1, <2>1, <3>1, SecuredThen DEF DebtSecured
    <2>2. CASE Spent(cur) # {}
      BY <1>1, <2>2, FencedIds DEF DebtSecured
    <2> QED BY <1>1, <2>1, <2>2
  <1> QED BY <1>2, <1>3, CapturedStays

\* A watcher opens or refreshes its view of the file.
LEMMA ConsumptionDebt ==
  ASSUME TypeOK, Captured, DebtSecured, Refresh \/ Open
  PROVE  DebtSecured' /\ Captured'
  <1>1. PICK i \in Policies :
          /\ file' = RecoveredFile(i) /\ markers' = markers \ Spent(i)
          /\ rebuild' = Consumed(i) /\ UNCHANGED <<job, owed>>
    <2>1. CASE Refresh
      BY <2>1 DEF Refresh, Transaction, TypeOK
    <2>2. CASE Open
      <3>1. opens + 1 \in Policies
        BY <2>2, Bounds DEF Open, TypeOK
      <3> QED BY <2>2, <3>1 DEF Open, Transaction
    <2> QED BY <2>1, <2>2
  <1>2. SameOrLess /\ ScopesKept
    <2>1. NoAttempt.id = None
      BY DEF NoAttempt
    <2> QED BY <1>1, <2>1, RecoveredFacts DEF SameOrLess, ScopesKept
  <1>3. DebtSecured'
    BY <1>1, TransactionDebt DEF Current
  <1> QED BY <1>2, <1>3, CapturedStays

\* What is owed stays secured, whatever happens.
LEMMA DebtNext ==
  ASSUME TypeOK, Admitting, OutcomesTrue, Captured, DebtSecured, WatcherNext
  PROVE  DebtSecured' /\ Captured'
  <1>1. ASSUME UNCHANGED <<file, job, rebuild, owed>>, markers \subseteq markers'
        PROVE  DebtSecured' /\ Captured'
    <2>1. SameOrLess /\ ScopesKept
      BY <1>1 DEF SameOrLess, ScopesKept
    <2> QED BY <1>1, <2>1, DebtStays, CapturedStays
  <1>2. ASSUME NEW i \in Policies, NEW resolve \in BOOLEAN, ReconcileRebuild(i, resolve),
               UNCHANGED <<job, owed>>
        PROVE  DebtSecured' /\ Captured'
    <2>1. ScopesKept
      BY <1>2 DEF ScopesKept
    <2> QED BY <1>2, <2>1, ReconcileDebt, CapturedStays
  <1>3. ASSUME NEW s, s \in settling \/ (s \in threads /\ s.stage = "settle"),
               NEW aged \in BOOLEAN, Settle(s, aged)
        PROVE  DebtSecured' /\ Captured'
    <2>1. /\ s.by \in Policies /\ s.id \in Ids
          /\ s.outcome = "succeeded" => job[s.id].state = "succeeded"
      BY <1>3 DEF OutcomesTrue, TypeOK, Settlement, Admission
    <2>2. ScopesKept
      BY <1>3 DEF Settle, ScopesKept
    <2> QED BY <1>3, <2>1, <2>2, SettleDebt, CapturedStays
  <1>4. CASE Refresh \/ Open
    BY <1>4, ConsumptionDebt
  <1>5. CASE MarkScopePending \/ CancelIntake
    BY <1>5, IntakeDebt
  <1>6. CASE RebuildStarts \/ RebuildEnds
    BY <1>6, RebuildDebt
  <1>7. CASE \/ CreateJob
             \/ \E i \in Ids, o \in Outcomes : JobEnds(i, o)
             \/ \E back \in SUBSET {i \in Ids : job[i].state = "interrupted"} : Restart(back)
    BY <1>7, JobDebt
  <1>8. CASE Crash
    BY <1>8, CrashDebt
  <1>9. ASSUME NEW t \in Admissions, NEW delayed \in BOOLEAN, AdmitReserved(t, delayed)
        PROVE  DebtSecured' /\ Captured'
    BY <1>9, AdmissionDebt
  <1>10. CASE ReconcileCompletedRebuild
    BY <1>2, <1>10, FALSE \in BOOLEAN, Bounds DEF ReconcileCompletedRebuild
  <1>11. ASSUME NEW known \in BOOLEAN, ReconcileRestartedSlot(known)
         PROVE  DebtSecured' /\ Captured'
    <2>1. UNCHANGED <<job, owed>> /\ cur \in Policies
      BY <1>11 DEF ReconcileRestartedSlot, TypeOK
    <2>2. CASE ReconcileRebuild(cur, TRUE)
      BY <1>2, <2>1, <2>2
    <2>3. CASE UNCHANGED <<file, markers, rebuild>>
      BY <1>1, <2>1, <2>3
    <2> QED BY <1>11, <2>2, <2>3 DEF ReconcileRestartedSlot, Recovers
  <1>12. ASSUME \/ \E s \in settling, aged \in BOOLEAN : SettlementEnds(s, aged)
                \/ \E s \in threads, aged \in BOOLEAN : ThreadSettles(s, aged)
         PROVE  DebtSecured' /\ Captured'
    BY <1>3, <1>12 DEF SettlementEnds, ThreadSettles
  <1>13. ASSUME NEW t \in Admissions, ActivateAdmission(t) \/ AdmissionUnavailable(t)
         PROVE  DebtSecured' /\ Captured'
    BY <1>1, <1>13 DEF ActivateAdmission, AdmissionUnavailable
  <1>14. CASE ReserveAdmission \/ CancelAdmission \/ StartWatching \/ StopWatching
    BY <1>1, <1>14 DEF ReserveAdmission, CancelAdmission, WriteRecoveryMarker, StartWatching, StopWatching
  <1>15. ASSUME (\E p \in Paths : Observe(p)) \/ (\E s \in settling : CancelSettlement(s))
         PROVE  DebtSecured' /\ Captured'
    BY <1>1, <1>15 DEF Observe, CancelSettlement, WriteRecoveryMarker
  <1> QED BY <1>4, <1>5, <1>6, <1>7, <1>8, <1>9, <1>10, <1>11, <1>12, <1>13, <1>14, <1>15
         DEF WatcherNext

----------------------------------------------------------------------------
(* What was given up stays so.                                              *)

\* Another policy's transaction leaves an admission its claim, unless a marker it
\* consumes says that the claim was given up.
LEMMA ClaimKept ==
  ASSUME TypeOK, NEW t, t.id \in Ids, t.by \in Policies, Entering(t), Claim(t),
         NEW i \in Policies, markers' \subseteq markers, UNCHANGED proc,
         file'.attempt.id # t.id,
         \A j \in Policies \ {i} : owned'[j] = owned[j],
         owned'[i] = t.id => OwnedAfter(i) = t.id,
         t.id \in DOMAIN reserved' <=> t.id \in DOMAIN ReservedAfter(i),
         t.id \in DOMAIN reserved' => reserved'[t.id] = ReservedAfter(i)[t.id],
         t.id \in closed' => t.id \in closed \cup Fenced(i)
  PROVE  Claim(t)'
  <1>1. t.id # None
    BY Bounds
  <1>2. OwnedAfter(i) = t.id => owned[i] = t.id /\ t.id \notin Fenced(i)
    BY <1>1, AfterFacts
  <1>3. \A j \in Policies : owned'[j] = t.id => j = t.by /\ owned[j] = t.id
    BY <1>2 DEF Claim
  <1>4. ASSUME owned'[t.by] = t.id, t.stage = "active"
        PROVE  t.id \in DOMAIN reserved'
    <2>1. owned[t.by] = t.id /\ t.id \in DOMAIN reserved /\ reserved[t.id]
      BY <1>3, <1>4 DEF Claim
    <2>2. t.id \in Fenced(i) => owned[i] # t.id
      BY <1>2, <1>3, <1>4, <2>1 DEF Claim
    <2> QED BY <2>1, <2>2, AfterFacts
  <1>5. ASSUME owned'[t.by] = t.id, t.id \in DOMAIN reserved'
        PROVE  t.id \notin closed' /\ reserved'[t.id] = (t.stage = "active")
    <2>1. /\ owned[t.by] = t.id /\ t.id \in DOMAIN reserved /\ t.id \notin closed
          /\ reserved[t.id] = (t.stage = "active") /\ reserved'[t.id] = reserved[t.id]
          /\ t.id \in Fenced(i) => reserved[t.id] /\ owned[i] # t.id
      BY <1>3, <1>5, AfterFacts DEF Claim
    <2>2. t.id \notin Fenced(i)
      <3>1. SUFFICES ASSUME t.id \in Fenced(i)
                     PROVE  FALSE
        OBVIOUS
      <3>2. PICK m \in markers : m.id = t.id /\ Consumable(m, i)
        BY <3>1, FencedIds
      <3> QED BY <1>1, <2>1, <3>1, <3>2 DEF Claim, Consumable
    <2> QED BY <2>1, <2>2
  <1>6. t.id # file'.attempt.id /\ \A m \in markers' : m.id = t.id => m.owner = proc'
    BY DEF Claim
  <1> QED BY <1>3, <1>4, <1>5, <1>6 DEF Claim

\* Ids in use were given out, after a step too.
LEMMA KnownKept ==
  ASSUME TypeOK, Known, ids' \in Nat, ids <= ids',
         file'.attempt.id = None \/ file'.attempt.id = file.attempt.id \/ file'.attempt.id \in 1..ids',
         \A k \in closed' : k \in 1..ids',
         \A i \in Policies : owned'[i] = None \/ owned'[i] = owned[i] \/ owned'[i] \in 1..ids',
         \A m \in markers' : m \in markers \/ m.id \in 0..ids'
  PROVE  Known'
  <1>1. /\ ids \in Nat /\ file.attempt.id \in Nat
        /\ \A i \in Policies : owned[i] \in Nat
        /\ \A m \in markers : m.id \in Nat
    BY Bounds DEF TypeOK, FileState, Attempt, NoAttempt, Marker
  <1>2. file'.attempt.id <= ids'
    BY <1>1, Bounds DEF Known
  <1>3. closed' \subseteq 1..ids'
    OBVIOUS
  <1>4. ASSUME NEW i \in Policies
        PROVE  owned'[i] <= ids'
    <2>1. owned[i] <= ids
      BY DEF Known
    <2> QED BY <1>1, <2>1, Bounds
  <1>5. ASSUME NEW m \in markers'
        PROVE  m.id <= ids'
    <2>1. CASE m \in markers
      BY <1>1, <2>1 DEF Known
    <2>2. CASE m.id \in 0..ids'
      BY <2>2
    <2> QED BY <2>1, <2>2
  <1> QED BY <1>2, <1>3, <1>4, <1>5 DEF Known

\* The ids a policy's markers fence were given out.
LEMMA FencedKnown ==
  ASSUME TypeOK, Known, NEW i \in Policies
  PROVE  Fenced(i) \subseteq 1..ids
  <1>1. \A k \in Fenced(i) : k \in Ids /\ k <= ids
    BY FencedIds DEF Known
  <1> QED BY <1>1, Bounds

\* Two sets of reservations differ in one id at most.
KeptBesides(k, r, a) ==
    \A j \in Ids \ {k} : /\ j \in DOMAIN r <=> j \in DOMAIN a
                         /\ j \in DOMAIN r => r[j] = a[j]

\* What a transaction does to the fence: the file goes on with an attempt that no
\* marker fenced, or with none, and no claim is made that was not there.
FenceStep(i) ==
    /\ markers' = markers \ Spent(i) /\ UNCHANGED <<ids, proc>>
    /\ file'.attempt = RecoveredFile(i).attempt \/ file'.attempt = NoAttempt
    /\ \A j \in Policies \ {i} : owned'[j] = owned[j]
    /\ owned'[i] \in {None, OwnedAfter(i)}
    /\ \A k \in closed' : k \in closed \cup Fenced(i) \/ k = file.attempt.id
    /\ KeptBesides(file.attempt.id, reserved', ReservedAfter(i))

\* Such a transaction keeps every claim, and brings nothing back.
LEMMA FenceStepKeeps ==
  ASSUME TypeOK, TypeOK', Known, NEW i \in Policies, FenceStep(i)
  PROVE  /\ Known'
         /\ \A t : t.id \in Ids /\ t.by \in Policies /\ Entering(t) /\ Claim(t) => Claim(t)'
         /\ FencedStaysFenced /\ (file.attempt.id \in closed' => file'.attempt = NoAttempt
                                                                 \/ file.attempt.id \in Fenced(i))
                => FencedStaysFenced'
  <1>1. NoAttempt.id = None /\ file.attempt.id \in Ids \cup {None}
    BY DEF NoAttempt, TypeOK, FileState, Attempt
  <1>2. \/ file'.attempt = NoAttempt
        \/ file'.attempt = file.attempt /\ file.attempt.id \notin Fenced(i)
    BY RecoveredFacts DEF FenceStep
  <1>3. OwnedAfter(i) = None \/ OwnedAfter(i) = owned[i]
    BY AfterFacts
  <1>4. Known'
    <2>1. \A k \in closed' : k \in 1..ids
      <3>1. \A k \in closed' : k \in Ids
        BY DEF TypeOK
      <3>2. file.attempt.id \in Ids => file.attempt.id \in 1..ids
        BY Bounds DEF Known
      <3> QED BY <3>1, <3>2, FencedKnown DEF FenceStep, Known
    <2>2. ids \in Nat
      BY DEF TypeOK
    <2> QED BY <1>1, <1>2, <1>3, <2>1, <2>2, KnownKept DEF FenceStep
  <1>5. ASSUME NEW t, t.id \in Ids, t.by \in Policies, Entering(t), Claim(t)
        PROVE  Claim(t)'
    <2>1. t.id # None /\ t.id # file.attempt.id
      BY <1>5, Bounds DEF Claim
    <2>2. file'.attempt.id # t.id
      BY <1>1, <1>2, <2>1
    <2>3. /\ t.id \in DOMAIN reserved' <=> t.id \in DOMAIN ReservedAfter(i)
          /\ t.id \in DOMAIN reserved' => reserved'[t.id] = ReservedAfter(i)[t.id]
      BY <1>5, <2>1 DEF FenceStep, KeptBesides
    <2> QED BY <1>5, <2>1, <2>2, <2>3, ClaimKept DEF FenceStep
  <1>6. ASSUME FencedStaysFenced,
               file.attempt.id \in closed' => file'.attempt = NoAttempt \/ file.attempt.id \in Fenced(i)
        PROVE  FencedStaysFenced'
    <2>1. None \notin closed'
      BY Bounds DEF TypeOK
    <2> QED BY <1>1, <1>2, <1>6, <2>1 DEF FencedStaysFenced
  <1> QED BY <1>4, <1>5, <1>6

\* Dropping an id leaves the others as they were.
LEMMA DroppedOthers ==
  ASSUME NEW k, NEW a, NEW r, r = a \/ r = Dropped(k, a)
  PROVE  KeptBesides(k, r, a)
  <1> DEFINE d == Dropped(k, a)
  <1>1. DOMAIN d = DOMAIN a \ {k} /\ \A j \in DOMAIN a \ {k} : d[j] = a[j]
    BY DroppedFacts
  <1> HIDE DEF d
  <1>2. CASE r = a
    BY <1>2 DEF KeptBesides
  <1>3. CASE r = d
    <2>1. DOMAIN r = DOMAIN a \ {k} /\ \A j \in DOMAIN a \ {k} : r[j] = a[j]
      BY <1>1, <1>3
    <2> QED BY <2>1 DEF KeptBesides
  <1> QED BY <1>2, <1>3 DEF d

\* A transaction that writes the file with the attempt it found there or with
\* none, and claims and reservations that it found.
LEMMA FenceTransaction ==
  ASSUME TypeOK, TypeOK', Known, FencedStaysFenced, NEW i \in Policies,
         NEW f, NEW o \in {None, OwnedAfter(i)}, NEW r, Transaction(i, f, o, r),
         f.attempt = RecoveredFile(i).attempt \/ f.attempt = NoAttempt,
         r = ReservedAfter(i) \/ r = Dropped(file.attempt.id, ReservedAfter(i)),
         UNCHANGED <<ids, proc>>,
         \/ closed' \subseteq closed \cup Fenced(i)
         \/ /\ closed' \subseteq closed \cup Fenced(i) \cup {file.attempt.id}
            /\ f.attempt = NoAttempt
  PROVE  /\ Known' /\ FencedStaysFenced'
         /\ \A t : t.id \in Ids /\ t.by \in Policies /\ Entering(t) /\ Claim(t) => Claim(t)'
  <1>1. /\ file' = f /\ markers' = markers \ Spent(i) /\ reserved' = r
        /\ \A j \in Policies \ {i} : owned'[j] = owned[j]
        /\ owned'[i] = o
    BY DEF Transaction, TypeOK
  <1>2. KeptBesides(file.attempt.id, r, ReservedAfter(i))
    BY DroppedOthers
  <1>3. FenceStep(i)
    BY <1>1, <1>2 DEF FenceStep
  <1>4. file.attempt.id \in closed' => file'.attempt = NoAttempt \/ file.attempt.id \in Fenced(i)
    BY <1>1 DEF FencedStaysFenced
  <1> QED BY <1>3, <1>4, FenceStepKeeps

\* Without a transaction, a marker of this process may appear and idle
\* reservations may go.
LEMMA FenceUntouched ==
  ASSUME TypeOK, Known, FencedStaysFenced, NEW i \in Policies,
         UNCHANGED <<file, owned, ids, proc, closed>>,
         WriteRecoveryMarker(i) \/ UNCHANGED <<markers, reserved>>
  PROVE  /\ Known' /\ FencedStaysFenced'
         /\ \A t : t.id \in Ids /\ t.by \in Policies /\ Entering(t) /\ Claim(t) => Claim(t)'
  <1>1. /\ \A m \in markers' : m \in markers \/ (m.owner = proc /\ m.id = owned[i])
        /\ DOMAIN reserved' \subseteq DOMAIN reserved
        /\ \A k \in DOMAIN reserved' : reserved'[k] = reserved[k]
        /\ \A k \in DOMAIN reserved : k \notin DOMAIN reserved' => ~reserved[k]
    BY DEF WriteRecoveryMarker, Restrict, TypeOK
  <1>2. Known'
    <2>1. \A m \in markers' : m.id <= ids
      BY <1>1 DEF Known
    <2> QED BY <2>1 DEF Known
  <1>3. FencedStaysFenced'
    BY DEF FencedStaysFenced
  <1>4. ASSUME NEW t, t.id \in Ids, t.by \in Policies, Entering(t), Claim(t)
        PROVE  Claim(t)'
    <2>1. \A m \in markers' : m.id = t.id => m.owner = proc'
      BY <1>1, <1>4 DEF Claim
    <2>2. ASSUME owned'[t.by] = t.id
          PROVE  /\ t.stage = "active" => t.id \in DOMAIN reserved'
                 /\ t.id \in DOMAIN reserved' => /\ t.id \notin closed'
                                                 /\ reserved'[t.id] = (t.stage = "active")
      BY <1>1, <1>4, <2>2 DEF Claim
    <2> QED BY <1>4, <2>1, <2>2 DEF Claim
  <1> QED BY <1>2, <1>3, <1>4

\* Who still enters had its claim before.
LEMMA ClaimsStay ==
  ASSUME TypeOK, Admitting, Claims,
         \A w \in Admissions' : Entering(w) => w \in Admissions,
         \A t : t.id \in Ids /\ t.by \in Policies /\ Entering(t) /\ Claim(t) => Claim(t)'
  PROVE  Claims'
  BY EnteringTyped DEF Claims, Entering

Fences == Known /\ Claims /\ FencedStaysFenced

\* A settlement gives up the attempt in the file, or none.
LEMMA SettleFences ==
  ASSUME TypeOK, TypeOK', Known, FencedStaysFenced, NEW s, NEW aged \in BOOLEAN,
         s.by \in Policies, s.id \in Ids, Settle(s, aged), UNCHANGED proc
  PROVE  /\ Known' /\ FencedStaysFenced'
         /\ \A t : t.id \in Ids /\ t.by \in Policies /\ Entering(t) /\ Claim(t) => Claim(t)'
  <1> DEFINE f == RecoveredFile(s.by)
             r == Dropped(s.id, ReservedAfter(s.by))
  <1>1. f \in FileState
    BY RecoveredFacts
  <1>2. UNCHANGED ids
    BY DEF Settle
  <1>3. CASE ActiveAttempt(f, s)
    <2>1. Transaction(s.by, Settled(f, s.outcome), None, r)
      BY <1>3 DEF Settle
    <2>2. Settled(f, s.outcome).attempt = NoAttempt
      BY <1>1, SettledFacts
    <2>3. s.id = file.attempt.id
      BY <1>3, RecoveredFacts, Bounds DEF ActiveAttempt, NoAttempt
    <2>4. closed' \subseteq closed \cup Fenced(s.by) \cup {file.attempt.id}
      BY <2>3 DEF Settle
    <2> HIDE DEF f
    <2> QED BY <1>2, <2>1, <2>2, <2>3, <2>4, FenceTransaction
  <1>4. CASE ~ActiveAttempt(f, s)
    <2>1. Transaction(s.by, f, OwnedAfter(s.by), ReservedAfter(s.by))
      BY <1>4 DEF Settle
    <2>2. closed' \subseteq closed \cup Fenced(s.by)
      BY <1>4 DEF Settle
    <2> QED BY <1>2, <2>1, <2>2, FenceTransaction
  <1> QED BY <1>3, <1>4

\* A reconciled rebuild gives up the attempt in the file, or none.
LEMMA ReconcileFences ==
  ASSUME TypeOK, TypeOK', Known, FencedStaysFenced, NEW i \in Policies, NEW resolve \in BOOLEAN,
         ReconcileRebuild(i, resolve), UNCHANGED <<ids, proc>>
  PROVE  /\ Known' /\ FencedStaysFenced'
         /\ \A t : t.id \in Ids /\ t.by \in Policies /\ Entering(t) /\ Claim(t) => Claim(t)'
  <1> DEFINE f == RecoveredFile(i)
             rebuilt == [f EXCEPT !.refused = FALSE, !.unscoped = FALSE]
             r == Dropped(f.attempt.id, ReservedAfter(i))
  <1>1. f \in FileState /\ rebuilt \in FileState /\ rebuilt.attempt = f.attempt
    BY RecoveredFacts DEF FileState
  <1>2. CASE Releases(f, resolve)
    <2>1. Transaction(i, Restored(rebuilt), None, r)
      BY <1>2 DEF ReconcileRebuild
    <2>2. Restored(rebuilt).attempt = NoAttempt
      BY <1>1, RestoredFacts
    <2>3. f.attempt.id = file.attempt.id
      BY <1>2, RecoveredFacts DEF Releases
    <2>4. closed' \subseteq closed \cup Fenced(i) \cup {file.attempt.id}
      BY <2>3 DEF ReconcileRebuild
    <2> HIDE DEF f, rebuilt
    <2> QED BY <2>1, <2>2, <2>3, <2>4, FenceTransaction
  <1>3. CASE ~Releases(f, resolve)
    <2>1. Transaction(i, rebuilt, OwnedAfter(i), ReservedAfter(i))
      BY <1>3 DEF ReconcileRebuild
    <2>2. closed' \subseteq closed \cup Fenced(i)
      BY <1>3 DEF ReconcileRebuild
    <2>3. rebuilt.attempt = RecoveredFile(i).attempt
      BY <1>1
    <2> HIDE DEF f, rebuilt
    <2> QED BY <2>1, <2>2, <2>3, FenceTransaction
  <1> QED BY <1>2, <1>3

\* A new reservation has an id that nobody knows.
LEMMA ReserveFences ==
  ASSUME TypeOK, Admitting, Fences, ReserveAdmission
  PROVE  Fences'
  <1>1. /\ ids' = ids + 1 /\ ids + 1 \in Ids /\ cur \in Policies /\ ids \in Nat
        /\ UNCHANGED <<file, markers, proc, threads, closed>>
        /\ turn'.by = cur /\ turn'.id = ids + 1 /\ turn'.stage = "reserved"
        /\ owned'[cur] = ids + 1 /\ \A i \in Policies \ {cur} : owned'[i] = owned[i]
        /\ DOMAIN reserved' = DOMAIN reserved \cup {ids + 1} /\ reserved'[ids + 1] = FALSE
        /\ \A k \in DOMAIN reserved \ {ids + 1} : reserved'[k] = reserved[k]
        /\ turn = NoTurn
    BY Bounds DEF ReserveAdmission, TypeOK, NoTurn
  <1>2. /\ file.attempt.id # ids + 1 /\ ids + 1 \notin closed
        /\ \A i \in Policies : owned[i] # ids + 1
        /\ \A m \in markers : m.id # ids + 1
    BY <1>1 DEF Fences, Known
  <1>3. Known'
    <2>1. /\ file.attempt.id \in Nat /\ \A i \in Policies : owned[i] \in Nat
          /\ \A m \in markers : m.id \in Nat
      BY Bounds DEF TypeOK, FileState, Attempt, NoAttempt, Marker
    <2>2. file'.attempt.id <= ids' /\ closed' \subseteq 1..ids'
      BY <1>1, <2>1 DEF Fences, Known
    <2>3. \A m \in markers' : m.id <= ids'
      BY <1>1, <2>1 DEF Fences, Known
    <2>4. \A i \in Policies : owned'[i] <= ids'
      <3>1. ASSUME NEW i \in Policies
            PROVE  owned'[i] <= ids'
        <4>1. owned[i] <= ids /\ owned[i] \in Nat
          BY <2>1 DEF Fences, Known
        <4> QED BY <1>1, <4>1
      <3> QED BY <3>1
    <2> QED BY <2>2, <2>3, <2>4 DEF Known
  <1>4. Claim(turn)'
    BY <1>1, <1>2 DEF Claim
  <1>5. ASSUME NEW t \in threads, Entering(t)
        PROVE  Claim(t)'
    <2>1. t \in Admissions /\ t.id \in Ids /\ t.id <= ids /\ t.by \in Policies
      BY <1>5, EnteringTyped DEF Admissions
    <2>2. t.id # ids + 1 /\ Claim(t)
      BY <1>1, <1>5, <2>1, Bounds DEF Fences, Claims
    <2> QED BY <1>1, <2>1, <2>2 DEF Claim
  <1>6. Claims'
    BY <1>1, <1>4, <1>5 DEF Claims, Admissions, Entering
  <1>7. FencedStaysFenced'
    BY <1>1 DEF Fences, FencedStaysFenced
  <1> QED BY <1>3, <1>6, <1>7 DEF Fences

\* An admission activates its reservation, loses it or tries again.
LEMMA ActivateFences ==
  ASSUME TypeOK, Admitting, Fences, NEW t \in Admissions,
         ActivateAdmission(t) \/ AdmissionUnavailable(t)
  PROVE  Fences'
  <1>1. Entering(t) /\ up
    BY DEF ActivateAdmission, AdmissionUnavailable, Entering
  <1>2. t \in Admission /\ t.id \in Ids /\ t.by \in Policies /\ Claim(t)
    BY <1>1, EnteringTyped DEF Fences, Claims
  <1>3. UNCHANGED <<file, markers, proc, ids, closed, job, up>>
    BY DEF ActivateAdmission, AdmissionUnavailable
  <1>4. /\ \A i \in Policies : owned'[i] = owned[i] \/ (owned[i] = t.id /\ owned'[i] = None)
        /\ DOMAIN reserved' = DOMAIN reserved
        /\ \A k \in DOMAIN reserved \ {t.id} : reserved'[k] = reserved[k]
    BY <1>2 DEF ActivateAdmission, AdmissionUnavailable, TypeOK
  <1>5. PICK u \in {NoTurn, [t EXCEPT !.stage = "active"], [t EXCEPT !.stage = "reserved"]} :
            /\ ThreadGoesOn(t, u)
            /\ u # NoTurn /\ owned'[t.by] = t.id /\ t.id \in DOMAIN reserved
                   => reserved'[t.id] = (u.stage = "active")
            /\ u.stage = "active" /\ owned'[t.by] = t.id => t.id \in DOMAIN reserved
    <2>1. [t EXCEPT !.stage = "active"].stage = "active"
          /\ [t EXCEPT !.stage = "reserved"].stage = "reserved" /\ NoTurn.stage = "idle"
      BY <1>2 DEF Admission, NoTurn
    <2>2. CASE ActivateAdmission(t)
      <3>1. CASE t.id \in DOMAIN reserved /\ owned[t.by] = t.id
        BY <2>1, <2>2, <3>1 DEF ActivateAdmission
      <3>2. CASE ~(t.id \in DOMAIN reserved /\ owned[t.by] = t.id)
        BY <2>1, <2>2, <3>2 DEF ActivateAdmission
      <3> QED BY <3>1, <3>2
    <2>3. CASE AdmissionUnavailable(t)
      BY <2>1, <2>3, <1>2, Bounds DEF AdmissionUnavailable, TypeOK
    <2> QED BY <2>2, <2>3
  <1>6. \/ u = NoTurn
        \/ u.id = t.id /\ u.by = t.by /\ u.stage \in {"reserved", "active"}
    BY <1>2, <1>5 DEF Admission
  <1>7. \A w \in Admissions' : Entering(w) => w = u \/ (w \in Admissions /\ w.id # t.id)
    BY <1>1, <1>3, <1>5, <1>6, AdmissionGoesOn
  <1>8. ASSUME NEW w \in Admissions, Entering(w), w.id # t.id
        PROVE  Claim(w)'
    <2>1. w.id \in Ids /\ w.by \in Policies /\ Claim(w)
      BY <1>8, EnteringTyped DEF Fences, Claims
    <2> QED BY <1>3, <1>4, <1>8, <2>1, Bounds DEF Claim
  <1>9. u # NoTurn => Claim(u)'
    <2>1. SUFFICES ASSUME u # NoTurn
                   PROVE  Claim(u)'
      OBVIOUS
    <2>2. u.id = t.id /\ u.by = t.by /\ u.stage \in {"reserved", "active"}
      BY <1>6, <2>1
    <2>3. \A i \in Policies : owned'[i] = t.id => owned[i] = t.id
      BY <1>2, <1>4, Bounds
    <2>4. owned'[t.by] = t.id /\ t.id \in DOMAIN reserved => t.id \notin closed
      BY <1>2, <2>3 DEF Claim
    <2> QED BY <1>2, <1>3, <1>4, <1>5, <2>1, <2>2, <2>3, <2>4 DEF Claim
  <1>10. Claims'
    <2>1. ~Entering(NoTurn)
      BY DEF NoTurn, Entering
    <2> QED BY <1>7, <1>8, <1>9, <2>1 DEF Claims
  <1>11. Known'
    <2>1. \A i \in Policies : owned'[i] <= ids'
      BY <1>3, <1>4, Bounds DEF Fences, Known, TypeOK
    <2> QED BY <1>3, <2>1 DEF Fences, Known
  <1> QED BY <1>3, <1>10, <1>11 DEF Fences, FencedStaysFenced

\* An admission that captures its paths was not given up.
LEMMA AdmitFences ==
  ASSUME TypeOK, TypeOK', Admitting, Fences, NEW t \in Admissions, NEW delayed \in BOOLEAN,
         AdmitReserved(t, delayed)
  PROVE  Fences'
  <1> DEFINE i == t.by
             f == RecoveredFile(i)
             admits == OwnedAfter(i) = t.id /\ Admissible(f) /\ ~delayed
             u == IF admits THEN [t EXCEPT !.stage = "admitted"] ELSE NoTurn
  <1>1. /\ Entering(t) /\ up /\ t.stage = "active"
        /\ UNCHANGED <<ids, proc, job, up>> /\ closed' = closed \cup Fenced(i)
        /\ ThreadGoesOn(t, u)
    BY DEF AdmitReserved, Entering
  <1>2. t \in Admission /\ t.id \in Ids /\ t.id <= ids /\ i \in Policies /\ Claim(t)
    BY <1>1, EnteringTyped DEF Fences, Claims
  <1>3. f \in FileState /\ Fenced(i) \in SUBSET Ids
    BY <1>2, RecoveredFacts, FencedIds
  <1>4. /\ markers' = markers \ Spent(i)
        /\ \A j \in Policies \ {i} : owned'[j] = owned[j]
        /\ owned'[i] \in {None, OwnedAfter(i)}
        /\ reserved' = Dropped(t.id, ReservedAfter(i))
        /\ admits => file'.attempt = [id |-> t.id, owner |-> proc]
        /\ ~admits => file' = f
    <2>1. reserved' = Dropped(t.id, ReservedAfter(i)) /\ markers' = markers \ Spent(i)
      BY DEF AdmitReserved, Transaction
    <2>2. /\ \A j \in Policies \ {i} : owned'[j] = owned[j]
          /\ owned'[i] \in {None, OwnedAfter(i)}
      BY <1>2 DEF AdmitReserved, Transaction, TypeOK
    <2>3. admits => file' = [f EXCEPT !.pending = {}, !.captured = f.pending,
                                      !.attempt = [id |-> t.id, owner |-> proc]]
      BY DEF AdmitReserved, Transaction
    <2>4. ~admits => file' = f
      BY DEF AdmitReserved, Transaction
    <2>5. admits => file'.attempt = [id |-> t.id, owner |-> proc]
      <3>1. SUFFICES ASSUME admits
                     PROVE  file'.attempt = [id |-> t.id, owner |-> proc]
        OBVIOUS
      <3> DEFINE a == [id |-> t.id, owner |-> proc]
      <3>2. file' = [f EXCEPT !.pending = {}, !.captured = f.pending, !.attempt = a]
        BY <2>3, <3>1
      <3> HIDE DEF f, a
      <3>3. file'.attempt = a
        BY <1>3, <3>2 DEF FileState
      <3> QED BY <3>3 DEF a
    <2> QED BY <2>1, <2>2, <2>4, <2>5
  <1>5. KeptBesides(t.id, reserved', ReservedAfter(i))
    BY <1>4, DroppedOthers
  <1>6. /\ admits => file'.attempt.id = t.id
        /\ ~admits => file'.attempt.id = None \/ (file'.attempt.id = file.attempt.id
                                                  /\ file.attempt.id \notin Fenced(i))
    <2>1. NoAttempt.id = None
      BY DEF NoAttempt
    <2> QED BY <1>2, <1>4, <2>1, RecoveredFacts
  <1>7. \A w \in Admissions' : Entering(w) => w \in Admissions /\ w.id # t.id
    <2>1. u = NoTurn \/ (u.id = t.id /\ u.stage = "admitted")
      BY <1>2 DEF Admission
    <2>2. ~Entering(u)
      BY <2>1 DEF NoTurn, Entering
    <2> HIDE DEF u
    <2> QED BY <1>1, <2>1, <2>2, AdmissionGoesOn
  <1>8. Claims'
    <2>1. ASSUME NEW w \in Admissions, Entering(w), w.id # t.id
          PROVE  Claim(w)'
      <3>1. w.id \in Ids /\ w.by \in Policies /\ Claim(w)
        BY <2>1, EnteringTyped DEF Fences, Claims
      <3>2. file'.attempt.id # w.id
        BY <1>6, <2>1, <3>1, Bounds DEF Claim
      <3>3. /\ w.id \in DOMAIN reserved' <=> w.id \in DOMAIN ReservedAfter(i)
            /\ w.id \in DOMAIN reserved' => reserved'[w.id] = ReservedAfter(i)[w.id]
        BY <1>5, <2>1, <3>1 DEF KeptBesides
      <3>4. owned'[i] = w.id => OwnedAfter(i) = w.id
        BY <1>4, <3>1, Bounds
      <3>5. markers' \subseteq markers /\ w.id \in closed' => w.id \in closed \cup Fenced(i)
        BY <1>1, <1>4
      <3> HIDE DEF i
      <3> QED BY <1>1, <1>2, <1>4, <2>1, <3>1, <3>2, <3>3, <3>4, <3>5, ClaimKept
    <2> QED BY <1>7, <2>1 DEF Claims
  <1>9. Known'
    <2>1. ids \in Nat /\ t.id \in 1..ids
      BY <1>2, Bounds DEF TypeOK
    <2>2. OwnedAfter(i) = None \/ OwnedAfter(i) = owned[i]
      BY <1>2, AfterFacts
    <2>3. \A k \in closed' : k \in 1..ids
      BY <1>1, <1>2, FencedKnown DEF Fences, Known
    <2>4. \A j \in Policies : owned'[j] = None \/ owned'[j] = owned[j]
      BY <1>4, <2>2
    <2> HIDE DEF i, f, admits
    <2> QED BY <1>1, <1>4, <1>6, <2>1, <2>3, <2>4, KnownKept DEF Fences
  <1>10. FencedStaysFenced'
    <2>1. CASE admits
      <3>1. owned[i] = t.id /\ t.id \notin Fenced(i)
        BY <1>2, <2>1, AfterFacts, Bounds
      <3>2. t.id \notin closed
        BY <1>1, <1>2, <3>1 DEF Claim
      <3> QED BY <1>1, <1>6, <2>1, <3>1, <3>2 DEF FencedStaysFenced
    <2>2. CASE ~admits
      <3>1. None \notin closed'
        BY Bounds DEF TypeOK
      <3>2. file.attempt.id \notin closed
        BY DEF Fences, FencedStaysFenced
      <3> QED BY <1>1, <1>6, <2>2, <3>1, <3>2 DEF FencedStaysFenced
    <2> QED BY <2>1, <2>2
  <1> QED BY <1>8, <1>9, <1>10 DEF Fences

\* A watcher that opens adopts the attempt in the file, or refuses it.
LEMMA OpenFences ==
  ASSUME TypeOK, TypeOK', Known, FencedStaysFenced, Open
  PROVE  /\ Known' /\ FencedStaysFenced'
         /\ \A t : t.id \in Ids /\ t.by \in Policies /\ Entering(t) /\ Claim(t) => Claim(t)'
  <1> DEFINE i == opens + 1
             f == RecoveredFile(i)
             a == ReservedAfter(i)
             r == [k \in DOMAIN a \cup {f.attempt.id} |-> k = f.attempt.id \/ a[k]]
             abandoned == f.attempt # NoAttempt /\ f.attempt.owner # proc
  <1>1. i \in Policies /\ UNCHANGED <<ids, proc>> /\ closed' = closed \cup Fenced(i)
    BY Bounds DEF Open, TypeOK
  <1>2. CASE Transaction(i, f, None, a)
    <2> HIDE DEF i
    <2> QED BY <1>1, <1>2, FenceTransaction
  <1>3. CASE abandoned /\ Transaction(i, f, f.attempt.id, r)
    <2>1. f.attempt = file.attempt /\ file.attempt.id \notin Fenced(i)
      BY <1>1, <1>3, RecoveredFacts
    <2>2. /\ file' = f /\ markers' = markers \ Spent(i) /\ reserved' = r
          /\ \A j \in Policies \ {i} : owned'[j] = owned[j]
          /\ owned'[i] = file.attempt.id
      BY <1>1, <1>3, <2>1 DEF Transaction, TypeOK
    <2>3. KeptBesides(file.attempt.id, reserved', a)
      <3>1. \A k \in DOMAIN a : a[k] \in BOOLEAN
        BY <1>1, ConsumptionTyped
      <3>2. reserved' = [k \in DOMAIN a \cup {file.attempt.id} |-> k = file.attempt.id \/ a[k]]
        BY <2>1, <2>2
      <3> HIDE DEF a
      <3> QED BY <3>1, <3>2 DEF KeptBesides
    <2>4. Known'
      <3>1. /\ ids \in Nat /\ file.attempt.id \in Ids \cup {None}
        BY DEF TypeOK, FileState, Attempt, NoAttempt
      <3>2. \A k \in closed' : k \in 1..ids
        BY <1>1, FencedKnown DEF Known
      <3>3. file.attempt.id = None \/ file.attempt.id \in 1..ids
        BY <3>1, Bounds DEF Known
      <3>4. \A j \in Policies : owned'[j] = None \/ owned'[j] = owned[j] \/ owned'[j] \in 1..ids
        BY <2>2, <3>3
      <3>5. file'.attempt.id = file.attempt.id
        BY <2>1, <2>2
      <3>6. \A m \in markers' : m \in markers
        BY <2>2
      <3> HIDE DEF i, f
      <3> QED BY <1>1, <3>1, <3>2, <3>4, <3>5, <3>6, KnownKept
    <2>5. ASSUME NEW t, t.id \in Ids, t.by \in Policies, Entering(t), Claim(t)
          PROVE  Claim(t)'
      <3>1. t.id # file.attempt.id
        BY <2>5 DEF Claim
      <3>2. /\ t.id \in DOMAIN reserved' <=> t.id \in DOMAIN ReservedAfter(i)
            /\ t.id \in DOMAIN reserved' => reserved'[t.id] = ReservedAfter(i)[t.id]
        BY <2>3, <2>5, <3>1 DEF KeptBesides
      <3>3. file'.attempt.id # t.id /\ owned'[i] # t.id /\ markers' \subseteq markers
        BY <2>1, <2>2, <3>1
      <3>4. t.id \in closed' => t.id \in closed \cup Fenced(i)
        BY <1>1
      <3> HIDE DEF i
      <3> QED BY <1>1, <2>2, <2>5, <3>2, <3>3, <3>4, ClaimKept
    <2>6. FencedStaysFenced'
      BY <1>1, <2>1, <2>2 DEF FencedStaysFenced
    <2> QED BY <2>4, <2>5, <2>6
  <1>4. \/ Transaction(i, f, None, a)
        \/ abandoned /\ Transaction(i, f, f.attempt.id, r)
    BY DEF Open
  <1> QED BY <1>2, <1>3, <1>4

\* A crash ends every admission and every claim.
LEMMA CrashFences ==
  ASSUME TypeOK, TypeOK', Admitting, Admitting', Fences,
         \/ Crash
         \/ \E back \in SUBSET {i \in Ids : job[i].state = "interrupted"} : Restart(back)
  PROVE  Fences'
  <1>1. turn' = NoTurn /\ threads' = {}
    BY DEF Crash, Restart, Admitting
  <1>2. Claims'
    BY <1>1 DEF Claims, Admissions, Entering, NoTurn
  <1>3. CASE Crash
    <2>1. /\ ids \in Nat /\ cur \in Policies /\ UNCHANGED <<ids, markers>>
          /\ \A i \in Policies : owned'[i] = None
      BY <1>3 DEF Crash, TypeOK
    <2>2. \/ UNCHANGED <<file, closed>>
          \/ file' = RecoveredFile(cur) /\ closed' = closed \cup Fenced(cur)
      BY <1>3 DEF Crash
    <2>3. \/ file'.attempt = file.attempt /\ closed' = closed
          \/ /\ closed' = closed \cup Fenced(cur)
             /\ \/ file'.attempt = NoAttempt
                \/ file'.attempt = file.attempt /\ file.attempt.id \notin Fenced(cur)
      BY <2>1, <2>2, RecoveredFacts
    <2>4. NoAttempt.id = None
      BY DEF NoAttempt
    <2>5. Known'
      <3>1. \A k \in closed' : k \in 1..ids
        BY <2>1, <2>3, FencedKnown DEF Fences, Known
      <3> QED BY <2>1, <2>3, <2>4, <3>1, KnownKept DEF Fences
    <2>6. FencedStaysFenced'
      <3>1. None \notin closed'
        BY Bounds DEF TypeOK
      <3> QED BY <2>3, <2>4, <3>1 DEF Fences, FencedStaysFenced
    <2> QED BY <1>2, <2>5, <2>6 DEF Fences
  <1>4. CASE \E back \in SUBSET {i \in Ids : job[i].state = "interrupted"} : Restart(back)
    <2>1. UNCHANGED <<file, markers, owned, ids, closed>>
      BY <1>4 DEF Restart
    <2> QED BY <1>2, <2>1 DEF Fences, Known, FencedStaysFenced
  <1> QED BY <1>3, <1>4

\* What was given up stays so, whatever happens.
LEMMA FenceNext ==
  ASSUME TypeOK, TypeOK', Admitting, Admitting', OutcomesTrue, Fences, WatcherNext
  PROVE  Fences'
  <1>1. ASSUME Known', FencedStaysFenced',
               \A t : t.id \in Ids /\ t.by \in Policies /\ Entering(t) /\ Claim(t) => Claim(t)',
               turn' \in {turn, NoTurn},
               \A w \in threads' : w \in threads \/ w = turn \/ w.stage = "settle"
        PROVE  Fences'
    <2>1. \A w \in Admissions' : Entering(w) => w \in Admissions
      BY <1>1 DEF Admissions, Entering, NoTurn
    <2> QED BY <1>1, <2>1, ClaimsStay DEF Fences
  <1>2. Known /\ FencedStaysFenced
    BY DEF Fences
  <1>3. ASSUME NEW i \in Policies, UNCHANGED <<file, owned, ids, proc, closed>>,
               WriteRecoveryMarker(i) \/ UNCHANGED <<markers, reserved>>,
               turn' \in {turn, NoTurn},
               \A w \in threads' : w \in threads \/ w = turn \/ w.stage = "settle"
        PROVE  Fences'
    BY <1>1, <1>2, <1>3, FenceUntouched
  <1>4. CASE Refresh \/ MarkScopePending
    <2>1. \E i \in Policies : \E f : /\ Transaction(i, f, OwnedAfter(i), ReservedAfter(i))
                                    /\ f.attempt = RecoveredFile(i).attempt
                                    /\ closed' = closed \cup Fenced(i)
      <3>1. CASE Refresh
        <4>1. cur \in Policies
          BY DEF TypeOK
        <4> QED BY <3>1, <4>1 DEF Refresh
      <3>2. CASE MarkScopePending
        <4> DEFINE i == intake.by
                   g == RecoveredFile(i)
                   batch == intake.batch
        <4>1. i \in Policies /\ g \in FileState
          BY RecoveredFacts DEF TypeOK
        <4>2. PICK m : \/ Transaction(i, [g EXCEPT !.pending = m], OwnedAfter(i), ReservedAfter(i))
                       \/ Transaction(i, [g EXCEPT !.refused = TRUE], OwnedAfter(i), ReservedAfter(i))
          BY <3>2 DEF MarkScopePending
        <4>3. closed' = closed \cup Fenced(i)
          BY <3>2 DEF MarkScopePending
        <4>4. /\ [g EXCEPT !.pending = m].attempt = g.attempt
              /\ [g EXCEPT !.refused = TRUE].attempt = g.attempt
          <5> HIDE DEF g
          <5> QED BY <4>1 DEF FileState
        <4> QED BY <4>1, <4>2, <4>3, <4>4
      <3> QED BY <1>4, <3>1, <3>2
    <2>2. UNCHANGED <<ids, proc, turn, threads>>
      BY <1>4 DEF Refresh, MarkScopePending
    <2>3. /\ Known' /\ FencedStaysFenced'
          /\ \A t : t.id \in Ids /\ t.by \in Policies /\ Entering(t) /\ Claim(t) => Claim(t)'
      BY <1>2, <2>1, <2>2, FenceTransaction
    <2> QED BY <1>1, <2>2, <2>3
  <1>5. CASE Open
    <2>1. UNCHANGED <<turn, threads>>
      BY <1>5 DEF Open
    <2> QED BY <1>1, <1>2, <1>5, <2>1, OpenFences
  <1>6. ASSUME NEW i \in Policies, NEW resolve \in BOOLEAN, ReconcileRebuild(i, resolve),
               UNCHANGED <<ids, proc, turn, threads>>
        PROVE  Fences'
    BY <1>1, <1>2, <1>6, ReconcileFences
  <1>7. CASE ReconcileCompletedRebuild
    BY <1>6, <1>7, FALSE \in BOOLEAN, Bounds DEF ReconcileCompletedRebuild
  <1>8. ASSUME NEW known \in BOOLEAN, ReconcileRestartedSlot(known)
        PROVE  Fences'
    <2>1. cur \in Policies /\ UNCHANGED <<ids, proc, turn, threads>>
      BY <1>8 DEF ReconcileRestartedSlot, TypeOK
    <2>2. CASE ReconcileRebuild(cur, TRUE)
      BY <1>6, <2>1, <2>2
    <2>3. CASE UNCHANGED <<file, markers, owned, reserved, closed>>
      BY <1>3, <2>1, <2>3
    <2> QED BY <1>8, <2>2, <2>3 DEF ReconcileRestartedSlot, Recovers
  <1>9. ASSUME NEW s, s \in settling \/ (s \in threads /\ s.stage = "settle"),
               NEW aged \in BOOLEAN, Settle(s, aged), threads' \subseteq threads
        PROVE  Fences'
    <2>1. s.by \in Policies /\ s.id \in Ids
      BY <1>9 DEF OutcomesTrue, TypeOK, Settlement, Admission
    <2>2. UNCHANGED <<proc, turn>>
      BY <1>9 DEF Settle
    <2>3. /\ Known' /\ FencedStaysFenced'
          /\ \A t : t.id \in Ids /\ t.by \in Policies /\ Entering(t) /\ Claim(t) => Claim(t)'
      BY <1>2, <1>9, <2>1, <2>2, SettleFences
    <2> QED BY <1>1, <1>9, <2>2, <2>3
  <1>10. ASSUME \/ \E s \in settling, aged \in BOOLEAN : SettlementEnds(s, aged)
                \/ \E s \in threads, aged \in BOOLEAN : ThreadSettles(s, aged)
         PROVE  Fences'
    BY <1>9, <1>10 DEF SettlementEnds, ThreadSettles
  <1>11. CASE CancelIntake
    <2>1. intake.by \in Policies
      BY DEF TypeOK
    <2>2. /\ UNCHANGED <<file, owned, ids, proc, closed, turn, threads>>
          /\ WriteRecoveryMarker(intake.by) \/ UNCHANGED <<markers, reserved>>
      BY <1>11 DEF CancelIntake
    <2> QED BY <1>3, <2>1, <2>2
  <1>12. CASE CancelAdmission
    <2>1. turn.by \in Policies
      BY DEF TypeOK, Admission
    <2>2. /\ UNCHANGED <<file, owned, ids, proc, closed>> /\ turn' = NoTurn
          /\ threads' = threads \cup {turn}
          /\ WriteRecoveryMarker(turn.by) \/ UNCHANGED <<markers, reserved>>
      BY <1>12 DEF CancelAdmission
    <2> QED BY <1>3, <2>1, <2>2
  <1>13. ASSUME NEW s \in settling, CancelSettlement(s)
         PROVE  Fences'
    <2>1. s.by \in Policies
      BY DEF TypeOK, Settlement
    <2>2. /\ UNCHANGED <<file, owned, ids, proc, closed, turn>>
          /\ \A w \in threads' : w \in threads \/ w.stage = "settle"
          /\ WriteRecoveryMarker(s.by) \/ UNCHANGED <<markers, reserved>>
      BY <1>13 DEF CancelSettlement
    <2> QED BY <1>3, <2>1, <2>2
  <1>14. CASE \/ \E p \in Paths : Observe(p)
              \/ \E i \in Ids, o \in Outcomes : JobEnds(i, o)
              \/ CreateJob \/ RebuildStarts \/ RebuildEnds \/ StartWatching \/ StopWatching
    <2>1. /\ UNCHANGED <<file, markers, owned, reserved, ids, proc, closed, threads>>
          /\ turn' \in {turn, NoTurn}
      BY <1>14 DEF Observe, JobEnds, CreateJob, RebuildStarts, RebuildEnds, StartWatching,
         StopWatching
    <2> QED BY <1>3, <2>1, Bounds
  <1>15. CASE ReserveAdmission
    BY <1>15, ReserveFences
  <1>16. ASSUME NEW t \in Admissions, ActivateAdmission(t) \/ AdmissionUnavailable(t)
         PROVE  Fences'
    BY <1>16, ActivateFences
  <1>17. ASSUME NEW t \in Admissions, NEW delayed \in BOOLEAN, AdmitReserved(t, delayed)
         PROVE  Fences'
    BY <1>17, AdmitFences
  <1>18. CASE \/ Crash
              \/ \E back \in SUBSET {i \in Ids : job[i].state = "interrupted"} : Restart(back)
    BY <1>18, CrashFences
  <1> QED BY <1>4, <1>5, <1>7, <1>8, <1>10, <1>11, <1>12, <1>13, <1>14, <1>15, <1>16, <1>17, <1>18
         DEF WatcherNext

----------------------------------------------------------------------------
(* The theorems.                                                            *)

\* The watcher starts with nothing owed, and every step keeps the invariant.
LEMMA InitEstablishes == WatcherInit => WatcherInv
  <1> SUFFICES ASSUME WatcherInit
               PROVE  WatcherInv
    OBVIOUS
  <1>1. TypeOK
    <2>1. NoAttempt \in Attempt /\ NoTurn \in Admission
      BY NoTurnTyped DEF Attempt
    <2>2. NoIntake \in [by : Policies, batch : SUBSET Paths]
      BY Bounds DEF NoIntake
    <2>3. NoRebuild \in RebuildState
      BY DEF NoRebuild, RebuildState
    <2>4. NoJob \in JobState
      BY Bounds DEF NoJob, JobState
    <2>5. job \in [Ids -> JobState]
      BY <2>4 DEF WatcherInit
    <2>6. file \in FileState
      BY <2>1 DEF WatcherInit, FileState
    <2>7. owned \in [Policies -> Ids \cup {None}]
      BY DEF WatcherInit
    <2>8. DOMAIN reserved = {}
      BY DEF WatcherInit
    <2>9. /\ proc \in Nat /\ up \in BOOLEAN /\ opens \in 0..MaxOpens /\ cur \in Policies
          /\ ids \in 0..MaxAttempts
      BY Bounds DEF WatcherInit
    <2>10. markers = {} /\ threads = {} /\ settling = {} /\ owed = {} /\ closed = {}
           /\ intake = NoIntake /\ turn = NoTurn /\ rebuild = NoRebuild
      BY DEF WatcherInit
    <2> QED BY <2>1, <2>2, <2>3, <2>5, <2>6, <2>7, <2>8, <2>9, <2>10 DEF TypeOK
  <1>2. /\ turn.stage = "idle" /\ threads = {} /\ settling = {} /\ up
        /\ \A k \in Ids : job[k].state = "absent"
        /\ file.attempt.id = None /\ file.captured = {} /\ file.pending = {}
        /\ markers = {} /\ owed = {} /\ closed = {} /\ ids = 0
        /\ \A i \in Policies : owned[i] = None
    BY DEF WatcherInit, NoTurn, NoJob, NoAttempt
  <1>3. Admitting
    BY <1>2 DEF Admitting
  <1>4. OutcomesTrue /\ Captured
    BY <1>2, Bounds DEF OutcomesTrue, Captured
  <1>5. DebtSecured
    BY <1>2 DEF DebtSecured
  <1>6. Known /\ FencedStaysFenced
    BY <1>2, Bounds DEF Known, FencedStaysFenced
  <1>7. Claims
    BY <1>2 DEF Claims, Admissions, Entering
  <1> QED BY <1>1, <1>3, <1>4, <1>5, <1>6, <1>7 DEF WatcherInv

\* Every step of the specification keeps the invariant.
LEMMA InvariantNext ==
  ASSUME WatcherInv, [WatcherNext]_watcherVars
  PROVE  WatcherInv'
  <1>1. CASE WatcherNext
    <2>1. TypeOK /\ Admitting /\ OutcomesTrue /\ Captured /\ DebtSecured /\ Fences
      BY DEF WatcherInv, Fences
    <2>2. TypeOK'
      BY <1>1, <2>1, TypeNext
    <2>3. Admitting'
      BY <1>1, <2>1, AdmittingNext
    <2>4. OutcomesTrue'
      BY <1>1, <2>1, OutcomesNext
    <2>5. DebtSecured' /\ Captured'
      BY <1>1, <2>1, DebtNext
    <2>6. Fences'
      BY <1>1, <2>1, <2>2, <2>3, FenceNext
    <2> QED BY <2>2, <2>3, <2>4, <2>5, <2>6 DEF WatcherInv, Fences
  <1>2. CASE UNCHANGED watcherVars
    <2>1. TypeOK' /\ Admitting' /\ OutcomesTrue' /\ Captured'
      BY <1>2 DEF watcherVars, WatcherInv, TypeOK, Admitting, OutcomesTrue, Captured
    <2>2. DebtSecured'
      BY <1>2 DEF watcherVars, WatcherInv, DebtSecured, Secured, Missed, Current, Recent
    <2>3. Known' /\ Claims' /\ FencedStaysFenced'
      BY <1>2 DEF watcherVars, WatcherInv, Known, Claims, Claim, Admissions, FencedStaysFenced
    <2> QED BY <2>1, <2>2, <2>3 DEF WatcherInv
  <1> QED BY <1>1, <1>2

\* The invariant holds of every state the watcher reaches.
THEOREM InvariantHolds == WatcherSpec => []WatcherInv
  BY InitEstablishes, InvariantNext, PTL DEF WatcherSpec

\* Every state is of its type.
THEOREM TypeCorrect == WatcherSpec => []TypeOK
  <1>1. WatcherInv => TypeOK
    BY DEF WatcherInv
  <1> QED BY <1>1, InvariantHolds, PTL

\* Every change the service accepted and no index run has covered since is held
\* by the policy file, unless the file is refused or a marker will refuse it.
THEOREM ChangesAlwaysOwed == WatcherSpec => []AcceptedChangesAreOwed
  <1>1. ASSUME WatcherInv
        PROVE  AcceptedChangesAreOwed
    <2>1. /\ owed \subseteq Paths
          /\ file.refused \/ markers # {} \/ owed \subseteq Secured(file)
      BY <1>1 DEF WatcherInv, TypeOK, DebtSecured
    <2>2. Secured(file) \subseteq file.pending \cup file.captured
      BY DEF Secured
    <2> QED BY <2>1, <2>2 DEF AcceptedChangesAreOwed
  <1> QED BY <1>1, InvariantHolds, PTL

\* An attempt that was settled, released or fenced by its marker never comes back.
THEOREM FencesAlwaysHold == WatcherSpec => []FencedStaysFenced
  <1>1. WatcherInv => FencedStaysFenced
    BY DEF WatcherInv
  <1> QED BY <1>1, InvariantHolds, PTL

\* A transaction that goes on with the file's attempt, or found none there.
LEMMA LetGoFenced ==
  ASSUME TypeOK, NEW i \in Policies, file.attempt.id \in Ids,
         file'.attempt = RecoveredFile(i).attempt \/ RecoveredFile(i).attempt = NoAttempt,
         closed' = closed \cup Fenced(i), file'.attempt.id # file.attempt.id
  PROVE  file.attempt.id \in closed'
  BY RecoveredFacts, Bounds DEF NoAttempt

\* An attempt that leaves the file is closed by the step that lets it go.
LEMMA LetGo ==
  ASSUME TypeOK, Admitting, OutcomesTrue, WatcherNext, file.attempt.id \in Ids,
         file'.attempt.id # file.attempt.id
  PROVE  file.attempt.id \in closed'
  <1>1. file \in FileState
    BY DEF TypeOK
  <1>2. CASE Refresh \/ Open
    <2>1. PICK i \in Policies : file' = RecoveredFile(i) /\ closed' = closed \cup Fenced(i)
      <3>1. cur \in Policies /\ (opens < MaxOpens => opens + 1 \in Policies)
        BY Bounds DEF TypeOK
      <3> QED BY <1>2, <3>1 DEF Refresh, Open, Transaction
    <2> QED BY <2>1, LetGoFenced
  <1>3. CASE MarkScopePending
    <2> DEFINE i == intake.by
               g == RecoveredFile(i)
    <2>1. i \in Policies /\ g \in FileState
      BY RecoveredFacts DEF TypeOK
    <2>2. PICK m : file' = [g EXCEPT !.pending = m] \/ file' = [g EXCEPT !.refused = TRUE]
      BY <1>3 DEF MarkScopePending, Transaction
    <2>3. closed' = closed \cup Fenced(i)
      BY <1>3 DEF MarkScopePending
    <2>4. file'.attempt = g.attempt
      <3> HIDE DEF g
      <3> QED BY <2>1, <2>2 DEF FileState
    <2> QED BY <2>1, <2>3, <2>4, LetGoFenced
  <1>4. ASSUME NEW t \in Admissions, NEW delayed \in BOOLEAN, AdmitReserved(t, delayed)
        PROVE  file.attempt.id \in closed'
    <2> DEFINE f == RecoveredFile(t.by)
    <2>1. t.by \in Policies
      BY <1>4, EnteringTyped DEF AdmitReserved, Entering
    <2>2. f.attempt = NoAttempt \/ file' = f
      BY <1>4 DEF AdmitReserved, Transaction, Admissible
    <2>3. closed' = closed \cup Fenced(t.by)
      BY <1>4 DEF AdmitReserved
    <2> QED BY <2>1, <2>2, <2>3, LetGoFenced
  <1>5. ASSUME NEW s, s \in settling \/ (s \in threads /\ s.stage = "settle"),
               NEW aged \in BOOLEAN, Settle(s, aged)
        PROVE  file.attempt.id \in closed'
    <2> DEFINE f == RecoveredFile(s.by)
    <2>1. s.by \in Policies /\ s.id \in Ids
      BY <1>5 DEF OutcomesTrue, TypeOK, Settlement, Admission
    <2>2. CASE ActiveAttempt(f, s)
      <3>1. s.id = file.attempt.id
        BY <2>1, <2>2, RecoveredFacts, Bounds DEF ActiveAttempt, NoAttempt
      <3> QED BY <1>5, <2>2, <3>1 DEF Settle
    <2>3. CASE ~ActiveAttempt(f, s)
      <3>1. file' = f /\ closed' = closed \cup Fenced(s.by)
        BY <1>5, <2>3 DEF Settle, Transaction
      <3> QED BY <2>1, <3>1, LetGoFenced
    <2> QED BY <2>2, <2>3
  <1>6. ASSUME NEW i \in Policies, NEW resolve \in BOOLEAN, ReconcileRebuild(i, resolve)
        PROVE  file.attempt.id \in closed'
    <2> DEFINE f == RecoveredFile(i)
               rebuilt == [f EXCEPT !.refused = FALSE, !.unscoped = FALSE]
    <2>1. f \in FileState /\ rebuilt.attempt = f.attempt
      BY RecoveredFacts DEF FileState
    <2>2. CASE Releases(f, resolve)
      <3>1. f.attempt = file.attempt
        BY <2>2, RecoveredFacts DEF Releases
      <3> QED BY <1>6, <2>2, <3>1 DEF ReconcileRebuild
    <2>3. CASE ~Releases(f, resolve)
      <3>1. file' = rebuilt /\ closed' = closed \cup Fenced(i)
        BY <1>6, <2>3 DEF ReconcileRebuild, Transaction
      <3>2. file'.attempt = f.attempt
        BY <2>1, <3>1
      <3> QED BY <3>1, <3>2, LetGoFenced
    <2> QED BY <2>2, <2>3
  <1>7. CASE ReconcileCompletedRebuild
    BY <1>6, <1>7, FALSE \in BOOLEAN, Bounds DEF ReconcileCompletedRebuild
  <1>8. ASSUME NEW known \in BOOLEAN, ReconcileRestartedSlot(known)
        PROVE  file.attempt.id \in closed'
    <2>1. cur \in Policies
      BY DEF TypeOK
    <2>2. CASE ReconcileRebuild(cur, TRUE)
      BY <1>6, <2>1, <2>2
    <2> QED BY <1>8, <2>2 DEF ReconcileRestartedSlot, Recovers
  <1>9. ASSUME \/ \E s \in settling, aged \in BOOLEAN : SettlementEnds(s, aged)
               \/ \E s \in threads, aged \in BOOLEAN : ThreadSettles(s, aged)
        PROVE  file.attempt.id \in closed'
    BY <1>5, <1>9 DEF SettlementEnds, ThreadSettles
  <1>10. CASE Crash
    <2>1. cur \in Policies /\ file' = RecoveredFile(cur) /\ closed' = closed \cup Fenced(cur)
      BY <1>10 DEF Crash, TypeOK
    <2> QED BY <2>1, LetGoFenced
  <1>11. ASSUME UNCHANGED file
         PROVE  file.attempt.id \in closed'
    BY <1>11
  <1>12. CASE \/ \E p \in Paths : Observe(p)
              \/ CancelIntake \/ ReserveAdmission \/ CancelAdmission \/ CreateJob
              \/ \E i \in Ids, o \in Outcomes : JobEnds(i, o)
              \/ RebuildStarts \/ RebuildEnds \/ StartWatching \/ StopWatching
    BY <1>11, <1>12 DEF Observe, CancelIntake, ReserveAdmission, CancelAdmission, CreateJob,
       JobEnds, RebuildStarts, RebuildEnds, StartWatching, StopWatching
  <1>13. CASE \/ \E t \in Admissions : ActivateAdmission(t) \/ AdmissionUnavailable(t)
              \/ \E s \in settling : CancelSettlement(s)
              \/ \E back \in SUBSET {i \in Ids : job[i].state = "interrupted"} : Restart(back)
    BY <1>11, <1>13 DEF ActivateAdmission, AdmissionUnavailable, CancelSettlement, Restart
  <1> QED BY <1>2, <1>3, <1>4, <1>7, <1>8, <1>9, <1>10, <1>12, <1>13 DEF WatcherNext

\* An attempt leaves the file only by its own outcome, its own marker or a rebuild
\* that outdates it, never by the outcome of another attempt.
THEOREM AttemptsEndByTheirOwn == WatcherSpec => OwnOutcomeOnly
  <1>1. ASSUME WatcherInv, [WatcherNext]_watcherVars
        PROVE  [\A i \in Ids : file.attempt.id = i /\ file'.attempt.id # i
                                   => i \in closed']_watcherVars
    <2>1. CASE WatcherNext
      <3>1. TypeOK /\ Admitting /\ OutcomesTrue
        BY <1>1 DEF WatcherInv
      <3> QED BY <2>1, <3>1, LetGo
    <2> QED BY <1>1, <2>1
  <1> QED BY <1>1, InvariantHolds, PTL DEF WatcherSpec, OwnOutcomeOnly

=============================================================================
