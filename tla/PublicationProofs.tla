-------------------------- MODULE PublicationProofs --------------------------
(***************************************************************************)
(* What an incremental code index shows its readers, proved for any files, *)
(* contents and streams, and any number of edits and faults: whatever the  *)
(* run was doing when it failed or died, the proof is of whole files, its  *)
(* points are stored, and nothing else is left once the work is settled.   *)
(*                                                                         *)
(* The inductive invariant says what holds of the ledger between any two   *)
(* steps (LedgerInv) and what a run knows where it is (RunInv).  A unit's  *)
(* points are no other unit's, so writing one undoes no other; files that  *)
(* a recovery would not touch have all their points; a sealed receipt      *)
(* carries exactly the difference from the proof, so that replacing the    *)
(* proof makes storage and proof agree again.                              *)
(*                                                                         *)
(* CurrentInv follows a run from its scan to its end, where the proof is   *)
(* of what it read.  AbleInv says why a run that is left alone succeeds:   *)
(* no step that may raise meets what it raises for.  Files are cut into    *)
(* distinct chunks, for a chunk's identifier holds its place in the file.  *)
(***************************************************************************)
EXTENDS Publication, FiniteSetTheorems, TLAPS

----------------------------------------------------------------------------
(* What there is.                                                            *)

AllPoints == Paths \X Chunks
Deletes(u) == u.kind # "upsert"

UnitRecords == [kind : {"upsert", "path", "stale"}, path : Paths, digest : Contents \cup {None},
                seg : Nat, points : SUBSET AllPoints]
IsUpload(u) ==
    \E p \in Paths, c \in Contents : \E i \in 1 .. Len(Stream[c]) : u = Upsert(p, c, i)
IsDeletion(u) ==
    \E p \in Paths, kind \in {"path", "stale"} : \E points \in SUBSET ({p} \X Chunks) :
        u = Deletion(p, kind, points)
Units == {u \in UnitRecords : IsUpload(u) \/ IsDeletion(u)}
Mutations == [unit : Units, st : {"prepared", "applied", "confirmed"}]
Evidences == [digest : Contents, points : SUBSET AllPoints]

LedgerType ==
    /\ storage \in SUBSET AllPoints
    /\ proof \in [Paths -> Evidences \cup {None}]
    /\ receipt \in [state : {"none", "reserved", "sealed", "committed", "rolledback"},
                    muts : SUBSET Mutations]
    /\ gen \in [state : {"none", "running", "failed"}, phase : {"ingesting", "reconciled"},
                failures : Nat]
    /\ units \in SUBSET Units
    /\ states \in [Paths -> Contents \cup {None, "failed", "rejected"}]
    /\ marks \in SUBSET Paths

AtUnit == {"prepare", "write", "applied", "confirm", "record"}
Working == AtUnit \cup {"stream", "seal"}
PCs == Working \cup {"idle", "recover", "reset", "reopen", "forward", "outcomes", "check", "open",
                     "reconcile", "advance", "commit", "finish", "discard", "classify"}
Modes == {"none", "recover", "index", "replay", "ok", "hit", "failed"}
Stages == {"none", "forward", "stream", "seal"}
Runs == [pc : PCs, mode : Modes, stage : Stages, hit : BOOLEAN, replay : SUBSET Paths,
         seen : [Paths -> Contents \cup {None}], todo : SUBSET Paths, attempted : SUBSET Paths,
         dels : SUBSET Paths, existing : SUBSET AllPoints, queue : Seq(Units)]

----------------------------------------------------------------------------
(* What holds between any two steps.                                         *)

Closed == receipt.state \in {"none", "rolledback"}
Traced == {"unmarked", "unrecorded"} \cap gaps = {}
Uploads == {u \in Recorded : ~Deletes(u)}

\* The generation's units are the receipt's; a receipt that is sealed says all, and
\* one that was closed without a publication says nothing.
LedgerOK ==
    /\ units \subseteq Recorded
    /\ Closed => receipt.muts = {} /\ ReplayMarks = {}
    /\ gen.phase # "ingesting" /\ OpenReceipt => receipt.state = "sealed"
    /\ receipt.state = "sealed" => Finishable /\ Covers(Recorded)

WholeProof == \A p \in Paths :
    proof[p] = None \/ \E c \in Contents : PointsOf(p, c) # {} /\ proof[p] = Evidence(p, c)

\* No two units share a point, and an open receipt deletes what is published.
UnitsApart ==
    /\ \A u, v \in Recorded : u = v \/ u.points \cap v.points = {}
    /\ OpenReceipt => \A u \in Recorded : Deletes(u) => u.points \subseteq Published(u.path)

AppliedIsDeleted == \A m \in receipt.muts :
    Deletes(m.unit) /\ m.st # "prepared" => m.unit.points \cap storage = {}

NoStrays ==
    /\ storage \subseteq Retained \cup UnitPoints(Uploads)
    /\ ~OpenReceipt => storage \subseteq Retained

\* Points of files that no recovery would touch are stored.
Backing == Traced =>
    /\ OpenReceipt => \A p \in Paths \ RecoveryPaths : Published(p) \subseteq storage
    /\ ~OpenReceipt => Retained \subseteq storage

LedgerInv ==
    /\ LedgerType /\ LedgerOK /\ WholeProof
    /\ UnitsApart /\ AppliedIsDeleted /\ NoStrays /\ Backing

----------------------------------------------------------------------------
(* What holds where a run is.                                                *)

\* What the receipt says was written is stored, save where it is about to be removed.
Stored == \A m \in receipt.muts :
    ~Deletes(m.unit) /\ m.st # "prepared" => m.unit.points \subseteq storage
AppliedIsStored ==
    Traced /\ OpenReceipt /\ (Finishable \/ run.pc \in Working) => Stored

ModeOK ==
    /\ run.mode = "index" => ReplayMarks = {}
    /\ run.mode = "replay" => ReplayMarks \subseteq run.replay
    /\ run.pc \in {"recover", "reset", "reopen", "forward", "outcomes"} => run.mode = "recover"
    /\ run.pc \in {"check", "open", "reconcile", "discard"} => run.mode \in {"index", "replay"}
    /\ run.pc \in AtUnit \cup {"stream", "seal"} => run.stage # "none"
    /\ run.pc = "stream" => run.stage = "stream"
    /\ run.pc = "seal" => run.stage = "seal"
    /\ run.pc = "discard" => run.stage = "stream"
    /\ run.pc = "forward" => run.stage = "forward"
    /\ run.stage = "stream" => run.pc \in Working \cup {"discard", "classify"}

\* Which receipt a step finds.
StepOK ==
    /\ run.pc \in {"check", "open"} =>
          receipt.muts = {} /\ IF run.mode = "index" THEN Closed ELSE receipt.state = "reserved"
    /\ run.pc \in Working \cup {"discard"} /\ run.stage # "forward" =>
          run.mode \in {"index", "replay"} /\ (Closed \/ receipt.state = "reserved")
    /\ run.pc \in Working \cup {"forward"} /\ run.stage = "forward" =>
          run.mode = "recover" /\ OpenReceipt /\ Finishable
    /\ run.pc \in {"reset", "reopen"} =>
          OpenReceipt /\ ~Finishable /\ run.replay = RecoveryPaths /\ run.replay \subseteq marks
    /\ run.pc = "reopen" => storage \subseteq Retained
    /\ run.pc \in {"outcomes", "reconcile"} => receipt.state = "sealed"
    /\ run.pc \in {"advance", "commit"} => receipt.state = "sealed" \/ Closed
    /\ run.pc = "finish" => ~OpenReceipt

\* The unit in hand, and those before it.
UnitOK ==
    /\ run.pc \in AtUnit => run.queue # <<>>
    /\ run.pc \in AtUnit /\ run.stage \in {"seal", "forward"} =>
          \A i \in 1 .. Len(run.queue) : Deletes(run.queue[i])
    /\ run.pc \in {"write", "applied", "confirm", "record"} => Unit \in Recorded
    /\ run.pc \in {"applied", "confirm"} /\ Deletes(Unit) => Unit.points \cap storage = {}
    /\ run.pc \in {"applied", "confirm"} /\ Traced /\ ~Deletes(Unit) => Unit.points \subseteq storage
    /\ run.pc \in Working => \A m \in receipt.muts :
          ~Deletes(m.unit) /\ m.st = "prepared" => run.pc \in {"write", "applied"} /\ m.unit = Unit

\* A failed attempt discards nothing that was published when it began.
ExistingKept == run.stage = "stream" /\ Traced =>
    \A p \in run.attempted \ RecoveryPaths : Published(p) \subseteq run.existing

RunInv ==
    run \in Runs /\ AppliedIsStored /\ ModeOK /\ StepOK /\ UnitOK /\ ExistingKept

SourceType == source \in [Paths -> Contents \cup {None}]
PublicationInv == SourceType /\ LedgerInv /\ RunInv

----------------------------------------------------------------------------
(* Units, evidence and sequences.                                            *)

\* What a unit is known to be.
LEMMA UnitFacts ==
    ASSUME NEW u \in Units
    PROVE  /\ u.path \in Paths /\ u.points \in SUBSET AllPoints
           /\ u.points \subseteq {u.path} \X Chunks
           /\ ~Deletes(u) => u.digest \in Contents /\ u.points # {}
  <1>1. CASE IsUpload(u)
    <2>1. PICK p \in Paths, c \in Contents : \E i \in 1 .. Len(Stream[c]) : u = Upsert(p, c, i)
      BY <1>1 DEF IsUpload
    <2>2. PICK i \in 1 .. Len(Stream[c]) : u = Upsert(p, c, i)
      BY <2>1
    <2>3. Stream[c] \in Seq(Nat)
      BY PublicationAssumption
    <2>4. Stream[c][i] \in Chunks
      BY <2>2, <2>3 DEF Chunks, ToSet
    <2> QED BY <2>2, <2>4 DEF Upsert, Point, AllPoints, Deletes
  <1>2. CASE IsDeletion(u)
    <2>1. PICK p \in Paths, kind \in {"path", "stale"} :
             \E points \in SUBSET ({p} \X Chunks) : u = Deletion(p, kind, points)
      BY <1>2 DEF IsDeletion
    <2> QED BY <2>1 DEF Deletion, AllPoints, Deletes
  <1> QED BY <1>1, <1>2 DEF Units

LEMMA UpsertIsUnit ==
    ASSUME NEW p \in Paths, NEW c \in Contents, NEW i \in 1 .. Len(Stream[c])
    PROVE  Upsert(p, c, i) \in Units /\ ~Deletes(Upsert(p, c, i))
  <1>1. Stream[c] \in Seq(Nat)
    BY PublicationAssumption
  <1>2. Stream[c][i] \in Chunks /\ i \in Nat
    BY <1>1 DEF Chunks, ToSet
  <1>3. Upsert(p, c, i) \in UnitRecords
    BY <1>2 DEF Upsert, UnitRecords, AllPoints, Point
  <1> QED BY <1>3 DEF Units, IsUpload, Upsert, Deletes

LEMMA DeletionIsUnit ==
    ASSUME NEW p \in Paths, NEW kind \in {"path", "stale"}, NEW points \in SUBSET ({p} \X Chunks)
    PROVE  /\ Deletion(p, kind, points) \in Units /\ Deletes(Deletion(p, kind, points))
           /\ Deletion(p, kind, points).path = p /\ Deletion(p, kind, points).points = points
           /\ Deletion(p, kind, points).kind = kind
  <1>1. Deletion(p, kind, points) \in UnitRecords
    BY DEF Deletion, UnitRecords, AllPoints
  <1> QED BY <1>1 DEF Units, IsDeletion, Deletion, Deletes

\* A file's points are its own.
LEMMA PublishedFacts ==
    ASSUME LedgerType, WholeProof, NEW p \in Paths
    PROVE  Published(p) \in SUBSET ({p} \X Chunks)
  <1>1. CASE proof[p] = None
    BY <1>1 DEF Published
  <1>2. CASE proof[p] # None
    <2>1. PICK c \in Contents : PointsOf(p, c) # {} /\ proof[p] = Evidence(p, c)
      BY <1>2 DEF WholeProof
    <2>2. PointsOf(p, c) \subseteq {p} \X Chunks
      BY DEF PointsOf, Point, Chunks
    <2>3. Published(p) = PointsOf(p, c)
      BY <1>2, <2>1, PublicationAssumption DEF Published, Evidence
    <2> QED BY <2>2, <2>3
  <1> QED BY <1>1, <1>2

LEMMA SegmentsFacts ==
    ASSUME NEW p \in Paths, NEW c \in Contents
    PROVE  /\ Segments(p, c) \in Seq(Units)
           /\ \A i \in 1 .. Len(Segments(p, c)) :
                 /\ ~Deletes(Segments(p, c)[i]) /\ Segments(p, c)[i].path = p
                 /\ Segments(p, c)[i].digest = c
           /\ Len(Segments(p, c)) = Len(Stream[c])
           /\ UnitPoints(ToSet(Segments(p, c))) = PointsOf(p, c)
  <1>1. Stream[c] \in Seq(Nat) /\ Len(Stream[c]) \in Nat
    BY PublicationAssumption
  <1>2. \A i \in 1 .. Len(Stream[c]) : Upsert(p, c, i) \in Units /\ ~Deletes(Upsert(p, c, i))
    BY UpsertIsUnit
  <1>3. Segments(p, c) \in Seq(Units) /\ Len(Segments(p, c)) = Len(Stream[c])
    BY <1>1, <1>2 DEF Segments
  <1>4. \A i \in 1 .. Len(Stream[c]) : Segments(p, c)[i] = Upsert(p, c, i)
    BY DEF Segments
  <1>5. ToSet(Segments(p, c)) = {Upsert(p, c, i) : i \in 1 .. Len(Stream[c])}
    BY DEF Segments, ToSet
  <1>a. \A i \in 1 .. Len(Stream[c]) :
            /\ Upsert(p, c, i).points = {Point(p, Stream[c][i])}
            /\ Upsert(p, c, i).path = p /\ Upsert(p, c, i).digest = c
    BY DEF Upsert
  <1>6. UnitPoints(ToSet(Segments(p, c))) = {Point(p, Stream[c][i]) : i \in 1 .. Len(Stream[c])}
    <2>1. ASSUME NEW x \in UnitPoints(ToSet(Segments(p, c)))
          PROVE  \E i \in 1 .. Len(Stream[c]) : x = Point(p, Stream[c][i])
      BY <1>5, <1>a, <2>1 DEF UnitPoints
    <2>2. ASSUME NEW i \in 1 .. Len(Stream[c])
          PROVE  Point(p, Stream[c][i]) \in UnitPoints(ToSet(Segments(p, c)))
      BY <1>5, <1>a, <2>2 DEF UnitPoints
    <2> QED BY <2>1, <2>2
  <1>7. PointsOf(p, c) = {Point(p, Stream[c][i]) : i \in 1 .. Len(Stream[c])}
    BY <1>1 DEF PointsOf, ToSet
  <1>8. \A i \in 1 .. Len(Segments(p, c)) :
            /\ ~Deletes(Segments(p, c)[i]) /\ Segments(p, c)[i].path = p
            /\ Segments(p, c)[i].digest = c
    BY <1>2, <1>3, <1>4, <1>a
  <1> QED BY <1>3, <1>6, <1>7, <1>8

\* SetToSeq lists a finite set.
LEMMA Listed ==
    ASSUME NEW S, IsFiniteSet(S), NEW T, S \subseteq T
    PROVE  /\ SetToSeq(S) \in Seq(T) /\ ToSet(SetToSeq(S)) = S
           /\ \A i \in 1 .. Len(SetToSeq(S)) : SetToSeq(S)[i] \in S
           /\ Len(SetToSeq(S)) = Cardinality(S)
  <1> DEFINE n == Cardinality(S)
  <1>1. n \in Nat /\ ExistsBijection(1 .. n, S)
    BY FS_CardinalityType
  <1>2. PICK g : g \in Bijection(1 .. n, S)
    BY <1>1 DEF ExistsBijection
  <1>3. g \in [1 .. n -> S] /\ IsInjective(g)
    BY <1>2 DEF Bijection, Injection, IsInjective
  <1> DEFINE f == SetToSeq(S)
  <1>4. f \in [1 .. n -> S] /\ IsInjective(f)
    BY <1>3 DEF SetToSeq
  <1> HIDE DEF f
  <1>5. f \in Injection(1 .. n, S)
    BY <1>4 DEF Injection
  <1>6. IsFiniteSet(1 .. n) /\ Cardinality(1 .. n) = n
    <2>1. Cardinality(1 .. n) = IF 1 > n THEN 0 ELSE n - 1 + 1
      BY <1>1, FS_Interval
    <2>2. IsFiniteSet(1 .. n)
      BY <1>1, FS_Interval
    <2> QED BY <1>1, <2>1, <2>2
  <1>7. f \in Surjection(1 .. n, S)
    BY <1>5, <1>6, FS_Injection
  <1>8. \A x \in S : \E i \in 1 .. n : f[i] = x
    BY <1>7 DEF Surjection
  <1>9. f \in Seq(T) /\ Len(f) = n
    BY <1>1, <1>4
  <1>10. ToSet(f) = S
    BY <1>4, <1>8 DEF ToSet
  <1> QED BY <1>4, <1>9, <1>10 DEF f

\* At most one unit of each file: a list of them can be made.
LEMMA FewUnits ==
    ASSUME NEW S \in SUBSET Units, \A u, v \in S : u.path = v.path => u = v
    PROVE  IsFiniteSet(S)
  <1> DEFINE f == [u \in S |-> u.path]
  <1>1. f \in [S -> Paths]
    BY UnitFacts
  <1>2. f \in Injection(S, Paths)
    BY <1>1 DEF Injection, IsInjective
  <1> QED BY <1>2, FS_Injection, PublicationAssumption

\* What is recorded are units.
LEMMA RecordedFacts ==
    ASSUME LedgerType
    PROVE  Recorded \in SUBSET Units /\ \A u \in Recorded : u.path \in Paths
  <1>1. Recorded \in SUBSET Units
    BY DEF LedgerType, Recorded, Mutations
  <1> QED BY <1>1, UnitFacts

\* Recorded work of a file is evidence of it.
LEMMA EvidenceFacts ==
    ASSUME LedgerType, NEW p \in Paths
    PROVE  /\ NewEvidence(p) # None <=> Upserts(Recorded, p) # {}
           /\ NewEvidence(p) # None => /\ NewEvidence(p).points = UnitPoints(Upserts(Recorded, p))
                                       /\ NewEvidence(p).digest \in Contents
           /\ Recorded \in SUBSET Units
  <1>1. Recorded \in SUBSET Units
    BY DEF LedgerType, Recorded, Mutations
  <1>2. ASSUME Upserts(Recorded, p) # {}
        PROVE  /\ NewEvidence(p) # None /\ NewEvidence(p).digest \in Contents
               /\ NewEvidence(p).points = UnitPoints(Upserts(Recorded, p))
    <2> DEFINE u == CHOOSE v \in Upserts(Recorded, p) : TRUE
               all == UnitPoints(Upserts(Recorded, p))
    <2>1. u \in Upserts(Recorded, p)
      BY <1>2
    <2>2. u \in Units /\ ~Deletes(u)
      BY <1>1, <2>1 DEF Upserts, Deletes
    <2>3. u.digest \in Contents
      BY <2>2, UnitFacts
    <2>4. all \in SUBSET (Paths \X Chunks)
      <3>1. \A v \in Upserts(Recorded, p) : v.points \in SUBSET AllPoints
        BY <1>1, UnitFacts DEF Upserts
      <3> QED BY <3>1 DEF UnitPoints, AllPoints
    <2>5. NewEvidence(p) = [digest |-> u.digest, points |-> all]
      BY <1>2 DEF NewEvidence
    <2> HIDE DEF u, all
    <2>6. NewEvidence(p) # None
      BY <2>3, <2>4, <2>5, NoneAssumption
    <2> QED BY <2>3, <2>5, <2>6 DEF all
  <1> QED BY <1>1, <1>2 DEF NewEvidence

\* A complete stream is the whole of a content.
LEMMA CompleteEvidence ==
    ASSUME LedgerType, NEW p \in Paths, CompleteStream(p), NewEvidence(p) # None
    PROVE  /\ PointsOf(p, NewEvidence(p).digest) # {} /\ NewEvidence(p).digest \in Contents
           /\ NewEvidence(p) = Evidence(p, NewEvidence(p).digest)
  <1> DEFINE c == NewEvidence(p).digest
  <1>1. c \in Contents /\ Upserts(Recorded, p) # {} /\ c # None
    BY EvidenceFacts, PublicationAssumption
  <1>2. Upserts(Recorded, p) = ToSet(Segments(p, c))
    BY DEF CompleteStream
  <1>3. UnitPoints(Upserts(Recorded, p)) = PointsOf(p, c)
    BY <1>1, <1>2, SegmentsFacts
  <1>4. UnitPoints(Upserts(Recorded, p)) # {}
    <2>1. PICK u \in Upserts(Recorded, p) : TRUE
      BY <1>1
    <2>2. u \in Units /\ ~Deletes(u)
      BY <2>1, EvidenceFacts DEF Upserts, Deletes
    <2>3. u.points # {}
      BY <2>2, UnitFacts
    <2> QED BY <2>1, <2>3 DEF UnitPoints
  <1>5. NewEvidence(p) = [digest |-> c, points |-> UnitPoints(Upserts(Recorded, p))]
    BY <1>1 DEF NewEvidence
  <1> HIDE DEF c
  <1>6. NewEvidence(p) = Evidence(p, c)
    BY <1>1, <1>3, <1>4, <1>5 DEF Evidence
  <1> QED BY <1>1, <1>3, <1>4, <1>6 DEF c

----------------------------------------------------------------------------
(* What a step leaves as it was.                                             *)

RunGoesOn ==
    /\ run'.mode = run.mode /\ run'.stage = run.stage /\ run'.replay = run.replay
    /\ run'.seen = run.seen /\ run'.todo = run.todo /\ run'.attempted = run.attempted
    /\ run'.dels = run.dels /\ run'.existing = run.existing /\ run'.queue = run.queue

LEMMA GotoFacts ==
    ASSUME run \in Runs, NEW pc \in PCs, Goto(pc)
    PROVE  run' \in Runs /\ run'.pc = pc /\ run'.hit = run.hit /\ RunGoesOn
  <1>1. run' = [run EXCEPT !.pc = pc]
    BY DEF Goto
  <1>2. run' \in Runs
    BY <1>1 DEF Runs
  <1> QED BY <1>1, <1>2 DEF Runs, RunGoesOn

LEMMA IdleFacts ==
    ASSUME NEW mode \in Modes
    PROVE  /\ Idle(mode) \in Runs /\ Idle(mode).pc = "idle" /\ Idle(mode).mode = mode
           /\ Idle(mode).stage = "none" /\ Idle(mode).hit = FALSE /\ Idle(mode).replay = {}
           /\ Idle(mode).todo = {} /\ Idle(mode).attempted = {} /\ Idle(mode).dels = {}
           /\ Idle(mode).queue = <<>>
  <1>1. Nothing \in [Paths -> Contents \cup {None}]
    BY DEF Nothing
  <1>2. <<>> \in Seq(Units)
    OBVIOUS
  <1>3. Idle(mode) \in Runs
    BY <1>1, <1>2 DEF Idle, Runs, PCs, Stages
  <1> QED BY <1>3 DEF Idle

\* An exception, inside and outside the checkpoint's context.
LEMMA UnwindFacts ==
    ASSUME run \in Runs, NEW hit \in BOOLEAN, Unwind(hit)
    PROVE  /\ run' \in Runs
           /\ \/ /\ run'.pc = IF run.stage = "stream" THEN "discard" ELSE "classify"
                 /\ run.mode \in {"index", "replay"} /\ run.pc \notin {"check", "open"}
                 /\ run'.hit = (run.hit \/ hit) /\ RunGoesOn
              \/ /\ run' = Idle(IF run.hit \/ hit THEN "hit" ELSE "failed")
                 /\ ~InContext
  <1> DEFINE next == [run EXCEPT !.pc = IF run.stage = "stream" THEN "discard" ELSE "classify",
                                 !.hit = @ \/ hit]
  <1>1. CASE InContext
    <2>1. run' = next
      BY <1>1 DEF Unwind
    <2>2. run.hit \in BOOLEAN
      BY DEF Runs
    <2>3. (run.hit \/ hit) \in BOOLEAN
      BY <2>2
    <2>4. next \in Runs
      BY <2>3 DEF Runs, PCs
    <2>5. next.pc = IF run.stage = "stream" THEN "discard" ELSE "classify"
      BY DEF Runs
    <2>6. next.hit = (run.hit \/ hit)
      BY Zenon DEF Runs
    <2>7. RunGoesOn
      BY <2>1 DEF RunGoesOn, Runs
    <2> QED BY <1>1, <2>1, <2>4, <2>5, <2>6, <2>7 DEF InContext
  <1>2. CASE ~InContext
    <2> DEFINE mode == IF run.hit \/ hit THEN "hit" ELSE "failed"
    <2>1. run' = Idle(mode)
      BY <1>2 DEF Unwind
    <2>2. mode \in Modes
      BY DEF Modes
    <2> HIDE DEF mode
    <2>3. run' \in Runs
      BY <2>1, <2>2, IdleFacts
    <2> QED BY <1>2, <2>1, <2>3 DEF mode
  <1> QED BY <1>1, <1>2

\* What is said of a receipt depends on the receipt, the proof and the generation.
LEMMA SameViews ==
    ASSUME UNCHANGED <<proof, receipt, units, marks>>
    PROVE  /\ Recorded' = Recorded /\ Touched' = Touched /\ Changed' = Changed
           /\ ReplayMarks' = ReplayMarks /\ RecoveryPaths' = RecoveryPaths
           /\ Uploads' = Uploads /\ Retained' = Retained
           /\ (OpenReceipt' <=> OpenReceipt) /\ (Closed' <=> Closed)
           /\ (Finishable' <=> Finishable)
           /\ (Covers(Recorded)' <=> Covers(Recorded))
           /\ \A p \in Paths : Published(p)' = Published(p)
  <1>1. /\ Recorded' = Recorded /\ Retained' = Retained
        /\ \A p \in Paths : Published(p)' = Published(p)
    BY DEF Recorded, Retained, Published
  <1>2. Touched' = Touched /\ Uploads' = Uploads
    BY <1>1 DEF Touched, Uploads, Deletes
  <1>3. ReplayMarks' = ReplayMarks /\ RecoveryPaths' = RecoveryPaths
    BY <1>2 DEF ReplayMarks, Deleted, RecoveryPaths
  <1>4. (OpenReceipt' <=> OpenReceipt) /\ (Closed' <=> Closed)
    BY DEF OpenReceipt, Closed
  <1>5. Changed' = Changed
    BY <1>1, <1>2 DEF Changed, NewEvidence, Upserts, UnitPoints
  <1>6. Finishable' <=> Finishable
    BY <1>1, <1>3, <1>5 DEF Finishable, CompleteStream, NewEvidence, Upserts, UnitPoints
  <1>7. Covers(Recorded)' <=> Covers(Recorded)
    BY <1>1, <1>5 DEF Covers, CompleteStream, NewEvidence, Upserts, UnitPoints,
                      ExpectedDeletion, Published
  <1> QED BY <1>1, <1>2, <1>3, <1>4, <1>5, <1>6, <1>7

LEMMA LedgerStays ==
    ASSUME LedgerInv, UNCHANGED <<storage, proof, receipt, units, marks, states>>,
           gen'.phase = gen.phase \/ receipt.state = "sealed" \/ Closed, gaps \subseteq gaps',
           gen' \in [state : {"none", "running", "failed"}, phase : {"ingesting", "reconciled"},
                     failures : Nat]
    PROVE  LedgerInv'
  <1>1. LedgerType'
    BY DEF LedgerInv, LedgerType
  <1>2. LedgerOK'
    BY SameViews DEF LedgerInv, LedgerOK, OpenReceipt, Closed
  <1>3. WholeProof'
    BY DEF LedgerInv, WholeProof
  <1>4. UnitsApart'
    <2>1. Recorded \in SUBSET Units
      BY EvidenceFacts DEF LedgerInv, LedgerType, Recorded, Mutations
    <2>2. \A u \in Recorded : u.path \in Paths
      BY <2>1, UnitFacts
    <2> QED BY <2>2, SameViews DEF LedgerInv, UnitsApart, Deletes
  <1>5. AppliedIsDeleted'
    BY DEF LedgerInv, AppliedIsDeleted, Deletes
  <1>6. NoStrays'
    BY SameViews DEF LedgerInv, NoStrays, UnitPoints
  <1>7. Backing'
    BY SameViews DEF LedgerInv, Backing, Traced
  <1> QED BY <1>1, <1>2, <1>3, <1>4, <1>5, <1>6, <1>7 DEF LedgerInv

----------------------------------------------------------------------------
(* Runs that end, and exceptions.                                            *)

LEMMA StoppedRun ==
    ASSUME Traced' /\ OpenReceipt' /\ Finishable' => Stored',
           NEW mode \in {"recover", "ok", "hit", "failed", "none"}, run' = Idle(mode)
    PROVE  RunInv'
  <1>1. /\ run' \in Runs /\ run'.pc = "idle" /\ run'.mode = mode /\ run'.stage = "none"
    BY IdleFacts DEF Modes
  <1>2. AppliedIsStored'
    BY <1>1 DEF AppliedIsStored, Working, AtUnit
  <1>3. ModeOK' /\ StepOK' /\ UnitOK' /\ ExistingKept'
    BY <1>1 DEF ModeOK, StepOK, UnitOK, ExistingKept, Working, AtUnit
  <1> QED BY <1>1, <1>2, <1>3 DEF RunInv

LEMMA RaisedRun ==
    ASSUME RunInv, NEW hit \in BOOLEAN, Unwind(hit), run.pc # "classify",
           Traced' /\ OpenReceipt' /\ Finishable' => Stored',
           run.mode = "index" => ReplayMarks' = {},
           run.mode = "replay" => ReplayMarks' \subseteq run.replay,
           run.stage = "stream" => receipt'.state = receipt.state,
           run.stage = "stream" /\ Traced' =>
               \A p \in run.attempted \ RecoveryPaths' : Published(p)' \subseteq run.existing
    PROVE  RunInv'
  <1> DEFINE mode == IF run.hit \/ hit THEN "hit" ELSE "failed"
  <1>1. run \in Runs
    BY DEF RunInv
  <1>2. CASE run' = Idle(mode)
    <2>1. mode \in {"recover", "ok", "hit", "failed", "none"}
      OBVIOUS
    <2> HIDE DEF mode
    <2> QED BY <1>2, <2>1, StoppedRun
  <1>3. CASE run' # Idle(mode)
    <2>1. /\ run' \in Runs
          /\ run'.pc = IF run.stage = "stream" THEN "discard" ELSE "classify"
          /\ run.mode \in {"index", "replay"} /\ run.pc \notin {"check", "open"}
          /\ RunGoesOn
      BY <1>1, <1>3, UnwindFacts
    <2>2. run'.mode = run.mode /\ run'.stage = run.stage /\ run'.replay = run.replay
          /\ run'.attempted = run.attempted /\ run'.existing = run.existing
          /\ run'.queue = run.queue
      BY <2>1 DEF RunGoesOn
    <2>3. AppliedIsStored'
      BY <2>1 DEF AppliedIsStored, Working, AtUnit
    <2>4. ModeOK'
      BY <2>1, <2>2 DEF ModeOK, Working, AtUnit
    <2>5. StepOK'
      <3>1. run.stage = "stream" => run.pc \in Working \cup {"discard"}
        BY DEF RunInv, ModeOK
      <3>2. run.stage = "stream" => (Closed \/ receipt.state = "reserved")
        BY <3>1 DEF RunInv, StepOK
      <3>3. run.stage = "stream" => (Closed' \/ receipt'.state = "reserved")
        BY <3>2 DEF Closed
      <3> QED BY <2>1, <2>2, <3>3 DEF StepOK, Working, AtUnit
    <2>6. UnitOK'
      BY <2>1, <2>2 DEF RunInv, UnitOK, Working, AtUnit, Deletes
    <2>7. ExistingKept'
      BY <2>2 DEF ExistingKept
    <2> QED BY <2>1, <2>3, <2>4, <2>5, <2>6, <2>7 DEF RunInv
  <1> QED BY <1>2, <1>3

\* An exception with the ledger as it is.
LEMMA RaiseKeeps ==
    ASSUME LedgerInv, RunInv, NEW hit \in BOOLEAN, Unwind(hit), run.pc # "classify",
           UNCHANGED <<storage, proof, ledger>>, gaps \subseteq gaps'
    PROVE  LedgerInv' /\ RunInv'
  <1>1. UNCHANGED <<storage, proof, receipt, gen, units, states, marks>>
    BY DEF ledger
  <1>2. LedgerInv'
    BY <1>1, LedgerStays DEF LedgerInv, LedgerType
  <1>3. Traced' => Traced
    BY DEF Traced
  <1>4. Traced' /\ OpenReceipt' /\ Finishable' => Stored'
    BY <1>1, <1>3, SameViews DEF RunInv, AppliedIsStored, Stored, Deletes
  <1>5. /\ run.mode = "index" => ReplayMarks' = {}
        /\ run.mode = "replay" => ReplayMarks' \subseteq run.replay
    BY <1>1, SameViews DEF RunInv, ModeOK
  <1>6. run.stage = "stream" /\ Traced' =>
            \A p \in run.attempted \ RecoveryPaths' : Published(p)' \subseteq run.existing
    <2>1. run.attempted \subseteq Paths
      BY DEF RunInv, Runs
    <2> QED BY <1>1, <1>3, <2>1, SameViews DEF RunInv, ExistingKept
  <1>7. receipt'.state = receipt.state
    BY <1>1
  <1> HIDE DEF Unwind
  <1>8. RunInv'
    BY <1>4, <1>5, <1>6, <1>7, RaisedRun
  <1> QED BY <1>2, <1>8

\* What follows from the recorded units alone.
LEMMA RecordViews ==
    ASSUME UNCHANGED proof, Recorded' = Recorded
    PROVE  /\ Touched' = Touched /\ Changed' = Changed /\ Uploads' = Uploads
           /\ Retained' = Retained /\ (Covers(Recorded)' <=> Covers(Recorded))
           /\ \A p \in Paths : /\ CompleteStream(p)' <=> CompleteStream(p)
                               /\ NewEvidence(p)' = NewEvidence(p)
                               /\ Published(p)' = Published(p)
                               /\ ExpectedDeletion(p)' = ExpectedDeletion(p)
  <1>1. Touched' = Touched /\ Uploads' = Uploads
    BY DEF Touched, Uploads, Deletes
  <1>2. \A p : Published(p)' = Published(p) /\ NewEvidence(p)' = NewEvidence(p)
    BY DEF Published, NewEvidence, Upserts, UnitPoints
  <1>3. Retained' = Retained
    BY <1>2 DEF Retained
  <1>4. Changed' = Changed
    BY <1>1, <1>2 DEF Changed
  <1>5. \A p : CompleteStream(p)' <=> CompleteStream(p)
    BY <1>2 DEF CompleteStream, Upserts
  <1>6. \A p : ExpectedDeletion(p)' = ExpectedDeletion(p)
    BY <1>2 DEF ExpectedDeletion, Upserts, UnitPoints
  <1>7. Covers(Recorded)' <=> Covers(Recorded)
    BY <1>4, <1>5, <1>6 DEF Covers, Upserts
  <1> QED BY <1>1, <1>2, <1>3, <1>4, <1>5, <1>6, <1>7

\* The deletion that is expected of a file.
LEMMA ExpectedFacts ==
    ASSUME LedgerType, WholeProof, NEW p \in Paths
    PROVE  /\ \A d \in ExpectedDeletion(p) : /\ d \in Units /\ Deletes(d) /\ d.path = p
                                             /\ d.points \subseteq Published(p)
           /\ \A d, e \in ExpectedDeletion(p) : d = e
  <1> DEFINE rest == Published(p) \ UnitPoints(Upserts(Recorded, p))
  <1>1. Published(p) \in SUBSET ({p} \X Chunks) /\ rest \in SUBSET ({p} \X Chunks)
    BY PublishedFacts
  <1>2. /\ Deletion(p, "path", Published(p)) \in Units
        /\ Deletes(Deletion(p, "path", Published(p)))
        /\ Deletion(p, "path", Published(p)).path = p
        /\ Deletion(p, "path", Published(p)).points = Published(p)
    BY <1>1, DeletionIsUnit
  <1>3. /\ Deletion(p, "stale", rest) \in Units /\ Deletes(Deletion(p, "stale", rest))
        /\ Deletion(p, "stale", rest).path = p /\ Deletion(p, "stale", rest).points = rest
    BY <1>1, DeletionIsUnit
  <1>4. ExpectedDeletion(p) \in {{}, {Deletion(p, "path", Published(p))},
                                 {Deletion(p, "stale", rest)}}
    BY DEF ExpectedDeletion
  <1>5. rest \subseteq Published(p)
    OBVIOUS
  <1> HIDE DEF rest
  <1> QED BY <1>2, <1>3, <1>4, <1>5

LEMMA TouchedFacts ==
    ASSUME LedgerType
    PROVE  Touched \subseteq Paths /\ Changed \subseteq Touched /\ ReplayMarks \subseteq marks
           /\ RecoveryPaths \subseteq Paths /\ (receipt.muts = {} => Recorded = {} /\ Touched = {})
  <1>1. Touched \subseteq Paths
    BY EvidenceFacts, UnitFacts DEF LedgerType, Touched, Recorded, Mutations
  <1>2. ReplayMarks \subseteq marks
    BY DEF ReplayMarks
  <1> QED BY <1>1, <1>2 DEF Changed, RecoveryPaths, LedgerType, Recorded, Touched

----------------------------------------------------------------------------
(* Closed receipts.                                                          *)

LEMMA ClosedLedger ==
    ASSUME LedgerInv, LedgerType', UNCHANGED <<storage, proof>>, gaps \subseteq gaps',
           Closed', receipt'.muts = {}, units' = {}, ReplayMarks' = {},
           storage \subseteq Retained, Traced => Retained \subseteq storage
    PROVE  LedgerInv'
  <1>1. Recorded' = {} /\ Retained' = Retained /\ ~OpenReceipt'
    BY DEF Recorded, Retained, Published, OpenReceipt, Closed
  <1>2. receipt'.state # "sealed"
    BY DEF Closed
  <1>3. LedgerOK'
    BY <1>1, <1>2 DEF LedgerOK
  <1>4. WholeProof'
    BY DEF LedgerInv, WholeProof
  <1>5. UnitsApart' /\ AppliedIsDeleted'
    BY <1>1 DEF UnitsApart, AppliedIsDeleted
  <1>6. NoStrays'
    BY <1>1 DEF NoStrays
  <1>7. Backing'
    BY <1>1 DEF Backing, Traced
  <1> QED BY <1>3, <1>4, <1>5, <1>6, <1>7 DEF LedgerInv

LEMMA NewGenerationKeeps ==
    ASSUME LedgerInv, NewGeneration, UNCHANGED <<storage, proof>>, gaps \subseteq gaps',
           storage \subseteq Retained, Traced => Retained \subseteq storage
    PROVE  LedgerInv' /\ Closed' /\ receipt'.muts = {} /\ ReplayMarks' = {}
  <1>1. /\ receipt' = [state |-> "none", muts |-> {}] /\ units' = {} /\ marks' = {}
        /\ states' = Nothing
        /\ gen' = [state |-> "none", phase |-> "ingesting", failures |-> 0]
    BY DEF NewGeneration, NoReceipt, NoGen
  <1>2. LedgerType'
    BY <1>1 DEF LedgerInv, LedgerType, Nothing
  <1>3. Closed' /\ receipt'.muts = {} /\ ReplayMarks' = {}
    BY <1>1 DEF Closed, ReplayMarks
  <1> QED BY <1>1, <1>2, <1>3, ClosedLedger

LEMMA CheckFacts ==
    ASSUME run \in Runs, Check
    PROVE  /\ run' \in Runs /\ run'.pc = "check" /\ run'.mode = "index" /\ run'.stage = "none"
           /\ run'.replay = {} /\ run'.queue = <<>> /\ run'.hit = run.hit
  <1> DEFINE base == Idle("index")
             next == [base EXCEPT !.pc = "check", !.hit = run.hit]
  <1>1. "index" \in Modes
    BY DEF Modes
  <1>2. /\ base \in Runs /\ base.mode = "index" /\ base.stage = "none"
        /\ base.replay = {} /\ base.queue = <<>>
    BY <1>1, IdleFacts
  <1>3. run' = next /\ run.hit \in BOOLEAN
    BY DEF Check, Runs
  <1> HIDE DEF base
  <1>4. next \in Runs
    BY <1>2, <1>3 DEF Runs, PCs
  <1>5. /\ next.pc = "check" /\ next.mode = base.mode /\ next.stage = base.stage
        /\ next.replay = base.replay /\ next.queue = base.queue
    BY <1>2 DEF Runs
  <1>6. next.hit = run.hit
    BY <1>2, Zenon DEF Runs
  <1> QED BY <1>2, <1>3, <1>4, <1>5, <1>6

LEMMA CheckedRun ==
    ASSUME run \in Runs, Check, Closed', receipt'.muts = {}, ReplayMarks' = {}
    PROVE  RunInv'
  <1>1. /\ run' \in Runs /\ run'.pc = "check" /\ run'.mode = "index" /\ run'.stage = "none"
        /\ run'.queue = <<>>
    BY CheckFacts
  <1>2. AppliedIsStored' /\ ExistingKept'
    BY <1>1 DEF AppliedIsStored, Stored, ExistingKept
  <1>3. ModeOK' /\ StepOK' /\ UnitOK'
    BY <1>1 DEF ModeOK, StepOK, UnitOK, Working, AtUnit
  <1> QED BY <1>1, <1>2, <1>3 DEF RunInv

\* A receipt that was closed, or that says nothing, hides no change of storage.
LEMMA NothingHidden ==
    ASSUME LedgerInv, Closed \/ (receipt.muts = {} /\ ReplayMarks = {})
    PROVE  receipt.muts = {} /\ units = {} /\ storage \subseteq Retained
           /\ (Traced => Retained \subseteq storage)
  <1>1. receipt.muts = {} /\ ReplayMarks = {}
    BY DEF LedgerInv, LedgerOK
  <1>2. Recorded = {} /\ Touched = {}
    BY <1>1, TouchedFacts DEF LedgerInv
  <1>3. units = {}
    BY <1>2 DEF LedgerInv, LedgerOK
  <1>4. storage \subseteq Retained
    BY <1>2 DEF LedgerInv, NoStrays, Uploads, UnitPoints
  <1>5. RecoveryPaths = {}
    BY <1>1, <1>2 DEF RecoveryPaths
  <1>6. Traced => Retained \subseteq storage
    BY <1>5 DEF LedgerInv, Backing, Retained
  <1> QED BY <1>1, <1>3, <1>4, <1>6

----------------------------------------------------------------------------
(* Settling.                                                                 *)

LEMMA StartKeeps == ASSUME LedgerInv, RunInv, Start PROVE LedgerInv' /\ RunInv'
  <1>1. /\ run' = [Idle("recover") EXCEPT !.pc = "recover"]
        /\ UNCHANGED <<storage, proof, receipt, gen, units, states, marks, gaps>>
    BY DEF Start, Same, ledger
  <1>2. LedgerInv'
    BY <1>1, LedgerStays DEF LedgerInv, LedgerType
  <1>3. /\ run' \in Runs /\ run'.pc = "recover" /\ run'.mode = "recover" /\ run'.stage = "none"
    <2>1. /\ Idle("recover") \in Runs
          /\ Idle("recover").mode = "recover" /\ Idle("recover").stage = "none"
      BY IdleFacts DEF Modes
    <2>2. "recover" \in PCs
      BY DEF PCs
    <2> QED BY <1>1, <2>1, <2>2 DEF Runs
  <1>4. AppliedIsStored'
    <2>1. (Finishable' <=> Finishable) /\ (OpenReceipt' <=> OpenReceipt)
      BY <1>1, SameViews
    <2> QED BY <1>1, <1>3, <2>1
            DEF RunInv, AppliedIsStored, Stored, Deletes, Traced, Working, AtUnit
  <1>5. ModeOK' /\ StepOK' /\ UnitOK' /\ ExistingKept'
    BY <1>3 DEF ModeOK, StepOK, UnitOK, ExistingKept, Working, AtUnit
  <1> QED BY <1>2, <1>3, <1>4, <1>5 DEF RunInv

LEMMA SettleNothingKeeps ==
    ASSUME LedgerInv, RunInv, SettleNothing PROVE LedgerInv' /\ RunInv'
  <1>1. Check /\ UNCHANGED <<storage, proof, receipt, gen, units, states, marks, gaps>>
    BY DEF SettleNothing, Same, ledger
  <1>2. Closed
    BY DEF SettleNothing, Pending, LedgerInv, LedgerType, Closed
  <1>3. LedgerInv'
    BY <1>1, LedgerStays DEF LedgerInv, LedgerType
  <1>4. Closed' /\ receipt'.muts = {} /\ ReplayMarks' = {}
    BY <1>1, <1>2, SameViews DEF LedgerInv, LedgerOK
  <1>5. RunInv'
    BY <1>1, <1>4, CheckedRun DEF RunInv
  <1> QED BY <1>3, <1>5

LEMMA SettleCommittedKeeps ==
    ASSUME LedgerInv, RunInv, SettleCommitted PROVE LedgerInv' /\ RunInv'
  <1>1. /\ gen' = Resumed /\ Goto("finish") /\ receipt.state = "committed"
        /\ run.pc = "recover" /\ run \in Runs
        /\ UNCHANGED <<storage, proof, receipt, units, states, marks, gaps>>
    BY DEF SettleCommitted, Settling, Pending, Same, RunInv
  <1>2. /\ gen' \in [state : {"none", "running", "failed"}, phase : {"ingesting", "reconciled"},
                     failures : Nat]
        /\ gen'.phase = gen.phase
    BY <1>1 DEF Resumed, LedgerInv, LedgerType
  <1>3. LedgerInv'
    BY <1>1, <1>2, LedgerStays
  <1>4. run' \in Runs /\ run'.pc = "finish" /\ RunGoesOn
    BY <1>1, GotoFacts DEF PCs
  <1>5. run.mode = "recover" /\ run.stage # "stream" /\ ~OpenReceipt'
    BY <1>1 DEF RunInv, ModeOK, Working, AtUnit, OpenReceipt
  <1>6. AppliedIsStored' /\ ModeOK' /\ StepOK' /\ ExistingKept'
    BY <1>4, <1>5 DEF AppliedIsStored, ModeOK, StepOK, ExistingKept, Working, AtUnit, RunGoesOn
  <1>7. UnitOK'
    BY <1>4 DEF RunInv, UnitOK, Working, AtUnit, RunGoesOn, Deletes
  <1> QED BY <1>3, <1>4, <1>6, <1>7 DEF RunInv

LEMMA SettleEmptyKeeps ==
    ASSUME LedgerInv, RunInv, SettleEmpty PROVE LedgerInv' /\ RunInv'
  <1>1. /\ receipt.muts = {} /\ ReplayMarks = {} /\ units = {} /\ Check
        /\ UNCHANGED <<storage, proof, gaps>>
        /\ \/ NewGeneration
           \/ /\ receipt' = [receipt EXCEPT !.state = "rolledback"]
              /\ UNCHANGED <<gen, units, states, marks>>
    BY DEF SettleEmpty, NothingDone, Same
  <1>2. storage \subseteq Retained /\ (Traced => Retained \subseteq storage)
    BY <1>1, NothingHidden
  <1>3. LedgerInv' /\ Closed' /\ receipt'.muts = {} /\ ReplayMarks' = {}
    <2>1. CASE NewGeneration
      BY <1>1, <1>2, <2>1, NewGenerationKeeps
    <2>2. CASE /\ receipt' = [receipt EXCEPT !.state = "rolledback"]
               /\ UNCHANGED <<gen, units, states, marks>>
      <3>1. LedgerType' /\ Closed' /\ receipt'.muts = {}
        BY <1>1, <2>2 DEF LedgerInv, LedgerType, Closed
      <3>2. ReplayMarks' = {}
        BY <1>1, <2>2 DEF ReplayMarks, Deleted
      <3> QED BY <1>1, <1>2, <2>2, <3>1, <3>2, ClosedLedger
    <2> QED BY <1>1, <2>1, <2>2
  <1> QED BY <1>1, <1>3, CheckedRun DEF RunInv

\* Nothing the invariant speaks of changes.
LEMMA RunStays ==
    ASSUME RunInv, UNCHANGED <<storage, proof, ledger, run, gaps>>
    PROVE  RunInv'
  <1>1. UNCHANGED <<storage, proof, receipt, gen, units, states, marks, run, gaps>>
    BY DEF ledger
  <1>2. AppliedIsStored'
    BY <1>1, SameViews DEF RunInv, AppliedIsStored, Stored, Deletes, Traced
  <1>3. ModeOK' /\ StepOK'
    BY <1>1, SameViews DEF RunInv, ModeOK, StepOK
  <1>4. UnitOK'
    BY <1>1 DEF RunInv, UnitOK, Unit, Deletes, Traced, Recorded
  <1>5. ExistingKept'
    <2>1. run \in Runs
      BY DEF RunInv
    <2>2. run.attempted \subseteq Paths
      BY <2>1 DEF Runs
    <2> QED BY <1>1, <2>2, SameViews DEF RunInv, ExistingKept, Traced
  <1> QED BY <1>1, <1>2, <1>3, <1>4, <1>5 DEF RunInv

LEMMA EditKeeps ==
    ASSUME SourceType, LedgerInv, RunInv, NEW p \in Paths, Edit(p)
    PROVE  SourceType' /\ LedgerInv' /\ RunInv'
  <1>1. UNCHANGED <<storage, proof, receipt, gen, units, states, marks, run, gaps>>
    BY DEF Edit, ledger
  <1>2. SourceType'
    BY DEF SourceType, Edit
  <1>3. LedgerInv'
    BY <1>1, LedgerStays DEF LedgerInv, LedgerType
  <1>4. RunInv'
    BY <1>1, RunStays DEF ledger
  <1> QED BY <1>2, <1>3, <1>4

LEMMA RefuseRecoveryKeeps ==
    ASSUME LedgerInv, RunInv, RefuseRecovery PROVE LedgerInv' /\ RunInv'
  <1>1. /\ Unwind(FALSE) /\ run.pc # "classify" /\ gaps \subseteq gaps'
        /\ UNCHANGED <<storage, proof, ledger>>
    BY DEF RefuseRecovery, Pending, Raise, Met
  <1> HIDE DEF Unwind
  <1> QED BY <1>1, RaiseKeeps

LEMMA RefuseIndexingKeeps ==
    ASSUME LedgerInv, RunInv, RefuseIndexing PROVE LedgerInv' /\ RunInv'
  <1>1. /\ Unwind(FALSE) /\ run.pc # "classify" /\ gaps \subseteq gaps'
        /\ UNCHANGED <<storage, proof, ledger>>
    BY DEF RefuseIndexing, Raise, Met
  <1> HIDE DEF Unwind
  <1> QED BY <1>1, RaiseKeeps

LEMMA SettleForwardKeeps ==
    ASSUME LedgerInv, RunInv, SettleForward PROVE LedgerInv' /\ RunInv'
  <1> DEFINE D == UNION {ExpectedDeletion(p) : p \in Changed}
             pc == IF SetToSeq(D) = <<>> THEN "forward" ELSE "prepare"
             next == [run EXCEPT !.stage = "forward", !.queue = SetToSeq(D), !.pc = pc]
  <1>1. /\ gen' = Resumed /\ OpenReceipt /\ Finishable /\ run.pc = "recover" /\ run \in Runs
        /\ run' = next /\ UNCHANGED <<storage, proof, receipt, units, states, marks, gaps>>
    BY DEF SettleForward, Settling, Pending, Same, RunInv
  <1>2. /\ gen' \in [state : {"none", "running", "failed"}, phase : {"ingesting", "reconciled"},
                     failures : Nat]
        /\ gen'.phase = gen.phase
    BY <1>1 DEF Resumed, LedgerInv, LedgerType
  <1>3. LedgerInv'
    BY <1>1, <1>2, LedgerStays
  <1>4. D \in SUBSET Units /\ (\A d \in D : Deletes(d)) /\ \A d, e \in D : d.path = e.path => d = e
    <2>1. Changed \subseteq Paths
      BY TouchedFacts DEF LedgerInv
    <2>2. \A p \in Changed : /\ \A d \in ExpectedDeletion(p) : d \in Units /\ Deletes(d) /\ d.path = p
                             /\ \A d, e \in ExpectedDeletion(p) : d = e
      BY <2>1, ExpectedFacts DEF LedgerInv
    <2> QED BY <2>2
  <1>5. /\ SetToSeq(D) \in Seq(Units)
        /\ \A i \in 1 .. Len(SetToSeq(D)) : Deletes(SetToSeq(D)[i])
    <2>1. IsFiniteSet(D)
      BY <1>4, FewUnits
    <2> HIDE DEF D
    <2>2. /\ SetToSeq(D) \in Seq(Units)
          /\ \A i \in 1 .. Len(SetToSeq(D)) : SetToSeq(D)[i] \in D
      BY <1>4, <2>1, Listed
    <2> QED BY <1>4, <2>2
  <1> HIDE DEF D
  <1>6. /\ run' \in Runs /\ run'.stage = "forward" /\ run'.queue = SetToSeq(D) /\ run'.pc = pc
        /\ run'.mode = run.mode /\ run.mode = "recover"
    BY <1>1, <1>5 DEF RunInv, ModeOK, Runs, PCs, Working, AtUnit, Stages
  <1>7. (OpenReceipt' <=> OpenReceipt) /\ (Finishable' <=> Finishable)
    BY <1>1, SameViews
  <1>8. AppliedIsStored'
    BY <1>1, <1>6 DEF RunInv, AppliedIsStored, Stored, Deletes, Traced
  <1>9. ModeOK' /\ StepOK' /\ ExistingKept'
    BY <1>1, <1>6, <1>7 DEF ModeOK, StepOK, ExistingKept, Working, AtUnit
  <1>10. UnitOK'
    <2>1. \A m \in receipt'.muts : Deletes(m.unit) \/ m.st # "prepared"
      BY <1>1 DEF Finishable, Deletes
    <2> QED BY <1>5, <1>6, <2>1 DEF UnitOK, Deletes, AtUnit
  <1> QED BY <1>3, <1>6, <1>8, <1>9, <1>10 DEF RunInv

\* Confirming what was applied.
LEMMA ConfirmedFacts ==
    ASSUME LedgerType,
           receipt'.muts = {[m EXCEPT !.st = IF @ = "applied" THEN "confirmed" ELSE @] : m \in receipt.muts}
    PROVE  /\ receipt'.muts \in SUBSET Mutations /\ Recorded' = Recorded
           /\ \A n \in receipt'.muts : \E m \in receipt.muts :
                  n.unit = m.unit /\ (n.st = "prepared" <=> m.st = "prepared")
  <1> DEFINE next(m) == [m EXCEPT !.st = IF @ = "applied" THEN "confirmed" ELSE @]
  <1>1. \A m \in receipt.muts : m \in Mutations
    BY DEF LedgerType
  <1>2. ASSUME NEW m \in receipt.muts
        PROVE  next(m) \in Mutations /\ next(m).unit = m.unit
               /\ (next(m).st = "prepared" <=> m.st = "prepared")
    BY <1>1, <1>2 DEF Mutations
  <1> HIDE DEF next
  <1>3. receipt'.muts = {next(m) : m \in receipt.muts}
    BY DEF next
  <1>4. Recorded' = {n.unit : n \in receipt'.muts}
    BY DEF Recorded
  <1>5. Recorded' = Recorded
    BY <1>2, <1>3, <1>4 DEF Recorded
  <1> QED BY <1>2, <1>3, <1>5

LEMMA SealForwardKeeps ==
    ASSUME LedgerInv, RunInv, SealForward PROVE LedgerInv' /\ RunInv'
  <1> DEFINE confirmed == {[m EXCEPT !.st = IF @ = "applied" THEN "confirmed" ELSE @] : m \in receipt.muts}
             sealed == receipt.state = "sealed" \/ Covers(Recorded)
  <1>1. /\ receipt' = [state |-> IF sealed THEN "sealed" ELSE receipt.state, muts |-> confirmed]
        /\ IF sealed THEN Goto("outcomes") /\ Same ELSE Raise(Reverted)
        /\ run.pc = "forward" /\ UNCHANGED <<storage, proof, gen, units, states, marks>>
    BY DEF SealForward
  <1>2. gaps \subseteq gaps'
    BY <1>1 DEF Same, Raise, Met
  <1>3. OpenReceipt /\ Finishable /\ run.mode = "recover" /\ run.stage = "forward" /\ run \in Runs
    BY <1>1 DEF RunInv, StepOK, ModeOK
  <1>4. receipt'.muts = confirmed /\ receipt'.state \in {"reserved", "sealed"}
        /\ (receipt'.state = "sealed" <=> sealed)
    BY <1>1, <1>3 DEF OpenReceipt
  <1>5. /\ receipt'.muts \in SUBSET Mutations /\ Recorded' = Recorded
        /\ \A n \in receipt'.muts : \E m \in receipt.muts :
               n.unit = m.unit /\ (n.st = "prepared" <=> m.st = "prepared")
    BY <1>4, ConfirmedFacts DEF LedgerInv
  <1>6. LedgerType'
    BY <1>1, <1>4, <1>5 DEF LedgerInv, LedgerType
  <1> HIDE DEF confirmed
  <1>7. /\ Touched' = Touched /\ Changed' = Changed /\ Uploads' = Uploads /\ Retained' = Retained
        /\ (Covers(Recorded)' <=> Covers(Recorded))
        /\ \A p \in Paths : /\ CompleteStream(p)' <=> CompleteStream(p)
                            /\ Published(p)' = Published(p)
    BY <1>1, <1>5, RecordViews
  <1>8. ReplayMarks' = ReplayMarks /\ RecoveryPaths' = RecoveryPaths /\ OpenReceipt' /\ ~Closed'
    BY <1>1, <1>4, <1>7 DEF ReplayMarks, Deleted, RecoveryPaths, OpenReceipt, Closed
  <1>9. Finishable'
    <2>1. Changed \subseteq Paths
      BY TouchedFacts DEF LedgerInv
    <2>2. \A n \in receipt'.muts : n.unit.kind = "upsert" => n.st # "prepared"
      BY <1>3, <1>5 DEF Finishable
    <2> QED BY <1>3, <1>7, <1>8, <2>1, <2>2 DEF Finishable
  <1>10. Stored' \/ ~Traced'
    <2>1. Traced => Stored
      BY <1>3 DEF RunInv, AppliedIsStored
    <2> QED BY <1>1, <1>2, <1>5, <2>1 DEF Stored, Traced, Deletes
  <1>11. LedgerInv'
    <2>1. LedgerOK'
      BY <1>1, <1>3, <1>4, <1>5, <1>7, <1>8, <1>9 DEF LedgerInv, LedgerOK, Covers
    <2>2. WholeProof'
      BY <1>1 DEF LedgerInv, WholeProof
    <2>3. UnitsApart'
      <3>1. \A u \in Recorded : u.path \in Paths
        BY RecordedFacts DEF LedgerInv
      <3> QED BY <1>3, <1>5, <1>7, <3>1 DEF LedgerInv, UnitsApart, Deletes
    <2>4. AppliedIsDeleted'
      BY <1>1, <1>5 DEF LedgerInv, AppliedIsDeleted, Deletes
    <2>5. NoStrays'
      BY <1>1, <1>7, <1>8 DEF LedgerInv, NoStrays, UnitPoints
    <2>6. Backing'
      BY <1>1, <1>2, <1>3, <1>7, <1>8 DEF LedgerInv, Backing, Traced
    <2> QED BY <1>6, <2>1, <2>2, <2>3, <2>4, <2>5, <2>6 DEF LedgerInv
  <1>12. CASE sealed
    <2>1. run' \in Runs /\ run'.pc = "outcomes" /\ RunGoesOn
      BY <1>1, <1>3, <1>12, GotoFacts DEF PCs
    <2>2. run'.mode = "recover" /\ run'.stage = "forward" /\ run'.queue = run.queue
      BY <1>3, <2>1 DEF RunGoesOn
    <2>3. AppliedIsStored' /\ ModeOK' /\ StepOK' /\ ExistingKept'
      BY <1>4, <1>10, <1>12, <2>1, <2>2
         DEF AppliedIsStored, ModeOK, StepOK, ExistingKept, Working, AtUnit
    <2>4. UnitOK'
      BY <1>3, <2>1, <2>2 DEF RunInv, UnitOK, Working, AtUnit, Deletes
    <2> QED BY <1>11, <2>1, <2>3, <2>4 DEF RunInv
  <1>13. CASE ~sealed
    <2>1. Unwind(FALSE)
      BY <1>1, <1>13 DEF Raise
    <2> HIDE DEF Unwind
    <2>2. RunInv'
      BY <1>1, <1>3, <1>10, <2>1, RaisedRun
    <2> QED BY <1>11, <2>2
  <1> QED BY <1>12, <1>13

LEMMA SettleReplayKeeps ==
    ASSUME LedgerInv, RunInv, SettleReplay PROVE LedgerInv' /\ RunInv'
  <1>1. /\ gen' = Resumed /\ OpenReceipt /\ ~Finishable /\ run.pc = "recover" /\ run \in Runs
        /\ marks' = marks \cup RecoveryPaths
        /\ run' = [run EXCEPT !.pc = "reset", !.replay = RecoveryPaths]
        /\ UNCHANGED <<storage, proof, receipt, units, states, gaps>>
    BY DEF SettleReplay, Settling, Pending, Same, RunInv
  <1>2. RecoveryPaths \subseteq Paths
    BY TouchedFacts DEF LedgerInv
  <1>3. LedgerType' /\ gen'.phase = gen.phase
    BY <1>1, <1>2 DEF LedgerInv, LedgerType, Resumed
  <1>4. Recorded' = Recorded
    BY <1>1 DEF Recorded
  <1>5. /\ Touched' = Touched /\ Changed' = Changed /\ Uploads' = Uploads /\ Retained' = Retained
        /\ \A p \in Paths : /\ CompleteStream(p)' <=> CompleteStream(p)
                            /\ Published(p)' = Published(p)
    BY <1>1, <1>4, RecordViews
  <1>6. \A p : Deleted(p)' <=> Deleted(p)
    BY <1>1 DEF Deleted
  <1>7. ReplayMarks \subseteq ReplayMarks' /\ RecoveryPaths' = RecoveryPaths
    BY <1>1, <1>5, <1>6 DEF ReplayMarks, RecoveryPaths
  <1>8. OpenReceipt' /\ ~Closed' /\ receipt.state # "sealed"
    BY <1>1 DEF OpenReceipt, Closed, LedgerInv, LedgerOK
  <1>9. ~Finishable'
    <2>1. Changed \subseteq Paths
      BY TouchedFacts DEF LedgerInv
    <2> QED BY <1>1, <1>5, <1>7, <2>1 DEF Finishable
  <1>10. LedgerInv'
    <2>1. LedgerOK'
      BY <1>1, <1>3, <1>4, <1>8 DEF LedgerInv, LedgerOK, OpenReceipt
    <2>2. WholeProof'
      BY <1>1 DEF LedgerInv, WholeProof
    <2>3. UnitsApart'
      <3>1. \A u \in Recorded : u.path \in Paths
        BY RecordedFacts DEF LedgerInv
      <3> QED BY <1>1, <1>4, <1>5, <3>1 DEF LedgerInv, UnitsApart, Deletes
    <2>4. AppliedIsDeleted'
      BY <1>1 DEF LedgerInv, AppliedIsDeleted, Deletes
    <2>5. NoStrays'
      BY <1>1, <1>5, <1>8 DEF LedgerInv, NoStrays, UnitPoints
    <2>6. Backing'
      BY <1>1, <1>5, <1>7, <1>8 DEF LedgerInv, Backing, Traced
    <2> QED BY <1>3, <2>1, <2>2, <2>3, <2>4, <2>5, <2>6 DEF LedgerInv
  <1>11. /\ run' \in Runs /\ run'.pc = "reset" /\ run'.replay = RecoveryPaths
         /\ run'.mode = run.mode /\ run'.stage = run.stage /\ run'.queue = run.queue
    BY <1>1, <1>2 DEF Runs, PCs
  <1>12. run.mode = "recover" /\ run.stage # "stream"
    BY <1>1 DEF RunInv, ModeOK, Working, AtUnit
  <1>13. AppliedIsStored' /\ ModeOK' /\ StepOK' /\ ExistingKept'
    BY <1>1, <1>7, <1>8, <1>9, <1>11, <1>12
       DEF AppliedIsStored, ModeOK, StepOK, ExistingKept, Working, AtUnit
  <1>14. UnitOK'
    BY <1>11 DEF RunInv, UnitOK, Working, AtUnit, Deletes
  <1> QED BY <1>10, <1>11, <1>13, <1>14 DEF RunInv

LEMMA ResetStorageKeeps ==
    ASSUME LedgerInv, RunInv, ResetStorage PROVE LedgerInv' /\ RunInv'
  <1>1. /\ storage' = storage \ (UnitPoints(Recorded) \cup Of(Retained, run.replay))
        /\ Goto("reopen") /\ run.pc = "reset" /\ run \in Runs
        /\ UNCHANGED <<proof, receipt, gen, units, states, marks, gaps>>
    BY DEF ResetStorage, Same, ledger, RunInv
  <1>2. OpenReceipt /\ ~Finishable /\ run.replay = RecoveryPaths /\ run.replay \subseteq marks
    BY <1>1 DEF RunInv, StepOK
  <1>3. storage' \subseteq storage /\ storage' \cap UnitPoints(Recorded) = {}
    BY <1>1
  <1>4. storage' \subseteq Retained
    <2>1. UnitPoints(Uploads) \subseteq UnitPoints(Recorded)
      BY DEF Uploads, UnitPoints
    <2> QED BY <1>3, <2>1 DEF LedgerInv, NoStrays
  <1>5. Traced => \A p \in Paths \ RecoveryPaths : Published(p) \subseteq storage'
    <2> SUFFICES ASSUME Traced, NEW p \in Paths \ RecoveryPaths, NEW x \in Published(p)
                 PROVE  x \in storage'
      OBVIOUS
    <2>1. x \in storage
      BY <1>2 DEF LedgerInv, Backing
    <2>2. x[1] = p
      BY PublishedFacts DEF LedgerInv
    <2>3. x \notin Of(Retained, run.replay)
      BY <1>2, <2>2 DEF Of
    <2>4. ASSUME NEW u \in Recorded, x \in u.points PROVE FALSE
      <3>1. u \in Units
        BY RecordedFacts DEF LedgerInv
      <3>2. u.points \subseteq {u.path} \X Chunks
        BY <3>1, UnitFacts
      <3>3. u.path = p
        BY <2>2, <2>4, <3>2
      <3> QED BY <3>3 DEF RecoveryPaths, Touched
    <2>5. x \notin UnitPoints(Recorded)
      BY <2>4 DEF UnitPoints
    <2> QED BY <1>1, <2>1, <2>3, <2>5
  <1>6. /\ Recorded' = Recorded /\ Retained' = Retained /\ RecoveryPaths' = RecoveryPaths
        /\ ReplayMarks' = ReplayMarks /\ Changed' = Changed
        /\ Uploads' = Uploads /\ (OpenReceipt' <=> OpenReceipt) /\ (Closed' <=> Closed)
        /\ (Finishable' <=> Finishable) /\ (Covers(Recorded)' <=> Covers(Recorded))
        /\ \A p \in Paths : Published(p)' = Published(p)
    BY <1>1, SameViews
  <1>7. LedgerInv'
    <2>1. LedgerType'
      BY <1>1, <1>3 DEF LedgerInv, LedgerType
    <2>2. LedgerOK'
      BY <1>1, <1>6 DEF LedgerInv, LedgerOK
    <2>3. WholeProof'
      BY <1>1 DEF LedgerInv, WholeProof
    <2>4. UnitsApart'
      <3>1. \A u \in Recorded : u.path \in Paths
        BY RecordedFacts DEF LedgerInv
      <3> QED BY <1>6, <3>1 DEF LedgerInv, UnitsApart, Deletes
    <2>5. AppliedIsDeleted'
      BY <1>1, <1>3 DEF LedgerInv, AppliedIsDeleted, Deletes
    <2>6. NoStrays'
      BY <1>4, <1>6 DEF NoStrays
    <2>7. Backing'
      BY <1>1, <1>2, <1>5, <1>6 DEF Backing, Traced
    <2> QED BY <2>1, <2>2, <2>3, <2>4, <2>5, <2>6, <2>7 DEF LedgerInv
  <1>8. run' \in Runs /\ run'.pc = "reopen" /\ RunGoesOn
    BY <1>1, GotoFacts DEF PCs
  <1>9. run'.mode = "recover" /\ run'.stage # "stream" /\ run'.replay = run.replay
    BY <1>1, <1>8 DEF RunInv, ModeOK, Working, AtUnit, RunGoesOn
  <1>10. AppliedIsStored' /\ ModeOK' /\ StepOK' /\ ExistingKept'
    BY <1>1, <1>2, <1>4, <1>6, <1>8, <1>9
       DEF AppliedIsStored, ModeOK, StepOK, ExistingKept, Working, AtUnit
  <1>11. UnitOK'
    BY <1>8 DEF UnitOK, Working, AtUnit
  <1> QED BY <1>7, <1>8, <1>10, <1>11 DEF RunInv

LEMMA ReopenKeeps ==
    ASSUME LedgerInv, RunInv, Reopen PROVE LedgerInv' /\ RunInv'
  <1>1. /\ receipt' = [state |-> "reserved", muts |-> {}]
        /\ units' = {u \in units : u.path \notin run.replay}
        /\ states' = [p \in Paths |-> IF p \in run.replay THEN None ELSE states[p]]
        /\ marks' = marks \cup run.replay
        /\ run' = [run EXCEPT !.pc = "check", !.mode = "replay"]
        /\ run.pc = "reopen" /\ run \in Runs /\ UNCHANGED <<storage, proof, gen, gaps>>
    BY DEF Reopen, Same, RunInv
  <1>2. /\ OpenReceipt /\ ~Finishable /\ run.replay = RecoveryPaths /\ run.replay \subseteq marks
        /\ storage \subseteq Retained
    BY <1>1 DEF RunInv, StepOK
  <1>3. units' = {}
    BY <1>1, <1>2 DEF LedgerInv, LedgerOK, RecoveryPaths, Touched
  <1>4. marks \subseteq run.replay
    BY <1>2 DEF LedgerInv, LedgerOK, RecoveryPaths, Touched, ReplayMarks, Deleted
  <1>5. ReplayMarks' = run.replay /\ Recorded' = {} /\ Touched' = {}
    BY <1>1, <1>3, <1>4 DEF ReplayMarks, Deleted, Recorded, Touched
  <1>6. RecoveryPaths' = RecoveryPaths /\ OpenReceipt' /\ ~Closed' /\ receipt'.state = "reserved"
        /\ receipt'.muts = {}
    BY <1>1, <1>2, <1>5 DEF RecoveryPaths, OpenReceipt, Closed
  <1>7. gen.phase = "ingesting"
    BY <1>2 DEF LedgerInv, LedgerOK
  <1>8. Retained' = Retained /\ \A p \in Paths : Published(p)' = Published(p)
    BY <1>1 DEF Retained, Published
  <1>9. LedgerInv'
    <2>1. LedgerType'
      <3>1. marks' \subseteq Paths
        BY <1>1, <1>2 DEF LedgerInv, LedgerType
      <3>2. states' \in [Paths -> Contents \cup {None, "failed", "rejected"}]
        BY <1>1 DEF LedgerInv, LedgerType
      <3> QED BY <1>1, <1>3, <3>1, <3>2 DEF LedgerInv, LedgerType
    <2>2. LedgerOK'
      BY <1>1, <1>3, <1>6, <1>7 DEF LedgerOK
    <2>3. WholeProof'
      BY <1>1 DEF LedgerInv, WholeProof
    <2>4. UnitsApart' /\ AppliedIsDeleted'
      BY <1>5, <1>6 DEF UnitsApart, AppliedIsDeleted
    <2>5. NoStrays'
      BY <1>1, <1>2, <1>8 DEF NoStrays
    <2>6. Backing'
      BY <1>1, <1>2, <1>6, <1>8 DEF LedgerInv, Backing, Traced
    <2> QED BY <2>1, <2>2, <2>3, <2>4, <2>5, <2>6 DEF LedgerInv
  <1>10. /\ run' \in Runs /\ run'.pc = "check" /\ run'.mode = "replay" /\ run'.replay = run.replay
         /\ run'.stage = run.stage /\ run'.queue = run.queue
    BY <1>1 DEF Runs, PCs, Modes
  <1>11. run.stage # "stream"
    BY <1>1 DEF RunInv, ModeOK, Working, AtUnit
  <1>12. AppliedIsStored' /\ ModeOK' /\ StepOK' /\ UnitOK' /\ ExistingKept'
    BY <1>5, <1>6, <1>10, <1>11
       DEF AppliedIsStored, Stored, ModeOK, StepOK, UnitOK, ExistingKept, Working, AtUnit
  <1> QED BY <1>9, <1>10, <1>12 DEF RunInv

LEMMA ScanKeeps ==
    ASSUME SourceType, LedgerInv, RunInv, Scan PROVE LedgerInv' /\ RunInv'
  <1>0. PICK view \in Scanned :
          LET stale == {p \in Paths : /\ view[p] # None
                                      /\ \/ proof[p] = None \/ p \in run.replay
                                         \/ proof[p].digest # view[p]}
              gone == {p \in Paths : proof[p] # None /\ view[p] = None}
          IN  IF stale \cup gone # {}
              THEN /\ run' = [run EXCEPT !.pc = "open", !.seen = view, !.todo = stale, !.dels = gone,
                                         !.attempted = stale \cup gone]
                   /\ UNCHANGED ledger
              ELSE IF run.mode = "index" THEN run' = Idle("ok") /\ UNCHANGED ledger
              ELSE IF \E p \in run.replay : proof[p] # None
                   THEN Unwind(FALSE) /\ UNCHANGED ledger
                   ELSE NewGeneration /\ Check
    BY DEF Scan
  <1>v. view \in [Paths -> Contents \cup {None}] /\ UNCHANGED <<storage, proof, gaps>>
    BY DEF Scanned, Scan, SourceType
  <1> DEFINE stale == {p \in Paths : /\ view[p] # None
                                     /\ \/ proof[p] = None \/ p \in run.replay
                                        \/ proof[p].digest # view[p]}
             gone == {p \in Paths : proof[p] # None /\ view[p] = None}
             opened == [run EXCEPT !.pc = "open", !.seen = view, !.todo = stale, !.dels = gone,
                                   !.attempted = stale \cup gone]
  <1>1. /\ \/ run' = opened /\ UNCHANGED ledger
           \/ run' = Idle("ok") /\ UNCHANGED ledger
           \/ Unwind(FALSE) /\ UNCHANGED ledger
           \/ run.mode # "index" /\ (\A p \in run.replay : proof[p] = None)
              /\ NewGeneration /\ Check
        /\ run.pc = "check" /\ run \in Runs /\ UNCHANGED <<storage, proof>>
    BY <1>0, <1>v DEF Scan, RunInv
  <1>2. stale \subseteq Paths /\ gone \subseteq Paths
    OBVIOUS
  <1>3. run.mode \in {"index", "replay"} /\ run.stage # "stream"
    BY <1>1 DEF RunInv, ModeOK, Working, AtUnit
  <1>4. receipt.muts = {} /\ (IF run.mode = "index" THEN Closed ELSE receipt.state = "reserved")
    BY <1>1 DEF RunInv, StepOK
  <1> HIDE DEF stale, gone
  <1>5. CASE run' = opened /\ UNCHANGED ledger
    <2>1. UNCHANGED <<storage, proof, receipt, gen, units, states, marks, gaps>>
      BY <1>v, <1>5 DEF ledger
    <2>2. LedgerInv'
      BY <2>1, LedgerStays DEF LedgerInv, LedgerType
    <2>3. /\ run' \in Runs /\ run'.pc = "open" /\ run'.mode = run.mode /\ run'.stage = run.stage
          /\ run'.replay = run.replay /\ run'.queue = run.queue
      BY <1>1, <1>2, <1>5, <1>v DEF Runs, PCs
    <2>4. ReplayMarks' = ReplayMarks /\ (Closed' <=> Closed)
      BY <2>1, SameViews
    <2>5. ModeOK'
      BY <1>3, <2>3, <2>4 DEF RunInv, ModeOK, Working, AtUnit
    <2>6. AppliedIsStored' /\ StepOK' /\ UnitOK' /\ ExistingKept'
      BY <1>3, <1>4, <2>1, <2>3, <2>4
         DEF AppliedIsStored, Stored, StepOK, UnitOK, ExistingKept, Working, AtUnit
    <2> QED BY <2>2, <2>3, <2>5, <2>6 DEF RunInv
  <1>6. CASE run' = Idle("ok") /\ UNCHANGED ledger
    <2>1. UNCHANGED <<storage, proof, receipt, gen, units, states, marks, gaps>>
      BY <1>v, <1>6 DEF ledger
    <2>2. LedgerInv'
      BY <2>1, LedgerStays DEF LedgerInv, LedgerType
    <2>3. Stored'
      BY <1>4, <2>1 DEF Stored
    <2> QED BY <1>6, <2>2, <2>3, StoppedRun
  <1>7. CASE Unwind(FALSE) /\ UNCHANGED ledger
    <2>1. Unwind(FALSE) /\ run.pc # "classify" /\ gaps \subseteq gaps'
          /\ UNCHANGED <<storage, proof, ledger>>
      BY <1>1, <1>7, <1>v
    <2> HIDE DEF Unwind
    <2> QED BY <2>1, RaiseKeeps
  <1>8. CASE run.mode # "index" /\ (\A p \in run.replay : proof[p] = None)
             /\ NewGeneration /\ Check
    <2>1. Recorded = {} /\ Touched = {} /\ OpenReceipt /\ run.mode = "replay"
      BY <1>3, <1>4, <1>8 DEF Recorded, Touched, OpenReceipt
    <2>2. storage \subseteq Retained
      BY <2>1 DEF LedgerInv, NoStrays, Uploads, UnitPoints
    <2>3. \A p \in RecoveryPaths : Published(p) = {}
      BY <1>8, <2>1 DEF RecoveryPaths, RunInv, ModeOK, Published
    <2>4. Traced => Retained \subseteq storage
      BY <2>1, <2>3 DEF LedgerInv, Backing, Retained
    <2>5. LedgerInv' /\ Closed' /\ receipt'.muts = {} /\ ReplayMarks' = {}
      BY <1>1, <1>8, <1>v, <2>2, <2>4, NewGenerationKeeps
    <2> QED BY <1>1, <1>8, <2>5, CheckedRun
  <1> QED BY <1>1, <1>5, <1>6, <1>7, <1>8

LEMMA RecordOutcomesKeeps ==
    ASSUME LedgerInv, RunInv, RecordOutcomes PROVE LedgerInv' /\ RunInv'
  <1> DEFINE removed == {u.path : u \in {v \in Recorded : v.kind = "path"}}
             written == {u.path : u \in {v \in Recorded : v.kind = "upsert"}}
  <1>1. /\ \/ /\ units' = units \cup Recorded
              /\ states' = [p \in Paths |-> IF p \in written THEN NewEvidence(p).digest
                                            ELSE IF p \in removed THEN None ELSE states[p]]
              /\ marks' = (marks \ written) \cup removed
              /\ Goto("advance") /\ Same
           \/ ((Goto("advance") /\ Same) \/ Raise({})) /\ UNCHANGED <<units, states, marks>>
        /\ run.pc = "outcomes" /\ run \in Runs /\ UNCHANGED <<storage, proof, receipt, gen>>
    BY DEF RecordOutcomes, RunInv
  <1>2. receipt.state = "sealed" /\ run.mode = "recover" /\ run.stage # "stream"
    BY <1>1 DEF RunInv, StepOK, ModeOK, Working, AtUnit
  <1>3. OpenReceipt /\ Finishable /\ (Traced => Stored)
    BY <1>2 DEF OpenReceipt, LedgerInv, LedgerOK, RunInv, AppliedIsStored
  <1>4. ASSUME Goto("advance"), Same, LedgerInv', Traced' => Stored'
        PROVE  LedgerInv' /\ RunInv'
    <2>1. run' \in Runs /\ run'.pc = "advance" /\ RunGoesOn
      BY <1>1, <1>4, GotoFacts DEF PCs
    <2>2. run'.mode = "recover" /\ run'.stage # "stream"
      BY <1>2, <2>1 DEF RunGoesOn
    <2>3. AppliedIsStored' /\ ModeOK' /\ StepOK' /\ UnitOK' /\ ExistingKept'
      BY <1>1, <1>2, <1>4, <2>1, <2>2
         DEF AppliedIsStored, ModeOK, StepOK, UnitOK, ExistingKept, Working, AtUnit
    <2> QED BY <1>4, <2>1, <2>3 DEF RunInv
  <1>5. CASE /\ units' = units \cup Recorded
             /\ states' = [p \in Paths |-> IF p \in written THEN NewEvidence(p).digest
                                           ELSE IF p \in removed THEN None ELSE states[p]]
             /\ marks' = (marks \ written) \cup removed
             /\ Goto("advance") /\ Same
    <2>1. units' = Recorded /\ Recorded \in SUBSET Units /\ removed \subseteq Paths
      BY <1>5, RecordedFacts DEF LedgerInv, LedgerOK
    <2>2. states' \in [Paths -> Contents \cup {None, "failed", "rejected"}]
      <3>1. ASSUME NEW p \in Paths, p \in written PROVE NewEvidence(p).digest \in Contents
        <4>1. Upserts(Recorded, p) # {}
          BY <3>1 DEF Upserts
        <4> QED BY <4>1, EvidenceFacts DEF LedgerInv
      <3> HIDE DEF written, removed
      <3> QED BY <1>5, <3>1 DEF LedgerInv, LedgerType
    <2>3. ReplayMarks' = {}
      <3>1. ReplayMarks = {}
        BY <1>3 DEF Finishable
      <3> SUFFICES ASSUME NEW p \in marks' PROVE \E u \in units' : u.kind = "path" /\ u.path = p
        BY DEF ReplayMarks, Deleted
      <3>2. CASE p \in removed
        BY <2>1, <3>2
      <3>3. CASE p \notin removed
        <4>1. p \in marks
          BY <1>5, <3>3
        <4> QED BY <1>5, <3>1, <4>1 DEF ReplayMarks, Deleted
      <3> QED BY <3>2, <3>3
    <2>4. UNCHANGED <<storage, proof, receipt, gen, gaps>> /\ Recorded' = Recorded
      BY <1>1, <1>5 DEF Same, Recorded
    <2>5. /\ Touched' = Touched /\ Changed' = Changed /\ Uploads' = Uploads /\ Retained' = Retained
          /\ (Covers(Recorded)' <=> Covers(Recorded))
          /\ \A p \in Paths : /\ CompleteStream(p)' <=> CompleteStream(p)
                              /\ Published(p)' = Published(p)
      BY <2>4, RecordViews
    <2>6. RecoveryPaths' = RecoveryPaths /\ OpenReceipt' /\ ~Closed'
      BY <1>2, <1>3, <2>3, <2>4, <2>5 DEF RecoveryPaths, OpenReceipt, Closed, Finishable
    <2>7. Finishable'
      <3>1. Changed \subseteq Paths
        BY TouchedFacts DEF LedgerInv
      <3> QED BY <1>3, <2>3, <2>4, <2>5, <3>1 DEF Finishable
    <2>8. LedgerType'
      BY <1>5, <2>1, <2>2, <2>4 DEF LedgerInv, LedgerType
    <2>9. LedgerOK'
      BY <1>2, <2>1, <2>4, <2>5, <2>6, <2>7 DEF LedgerInv, LedgerOK, Covers
    <2>10. WholeProof' /\ AppliedIsDeleted'
      BY <2>4 DEF LedgerInv, WholeProof, AppliedIsDeleted, Deletes
    <2>11. UnitsApart'
      <3>1. \A u \in Recorded : u.path \in Paths
        BY RecordedFacts DEF LedgerInv
      <3> QED BY <1>3, <2>4, <2>5, <3>1 DEF LedgerInv, UnitsApart, Deletes
    <2>12. NoStrays'
      BY <2>4, <2>5, <2>6 DEF LedgerInv, NoStrays, UnitPoints
    <2>13. Backing'
      BY <1>3, <2>4, <2>5, <2>6 DEF LedgerInv, Backing, Traced
    <2>14. LedgerInv'
      BY <2>8, <2>9, <2>10, <2>11, <2>12, <2>13 DEF LedgerInv
    <2>15. Traced' => Stored'
      BY <1>3, <2>4 DEF Traced, Stored, Deletes
    <2> QED BY <1>4, <1>5, <2>14, <2>15
  <1>6. CASE Goto("advance") /\ Same /\ UNCHANGED <<units, states, marks>>
    <2>1. UNCHANGED <<storage, proof, receipt, gen, units, states, marks, gaps>>
      BY <1>1, <1>6 DEF Same
    <2>2. LedgerInv'
      BY <2>1, LedgerStays DEF LedgerInv, LedgerType
    <2>3. Traced' => Stored'
      BY <1>3, <2>1 DEF Traced, Stored, Deletes
    <2> QED BY <1>4, <1>6, <2>2, <2>3
  <1>7. CASE Raise({}) /\ UNCHANGED <<units, states, marks>>
    <2>1. Unwind(FALSE) /\ run.pc # "classify" /\ gaps \subseteq gaps'
          /\ UNCHANGED <<storage, proof, ledger>>
      BY <1>1, <1>7 DEF Raise, Met, ledger
    <2> HIDE DEF Unwind
    <2> QED BY <2>1, RaiseKeeps
  <1> QED BY <1>1, <1>5, <1>6, <1>7

----------------------------------------------------------------------------
(* Opening a run, and reading files.                                         *)

LEMMA StreamingKeeps ==
    ASSUME LedgerInv, LedgerInv', run \in Runs, Streaming, UNCHANGED <<storage, proof>>,
           receipt'.muts = {}, run.mode \in {"index", "replay"},
           run.mode = "index" => ReplayMarks' = {},
           run.mode = "replay" => ReplayMarks' \subseteq run.replay,
           Closed' \/ receipt'.state = "reserved"
    PROVE  RunInv'
  <1>1. Of(storage, run.attempted) \in SUBSET AllPoints
    BY DEF Of, LedgerInv, LedgerType
  <1>2. /\ run' \in Runs /\ run'.pc = "stream" /\ run'.stage = "stream" /\ run'.mode = run.mode
        /\ run'.replay = run.replay /\ run'.queue = run.queue /\ run'.attempted = run.attempted
        /\ run'.existing = Of(storage, run.attempted)
    BY <1>1 DEF Streaming, Runs, PCs, Working, Stages
  <1>3. \A p \in Paths : Published(p)' = Published(p)
    BY DEF Published
  <1>4. ExistingKept'
    <2> SUFFICES ASSUME Traced', NEW p \in run.attempted \ RecoveryPaths', NEW x \in Published(p)
                 PROVE  x \in Of(storage, run.attempted)
      <3>1. run.attempted \subseteq Paths
        BY DEF Runs
      <3> QED BY <1>2, <1>3, <3>1 DEF ExistingKept
    <2>1. p \in Paths
      BY DEF Runs
    <2>2. x[1] = p
      BY <2>1, PublishedFacts DEF LedgerInv
    <2>3. x \in storage
      <3>1. CASE OpenReceipt'
        BY <1>3, <2>1, <3>1 DEF LedgerInv, Backing
      <3>2. CASE ~OpenReceipt'
        <4>1. Retained' \subseteq storage' /\ Retained' = Retained
          BY <3>2 DEF LedgerInv, Backing, Retained, Published
        <4> QED BY <2>1, <4>1 DEF Retained
      <3> QED BY <3>1, <3>2
    <2> QED BY <2>2, <2>3 DEF Of
  <1>5. AppliedIsStored' /\ ModeOK' /\ StepOK' /\ UnitOK'
    BY <1>2 DEF AppliedIsStored, Stored, ModeOK, StepOK, UnitOK, Working, AtUnit
  <1> QED BY <1>2, <1>4, <1>5 DEF RunInv

LEMMA OpenFreshKeeps ==
    ASSUME LedgerInv, RunInv, OpenFresh PROVE LedgerInv' /\ RunInv'
  <1>1. /\ receipt' = [state |-> "reserved", muts |-> {}] /\ units' = {} /\ marks' = {}
        /\ states' = Nothing /\ Streaming /\ UNCHANGED <<storage, proof, gaps>>
        /\ gen' = [state |-> "running", phase |-> "ingesting", failures |-> 0]
        /\ run.pc = "open" /\ run.mode = "index" /\ run \in Runs
    BY DEF OpenFresh, NoGen, Same, RunInv
  <1>2. Closed
    BY <1>1 DEF RunInv, StepOK
  <1>3. storage \subseteq Retained /\ (Traced => Retained \subseteq storage)
    BY <1>2, NothingHidden
  <1>4. /\ Recorded' = {} /\ ReplayMarks' = {} /\ OpenReceipt' /\ ~Closed' /\ receipt'.muts = {}
        /\ receipt'.state = "reserved"
    BY <1>1 DEF Recorded, ReplayMarks, OpenReceipt, Closed
  <1>5. Retained' = Retained /\ \A p \in Paths : Published(p)' = Published(p)
    BY <1>1 DEF Retained, Published
  <1>6. LedgerInv'
    <2>1. LedgerType'
      BY <1>1 DEF LedgerInv, LedgerType, Nothing
    <2>2. LedgerOK'
      BY <1>1, <1>4 DEF LedgerOK
    <2>3. WholeProof'
      BY <1>1 DEF LedgerInv, WholeProof
    <2>4. UnitsApart' /\ AppliedIsDeleted'
      BY <1>4 DEF UnitsApart, AppliedIsDeleted
    <2>5. NoStrays'
      BY <1>1, <1>3, <1>4, <1>5 DEF NoStrays
    <2>6. Backing'
      BY <1>1, <1>3, <1>4, <1>5 DEF Backing, Traced, Retained
    <2> QED BY <2>1, <2>2, <2>3, <2>4, <2>5, <2>6 DEF LedgerInv
  <1> QED BY <1>1, <1>4, <1>6, StreamingKeeps

LEMMA OpenResumedKeeps ==
    ASSUME LedgerInv, RunInv, OpenResumed PROVE LedgerInv' /\ RunInv'
  <1>1. /\ gen' = [gen EXCEPT !.state = "running"] /\ run.pc = "open" /\ run \in Runs
        /\ \/ Streaming
           \/ /\ gen.phase # "ingesting" /\ gaps' = gaps \cup {"skipped"}
              /\ run' = [run EXCEPT !.pc = "commit", !.stage = "seal"]
        /\ UNCHANGED <<storage, proof, receipt, units, states, marks>>
        /\ gaps \subseteq gaps'
    BY DEF OpenResumed, Same, Met, RunInv
  <1>2. /\ gen' \in [state : {"none", "running", "failed"}, phase : {"ingesting", "reconciled"},
                     failures : Nat]
        /\ gen'.phase = gen.phase
    BY <1>1 DEF LedgerInv, LedgerType
  <1>3. LedgerInv'
    BY <1>1, <1>2, LedgerStays
  <1>4. /\ receipt.muts = {} /\ (IF run.mode = "index" THEN Closed ELSE receipt.state = "reserved")
        /\ run.mode \in {"index", "replay"} /\ run.stage # "stream"
    BY <1>1 DEF RunInv, StepOK, ModeOK, Working, AtUnit
  <1>5. ReplayMarks' = ReplayMarks /\ (Closed' <=> Closed)
    BY <1>1, SameViews
  <1>6. CASE Streaming
    <2>1. /\ run.mode = "index" => ReplayMarks' = {}
          /\ run.mode = "replay" => ReplayMarks' \subseteq run.replay
      BY <1>5 DEF RunInv, ModeOK
    <2> HIDE DEF Streaming
    <2> QED BY <1>1, <1>3, <1>4, <1>5, <1>6, <2>1, StreamingKeeps
  <1>7. CASE /\ gen.phase # "ingesting" /\ gaps' = gaps \cup {"skipped"}
             /\ run' = [run EXCEPT !.pc = "commit", !.stage = "seal"]
    <2>1. Closed
      BY <1>4, <1>7 DEF LedgerInv, LedgerOK, OpenReceipt
    <2>2. /\ run' \in Runs /\ run'.pc = "commit" /\ run'.stage = "seal" /\ run'.mode = run.mode
          /\ run'.replay = run.replay
      BY <1>1, <1>7 DEF Runs, PCs, Stages
    <2>3. AppliedIsStored'
      BY <1>1, <1>4 DEF AppliedIsStored, Stored
    <2>4. ModeOK'
      BY <1>5, <2>2 DEF RunInv, ModeOK, Working, AtUnit
    <2>5. StepOK' /\ UnitOK' /\ ExistingKept'
      BY <1>5, <2>1, <2>2 DEF StepOK, UnitOK, ExistingKept, Working, AtUnit
    <2> QED BY <1>3, <2>2, <2>3, <2>4, <2>5 DEF RunInv
  <1> QED BY <1>1, <1>6, <1>7

\* A file that ends with nothing to publish, or that cannot be read, loses its marker.
LEMMA UnmarkKeeps ==
    ASSUME LedgerInv, RunInv, run.pc = "stream", NEW p \in Paths, marks' = marks \ {p},
           states' \in [Paths -> Contents \cup {None, "failed", "rejected"}],
           UNCHANGED <<storage, proof, receipt, gen, units>>, gaps \subseteq gaps',
           Traced' => proof[p] = None \/ p \notin run.replay
    PROVE  /\ LedgerInv' /\ ReplayMarks' \subseteq ReplayMarks /\ (Traced' => Stored')
           /\ Traced' => \A q \in run.attempted \ RecoveryPaths' : Published(q)' \subseteq run.existing
           /\ (Closed' <=> Closed)
  <1>1. run.mode \in {"index", "replay"} /\ (Closed \/ receipt.state = "reserved") /\ run \in Runs
    BY DEF RunInv, StepOK, ModeOK, Working, AtUnit
  <1>2. Recorded' = Recorded /\ (OpenReceipt' <=> OpenReceipt) /\ (Closed' <=> Closed)
        /\ (Traced' => Traced)
    BY DEF Recorded, OpenReceipt, Closed, Traced
  <1>3. /\ Touched' = Touched /\ Changed' = Changed /\ Uploads' = Uploads /\ Retained' = Retained
        /\ \A q \in Paths : Published(q)' = Published(q)
    BY <1>2, RecordViews
  <1>4. ReplayMarks' = ReplayMarks \ {p} /\ RecoveryPaths \subseteq RecoveryPaths' \cup {p}
    BY <1>3 DEF ReplayMarks, Deleted, RecoveryPaths
  <1>5. ReplayMarks \subseteq run.replay
    BY <1>1 DEF RunInv, ModeOK
  <1>6. ASSUME Traced', p \in RecoveryPaths, p \notin RecoveryPaths'
        PROVE  Published(p) = {}
    <2>1. p \in ReplayMarks
      BY <1>3, <1>6 DEF RecoveryPaths
    <2> QED BY <1>5, <1>6, <2>1 DEF Published
  <1>7. LedgerInv'
    <2>1. LedgerType'
      BY DEF LedgerInv, LedgerType
    <2>2. LedgerOK'
      BY <1>1, <1>2, <1>4 DEF LedgerInv, LedgerOK, Closed
    <2>3. WholeProof' /\ AppliedIsDeleted'
      BY DEF LedgerInv, WholeProof, AppliedIsDeleted, Deletes
    <2>4. UnitsApart'
      <3>1. \A u \in Recorded : u.path \in Paths
        BY RecordedFacts DEF LedgerInv
      <3> QED BY <1>2, <1>3, <3>1 DEF LedgerInv, UnitsApart, Deletes
    <2>5. NoStrays'
      BY <1>2, <1>3 DEF LedgerInv, NoStrays, UnitPoints
    <2>6. Backing'
      BY <1>2, <1>3, <1>4, <1>6 DEF LedgerInv, Backing
    <2> QED BY <2>1, <2>2, <2>3, <2>4, <2>5, <2>6 DEF LedgerInv
  <1>8. Traced' => Stored'
    <2>1. Closed => receipt.muts = {}
      BY DEF LedgerInv, LedgerOK
    <2>2. Traced => Stored
      BY <1>1, <2>1 DEF RunInv, AppliedIsStored, Working, Stored, OpenReceipt
    <2> QED BY <1>2, <2>2 DEF Stored, Deletes
  <1>9. Traced' => \A q \in run.attempted \ RecoveryPaths' : Published(q)' \subseteq run.existing
    <2>1. run.attempted \subseteq Paths /\ run.stage = "stream"
      BY <1>1 DEF Runs, RunInv, ModeOK
    <2> QED BY <1>2, <1>3, <1>4, <1>6, <2>1 DEF RunInv, ExistingKept
  <1> QED BY <1>2, <1>4, <1>7, <1>8, <1>9

LEMMA ReadSourceKeeps ==
    ASSUME SourceType, LedgerInv, RunInv, NEW p \in Paths, ReadSource(p)
    PROVE  LedgerInv' /\ RunInv'
  <1> DEFINE c == source[p]
             segments == IF c = None THEN <<>> ELSE Segments(p, c)
             pc == IF segments = <<>> THEN "stream" ELSE "prepare"
             next == [run EXCEPT !.todo = @ \ {p}, !.seen[p] = c, !.queue = segments, !.pc = pc]
  <1>1. /\ run' = next /\ run.pc = "stream" /\ run \in Runs
        /\ \/ segments # <<>> /\ Same /\ UNCHANGED <<states, marks>>
           \/ /\ segments = <<>> /\ marks' = marks \ {p}
              /\ states' = [states EXCEPT ![p] = IF c = None THEN None ELSE "rejected"]
              /\ gaps' = gaps \cup Lost(p, c)
        /\ UNCHANGED <<storage, proof, receipt, gen, units>>
    BY DEF ReadSource, Met, RunInv
  <1>2. c \in Contents \cup {None}
    BY DEF SourceType
  <1>3. segments \in Seq(Units)
    BY <1>2, SegmentsFacts
  <1> HIDE DEF c, segments
  <1>4. /\ run' \in Runs /\ run'.pc = pc /\ run'.queue = segments /\ run'.mode = run.mode
        /\ run'.stage = run.stage /\ run'.replay = run.replay /\ run'.attempted = run.attempted
        /\ run'.existing = run.existing
    BY <1>1, <1>2, <1>3 DEF Runs, PCs, Working, AtUnit
  <1>5. run.mode \in {"index", "replay"} /\ run.stage = "stream"
        /\ (Closed \/ receipt.state = "reserved")
    BY <1>1 DEF RunInv, StepOK, ModeOK, Working, AtUnit
  <1>6. \A m \in receipt.muts : Deletes(m.unit) \/ m.st # "prepared"
    BY <1>1 DEF RunInv, UnitOK, Working
  <1>7. ASSUME LedgerInv', ReplayMarks' \subseteq ReplayMarks, Traced' => Stored', Closed' <=> Closed,
               Traced' => \A q \in run.attempted \ RecoveryPaths' : Published(q)' \subseteq run.existing
        PROVE  LedgerInv' /\ RunInv'
    <2>1. AppliedIsStored' /\ ExistingKept'
      BY <1>4, <1>7 DEF AppliedIsStored, ExistingKept
    <2>2. ModeOK'
      BY <1>1, <1>4, <1>5, <1>7 DEF RunInv, ModeOK, Working, AtUnit
    <2>3. StepOK'
      BY <1>1, <1>4, <1>5, <1>7 DEF StepOK, Working, AtUnit
    <2>4. UnitOK'
      BY <1>1, <1>4, <1>5, <1>6 DEF UnitOK, Working, AtUnit, Deletes
    <2> QED BY <1>4, <1>7, <2>1, <2>2, <2>3, <2>4 DEF RunInv
  <1>8. CASE segments # <<>> /\ Same /\ UNCHANGED <<states, marks>>
    <2>1. UNCHANGED <<storage, proof, receipt, gen, units, states, marks, gaps>>
      BY <1>1, <1>8 DEF Same
    <2>2. LedgerInv'
      BY <2>1, LedgerStays DEF LedgerInv, LedgerType
    <2>3. /\ ReplayMarks' = ReplayMarks /\ (Closed' <=> Closed) /\ RecoveryPaths' = RecoveryPaths
          /\ \A q \in Paths : Published(q)' = Published(q)
      BY <2>1, SameViews
    <2>4. Traced' => Stored'
      <3>1. Closed => receipt.muts = {}
        BY DEF LedgerInv, LedgerOK
      <3>2. Traced => Stored
        BY <1>1, <1>5, <3>1 DEF RunInv, AppliedIsStored, Working, Stored, OpenReceipt
      <3> QED BY <2>1, <3>2 DEF Traced, Stored, Deletes
    <2>5. run.attempted \subseteq Paths
      BY <1>1 DEF Runs
    <2>6. Traced' => \A q \in run.attempted \ RecoveryPaths' : Published(q)' \subseteq run.existing
      BY <1>5, <2>1, <2>3, <2>5 DEF RunInv, ExistingKept, Traced
    <2> QED BY <1>7, <2>2, <2>3, <2>4, <2>6
  <1>9. CASE /\ segments = <<>> /\ marks' = marks \ {p}
             /\ states' = [states EXCEPT ![p] = IF c = None THEN None ELSE "rejected"]
             /\ gaps' = gaps \cup Lost(p, c)
    <2>1. states' \in [Paths -> Contents \cup {None, "failed", "rejected"}]
      BY <1>9 DEF LedgerInv, LedgerType
    <2>2. Traced' => proof[p] = None \/ p \notin run.replay
      BY <1>9 DEF Traced, Lost
    <2>3. /\ LedgerInv' /\ ReplayMarks' \subseteq ReplayMarks /\ (Traced' => Stored')
          /\ Traced' => \A q \in run.attempted \ RecoveryPaths' : Published(q)' \subseteq run.existing
          /\ (Closed' <=> Closed)
      BY <1>1, <1>9, <2>1, <2>2, UnmarkKeeps
    <2> QED BY <1>7, <2>3
  <1> QED BY <1>1, <1>8, <1>9

LEMMA UnreadableKeeps ==
    ASSUME LedgerInv, RunInv, NEW p \in Paths, Unreadable(p)
    PROVE  LedgerInv' /\ RunInv'
  <1>1. /\ run.pc = "stream" /\ run \in Runs /\ marks' = marks \ {p} /\ Unwind(TRUE)
        /\ states' = [states EXCEPT ![p] = "failed"]
        /\ gaps' = gaps \cup (IF p \in run.replay /\ proof[p] # None THEN {"unmarked"} ELSE {})
        /\ UNCHANGED <<storage, proof, receipt, gen, units>>
    BY DEF Unreadable, Met, RunInv
  <1>2. states' \in [Paths -> Contents \cup {None, "failed", "rejected"}]
    BY <1>1 DEF LedgerInv, LedgerType
  <1>3. Traced' => proof[p] = None \/ p \notin run.replay
    BY <1>1 DEF Traced
  <1> HIDE DEF Unwind
  <1>4. /\ LedgerInv' /\ ReplayMarks' \subseteq ReplayMarks /\ (Traced' => Stored')
        /\ Traced' => \A q \in run.attempted \ RecoveryPaths' : Published(q)' \subseteq run.existing
    BY <1>1, <1>2, <1>3, UnmarkKeeps
  <1>5. /\ run.mode = "index" => ReplayMarks' = {}
        /\ run.mode = "replay" => ReplayMarks' \subseteq run.replay
    BY <1>4 DEF RunInv, ModeOK
  <1> QED BY <1>1, <1>4, <1>5, RaisedRun

LEMMA DeleteObsoleteKeeps ==
    ASSUME LedgerInv, RunInv, DeleteObsolete PROVE LedgerInv' /\ RunInv'
  <1> DEFINE prior(p) == Of(run.existing, {p}) \cup Published(p)
             kind(p) == IF p \in run.dels THEN "path" ELSE "stale"
             obsolete(p) == prior(p) \ UnitPoints(Upserts(units, p))
             due == {p \in run.attempted : obsolete(p) # {}
                         /\ ~\E u \in units : u.path = p /\ u.kind = kind(p)}
             D == {Deletion(p, kind(p), obsolete(p)) : p \in due}
             pc == IF SetToSeq(D) = <<>> THEN "seal" ELSE "prepare"
  <1>1. /\ run' = [run EXCEPT !.stage = "seal", !.queue = SetToSeq(D), !.pc = pc]
        /\ run.pc = "stream" /\ run \in Runs
        /\ UNCHANGED <<storage, proof, receipt, gen, units, states, marks, gaps>>
    BY DEF DeleteObsolete, Same, ledger, RunInv
  <1>2. due \subseteq Paths
    BY <1>1 DEF Runs
  <1>3. \A p \in Paths : kind(p) \in {"path", "stale"} /\ obsolete(p) \in SUBSET ({p} \X Chunks)
    <2> SUFFICES ASSUME NEW p \in Paths
                 PROVE  prior(p) \in SUBSET ({p} \X Chunks)
      OBVIOUS
    <2>1. run.existing \in SUBSET AllPoints
      BY <1>1 DEF Runs
    <2>2. Of(run.existing, {p}) \in SUBSET ({p} \X Chunks)
      BY <2>1 DEF Of, AllPoints
    <2> QED BY <2>2, PublishedFacts DEF LedgerInv
  <1> HIDE DEF due, kind, obsolete
  <1>4. D \in SUBSET Units /\ (\A d \in D : Deletes(d)) /\ \A d, e \in D : d.path = e.path => d = e
    <2>1. \A p \in due : /\ Deletion(p, kind(p), obsolete(p)) \in Units
                         /\ Deletes(Deletion(p, kind(p), obsolete(p)))
                         /\ Deletion(p, kind(p), obsolete(p)).path = p
      BY <1>2, <1>3, DeletionIsUnit
    <2> QED BY <2>1
  <1>5. /\ SetToSeq(D) \in Seq(Units)
        /\ \A i \in 1 .. Len(SetToSeq(D)) : Deletes(SetToSeq(D)[i])
    <2>1. IsFiniteSet(D)
      BY <1>4, FewUnits
    <2> HIDE DEF D
    <2>2. /\ SetToSeq(D) \in Seq(Units)
          /\ \A i \in 1 .. Len(SetToSeq(D)) : SetToSeq(D)[i] \in D
      BY <1>4, <2>1, Listed
    <2> QED BY <1>4, <2>2
  <1> HIDE DEF D
  <1>6. LedgerInv'
    BY <1>1, LedgerStays DEF LedgerInv, LedgerType
  <1>7. /\ run' \in Runs /\ run'.stage = "seal" /\ run'.queue = SetToSeq(D) /\ run'.pc = pc
        /\ run'.mode = run.mode /\ run'.replay = run.replay
    BY <1>1, <1>5 DEF Runs, PCs, Working, AtUnit, Stages
  <1>8. ReplayMarks' = ReplayMarks /\ (OpenReceipt' <=> OpenReceipt) /\ (Closed' <=> Closed)
    BY <1>1, SameViews
  <1>9. run.mode \in {"index", "replay"} /\ (Closed \/ receipt.state = "reserved")
    BY <1>1 DEF RunInv, StepOK, ModeOK, Working, AtUnit
  <1>10. AppliedIsStored'
    BY <1>1, <1>8 DEF RunInv, AppliedIsStored, Stored, Deletes, Traced, Working
  <1>11. ModeOK'
    BY <1>1, <1>7, <1>8 DEF RunInv, ModeOK, Working, AtUnit
  <1>12. StepOK' /\ ExistingKept'
    BY <1>1, <1>7, <1>8, <1>9 DEF StepOK, ExistingKept, Working, AtUnit
  <1>13. UnitOK'
    <2>1. \A m \in receipt.muts : Deletes(m.unit) \/ m.st # "prepared"
      BY <1>1 DEF RunInv, UnitOK, Working
    <2> QED BY <1>1, <1>5, <1>7, <2>1 DEF UnitOK, Deletes, AtUnit
  <1> QED BY <1>6, <1>7, <1>10, <1>11, <1>12, <1>13 DEF RunInv

----------------------------------------------------------------------------
(* One mutation.                                                             *)

\* The unit in hand.
LEMMA UnitInHand ==
    ASSUME LedgerInv, RunInv, run.pc \in AtUnit
    PROVE  /\ run \in Runs /\ Unit \in Units /\ run.queue # <<>> /\ run.stage # "none"
           /\ run.mode \in {"index", "replay", "recover"}
           /\ run.stage # "forward" => run.mode # "recover" /\ (Closed \/ receipt.state = "reserved")
           /\ run.stage = "forward" => run.mode = "recover" /\ OpenReceipt /\ Finishable
           /\ run.stage \in {"seal", "forward"} => Deletes(Unit)
           /\ Unit \in Recorded => OpenReceipt
           /\ Traced => Stored
           /\ \A m \in receipt.muts : ~Deletes(m.unit) /\ m.st = "prepared" =>
                  run.pc \in {"write", "applied"} /\ m.unit = Unit
  <1>1. run \in Runs /\ run.queue # <<>> /\ run.stage # "none"
    BY DEF RunInv, UnitOK, ModeOK
  <1>2. run.queue \in Seq(Units)
    BY <1>1 DEF Runs
  <1>3. 1 \in 1 .. Len(run.queue) /\ Unit = run.queue[1] /\ Unit \in Units
    BY <1>1, <1>2 DEF Unit
  <1>4. /\ run.stage # "forward" => /\ run.mode \in {"index", "replay"}
                                    /\ Closed \/ receipt.state = "reserved"
        /\ run.stage = "forward" => run.mode = "recover" /\ OpenReceipt /\ Finishable
    BY DEF RunInv, StepOK, Working
  <1>5. run.stage \in {"seal", "forward"} => Deletes(Unit)
    BY <1>3 DEF RunInv, UnitOK
  <1>6. Closed => receipt.muts = {}
    BY DEF LedgerInv, LedgerOK
  <1>7. Unit \in Recorded => OpenReceipt
    BY <1>4, <1>6 DEF Recorded, OpenReceipt
  <1>8. Traced => Stored
    BY <1>4, <1>6 DEF RunInv, AppliedIsStored, Working, Stored, OpenReceipt
  <1>9. \A m \in receipt.muts : ~Deletes(m.unit) /\ m.st = "prepared" =>
            run.pc \in {"write", "applied"} /\ m.unit = Unit
    BY DEF RunInv, UnitOK, Working
  <1> QED BY <1>1, <1>3, <1>4, <1>5, <1>7, <1>8, <1>9

\* A run that goes on with its unit.
LEMMA UnitRun ==
    ASSUME LedgerInv, RunInv, run.pc \in AtUnit, NEW pc \in AtUnit, Goto(pc),
           UNCHANGED <<proof, units, marks, gaps>>, receipt'.state = receipt.state,
           Recorded \subseteq Recorded', Traced => Stored',
           run.stage = "forward" => Finishable',
           pc \in {"write", "applied", "confirm", "record"} => Unit \in Recorded',
           pc \in {"applied", "confirm"} /\ Deletes(Unit) => Unit.points \cap storage' = {},
           pc \in {"applied", "confirm"} /\ Traced /\ ~Deletes(Unit) => Unit.points \subseteq storage',
           \A m \in receipt'.muts : ~Deletes(m.unit) /\ m.st = "prepared" =>
               pc \in {"write", "applied"} /\ m.unit = Unit
    PROVE  RunInv'
  <1>1. /\ run \in Runs /\ run.stage # "none"
        /\ run.stage # "forward" => run.mode # "recover" /\ (Closed \/ receipt.state = "reserved")
        /\ run.stage = "forward" => run.mode = "recover" /\ OpenReceipt
        /\ run.mode \in {"index", "replay", "recover"} /\ run.queue # <<>>
    BY UnitInHand
  <1>2. pc \in PCs
    BY DEF PCs, Working
  <1>3. run' \in Runs /\ run'.pc = pc /\ RunGoesOn
    BY <1>1, <1>2, GotoFacts
  <1>4. /\ run'.mode = run.mode /\ run'.stage = run.stage /\ run'.replay = run.replay
        /\ run'.attempted = run.attempted /\ run'.existing = run.existing
        /\ run'.queue = run.queue
    BY <1>3 DEF RunGoesOn
  <1>5. /\ ReplayMarks' = ReplayMarks /\ Touched \subseteq Touched' /\ (OpenReceipt' <=> OpenReceipt)
        /\ (Closed' <=> Closed) /\ (Traced' <=> Traced) /\ \A p \in Paths : Published(p)' = Published(p)
    BY DEF ReplayMarks, Deleted, Touched, OpenReceipt, Closed, Traced, Published
  <1>6. AppliedIsStored'
    BY <1>5 DEF AppliedIsStored
  <1>7. ModeOK'
    BY <1>1, <1>3, <1>4, <1>5 DEF RunInv, ModeOK, Working, AtUnit
  <1>8. StepOK'
    BY <1>1, <1>3, <1>4, <1>5 DEF StepOK, Working, AtUnit
  <1>9. UnitOK'
    <2>1. Unit' = Unit
      BY <1>4 DEF Unit
    <2>2. run.stage \in {"seal", "forward"} => \A i \in 1 .. Len(run.queue) : Deletes(run.queue[i])
      BY DEF RunInv, UnitOK
    <2> QED BY <1>1, <1>3, <1>4, <1>5, <2>1, <2>2 DEF UnitOK, Deletes
  <1>10. ExistingKept'
    <2>1. run.attempted \subseteq Paths /\ RecoveryPaths \subseteq RecoveryPaths'
      BY <1>1, <1>5 DEF Runs, RecoveryPaths
    <2> QED BY <1>4, <1>5, <2>1 DEF RunInv, ExistingKept
  <1> QED BY <1>3, <1>6, <1>7, <1>8, <1>9, <1>10 DEF RunInv

LEMMA AdvancedFacts ==
    ASSUME LedgerType, Unit \in Units, NEW st \in {"prepared", "applied", "confirmed"},
           receipt' = Advanced(st)
    PROVE  /\ receipt' \in [state : {"none", "reserved", "sealed", "committed", "rolledback"},
                            muts : SUBSET Mutations]
           /\ receipt'.state = receipt.state /\ Recorded' = Recorded \cup {Unit}
           /\ \A n \in receipt'.muts : \/ n \in receipt.muts /\ n.unit # Unit
                                       \/ n.unit = Unit /\ n.st = st
  <1> DEFINE kept == {m \in receipt.muts : m.unit # Unit}
  <1>1. receipt' = [receipt EXCEPT !.muts = kept \cup {OfUnit(st)}]
    BY DEF Advanced
  <1>2. OfUnit(st) \in Mutations /\ OfUnit(st).unit = Unit /\ OfUnit(st).st = st
    BY DEF OfUnit, Mutations
  <1>3. kept \cup {OfUnit(st)} \in SUBSET Mutations
    BY <1>2 DEF LedgerType
  <1>4. /\ receipt'.muts = kept \cup {OfUnit(st)} /\ receipt'.state = receipt.state
        /\ receipt' \in [state : {"none", "reserved", "sealed", "committed", "rolledback"},
                         muts : SUBSET Mutations]
    BY <1>1, <1>3 DEF LedgerType
  <1>5. Recorded' = {n.unit : n \in receipt'.muts}
    BY DEF Recorded
  <1>6. Recorded' = Recorded \cup {Unit}
    BY <1>2, <1>4, <1>5 DEF Recorded
  <1> QED BY <1>2, <1>4, <1>6

\* A deletion more does not change what a recovery can finish.
LEMMA FinishableKept ==
    ASSUME LedgerType, Finishable, UNCHANGED <<proof, units, marks>>, Deletes(Unit),
           Recorded' = Recorded \cup {Unit},
           \A n \in receipt'.muts : n.unit.kind = "upsert" => n.st # "prepared"
    PROVE  Finishable'
  <1>1. \A p : Upserts(Recorded', p) = Upserts(Recorded, p)
    BY DEF Upserts, Deletes
  <1>2. \A p : /\ NewEvidence(p)' = NewEvidence(p)
               /\ CompleteStream(p)' <=> CompleteStream(p)
    BY <1>1 DEF NewEvidence, CompleteStream
  <1>3. Touched \subseteq Touched' /\ ReplayMarks' = ReplayMarks
    BY DEF Touched, ReplayMarks, Deleted
  <1>4. Changed \subseteq Changed'
    BY <1>2, <1>3 DEF Changed
  <1>5. ASSUME NEW p \in Changed' PROVE CompleteStream(p)
    <2>1. CASE p \in Touched
      BY <1>2, <1>5, <2>1 DEF Changed, Finishable
    <2>2. CASE p \notin Touched
      BY <2>2 DEF Touched, NewEvidence, Upserts, CompleteStream
    <2> QED BY <2>1, <2>2
  <1> QED BY <1>2, <1>3, <1>4, <1>5 DEF Finishable

\* What storage holds is noted: the unit was applied, or is confirmed.
LEMMA NotedKeeps ==
    ASSUME LedgerInv, RunInv, run.pc \in {"prepare", "applied", "confirm"}, Unit \in Recorded,
           NEW st \in {"applied", "confirmed"}, receipt' = Advanced(st),
           NEW pc \in {"confirm", "record"}, Goto(pc),
           UNCHANGED <<storage, proof, gen, units, states, marks, gaps>>,
           Deletes(Unit) => Unit.points \cap storage = {},
           Traced /\ ~Deletes(Unit) => Unit.points \subseteq storage
    PROVE  LedgerInv' /\ RunInv'
  <1>1. /\ run \in Runs /\ Unit \in Units /\ OpenReceipt /\ (Traced => Stored)
        /\ run.stage = "forward" => Finishable
        /\ \A m \in receipt.muts : ~Deletes(m.unit) /\ m.st = "prepared" => m.unit = Unit
    BY UnitInHand DEF AtUnit
  <1>2. /\ receipt' \in [state : {"none", "reserved", "sealed", "committed", "rolledback"},
                         muts : SUBSET Mutations]
        /\ receipt'.state = receipt.state /\ Recorded' = Recorded \cup {Unit}
        /\ \A n \in receipt'.muts : \/ n \in receipt.muts /\ n.unit # Unit
                                    \/ n.unit = Unit /\ n.st = st
    BY <1>1, AdvancedFacts DEF LedgerInv
  <1>3. Recorded' = Recorded /\ \A n \in receipt'.muts : ~Deletes(n.unit) => n.st # "prepared"
    BY <1>1, <1>2
  <1>4. /\ Touched' = Touched /\ Changed' = Changed /\ Uploads' = Uploads /\ Retained' = Retained
        /\ (Covers(Recorded)' <=> Covers(Recorded))
        /\ \A p \in Paths : /\ CompleteStream(p)' <=> CompleteStream(p)
                            /\ Published(p)' = Published(p)
    BY <1>3, RecordViews
  <1>5. ReplayMarks' = ReplayMarks /\ RecoveryPaths' = RecoveryPaths /\ OpenReceipt' /\ ~Closed'
    BY <1>1, <1>2, <1>4 DEF ReplayMarks, Deleted, RecoveryPaths, OpenReceipt, Closed
  <1>6. Finishable => Finishable'
    <2>1. Changed \subseteq Paths
      BY TouchedFacts DEF LedgerInv
    <2> QED BY <1>3, <1>4, <1>5, <2>1 DEF Finishable, Deletes
  <1>7. Traced => Stored'
    BY <1>1, <1>2 DEF Stored, Deletes
  <1>8. LedgerInv'
    <2>1. LedgerType'
      BY <1>2 DEF LedgerInv, LedgerType
    <2>2. LedgerOK'
      BY <1>2, <1>3, <1>4, <1>5, <1>6 DEF LedgerInv, LedgerOK, OpenReceipt, Covers
    <2>3. WholeProof'
      BY DEF LedgerInv, WholeProof
    <2>4. UnitsApart'
      <3>1. \A u \in Recorded : u.path \in Paths
        BY RecordedFacts DEF LedgerInv
      <3> QED BY <1>1, <1>3, <1>4, <3>1 DEF LedgerInv, UnitsApart, Deletes
    <2>5. AppliedIsDeleted'
      BY <1>2 DEF LedgerInv, AppliedIsDeleted, Deletes
    <2>6. NoStrays'
      BY <1>4, <1>5 DEF LedgerInv, NoStrays, UnitPoints
    <2>7. Backing'
      BY <1>1, <1>4, <1>5 DEF LedgerInv, Backing, Traced
    <2> QED BY <2>1, <2>2, <2>3, <2>4, <2>5, <2>6, <2>7 DEF LedgerInv
  <1>9. RunInv'
    <2>1. pc \in AtUnit /\ run.pc \in AtUnit
      BY DEF AtUnit
    <2>2. Traced /\ ~Deletes(Unit) => Unit.points \subseteq storage'
      OBVIOUS
    <2>3. Deletes(Unit) => Unit.points \cap storage' = {}
      OBVIOUS
    <2>4. \A n \in receipt'.muts : ~Deletes(n.unit) /\ n.st = "prepared" =>
              pc \in {"write", "applied"} /\ n.unit = Unit
      BY <1>3
    <2>5. run.stage = "forward" => Finishable'
      BY <1>1, <1>6
    <2> QED BY <1>2, <1>3, <1>7, <2>1, <2>2, <2>3, <2>4, <2>5, UnitRun
  <1> QED BY <1>8, <1>9

LEMMA MarkAppliedKeeps ==
    ASSUME LedgerInv, RunInv, MarkApplied PROVE LedgerInv' /\ RunInv'
  <1>1. /\ run.pc = "applied" /\ receipt' = Advanced("applied") /\ Goto("confirm")
        /\ UNCHANGED <<storage, proof, gen, units, states, marks, gaps>>
    BY DEF MarkApplied, Same
  <1>2. /\ Unit \in Recorded /\ (Deletes(Unit) => Unit.points \cap storage = {})
        /\ (Traced /\ ~Deletes(Unit) => Unit.points \subseteq storage)
    BY <1>1 DEF RunInv, UnitOK
  <1> QED BY <1>1, <1>2, NotedKeeps

LEMMA ConfirmKeeps ==
    ASSUME LedgerInv, RunInv, Confirm PROVE LedgerInv' /\ RunInv'
  <1>1. /\ run.pc = "confirm" /\ receipt' = Advanced("confirmed") /\ Goto("record")
        /\ UNCHANGED <<storage, proof, gen, units, states, marks, gaps>>
    BY DEF Confirm, Same
  <1>2. /\ Unit \in Recorded /\ (Deletes(Unit) => Unit.points \cap storage = {})
        /\ (Traced /\ ~Deletes(Unit) => Unit.points \subseteq storage)
    BY <1>1 DEF RunInv, UnitOK
  <1> QED BY <1>1, <1>2, NotedKeeps

LEMMA PrepareKeeps ==
    ASSUME LedgerInv, RunInv, Prepare PROVE LedgerInv' /\ RunInv'
  <1>1. /\ \/ Unit \notin Recorded /\ Preparable
              /\ receipt' = Advanced("prepared") /\ Goto("write") /\ Same
           \/ Raise(IF receipt.state = "rolledback" THEN {"closed"} ELSE {}) /\ UNCHANGED receipt
           \/ OfUnit("prepared") \in receipt.muts
              /\ Goto("write") /\ Same /\ UNCHANGED receipt
           \/ {OfUnit("applied"), OfUnit("confirmed")} \cap receipt.muts # {}
              /\ receipt' = Advanced("confirmed") /\ Goto("record") /\ Same
        /\ run.pc = "prepare" /\ UNCHANGED <<storage, proof, gen, units, states, marks>>
    BY DEF Prepare
  <1>2. /\ run \in Runs /\ Unit \in Units /\ (Traced => Stored)
        /\ run.stage = "forward" => Finishable /\ Deletes(Unit)
        /\ \A m \in receipt.muts : ~Deletes(m.unit) => m.st # "prepared"
    BY <1>1, UnitInHand DEF AtUnit
  <1>3. "write" \in AtUnit /\ run.pc \in AtUnit
    BY <1>1 DEF AtUnit
  <1>4. CASE Unit \notin Recorded /\ Preparable
             /\ receipt' = Advanced("prepared") /\ Goto("write") /\ Same
    <2>1. /\ receipt.state = "reserved" /\ gen.phase = "ingesting"
          /\ Deletes(Unit) => Unit.points \subseteq Published(Unit.path)
          /\ \A u \in Recorded : u.points \cap Unit.points = {}
      BY <1>4 DEF Preparable, Deletes
    <2>2. /\ receipt' \in [state : {"none", "reserved", "sealed", "committed", "rolledback"},
                           muts : SUBSET Mutations]
          /\ receipt'.state = "reserved" /\ Recorded' = Recorded \cup {Unit}
          /\ \A n \in receipt'.muts : \/ n \in receipt.muts /\ n.unit # Unit
                                      \/ n.unit = Unit /\ n.st = "prepared"
      BY <1>2, <1>4, <2>1, AdvancedFacts DEF LedgerInv
    <2>3. UNCHANGED <<storage, proof, gen, units, states, marks, gaps>>
      BY <1>1, <1>4 DEF Same
    <2>4. /\ OpenReceipt /\ OpenReceipt' /\ ~Closed' /\ Uploads \subseteq Uploads'
          /\ Retained' = Retained /\ ReplayMarks' = ReplayMarks /\ Touched \subseteq Touched'
          /\ \A p : Published(p)' = Published(p)
      BY <2>1, <2>2, <2>3
         DEF OpenReceipt, Closed, Uploads, Deletes, Retained, Published, ReplayMarks, Deleted, Touched
    <2>5. RecoveryPaths \subseteq RecoveryPaths' /\ UnitPoints(Uploads) \subseteq UnitPoints(Uploads)'
      BY <2>4 DEF RecoveryPaths, UnitPoints
    <2>6. Traced => Stored'
      BY <1>2, <2>2, <2>3 DEF Stored
    <2>7. LedgerInv'
      <3>1. LedgerType'
        BY <2>2, <2>3 DEF LedgerInv, LedgerType
      <3>2. LedgerOK'
        BY <2>1, <2>2, <2>3, <2>4 DEF LedgerInv, LedgerOK
      <3>3. WholeProof'
        BY <2>3 DEF LedgerInv, WholeProof
      <3>4. UnitsApart'
        BY <2>1, <2>2, <2>4 DEF LedgerInv, UnitsApart, Deletes
      <3>5. AppliedIsDeleted'
        BY <2>2, <2>3 DEF LedgerInv, AppliedIsDeleted, Deletes
      <3>6. NoStrays'
        BY <2>3, <2>4, <2>5 DEF LedgerInv, NoStrays
      <3>7. Backing'
        BY <2>3, <2>4, <2>5 DEF LedgerInv, Backing, Traced
      <3> QED BY <3>1, <3>2, <3>3, <3>4, <3>5, <3>6, <3>7 DEF LedgerInv
    <2>8. run.stage = "forward" => Finishable'
      <3>1. run.stage = "forward" =>
                \A n \in receipt'.muts : n.unit.kind = "upsert" => n.st # "prepared"
        BY <1>2, <2>2 DEF Deletes
      <3> QED BY <1>2, <2>2, <2>3, <3>1, FinishableKept DEF LedgerInv
    <2>9. \A n \in receipt'.muts : ~Deletes(n.unit) /\ n.st = "prepared" => n.unit = Unit
      BY <1>2, <2>2
    <2>10. Goto("write") /\ receipt'.state = receipt.state /\ Recorded \subseteq Recorded'
           /\ Unit \in Recorded'
      BY <1>4, <2>1, <2>2
    <2>11. RunInv'
      BY <1>3, <2>3, <2>6, <2>8, <2>9, <2>10, UnitRun
    <2> QED BY <2>7, <2>11
  <1>5. CASE Raise(IF receipt.state = "rolledback" THEN {"closed"} ELSE {}) /\ UNCHANGED receipt
    <2>1. Unwind(FALSE) /\ run.pc # "classify" /\ gaps \subseteq gaps'
          /\ UNCHANGED <<storage, proof, ledger>>
      BY <1>1, <1>5 DEF Raise, Met, ledger
    <2> HIDE DEF Unwind
    <2> QED BY <2>1, RaiseKeeps
  <1>6. CASE OfUnit("prepared") \in receipt.muts /\ Goto("write") /\ Same /\ UNCHANGED receipt
    <2>1. UNCHANGED <<storage, proof, receipt, gen, units, states, marks, gaps>>
      BY <1>1, <1>6 DEF Same
    <2>2. LedgerInv'
      BY <2>1, LedgerStays DEF LedgerInv, LedgerType
    <2>3. Recorded' = Recorded /\ (Finishable' <=> Finishable) /\ (Stored' <=> Stored)
      BY <2>1, SameViews DEF Stored, Deletes
    <2>4. Unit \in Recorded'
      <3>1. OfUnit("prepared").unit = Unit
        BY DEF OfUnit
      <3> QED BY <1>6, <2>3, <3>1 DEF Recorded
    <2>5. \A n \in receipt'.muts : ~Deletes(n.unit) => n.st # "prepared"
      BY <1>2, <2>1
    <2>6. RunInv'
      BY <1>2, <1>3, <1>6, <2>1, <2>3, <2>4, <2>5, UnitRun
    <2> QED BY <2>2, <2>6
  <1>7. CASE {OfUnit("applied"), OfUnit("confirmed")} \cap receipt.muts # {}
             /\ receipt' = Advanced("confirmed") /\ Goto("record") /\ Same
    <2>1. PICK m \in receipt.muts : m \in {OfUnit("applied"), OfUnit("confirmed")}
      BY <1>7
    <2>2. m.unit = Unit /\ m.st # "prepared" /\ Unit \in Recorded
      BY <2>1 DEF OfUnit, Recorded
    <2>3. /\ Deletes(Unit) => Unit.points \cap storage = {}
          /\ Traced /\ ~Deletes(Unit) => Unit.points \subseteq storage
      BY <1>2, <2>1, <2>2 DEF LedgerInv, AppliedIsDeleted, Stored
    <2>4. UNCHANGED <<storage, proof, gen, units, states, marks, gaps>>
      BY <1>1, <1>7 DEF Same
    <2> QED BY <1>1, <1>7, <2>2, <2>3, <2>4, NotedKeeps
  <1> QED BY <1>1, <1>4, <1>5, <1>6, <1>7

LEMMA WriteKeeps ==
    ASSUME LedgerInv, RunInv, Write PROVE LedgerInv' /\ RunInv'
  <1>1. /\ storage' = IF Deletes(Unit) THEN storage \ Unit.points ELSE storage \cup Unit.points
        /\ Goto("applied") /\ run.pc = "write"
        /\ UNCHANGED <<proof, receipt, gen, units, states, marks, gaps>>
    BY DEF Write, Same, ledger, Deletes
  <1>2. Unit \in Recorded
    BY <1>1 DEF RunInv, UnitOK
  <1>3. /\ run \in Runs /\ Unit \in Units /\ OpenReceipt /\ (Traced => Stored)
        /\ run.stage = "forward" => Finishable
        /\ \A m \in receipt.muts : ~Deletes(m.unit) /\ m.st = "prepared" => m.unit = Unit
    BY <1>1, <1>2, UnitInHand DEF AtUnit
  <1>4. Unit.points \in SUBSET AllPoints /\ Unit.points \subseteq {Unit.path} \X Chunks
    BY <1>3, UnitFacts
  <1>5. \A u \in Recorded : u = Unit \/ u.points \cap Unit.points = {}
    BY <1>2 DEF LedgerInv, UnitsApart
  <1>6. /\ Recorded' = Recorded /\ Retained' = Retained /\ RecoveryPaths' = RecoveryPaths
        /\ ReplayMarks' = ReplayMarks /\ Changed' = Changed
        /\ Uploads' = Uploads /\ (OpenReceipt' <=> OpenReceipt) /\ (Closed' <=> Closed)
        /\ (Finishable' <=> Finishable) /\ (Covers(Recorded)' <=> Covers(Recorded))
        /\ \A p \in Paths : Published(p)' = Published(p)
    BY <1>1, SameViews
  <1>7. \A m \in receipt.muts : m.unit \in Recorded
    BY DEF Recorded
  <1>8. Traced => Stored'
    BY <1>1, <1>3, <1>5, <1>7 DEF Stored, Deletes
  <1>9. LedgerInv'
    <2>1. LedgerType'
      BY <1>1, <1>4 DEF LedgerInv, LedgerType
    <2>2. LedgerOK'
      BY <1>1, <1>6 DEF LedgerInv, LedgerOK
    <2>3. WholeProof'
      BY <1>1 DEF LedgerInv, WholeProof
    <2>4. UnitsApart'
      <3>1. \A u \in Recorded : u.path \in Paths
        BY RecordedFacts DEF LedgerInv
      <3> QED BY <1>6, <3>1 DEF LedgerInv, UnitsApart, Deletes
    <2>5. AppliedIsDeleted'
      <3> SUFFICES ASSUME NEW m \in receipt.muts, Deletes(m.unit), m.st # "prepared"
                   PROVE  m.unit.points \cap storage' = {}
        BY <1>1 DEF AppliedIsDeleted, Deletes
      <3>1. m.unit.points \cap storage = {}
        BY DEF LedgerInv, AppliedIsDeleted
      <3>2. CASE Deletes(Unit)
        BY <1>1, <3>1, <3>2
      <3>3. CASE ~Deletes(Unit)
        <4>1. m.unit.points \cap Unit.points = {}
          BY <1>5, <1>7, <3>3
        <4> QED BY <1>1, <3>1, <3>3, <4>1
      <3> QED BY <3>2, <3>3
    <2>6. NoStrays'
      <3>1. ~Deletes(Unit) => Unit.points \subseteq UnitPoints(Uploads)
        BY <1>2 DEF Uploads, UnitPoints
      <3>2. storage' \subseteq Retained \cup UnitPoints(Uploads)
        BY <1>1, <3>1 DEF LedgerInv, NoStrays
      <3> QED BY <1>3, <1>6, <3>2 DEF NoStrays, UnitPoints
    <2>7. Backing'
      <3>1. \A p \in Paths \ RecoveryPaths : Published(p) \cap Unit.points = {}
        <4>1. Unit.path \in RecoveryPaths
          BY <1>2 DEF RecoveryPaths, Touched
        <4>2. \A p \in Paths : Published(p) \subseteq {p} \X Chunks
          BY PublishedFacts DEF LedgerInv
        <4> QED BY <1>4, <4>1, <4>2
      <3> QED BY <1>1, <1>3, <1>6, <3>1 DEF LedgerInv, Backing, Traced
    <2> QED BY <2>1, <2>2, <2>3, <2>4, <2>5, <2>6, <2>7 DEF LedgerInv
  <1>10. RunInv'
    <2>1. "applied" \in AtUnit /\ run.pc \in AtUnit
      BY <1>1 DEF AtUnit
    <2>2. /\ Deletes(Unit) => Unit.points \cap storage' = {}
          /\ ~Deletes(Unit) => Unit.points \subseteq storage'
      BY <1>1
    <2>3. \A m \in receipt'.muts : ~Deletes(m.unit) /\ m.st = "prepared" => m.unit = Unit
      BY <1>1, <1>3
    <2>4. run.stage = "forward" => Finishable'
      BY <1>3, <1>6
    <2>5. Unit \in Recorded' /\ receipt'.state = receipt.state
      BY <1>1, <1>2, <1>6
    <2> QED BY <1>1, <1>6, <1>8, <2>1, <2>2, <2>3, <2>4, <2>5, UnitRun
  <1> QED BY <1>9, <1>10

LEMMA RecordKeeps ==
    ASSUME LedgerInv, RunInv, Record PROVE LedgerInv' /\ RunInv'
  <1> DEFINE p == Unit.path
             complete == Unit.kind = "upsert" /\ Unit.seg = Len(Stream[Unit.digest])
             tail == Tail(run.queue)
             pc == IF tail = <<>> THEN run.stage ELSE "prepare"
  <1>1. /\ \/ run.stage = "forward" /\ UNCHANGED <<units, states, marks>>
           \/ /\ run.stage # "forward" /\ units' = units \cup {Unit}
              /\ states' = IF complete THEN [states EXCEPT ![p] = Unit.digest]
                           ELSE IF Unit.kind = "path" THEN [states EXCEPT ![p] = None]
                           ELSE states
              /\ marks' = IF complete THEN marks \ {p}
                          ELSE IF Unit.kind = "path" THEN marks \cup {p} ELSE marks
        /\ run' = [run EXCEPT !.queue = tail, !.pc = pc] /\ run.pc = "record"
        /\ UNCHANGED <<storage, proof, receipt, gen, gaps>>
    BY DEF Record, Same
  <1>2. Unit \in Recorded
    BY <1>1 DEF RunInv, UnitOK
  <1>3. /\ run \in Runs /\ Unit \in Units /\ OpenReceipt /\ (Traced => Stored) /\ run.queue # <<>>
        /\ run.stage # "none" /\ run.mode \in {"index", "replay", "recover"}
        /\ run.stage # "forward" => run.mode # "recover" /\ (Closed \/ receipt.state = "reserved")
        /\ run.stage = "forward" => Finishable /\ run.mode = "recover"
        /\ \A m \in receipt.muts : Deletes(m.unit) \/ m.st # "prepared"
    BY <1>1, <1>2, UnitInHand DEF AtUnit
  <1>4. p \in Paths /\ p \in Touched /\ (complete => Unit.digest \in Contents)
    BY <1>2, <1>3, UnitFacts DEF Touched, Deletes
  <1>5. units' \subseteq Recorded /\ units \subseteq units' /\ units' \in SUBSET Units
    BY <1>1, <1>2, <1>3 DEF LedgerInv, LedgerOK, LedgerType
  <1>6. ReplayMarks' \subseteq ReplayMarks /\ ReplayMarks \subseteq ReplayMarks' \cup {p}
    <2>1. CASE UNCHANGED <<units, marks>>
      BY <2>1 DEF ReplayMarks, Deleted
    <2>2. CASE run.stage # "forward"
      <3>1. CASE Unit.kind = "path"
        <4>1. units' = units \cup {Unit} /\ marks' = marks \cup {p}
          BY <1>1, <2>2, <3>1
        <4> QED BY <3>1, <4>1 DEF ReplayMarks, Deleted
      <3>2. CASE Unit.kind # "path"
        <4>1. units' = units \cup {Unit} /\ marks' \subseteq marks /\ marks \subseteq marks' \cup {p}
          BY <1>1, <2>2, <3>2
        <4>2. \A q : Deleted(q)' <=> Deleted(q)
          BY <3>2, <4>1 DEF Deleted
        <4> QED BY <4>1, <4>2 DEF ReplayMarks
      <3> QED BY <3>1, <3>2
    <2> QED BY <1>1, <2>1, <2>2
  <1>7. Recorded' = Recorded
    BY <1>1 DEF Recorded
  <1>8. /\ Touched' = Touched /\ Changed' = Changed /\ Uploads' = Uploads /\ Retained' = Retained
        /\ (Covers(Recorded)' <=> Covers(Recorded))
        /\ \A q \in Paths : /\ CompleteStream(q)' <=> CompleteStream(q)
                            /\ Published(q)' = Published(q)
    BY <1>1, <1>7, RecordViews
  <1>9. RecoveryPaths' = RecoveryPaths /\ OpenReceipt' /\ ~Closed' /\ (Traced' <=> Traced)
    BY <1>1, <1>3, <1>4, <1>6, <1>8 DEF RecoveryPaths, OpenReceipt, Closed, Traced
  <1>10. Finishable => Finishable'
    <2>1. Changed \subseteq Paths
      BY TouchedFacts DEF LedgerInv
    <2> QED BY <1>1, <1>6, <1>8, <2>1 DEF Finishable
  <1>11. Traced' => Stored'
    BY <1>1, <1>3, <1>9 DEF Stored, Deletes
  <1>12. LedgerInv'
    <2>1. LedgerType'
      <3>1. states' \in [Paths -> Contents \cup {None, "failed", "rejected"}]
        BY <1>1, <1>4 DEF LedgerInv, LedgerType
      <3>2. marks' \in SUBSET Paths
        BY <1>1, <1>4 DEF LedgerInv, LedgerType
      <3> QED BY <1>1, <1>5, <3>1, <3>2 DEF LedgerInv, LedgerType
    <2>2. LedgerOK'
      BY <1>1, <1>5, <1>7, <1>8, <1>9, <1>10 DEF LedgerInv, LedgerOK, OpenReceipt, Covers
    <2>3. WholeProof' /\ AppliedIsDeleted'
      BY <1>1 DEF LedgerInv, WholeProof, AppliedIsDeleted, Deletes
    <2>4. UnitsApart'
      <3>1. \A u \in Recorded : u.path \in Paths
        BY RecordedFacts DEF LedgerInv
      <3> QED BY <1>3, <1>7, <1>8, <3>1 DEF LedgerInv, UnitsApart, Deletes
    <2>5. NoStrays'
      BY <1>1, <1>8, <1>9 DEF LedgerInv, NoStrays, UnitPoints
    <2>6. Backing'
      BY <1>1, <1>3, <1>8, <1>9 DEF LedgerInv, Backing
    <2> QED BY <2>1, <2>2, <2>3, <2>4, <2>5, <2>6 DEF LedgerInv
  <1>13. /\ run.queue \in Seq(Units) /\ tail \in Seq(Units)
         /\ pc \in {"stream", "seal", "forward", "prepare"} /\ run.stage \in Stages
         /\ \A i \in 1 .. Len(tail) : i + 1 \in 1 .. Len(run.queue) /\ tail[i] = run.queue[i + 1]
    BY <1>3 DEF Runs, Stages
  <1> HIDE DEF complete, tail
  <1>14. /\ run' \in Runs /\ run'.pc = pc /\ run'.queue = tail /\ run'.mode = run.mode
         /\ run'.stage = run.stage /\ run'.replay = run.replay /\ run'.attempted = run.attempted
         /\ run'.existing = run.existing
    BY <1>1, <1>3, <1>13 DEF Runs, PCs, Working, AtUnit
  <1>15. AppliedIsStored'
    BY <1>11 DEF AppliedIsStored
  <1>16. ModeOK'
    BY <1>1, <1>3, <1>6, <1>13, <1>14 DEF RunInv, ModeOK, Working, AtUnit
  <1>17. StepOK'
    BY <1>1, <1>3, <1>9, <1>10, <1>13, <1>14 DEF StepOK, Closed, Working, AtUnit
  <1>18. UnitOK'
    <2>1. run.stage \in {"seal", "forward"} => \A i \in 1 .. Len(tail) : Deletes(tail[i])
      <3>1. run.stage \in {"seal", "forward"} => \A i \in 1 .. Len(run.queue) : Deletes(run.queue[i])
        BY <1>1 DEF RunInv, UnitOK, AtUnit
      <3> QED BY <1>13, <3>1
    <2>2. run'.pc \in AtUnit => run'.pc = "prepare" /\ run'.queue # <<>>
      BY <1>13, <1>14 DEF AtUnit, Stages
    <2>3. \A m \in receipt'.muts : m.unit.kind # "upsert" \/ m.st # "prepared"
      BY <1>1, <1>3 DEF Deletes
    <2>4. ASSUME run'.pc \in AtUnit, run'.stage \in {"seal", "forward"}
          PROVE  \A i \in 1 .. Len(run'.queue) : run'.queue[i].kind # "upsert"
      BY <1>14, <2>1, <2>4 DEF Deletes
    <2> QED BY <2>2, <2>3, <2>4 DEF UnitOK, Deletes, AtUnit
  <1>19. ExistingKept'
    <2>1. run.attempted \subseteq Paths
      BY <1>3 DEF Runs
    <2> QED BY <1>8, <1>9, <1>14, <2>1 DEF RunInv, ExistingKept
  <1> QED BY <1>12, <1>14, <1>15, <1>16, <1>17, <1>18, <1>19 DEF RunInv

----------------------------------------------------------------------------
(* Sealing, publishing and finishing.                                        *)

\* A run that goes on past its units.
LEMMA LaterRun ==
    ASSUME RunInv, NEW pc \in {"reconcile", "advance", "commit", "finish", "classify"}, Goto(pc),
           Traced' /\ OpenReceipt' /\ Finishable' => Stored',
           run.mode = "index" => ReplayMarks' = {},
           run.mode = "replay" => ReplayMarks' \subseteq run.replay,
           pc = "reconcile" => run.mode \in {"index", "replay"} /\ receipt'.state = "sealed",
           pc \in {"advance", "commit"} => receipt'.state = "sealed" \/ Closed',
           pc = "finish" => ~OpenReceipt',
           run.stage = "stream" => pc = "classify" /\ ExistingKept'
    PROVE  RunInv'
  <1>1. run \in Runs /\ pc \in PCs
    BY DEF RunInv, PCs
  <1>2. run' \in Runs /\ run'.pc = pc /\ RunGoesOn
    BY <1>1, GotoFacts
  <1>3. run'.mode = run.mode /\ run'.stage = run.stage /\ run'.replay = run.replay
    BY <1>2 DEF RunGoesOn
  <1>4. AppliedIsStored'
    BY <1>2 DEF AppliedIsStored, Working, AtUnit
  <1>5. ModeOK'
    BY <1>2, <1>3 DEF ModeOK, Working, AtUnit
  <1>6. StepOK' /\ UnitOK'
    BY <1>2, <1>3 DEF StepOK, UnitOK, Working, AtUnit
  <1>7. ExistingKept'
    BY <1>3 DEF ExistingKept
  <1> QED BY <1>2, <1>4, <1>5, <1>6, <1>7 DEF RunInv

\* At the end of the stream and of its deletions.
LEMMA AtSeal ==
    ASSUME LedgerInv, RunInv, run.pc = "seal"
    PROVE  /\ run \in Runs /\ run.mode \in {"index", "replay"} /\ run.stage = "seal"
           /\ (Closed \/ receipt.state = "reserved") /\ (Traced => Stored)
           /\ \A m \in receipt.muts : Deletes(m.unit) \/ m.st # "prepared"
  <1>1. run.stage = "seal" /\ run.mode \in {"index", "replay"} /\ run \in Runs
        /\ (Closed \/ receipt.state = "reserved")
    BY DEF RunInv, StepOK, ModeOK, Working
  <1>2. Closed => receipt.muts = {}
    BY DEF LedgerInv, LedgerOK
  <1>3. Traced => Stored
    BY <1>1, <1>2 DEF RunInv, AppliedIsStored, Working, Stored, OpenReceipt
  <1>4. \A m \in receipt.muts : Deletes(m.unit) \/ m.st # "prepared"
    BY DEF RunInv, UnitOK, Working, AtUnit
  <1> QED BY <1>1, <1>3, <1>4

LEMMA SealIndexKeeps ==
    ASSUME LedgerInv, RunInv, SealIndex PROVE LedgerInv' /\ RunInv'
  <1>1. /\ \/ receipt.state = "rolledback" /\ Goto("advance") /\ Same /\ UNCHANGED receipt
           \/ /\ receipt.muts = {} /\ receipt' = [receipt EXCEPT !.state = "rolledback"]
              /\ Goto("advance") /\ Same
           \/ /\ receipt.muts # {} /\ Changed # {} /\ Covers(Recorded)
              /\ receipt' = [receipt EXCEPT !.state = "sealed"] /\ Goto("reconcile") /\ Same
           \/ Raise(Reverted) /\ UNCHANGED receipt
        /\ run.pc = "seal" /\ run.mode = "index"
        /\ UNCHANGED <<storage, proof, gen, units, states, marks>>
    BY DEF SealIndex
  <1>2. /\ run \in Runs /\ run.stage = "seal" /\ (Closed \/ receipt.state = "reserved")
        /\ (Traced => Stored) /\ \A m \in receipt.muts : Deletes(m.unit) \/ m.st # "prepared"
    BY <1>1, AtSeal
  <1>3. ReplayMarks = {} /\ ReplayMarks' = ReplayMarks
    BY <1>1 DEF RunInv, ModeOK, ReplayMarks, Deleted
  <1>4. CASE receipt.state = "rolledback" /\ Goto("advance") /\ Same /\ UNCHANGED receipt
    <2>1. UNCHANGED <<storage, proof, receipt, gen, units, states, marks, gaps>>
      BY <1>1, <1>4 DEF Same
    <2>2. LedgerInv'
      BY <2>1, LedgerStays DEF LedgerInv, LedgerType
    <2>3. Closed' /\ ~OpenReceipt'
      BY <1>4 DEF Closed, OpenReceipt
    <2>4. RunInv'
      BY <1>1, <1>2, <1>3, <1>4, <2>3, LaterRun
    <2> QED BY <2>2, <2>4
  <1>5. CASE /\ receipt.muts = {} /\ receipt' = [receipt EXCEPT !.state = "rolledback"]
             /\ Goto("advance") /\ Same
    <2>1. LedgerType' /\ Closed' /\ receipt'.muts = {} /\ ~OpenReceipt'
      BY <1>1, <1>5 DEF LedgerInv, LedgerType, Closed, OpenReceipt
    <2>2. units = {} /\ storage \subseteq Retained /\ (Traced => Retained \subseteq storage)
      BY <1>3, <1>5, NothingHidden
    <2>3. LedgerInv'
      BY <1>1, <1>3, <1>5, <2>1, <2>2, ClosedLedger DEF Same
    <2>4. RunInv'
      BY <1>1, <1>2, <1>3, <1>5, <2>1, LaterRun
    <2> QED BY <2>3, <2>4
  <1>6. CASE /\ receipt.muts # {} /\ Changed # {} /\ Covers(Recorded)
             /\ receipt' = [receipt EXCEPT !.state = "sealed"] /\ Goto("reconcile") /\ Same
    <2>1. receipt.state = "reserved"
      BY <1>2, <1>6 DEF LedgerInv, LedgerOK
    <2>2. /\ LedgerType' /\ receipt'.state = "sealed" /\ receipt'.muts = receipt.muts
          /\ OpenReceipt' /\ ~Closed' /\ OpenReceipt /\ (Traced' <=> Traced)
      BY <1>1, <1>6, <2>1 DEF LedgerInv, LedgerType, OpenReceipt, Closed, Traced, Same
    <2>3. Recorded' = Recorded
      BY <2>2 DEF Recorded
    <2>4. /\ Touched' = Touched /\ Changed' = Changed /\ Uploads' = Uploads /\ Retained' = Retained
          /\ (Covers(Recorded)' <=> Covers(Recorded))
          /\ \A q \in Paths : /\ CompleteStream(q)' <=> CompleteStream(q)
                              /\ Published(q)' = Published(q)
      BY <1>1, <2>3, RecordViews
    <2>5. Finishable'
      <3>1. Changed \subseteq Paths
        BY TouchedFacts DEF LedgerInv
      <3> QED BY <1>2, <1>3, <1>6, <2>2, <2>4, <3>1 DEF Finishable, Covers, Deletes
    <2>6. RecoveryPaths' = RecoveryPaths
      BY <1>3, <2>4 DEF RecoveryPaths
    <2>7. LedgerInv'
      <3>1. LedgerOK'
        BY <1>1, <1>6, <2>2, <2>3, <2>4, <2>5 DEF LedgerInv, LedgerOK, Covers
      <3>2. WholeProof' /\ AppliedIsDeleted'
        BY <1>1, <2>2 DEF LedgerInv, WholeProof, AppliedIsDeleted, Deletes
      <3>3. UnitsApart'
        <4>1. \A u \in Recorded : u.path \in Paths
          BY RecordedFacts DEF LedgerInv
        <4> QED BY <2>2, <2>3, <2>4, <4>1 DEF LedgerInv, UnitsApart, Deletes
      <3>4. NoStrays'
        BY <1>1, <2>2, <2>4 DEF LedgerInv, NoStrays, UnitPoints
      <3>5. Backing'
        BY <1>1, <2>2, <2>4, <2>6 DEF LedgerInv, Backing
      <3> QED BY <2>2, <3>1, <3>2, <3>3, <3>4, <3>5 DEF LedgerInv
    <2>8. Traced' => Stored'
      BY <1>1, <1>2, <2>2 DEF Stored, Deletes
    <2>9. RunInv'
      BY <1>1, <1>2, <1>3, <1>6, <2>2, <2>8, LaterRun
    <2> QED BY <2>7, <2>9
  <1>7. CASE Raise(Reverted) /\ UNCHANGED receipt
    <2>1. Unwind(FALSE) /\ run.pc # "classify" /\ gaps \subseteq gaps'
          /\ UNCHANGED <<storage, proof, ledger>>
      BY <1>1, <1>7 DEF Raise, Met, ledger
    <2> HIDE DEF Unwind
    <2> QED BY <2>1, RaiseKeeps
  <1> QED BY <1>1, <1>4, <1>5, <1>6, <1>7

LEMMA ReconcileKeeps ==
    ASSUME LedgerInv, RunInv, Reconcile PROVE LedgerInv' /\ RunInv'
  <1> DEFINE members == UnitPoints({u \in Recorded : u.kind = "upsert"})
  <1>1. /\ storage' = storage \ (Of(storage, Touched) \ members) /\ Goto("advance")
        /\ run.pc = "reconcile" /\ run \in Runs
        /\ UNCHANGED <<proof, receipt, gen, units, states, marks, gaps>>
    BY DEF Reconcile, Same, ledger, RunInv
  <1>2. receipt.state = "sealed" /\ run.stage # "stream"
    BY <1>1 DEF RunInv, StepOK, ModeOK, Working, AtUnit
  <1>3. OpenReceipt /\ Finishable /\ ReplayMarks = {} /\ (Traced => Stored)
    BY <1>2 DEF OpenReceipt, LedgerInv, LedgerOK, Finishable, RunInv, AppliedIsStored
  <1>4. /\ Recorded' = Recorded /\ Retained' = Retained /\ RecoveryPaths' = RecoveryPaths
        /\ ReplayMarks' = ReplayMarks /\ Changed' = Changed
        /\ Uploads' = Uploads /\ (OpenReceipt' <=> OpenReceipt) /\ (Closed' <=> Closed)
        /\ (Finishable' <=> Finishable) /\ (Covers(Recorded)' <=> Covers(Recorded))
        /\ \A p \in Paths : Published(p)' = Published(p)
    BY <1>1, SameViews
  <1>5. storage' \subseteq storage /\ storage \cap members \subseteq storage'
    BY <1>1
  <1>6. Traced => Stored'
    <2>1. \A m \in receipt.muts : ~Deletes(m.unit) => m.unit.points \subseteq members
      BY DEF Recorded, UnitPoints, Deletes
    <2> HIDE DEF members
    <2>2. Traced => \A m \in receipt.muts :
              ~Deletes(m.unit) /\ m.st # "prepared" => m.unit.points \subseteq storage'
      BY <1>3, <1>5, <2>1 DEF Stored
    <2> QED BY <1>1, <2>2 DEF Stored, Deletes
  <1>7. LedgerInv'
    <2>1. LedgerType'
      BY <1>1, <1>5 DEF LedgerInv, LedgerType
    <2>2. LedgerOK'
      BY <1>1, <1>4 DEF LedgerInv, LedgerOK
    <2>3. WholeProof'
      BY <1>1 DEF LedgerInv, WholeProof
    <2>4. UnitsApart'
      <3>1. \A u \in Recorded : u.path \in Paths
        BY RecordedFacts DEF LedgerInv
      <3> QED BY <1>4, <3>1 DEF LedgerInv, UnitsApart, Deletes
    <2>5. AppliedIsDeleted'
      BY <1>1, <1>5 DEF LedgerInv, AppliedIsDeleted, Deletes
    <2>6. NoStrays'
      BY <1>3, <1>4, <1>5 DEF LedgerInv, NoStrays, UnitPoints
    <2>7. Backing'
      <3>1. ASSUME NEW p \in Paths \ RecoveryPaths, NEW x \in Published(p), x \in storage
            PROVE  x \in storage'
        <4>1. x[1] = p
          BY PublishedFacts DEF LedgerInv
        <4>2. x \notin Of(storage, Touched)
          BY <4>1 DEF Of, RecoveryPaths
        <4> QED BY <1>1, <3>1, <4>2
      <3> QED BY <1>1, <1>3, <1>4, <3>1 DEF LedgerInv, Backing, Traced
    <2> QED BY <2>1, <2>2, <2>3, <2>4, <2>5, <2>6, <2>7 DEF LedgerInv
  <1>8. RunInv'
    <2>1. /\ (Traced' => Traced) /\ receipt'.state = "sealed" /\ ReplayMarks' = {}
      BY <1>1, <1>2, <1>3, <1>4 DEF Traced
    <2> QED BY <1>1, <1>2, <1>6, <2>1, LaterRun
  <1> QED BY <1>7, <1>8

LEMMA AdvanceKeeps ==
    ASSUME LedgerInv, RunInv, Advance PROVE LedgerInv' /\ RunInv'
  <1>1. /\ \/ Goto("commit") /\ Same /\ UNCHANGED gen
           \/ \E kinds : Raise(kinds) /\ UNCHANGED gen
           \/ gen' = [gen EXCEPT !.phase = "reconciled"] /\ Goto("commit") /\ Same
        /\ run.pc = "advance" /\ run \in Runs
        /\ UNCHANGED <<storage, proof, receipt, units, states, marks>>
    BY DEF Advance, RunInv
  <1>2. (receipt.state = "sealed" \/ Closed) /\ run.stage # "stream"
    BY <1>1 DEF RunInv, StepOK, ModeOK, Working, AtUnit
  <1>3. CASE Goto("commit") /\ Same /\ (gen' = gen \/ gen' = [gen EXCEPT !.phase = "reconciled"])
    <2>1. UNCHANGED gaps
      BY <1>3 DEF Same
    <2>2. gen' \in [state : {"none", "running", "failed"}, phase : {"ingesting", "reconciled"},
                    failures : Nat]
      BY <1>3 DEF LedgerInv, LedgerType
    <2>3. LedgerInv'
      BY <1>1, <1>2, <2>1, <2>2, LedgerStays
    <2>4. ReplayMarks' = ReplayMarks /\ (OpenReceipt' <=> OpenReceipt) /\ (Closed' <=> Closed)
          /\ (Finishable' <=> Finishable)
      BY <1>1, SameViews
    <2>5. Traced' /\ OpenReceipt' /\ Finishable' => Stored'
      BY <1>1, <2>1, <2>4 DEF RunInv, AppliedIsStored, Stored, Traced, Deletes
    <2>6. /\ run.mode = "index" => ReplayMarks' = {}
          /\ run.mode = "replay" => ReplayMarks' \subseteq run.replay
      BY <2>4 DEF RunInv, ModeOK
    <2>7. RunInv'
      BY <1>1, <1>2, <1>3, <2>4, <2>5, <2>6, LaterRun
    <2> QED BY <2>3, <2>7
  <1>4. CASE \E kinds : Raise(kinds) /\ UNCHANGED gen
    <2>1. Unwind(FALSE) /\ run.pc # "classify" /\ gaps \subseteq gaps'
          /\ UNCHANGED <<storage, proof, ledger>>
      BY <1>1, <1>4 DEF Raise, Met, ledger
    <2> HIDE DEF Unwind
    <2> QED BY <2>1, RaiseKeeps
  <1> QED BY <1>1, <1>3, <1>4

LEMMA FinishKeeps ==
    ASSUME LedgerInv, RunInv, Finish PROVE LedgerInv' /\ RunInv'
  <1>1. /\ NewGeneration /\ (run' = Idle("ok") \/ Check) /\ run.pc = "finish" /\ run \in Runs
        /\ UNCHANGED <<storage, proof, gaps>>
    BY DEF Finish, Same, RunInv
  <1>2. ~OpenReceipt
    BY <1>1 DEF RunInv, StepOK
  <1>3. storage \subseteq Retained /\ (Traced => Retained \subseteq storage)
    BY <1>2 DEF LedgerInv, NoStrays, Backing
  <1>4. LedgerInv' /\ Closed' /\ receipt'.muts = {} /\ ReplayMarks' = {}
    BY <1>1, <1>3, NewGenerationKeeps
  <1>5. CASE run' = Idle("ok")
    <2>1. Stored'
      BY <1>4 DEF Stored
    <2> QED BY <1>4, <1>5, <2>1, StoppedRun
  <1>6. CASE Check
    BY <1>1, <1>4, <1>6, CheckedRun
  <1> QED BY <1>1, <1>5, <1>6

\* Sealing a replay narrows the receipt to the files it changes.
LEMMA SealReplayKeeps ==
    ASSUME LedgerInv, RunInv, SealReplay PROVE LedgerInv' /\ RunInv'
  <1> DEFINE restored == Touched \ Changed
             kept == {u \in Recorded : u.path \in Changed}
  <1>1. /\ \/ /\ ParentsResolved /\ (\A p \in restored : CompleteStream(p)) /\ Covers(kept)
              /\ receipt' = [state |-> IF Changed = {} THEN "rolledback" ELSE "sealed",
                             muts |-> {m \in receipt.muts : m.unit \in kept}]
              /\ units' = {u \in units : u.path \notin restored}
              /\ states' = [p \in Paths |-> IF p \in restored THEN None ELSE states[p]]
              /\ marks' = {p \in marks : Deleted(p)} \ restored
              /\ Goto(IF Changed = {} THEN "advance" ELSE "reconcile") /\ Same
           \/ Raise({}) /\ UNCHANGED <<receipt, units, states, marks>>
        /\ run.pc = "seal" /\ run.mode = "replay" /\ UNCHANGED <<storage, proof, gen>>
    BY DEF SealReplay
  <1>2. /\ run \in Runs /\ run.stage = "seal" /\ (Closed \/ receipt.state = "reserved")
        /\ (Traced => Stored) /\ \A m \in receipt.muts : Deletes(m.unit) \/ m.st # "prepared"
    BY <1>1, AtSeal
  <1>3. /\ Touched \subseteq Paths /\ Changed \subseteq Touched
        /\ (receipt.muts = {} => Recorded = {} /\ Touched = {})
    BY TouchedFacts DEF LedgerInv
  <1>4. CASE Raise({}) /\ UNCHANGED <<receipt, units, states, marks>>
    <2>1. Unwind(FALSE) /\ run.pc # "classify" /\ gaps \subseteq gaps'
          /\ UNCHANGED <<storage, proof, ledger>>
      BY <1>1, <1>4 DEF Raise, Met, ledger
    <2> HIDE DEF Unwind
    <2> QED BY <2>1, RaiseKeeps
  <1>5. CASE /\ ParentsResolved /\ (\A p \in restored : CompleteStream(p)) /\ Covers(kept)
             /\ receipt' = [state |-> IF Changed = {} THEN "rolledback" ELSE "sealed",
                            muts |-> {m \in receipt.muts : m.unit \in kept}]
             /\ units' = {u \in units : u.path \notin restored}
             /\ states' = [p \in Paths |-> IF p \in restored THEN None ELSE states[p]]
             /\ marks' = {p \in marks : Deleted(p)} \ restored
             /\ Goto(IF Changed = {} THEN "advance" ELSE "reconcile") /\ Same
    <2>1. /\ receipt'.state = IF Changed = {} THEN "rolledback" ELSE "sealed"
          /\ receipt'.muts = {m \in receipt.muts : m.unit \in kept}
          /\ UNCHANGED <<storage, proof, gen, gaps>>
      BY <1>1, <1>5 DEF Same
    <2>2. Recorded' = kept /\ kept \subseteq Recorded /\ receipt'.muts \subseteq receipt.muts
      <3>1. Recorded' = {m.unit : m \in receipt'.muts}
        BY DEF Recorded
      <3> QED BY <2>1, <3>1 DEF Recorded
    <2>3. \A p \in Changed : Upserts(Recorded', p) = Upserts(Recorded, p)
      BY <2>2 DEF Upserts
    <2>4. \A p : Published(p)' = Published(p)
      BY <2>1 DEF Published
    <2>5. Retained' = Retained
      BY <2>4 DEF Retained
    <2>6. Touched' = Changed
      BY <2>2 DEF Touched, Changed
    <2>7. \A p \in Changed : /\ NewEvidence(p)' = NewEvidence(p)
                             /\ CompleteStream(p)' <=> CompleteStream(p)
                             /\ ExpectedDeletion(p)' = ExpectedDeletion(p)
      BY <2>1, <2>3, <2>4 DEF NewEvidence, CompleteStream, ExpectedDeletion
    <2>8. Changed' = Changed
      BY <2>1, <2>6, <2>7 DEF Changed
    <2>9. Covers(Recorded)'
      BY <1>5, <2>2, <2>7, <2>8 DEF Covers, Upserts
    <2>10. units' \subseteq Recorded'
      <3>1. units \subseteq Recorded
        BY DEF LedgerInv, LedgerOK
      <3> QED BY <1>5, <2>2, <3>1 DEF Touched
    <2>11. ReplayMarks' = {} /\ RecoveryPaths' = Changed
      <3>1. ASSUME NEW p \in marks' PROVE Deleted(p)'
        <4>1. PICK u \in units : u.kind = "path" /\ u.path = p
          BY <1>5, <3>1 DEF Deleted
        <4>2. u \in units'
          BY <1>5, <3>1, <4>1
        <4> QED BY <4>1, <4>2 DEF Deleted
      <3> QED BY <2>6, <3>1 DEF ReplayMarks, RecoveryPaths
    <2>12. Changed # {} => Finishable' /\ receipt.state = "reserved" /\ OpenReceipt
                           /\ receipt'.state = "sealed" /\ OpenReceipt' /\ ~Closed'
      <3>1. Changed # {} => receipt.muts # {}
        BY <1>3
      <3>2. Changed # {} => receipt.state = "reserved"
        BY <1>2, <3>1 DEF LedgerInv, LedgerOK
      <3>3. \A m \in receipt'.muts : m.unit.kind = "upsert" => m.st # "prepared"
        BY <1>2, <2>2 DEF Deletes
      <3>4. \A p \in Changed : CompleteStream(p)
        BY <1>5 DEF Covers
      <3>5. Changed # {} => Finishable'
        BY <2>7, <2>8, <2>11, <3>3, <3>4 DEF Finishable
      <3> QED BY <2>1, <3>2, <3>5 DEF OpenReceipt, Closed
    <2>13. Changed = {} => Closed' /\ ~OpenReceipt' /\ receipt'.muts = {} /\ Recorded' = {}
                           /\ receipt'.state # "sealed"
      <3>1. Changed = {} => kept = {}
        OBVIOUS
      <3> QED BY <2>1, <2>2, <3>1 DEF Closed, OpenReceipt
    <2>14. \A p \in restored : NewEvidence(p) = proof[p]
      BY DEF Changed
    <2>15. Traced => \A p \in Paths \ Changed : Published(p) \subseteq storage
      <3> SUFFICES ASSUME Traced, NEW p \in Paths \ Changed PROVE Published(p) \subseteq storage
        OBVIOUS
      <3>1. CASE p \in restored
        <4>1. CASE proof[p] = None
          BY <4>1 DEF Published
        <4>2. CASE proof[p] # None
          <5>1. Published(p) = UnitPoints(Upserts(Recorded, p))
            BY <2>14, <3>1, <4>2, EvidenceFacts DEF Published, LedgerInv
          <5>2. \A u \in Upserts(Recorded, p) : u.points \subseteq storage
            BY <1>2 DEF Upserts, Recorded, Stored, Deletes
          <5> QED BY <5>1, <5>2 DEF UnitPoints
        <4> QED BY <4>1, <4>2
      <3>2. CASE p \in ReplayMarks /\ p \notin Touched
        <4>1. p \in run.replay
          BY <1>1, <3>2 DEF RunInv, ModeOK
        <4>2. {m \in receipt.muts : m.unit.path = p} = {}
          BY <3>2 DEF Touched, Recorded
        <4>3. proof[p] = None
          BY <1>5, <4>1, <4>2 DEF ParentsResolved, Resolved
        <4> QED BY <4>3 DEF Published
      <3>3. CASE p \notin RecoveryPaths
        <4>1. CASE OpenReceipt
          BY <3>3, <4>1 DEF LedgerInv, Backing
        <4>2. CASE ~OpenReceipt
          BY <4>2 DEF LedgerInv, Backing, Retained
        <4> QED BY <4>1, <4>2
      <3> QED BY <3>1, <3>2, <3>3 DEF RecoveryPaths
    <2>16. UnitPoints(Uploads) \subseteq Retained \cup UnitPoints(Uploads)'
      <3> SUFFICES ASSUME NEW u \in Uploads PROVE u.points \subseteq Retained \cup UnitPoints(Uploads)'
        BY DEF UnitPoints
      <3>1. CASE u \in kept
        BY <2>2, <3>1 DEF Uploads, UnitPoints, Deletes
      <3>2. CASE u \notin kept
        <4> DEFINE p == u.path
        <4>1. u \in Upserts(Recorded, p) /\ p \in restored /\ p \in Paths
          BY <1>3, <3>2 DEF Uploads, Deletes, Upserts, Touched
        <4> HIDE DEF p
        <4>2. NewEvidence(p) # None /\ NewEvidence(p).points = UnitPoints(Upserts(Recorded, p))
          BY <4>1, EvidenceFacts DEF LedgerInv
        <4>3. u.points \subseteq Published(p)
          BY <2>14, <4>1, <4>2 DEF Published, UnitPoints
        <4> QED BY <4>1, <4>3 DEF Retained
      <3> QED BY <3>1, <3>2
    <2>17. LedgerInv'
      <3>1. LedgerType'
        <4>1. receipt' \in [state : {"none", "reserved", "sealed", "committed", "rolledback"},
                            muts : SUBSET Mutations]
          BY <1>5 DEF LedgerInv, LedgerType
        <4>2. states' \in [Paths -> Contents \cup {None, "failed", "rejected"}]
          BY <1>5 DEF LedgerInv, LedgerType
        <4>3. units' \in SUBSET Units /\ marks' \in SUBSET Paths
          BY <1>5 DEF LedgerInv, LedgerType
        <4> QED BY <2>1, <4>1, <4>2, <4>3 DEF LedgerInv, LedgerType
      <3>2. LedgerOK'
        BY <2>9, <2>10, <2>11, <2>12, <2>13 DEF LedgerOK, Covers
      <3>3. WholeProof'
        BY <2>1 DEF LedgerInv, WholeProof
      <3>4. UnitsApart'
        BY <2>2, <2>4, <2>12, <2>13 DEF LedgerInv, UnitsApart, Deletes
      <3>5. AppliedIsDeleted'
        BY <2>1, <2>2 DEF LedgerInv, AppliedIsDeleted, Deletes
      <3>6. NoStrays'
        <4>1. storage' \subseteq Retained' \cup UnitPoints(Uploads)'
          BY <2>1, <2>5, <2>16 DEF LedgerInv, NoStrays
        <4>2. Changed = {} => UnitPoints(Uploads)' = {}
          BY <2>13 DEF Uploads, UnitPoints
        <4> QED BY <2>12, <4>1, <4>2 DEF NoStrays
      <3>7. Backing'
        <4>1. Traced' => \A p \in Paths \ Changed : Published(p)' \subseteq storage'
          BY <2>1, <2>4, <2>15 DEF Traced
        <4>2. Changed = {} /\ Traced' => Retained' \subseteq storage'
          BY <4>1 DEF Retained
        <4> QED BY <2>11, <2>12, <4>1, <4>2 DEF Backing
      <3> QED BY <3>1, <3>2, <3>3, <3>4, <3>5, <3>6, <3>7 DEF LedgerInv
    <2>18. Traced' => Stored'
      BY <1>2, <2>1, <2>2 DEF Traced, Stored, Deletes
    <2>19. RunInv'
      <3>1. CASE Changed = {}
        <4>1. Goto("advance")
          BY <1>5, <3>1
        <4> QED BY <1>1, <1>2, <2>11, <2>13, <2>18, <3>1, <4>1, LaterRun
      <3>2. CASE Changed # {}
        <4>1. Goto("reconcile")
          BY <1>5, <3>2
        <4> QED BY <1>1, <1>2, <2>11, <2>12, <2>18, <3>2, <4>1, LaterRun
      <3> QED BY <3>1, <3>2
    <2> QED BY <2>17, <2>19
  <1> QED BY <1>1, <1>4, <1>5

\* The proof is replaced: what the receipt says is now what is published.
LEMMA CommitKeeps ==
    ASSUME LedgerInv, RunInv, Commit PROVE LedgerInv' /\ RunInv'
  <1>1. /\ \/ /\ receipt.state = "sealed" /\ Confirmed
              /\ proof' = [p \in Paths |-> IF p \in Changed THEN NewEvidence(p) ELSE proof[p]]
              /\ receipt' = [receipt EXCEPT !.state = "committed"]
           \/ receipt.state # "sealed" /\ UNCHANGED <<proof, receipt>>
        /\ run.pc = "commit" /\ run \in Runs /\ Goto("finish")
        /\ UNCHANGED <<storage, gen, units, states, marks, gaps>>
    BY DEF Commit, Same, RunInv
  <1>2. (receipt.state = "sealed" \/ Closed) /\ run.stage # "stream"
    BY <1>1 DEF RunInv, StepOK, ModeOK, Working, AtUnit
  <1>3. ReplayMarks' = ReplayMarks
    BY <1>1 DEF ReplayMarks, Deleted
  <1>4. /\ run.mode = "index" => ReplayMarks' = {}
        /\ run.mode = "replay" => ReplayMarks' \subseteq run.replay
    BY <1>3 DEF RunInv, ModeOK
  <1>5. ASSUME ~OpenReceipt' PROVE RunInv'
    BY <1>1, <1>2, <1>4, <1>5, LaterRun
  <1>6. CASE receipt.state # "sealed" /\ UNCHANGED <<proof, receipt>>
    <2>1. LedgerInv'
      BY <1>1, <1>6, LedgerStays DEF LedgerInv, LedgerType
    <2>2. ~OpenReceipt'
      BY <1>2, <1>6 DEF Closed, OpenReceipt
    <2> QED BY <1>5, <2>1, <2>2
  <1>7. CASE /\ receipt.state = "sealed" /\ Confirmed
             /\ proof' = [p \in Paths |-> IF p \in Changed THEN NewEvidence(p) ELSE proof[p]]
             /\ receipt' = [receipt EXCEPT !.state = "committed"]
    <2>1. /\ OpenReceipt /\ Finishable /\ Covers(Recorded) /\ ReplayMarks = {} /\ (Traced => Stored)
      BY <1>7 DEF OpenReceipt, LedgerInv, LedgerOK, Finishable, RunInv, AppliedIsStored
    <2>2. /\ receipt'.state = "committed" /\ receipt'.muts = receipt.muts
          /\ receipt' \in [state : {"none", "reserved", "sealed", "committed", "rolledback"},
                           muts : SUBSET Mutations]
          /\ ~OpenReceipt' /\ ~Closed'
      BY <1>7 DEF LedgerInv, LedgerType, OpenReceipt, Closed
    <2>3. Recorded' = Recorded /\ \A m \in receipt.muts : m.st = "confirmed"
      BY <1>7, <2>2 DEF Recorded, Confirmed
    <2>4. Changed \subseteq Touched /\ Touched \subseteq Paths
      BY TouchedFacts DEF LedgerInv
    <2>5. Touched \subseteq Changed
      <3> SUFFICES ASSUME NEW u \in Recorded PROVE u.path \in Changed
        BY DEF Touched
      <3>1. PICK p \in Changed : u \in Upserts(Recorded, p) \cup ExpectedDeletion(p)
        BY <2>1 DEF Covers
      <3>2. \A d \in ExpectedDeletion(p) : d.path = p
        BY <2>4, ExpectedFacts DEF LedgerInv
      <3> QED BY <3>1, <3>2 DEF Upserts
    <2>6. \A p \in Changed : ExpectedDeletion(p) \subseteq Recorded
      BY <2>1 DEF Covers
    <2>7. ASSUME NEW p \in Changed, NEW x \in storage, x \in Published(p)
          PROVE  NewEvidence(p) # None /\ x \in UnitPoints(Upserts(Recorded, p))
      <3> DEFINE rest == Published(p) \ UnitPoints(Upserts(Recorded, p))
      <3>1. \A d \in ExpectedDeletion(p) : Deletes(d) /\ d \in Recorded
        BY <2>4, <2>6, ExpectedFacts DEF LedgerInv
      <3>2. \A d \in ExpectedDeletion(p) : x \notin d.points
        BY <2>3, <2>7, <3>1 DEF LedgerInv, AppliedIsDeleted, Recorded
      <3>3. proof[p] # None
        BY <2>7 DEF Published
      <3>4. CASE NewEvidence(p) = None
        <4>1. Deletion(p, "path", Published(p)) \in ExpectedDeletion(p)
          BY <3>3, <3>4 DEF ExpectedDeletion
        <4>2. Deletion(p, "path", Published(p)).points = Published(p)
          BY DEF Deletion
        <4> QED BY <2>7, <3>2, <4>1, <4>2
      <3>5. CASE NewEvidence(p) # None /\ x \in rest
        <4>1. Deletion(p, "stale", rest) \in ExpectedDeletion(p)
          BY <3>3, <3>5 DEF ExpectedDeletion
        <4>2. Deletion(p, "stale", rest).points = rest
          BY DEF Deletion
        <4> QED BY <3>2, <3>5, <4>1, <4>2
      <3> QED BY <2>7, <3>4, <3>5
    <2>8. \A p \in Changed : NewEvidence(p) # None =>
              NewEvidence(p).points = UnitPoints(Upserts(Recorded, p))
      BY <2>4, EvidenceFacts DEF LedgerInv
    <2>9. \A p \in Paths : Published(p)' =
              IF p \in Changed THEN (IF NewEvidence(p) = None THEN {} ELSE NewEvidence(p).points)
              ELSE Published(p)
      BY <1>7 DEF Published
    <2>10. \A p \in Changed : NewEvidence(p) # None =>
               /\ NewEvidence(p).digest \in Contents
               /\ PointsOf(p, NewEvidence(p).digest) # {}
               /\ NewEvidence(p) = Evidence(p, NewEvidence(p).digest)
      BY <2>1, <2>4, CompleteEvidence DEF Covers, LedgerInv
    <2>11. LedgerType'
      <3>1. \A p \in Changed : NewEvidence(p) # None => NewEvidence(p) \in Evidences
        <4> SUFFICES ASSUME NEW p \in Changed, NewEvidence(p) # None
                     PROVE  NewEvidence(p) \in Evidences
          OBVIOUS
        <4> DEFINE c == NewEvidence(p).digest
        <4>1. c \in Contents /\ PointsOf(p, c) # {} /\ NewEvidence(p) = Evidence(p, c) /\ c # None
          BY <2>10, PublicationAssumption
        <4> HIDE DEF c
        <4>2. PointsOf(p, c) \subseteq AllPoints
          BY <2>4, <4>1 DEF PointsOf, Point, Chunks, AllPoints
        <4> QED BY <4>1, <4>2 DEF Evidence, Evidences
      <3>2. proof' \in [Paths -> Evidences \cup {None}]
        BY <1>7, <3>1 DEF LedgerInv, LedgerType
      <3> QED BY <1>1, <2>2, <3>2 DEF LedgerInv, LedgerType
    <2>12. LedgerOK'
      BY <1>1, <2>2, <2>3 DEF LedgerInv, LedgerOK
    <2>13. WholeProof'
      <3> SUFFICES ASSUME NEW p \in Paths
                   PROVE  proof'[p] = None \/ \E c \in Contents : PointsOf(p, c) # {} /\ proof'[p] = Evidence(p, c)
        BY DEF WholeProof, PointsOf, Evidence, Point
      <3>1. CASE p \in Changed
        BY <1>7, <2>10, <3>1
      <3>2. CASE p \notin Changed
        BY <1>7, <3>2 DEF LedgerInv, WholeProof
      <3> QED BY <3>1, <3>2
    <2>14. UnitsApart' /\ AppliedIsDeleted'
      BY <1>1, <2>2, <2>3 DEF LedgerInv, UnitsApart, AppliedIsDeleted, Deletes
    <2>15. NoStrays'
      <3>1. ASSUME NEW x \in storage PROVE \E p \in Paths : x \in Published(p)'
        <4>1. CASE x \in UnitPoints(Uploads)
          <5>1. PICK u \in Uploads : x \in u.points
            BY <4>1 DEF UnitPoints
          <5> DEFINE p == u.path
          <5>2. u \in Upserts(Recorded, p) /\ p \in Changed /\ p \in Paths
            BY <2>4, <2>5, <5>1 DEF Uploads, Upserts, Deletes, Touched
          <5> HIDE DEF p
          <5>3. NewEvidence(p) # None
            BY <5>2, EvidenceFacts DEF LedgerInv
          <5>4. x \in UnitPoints(Upserts(Recorded, p))
            BY <5>1, <5>2 DEF UnitPoints
          <5> QED BY <2>8, <2>9, <5>2, <5>3, <5>4
        <4>2. CASE x \in Retained
          <5>1. PICK p \in Paths : x \in Published(p)
            BY <4>2 DEF Retained
          <5>2. CASE p \in Changed
            BY <2>7, <2>8, <2>9, <5>1, <5>2
          <5>3. CASE p \notin Changed
            BY <2>9, <5>1, <5>3
          <5> QED BY <5>2, <5>3
        <4> QED BY <4>1, <4>2 DEF LedgerInv, NoStrays
      <3>2. storage' \subseteq Retained'
        BY <1>1, <3>1 DEF Retained
      <3> QED BY <3>2 DEF NoStrays
    <2>16. Backing'
      <3>1. ASSUME Traced, NEW p \in Paths, NEW x \in Published(p)' PROVE x \in storage
        <4>1. CASE p \notin Changed
          BY <2>1, <2>4, <2>5, <2>9, <3>1, <4>1 DEF LedgerInv, Backing, RecoveryPaths
        <4>2. CASE p \in Changed
          <5>1. x \in UnitPoints(Upserts(Recorded, p))
            BY <2>8, <2>9, <3>1, <4>2
          <5>2. \A u \in Upserts(Recorded, p) : u.points \subseteq storage
            <6>1. \A m \in receipt.muts : m.unit.kind = "upsert" => m.unit.points \subseteq storage
              BY <2>1, <2>3, <3>1 DEF Stored, Deletes
            <6> QED BY <6>1 DEF Upserts, Recorded
          <5> QED BY <5>1, <5>2 DEF UnitPoints
        <4> QED BY <4>1, <4>2
      <3> QED BY <1>1, <2>2, <3>1 DEF Backing, Traced, Retained
    <2>17. LedgerInv'
      BY <2>11, <2>12, <2>13, <2>14, <2>15, <2>16 DEF LedgerInv
    <2> QED BY <1>5, <2>2, <2>17
  <1> QED BY <1>1, <1>6, <1>7

----------------------------------------------------------------------------
(* Failures.                                                                 *)

LEMMA DiscardKeeps ==
    ASSUME LedgerInv, RunInv, Discard PROVE LedgerInv' /\ RunInv'
  <1> DEFINE introduced == (Of(storage, run.attempted) \ run.existing) \ UnitPoints(units)
             claimed == UnitPoints({m.unit : m \in {n \in receipt.muts : n.st # "prepared"}})
  <1>1. /\ storage' \subseteq storage /\ storage \ introduced \subseteq storage'
        /\ gaps \subseteq gaps'
        /\ storage' = storage \/ introduced \cap claimed = {} \/ "unrecorded" \in gaps'
        /\ run.pc = "discard" /\ run \in Runs /\ Goto("classify")
        /\ UNCHANGED <<proof, receipt, gen, units, states, marks>>
    BY DEF Discard, Met, ledger, RunInv
  <1>2. run.stage = "stream" /\ (Closed \/ receipt.state = "reserved") /\ (Traced' => Traced)
        /\ run.attempted \subseteq Paths
    BY <1>1 DEF RunInv, StepOK, ModeOK, Traced, Runs
  <1>3. /\ Recorded' = Recorded /\ Retained' = Retained /\ RecoveryPaths' = RecoveryPaths
        /\ ReplayMarks' = ReplayMarks /\ Changed' = Changed
        /\ Uploads' = Uploads /\ (OpenReceipt' <=> OpenReceipt) /\ (Closed' <=> Closed)
        /\ (Finishable' <=> Finishable) /\ (Covers(Recorded)' <=> Covers(Recorded))
        /\ \A p \in Paths : Published(p)' = Published(p)
    BY <1>1, SameViews
  <1>4. ASSUME Traced', NEW p \in Paths \ RecoveryPaths, NEW x \in Published(p), x \in storage
        PROVE  x \in storage'
    <2>1. x[1] = p
      BY PublishedFacts DEF LedgerInv
    <2>2. x \notin introduced
      BY <1>2, <1>4, <2>1 DEF RunInv, ExistingKept, Of
    <2> QED BY <1>1, <1>4, <2>2
  <1>5. ~OpenReceipt => RecoveryPaths = {}
    <2>1. ~OpenReceipt => receipt.muts = {} /\ ReplayMarks = {}
      BY <1>2 DEF OpenReceipt, LedgerInv, LedgerOK
    <2> QED BY <2>1, TouchedFacts DEF LedgerInv, RecoveryPaths
  <1>6. ASSUME Traced', OpenReceipt', Finishable' PROVE Stored'
    <2>1. Stored
      BY <1>2, <1>3, <1>6 DEF RunInv, AppliedIsStored
    <2>2. ASSUME NEW m \in receipt.muts, ~Deletes(m.unit), m.st # "prepared"
          PROVE  m.unit.points \subseteq storage'
      <3>1. m.unit.points \subseteq storage /\ m.unit.points \subseteq claimed
        BY <2>1, <2>2 DEF Stored, UnitPoints
      <3>2. storage' = storage \/ introduced \cap claimed = {}
        BY <1>1, <1>6 DEF Traced
      <3> HIDE DEF introduced, claimed
      <3> QED BY <1>1, <3>1, <3>2
    <2> QED BY <1>1, <2>2 DEF Stored, Deletes
  <1> HIDE DEF introduced, claimed
  <1>7. LedgerInv'
    <2>1. LedgerType'
      BY <1>1 DEF LedgerInv, LedgerType
    <2>2. LedgerOK'
      BY <1>1, <1>3 DEF LedgerInv, LedgerOK
    <2>3. WholeProof'
      BY <1>1 DEF LedgerInv, WholeProof
    <2>4. UnitsApart'
      <3>1. \A u \in Recorded : u.path \in Paths
        BY RecordedFacts DEF LedgerInv
      <3> QED BY <1>3, <3>1 DEF LedgerInv, UnitsApart, Deletes
    <2>5. AppliedIsDeleted'
      BY <1>1 DEF LedgerInv, AppliedIsDeleted, Deletes
    <2>6. NoStrays'
      BY <1>1, <1>3 DEF LedgerInv, NoStrays, UnitPoints
    <2>7. Backing'
      <3>1. Traced' /\ OpenReceipt => \A p \in Paths \ RecoveryPaths : Published(p) \subseteq storage'
        BY <1>2, <1>4 DEF LedgerInv, Backing
      <3>2. Traced' /\ ~OpenReceipt => \A p \in Paths : Published(p) \subseteq storage'
        BY <1>2, <1>4, <1>5 DEF LedgerInv, Backing, Retained
      <3>3. Traced' /\ ~OpenReceipt => Retained \subseteq storage'
        BY <3>2 DEF Retained
      <3> QED BY <1>3, <3>1, <3>3 DEF Backing
    <2> QED BY <2>1, <2>2, <2>3, <2>4, <2>5, <2>6, <2>7 DEF LedgerInv
  <1>8. RunInv'
    <2>1. ExistingKept'
      <3>1. RunGoesOn
        BY <1>1, GotoFacts DEF PCs
      <3>2. run'.stage = run.stage /\ run'.attempted = run.attempted /\ run'.existing = run.existing
        BY <3>1 DEF RunGoesOn
      <3> QED BY <1>2, <1>3, <3>2 DEF RunInv, ExistingKept
    <2>2. /\ run.mode = "index" => ReplayMarks' = {}
          /\ run.mode = "replay" => ReplayMarks' \subseteq run.replay
      BY <1>3 DEF RunInv, ModeOK
    <2> QED BY <1>1, <1>6, <2>1, <2>2, LaterRun
  <1> QED BY <1>7, <1>8

LEMMA ClassifyKeeps ==
    ASSUME LedgerInv, RunInv, Classify PROVE LedgerInv' /\ RunInv'
  <1> DEFINE mode == IF run.hit THEN "hit" ELSE "failed"
  <1>1. /\ gen' = [gen EXCEPT !.state = "failed", !.failures = @ + 1] /\ run' = Idle(mode)
        /\ UNCHANGED <<storage, proof, receipt, units, states, marks, gaps>>
    BY DEF Classify, Same
  <1>2. gen'.phase = gen.phase
        /\ gen' \in [state : {"none", "running", "failed"}, phase : {"ingesting", "reconciled"},
                     failures : Nat]
    <2> DEFINE next == [gen EXCEPT !.state = "failed", !.failures = @ + 1]
    <2>1. gen \in [state : {"none", "running", "failed"}, phase : {"ingesting", "reconciled"},
                   failures : Nat]
      BY DEF LedgerInv, LedgerType
    <2> DEFINE f == gen.failures + 1
    <2>a. f \in Nat
      BY <2>1
    <2>b. next = [gen EXCEPT !.state = "failed", !.failures = f]
      BY <2>1
    <2> HIDE DEF f
    <2>2. next \in [state : {"none", "running", "failed"}, phase : {"ingesting", "reconciled"},
                    failures : Nat]
      BY <2>1, <2>a, <2>b
    <2>3. next.phase = gen.phase
      BY <2>1
    <2> QED BY <1>1, <2>2, <2>3
  <1>3. LedgerInv'
    BY <1>1, <1>2, LedgerStays
  <1>4. Traced' /\ OpenReceipt' /\ Finishable' => Stored'
    BY <1>1, SameViews DEF RunInv, AppliedIsStored, Stored, Deletes, Traced
  <1>5. mode \in {"recover", "ok", "hit", "failed", "none"}
    OBVIOUS
  <1> HIDE DEF mode
  <1> QED BY <1>1, <1>3, <1>4, <1>5, StoppedRun

LEMMA FailKeeps ==
    ASSUME LedgerInv, RunInv, Fail PROVE LedgerInv' /\ RunInv'
  <1>1. /\ Unwind(TRUE) /\ run.pc # "classify" /\ gaps \subseteq gaps'
        /\ UNCHANGED <<storage, proof, ledger>>
    BY DEF Fail
  <1> HIDE DEF Unwind
  <1> QED BY <1>1, RaiseKeeps

LEMMA CrashKeeps ==
    ASSUME LedgerInv, RunInv, Crash PROVE LedgerInv' /\ RunInv'
  <1>1. /\ run' = Idle("hit")
        /\ UNCHANGED <<storage, proof, receipt, gen, units, states, marks, gaps>>
    BY DEF Crash, ledger
  <1>2. LedgerInv'
    BY <1>1, LedgerStays DEF LedgerInv, LedgerType
  <1>3. Traced' /\ OpenReceipt' /\ Finishable' => Stored'
    BY <1>1, SameViews DEF RunInv, AppliedIsStored, Stored, Deletes, Traced
  <1> QED BY <1>1, <1>2, <1>3, StoppedRun

----------------------------------------------------------------------------
(* What holds of every run.                                                  *)

LEMMA PublicationInvInit == PublicationInit => PublicationInv
  <1> SUFFICES ASSUME PublicationInit PROVE PublicationInv
    OBVIOUS
  <1>1. /\ source \in [Paths -> Contents \cup {None}] /\ storage = Retained
        /\ proof = [p \in Paths |-> Evidence(p, source[p])]
        /\ receipt = [state |-> "none", muts |-> {}] /\ units = {} /\ marks = {}
        /\ gen = [state |-> "none", phase |-> "ingesting", failures |-> 0]
        /\ states = Nothing /\ run = Idle("none")
    BY DEF PublicationInit, NoReceipt, NoGen
  <1>2. \A p \in Paths, c \in Contents : PointsOf(p, c) \subseteq AllPoints
    BY DEF PointsOf, Point, Chunks, AllPoints
  <1>3. \A p \in Paths : \/ proof[p] = None
                         \/ \E c \in Contents : PointsOf(p, c) # {} /\ proof[p] = Evidence(p, c)
    BY <1>1 DEF Evidence
  <1>4. \A p \in Paths, c \in Contents : PointsOf(p, c) # {} => Evidence(p, c) \in Evidences
    BY <1>2, PublicationAssumption DEF Evidence, Evidences
  <1>5. proof \in [Paths -> Evidences \cup {None}]
    BY <1>1, <1>3, <1>4
  <1>6. \A p \in Paths : Published(p) \subseteq AllPoints
    BY <1>5 DEF Published, Evidences
  <1>7. LedgerType
    BY <1>1, <1>5, <1>6 DEF LedgerType, Retained, Nothing
  <1>8. Recorded = {} /\ ~OpenReceipt /\ Closed /\ ReplayMarks = {}
    BY <1>1 DEF Recorded, OpenReceipt, Closed, ReplayMarks
  <1>9. LedgerOK /\ WholeProof /\ UnitsApart /\ AppliedIsDeleted /\ NoStrays /\ Backing
    BY <1>1, <1>3, <1>8
       DEF LedgerOK, WholeProof, UnitsApart, AppliedIsDeleted, NoStrays, Backing
  <1>10. "none" \in Modes
    BY DEF Modes
  <1>11. run \in Runs /\ run.pc = "idle" /\ run.mode = "none" /\ run.stage = "none"
    BY <1>1, <1>10, IdleFacts
  <1>12. AppliedIsStored /\ ModeOK /\ StepOK /\ UnitOK /\ ExistingKept
    BY <1>8, <1>11
       DEF AppliedIsStored, ModeOK, StepOK, UnitOK, ExistingKept, Working, AtUnit
  <1> QED BY <1>1, <1>7, <1>9, <1>11, <1>12
          DEF PublicationInv, SourceType, LedgerInv, RunInv

LEMMA PublicationInvKept ==
    PublicationInv /\ [PublicationNext]_publicationVars => PublicationInv'
  <1> SUFFICES ASSUME PublicationInv, [PublicationNext]_publicationVars PROVE PublicationInv'
    OBVIOUS
  <1>1. SourceType /\ LedgerInv /\ RunInv
    BY DEF PublicationInv
  <1>2. ASSUME LedgerInv' /\ RunInv', source' = source PROVE PublicationInv'
    BY <1>1, <1>2 DEF PublicationInv, SourceType
  <1>3. CASE Start
    BY <1>1, <1>2, <1>3, StartKeeps DEF Start, Same
  <1>4. CASE RunStep
    <2>1. CASE SettleNothing
      BY <1>1, <1>2, <2>1, SettleNothingKeeps DEF SettleNothing, Same
    <2>2. CASE RefuseRecovery
      BY <1>1, <1>2, <2>2, RefuseRecoveryKeeps DEF RefuseRecovery, Raise, Met
    <2>3. CASE SettleCommitted
      BY <1>1, <1>2, <2>3, SettleCommittedKeeps DEF SettleCommitted, Same
    <2>4. CASE SettleEmpty
      BY <1>1, <1>2, <2>4, SettleEmptyKeeps DEF SettleEmpty, Same
    <2>5. CASE SettleForward
      BY <1>1, <1>2, <2>5, SettleForwardKeeps DEF SettleForward, Same
    <2>6. CASE SealForward
      BY <1>1, <1>2, <2>6, SealForwardKeeps DEF SealForward, Same, Raise, Met
    <2>7. CASE RecordOutcomes
      BY <1>1, <1>2, <2>7, RecordOutcomesKeeps DEF RecordOutcomes, Same, Raise, Met
    <2>8. CASE SettleReplay
      BY <1>1, <1>2, <2>8, SettleReplayKeeps DEF SettleReplay, Same
    <2>9. CASE ResetStorage
      BY <1>1, <1>2, <2>9, ResetStorageKeeps DEF ResetStorage, Same
    <2>10. CASE Reopen
      BY <1>1, <1>2, <2>10, ReopenKeeps DEF Reopen, Same
    <2>11. CASE Scan
      BY <1>1, <1>2, <2>11, ScanKeeps DEF Scan, Same, Raise, Met
    <2>12. CASE RefuseIndexing
      BY <1>1, <1>2, <2>12, RefuseIndexingKeeps DEF RefuseIndexing, Raise, Met
    <2>13. CASE OpenFresh
      BY <1>1, <1>2, <2>13, OpenFreshKeeps DEF OpenFresh, Same
    <2>14. CASE OpenResumed
      BY <1>1, <1>2, <2>14, OpenResumedKeeps DEF OpenResumed, Same, Met
    <2>15. CASE \E p \in Paths : ReadSource(p)
      BY <1>1, <1>2, <2>15, ReadSourceKeeps DEF ReadSource, Same, Met
    <2>16. CASE DeleteObsolete
      BY <1>1, <1>2, <2>16, DeleteObsoleteKeeps DEF DeleteObsolete, Same
    <2>17. CASE Prepare
      BY <1>1, <1>2, <2>17, PrepareKeeps DEF Prepare, Same, Raise, Met
    <2>18. CASE Write
      BY <1>1, <1>2, <2>18, WriteKeeps DEF Write, Same
    <2>19. CASE MarkApplied
      BY <1>1, <1>2, <2>19, MarkAppliedKeeps DEF MarkApplied, Same
    <2>20. CASE Confirm
      BY <1>1, <1>2, <2>20, ConfirmKeeps DEF Confirm, Same
    <2>21. CASE Record
      BY <1>1, <1>2, <2>21, RecordKeeps DEF Record, Same
    <2>22. CASE SealIndex
      BY <1>1, <1>2, <2>22, SealIndexKeeps DEF SealIndex, Same, Raise, Met
    <2>23. CASE SealReplay
      BY <1>1, <1>2, <2>23, SealReplayKeeps DEF SealReplay, Same, Raise, Met
    <2>24. CASE Reconcile
      BY <1>1, <1>2, <2>24, ReconcileKeeps DEF Reconcile, Same
    <2>25. CASE Advance
      BY <1>1, <1>2, <2>25, AdvanceKeeps DEF Advance, Same, Raise, Met
    <2>26. CASE Commit
      BY <1>1, <1>2, <2>26, CommitKeeps DEF Commit, Same
    <2>27. CASE Finish
      BY <1>1, <1>2, <2>27, FinishKeeps DEF Finish, Same
    <2>28. CASE Discard
      BY <1>1, <1>2, <2>28, DiscardKeeps DEF Discard, Met
    <2>29. CASE Classify
      BY <1>1, <1>2, <2>29, ClassifyKeeps DEF Classify, Same
    <2> QED BY <1>4, <2>1, <2>2, <2>3, <2>4, <2>5, <2>6, <2>7, <2>8, <2>9, <2>10, <2>11, <2>12,
               <2>13, <2>14, <2>15, <2>16, <2>17, <2>18, <2>19, <2>20, <2>21, <2>22, <2>23,
               <2>24, <2>25, <2>26, <2>27, <2>28, <2>29 DEF RunStep
  <1>5. CASE Fail
    BY <1>1, <1>2, <1>5, FailKeeps DEF Fail
  <1>6. CASE Crash
    BY <1>1, <1>2, <1>6, CrashKeeps DEF Crash
  <1>7. CASE \E p \in Paths : Edit(p) \/ Unreadable(p)
    <2>1. PICK p \in Paths : Edit(p) \/ Unreadable(p)
      BY <1>7
    <2>2. CASE Edit(p)
      BY <1>1, <2>2, EditKeeps DEF PublicationInv
    <2>3. CASE Unreadable(p)
      BY <1>1, <1>2, <2>3, UnreadableKeeps DEF Unreadable, Met
    <2> QED BY <2>1, <2>2, <2>3
  <1>8. CASE UNCHANGED publicationVars
    <2>1. UNCHANGED <<source, storage, proof, receipt, gen, units, states, marks, run, gaps>>
      BY <1>8 DEF publicationVars
    <2>2. LedgerInv'
      BY <1>1, <2>1, LedgerStays DEF LedgerInv, LedgerType
    <2>3. RunInv'
      BY <1>1, <2>1, RunStays DEF ledger
    <2> QED BY <1>2, <2>1, <2>2, <2>3
  <1> QED BY <1>3, <1>4, <1>5, <1>6, <1>7, <1>8 DEF PublicationNext

\* The invariant: what the receipt, the generation and storage say of each other between
\* any two steps, and what a run knows where it is.
THEOREM PublicationInvariant == PublicationSpec => []PublicationInv
  <1> QED BY PublicationInvInit, PublicationInvKept, PTL DEF PublicationSpec

\* Readers are served whole files whose points are all stored, whenever no receipt is open:
\* whatever failed, crashed or changed in between, unless a replay lost track of a file it
\* had emptied or a failed attempt deleted what its receipt counts on.
THEOREM ServedIsBacked == PublicationSpec => []ServedProofIsBacked
  <1>1. PublicationInv => ServedProofIsBacked
    <2> SUFFICES ASSUME PublicationInv, ~OpenReceipt, Traced
                 PROVE  /\ Retained \subseteq storage
                        /\ \A p \in Paths : proof[p] # None => proof[p] = Evidence(p, proof[p].digest)
      BY DEF ServedProofIsBacked, Traced
    <2>1. Retained \subseteq storage
      BY DEF PublicationInv, LedgerInv, Backing
    <2>2. ASSUME NEW p \in Paths, proof[p] # None PROVE proof[p] = Evidence(p, proof[p].digest)
      <3>1. PICK c \in Contents : PointsOf(p, c) # {} /\ proof[p] = Evidence(p, c)
        BY <2>2 DEF PublicationInv, LedgerInv, WholeProof
      <3>2. proof[p].digest = c
        BY <3>1, PublicationAssumption DEF Evidence
      <3> QED BY <3>1, <3>2
    <2> QED BY <2>1, <2>2
  <1> QED BY <1>1, PublicationInvariant, PTL

\* Between runs, with nothing to settle, storage holds nothing that is not published:
\* no content that was replaced, and nothing of an attempt that failed.
THEOREM NoStrayIsLeft == PublicationSpec => []NoStrayPoints
  <1>1. PublicationInv => NoStrayPoints
    BY DEF PublicationInv, LedgerInv, NoStrays, NoStrayPoints
  <1> QED BY <1>1, PublicationInvariant, PTL

\* A run that is about to stream finds no unit and no mutation of an earlier attempt.
THEOREM StreamIsFresh == PublicationSpec => []FreshStream
  <1>1. PublicationInv => FreshStream
    <2> SUFFICES ASSUME PublicationInv, run.pc = "open" PROVE units = {} /\ receipt.muts = {}
      BY DEF FreshStream
    <2>1. receipt.muts = {}
      BY DEF PublicationInv, RunInv, StepOK
    <2>2. units \subseteq Recorded /\ Recorded = {}
      BY <2>1 DEF PublicationInv, LedgerInv, LedgerOK, Recorded
    <2> QED BY <2>1, <2>2
  <1> QED BY <1>1, PublicationInvariant, PTL

----------------------------------------------------------------------------
(* What a run that succeeds has published.                                   *)

\* What is to be published of a file, as the run read it.
Due(p) == Evidence(p, run.seen[p])

\* A run, or a replay, at its own work; a run that does not just finish an earlier one's.
Reading == run.mode \in {"index", "replay"}
OwnWork == run.mode = "index" /\ "skipped" \notin gaps
Known == Recorded \cup ToSet(run.queue)

\* Every file was current when the tree was scanned, or is attempted; of those read so
\* far all segments are recorded or queued, with nothing of any other content, and at
\* the end so is a deletion for what is published of a file that has nothing any more.
ReadOK == Reading /\ run.pc \in Working \cup {"open"} =>
    /\ run.todo \subseteq run.attempted
    /\ run.pc \in {"open", "stream", "seal"} => run.queue = <<>>
    /\ run.pc = "open" => run.stage = "none"
    /\ run.stage = "seal" => run.todo = {}
    /\ \A p \in Paths \ run.attempted : proof[p] = Due(p)
    /\ \A u \in Known : /\ u.path \in run.attempted \ run.todo
                        /\ ~Deletes(u) => u.digest = run.seen[u.path]
    /\ \A p \in run.attempted \ run.todo :
          run.seen[p] = None \/ ToSet(Segments(p, run.seen[p])) \subseteq Known
    /\ run.stage = "seal" => \A p \in run.attempted :
          Due(p) = None /\ proof[p] # None => \E u \in Known : u.path = p

\* A run begins with nothing in hand.
BeginOK == run.pc \in {"recover", "reset", "reopen", "check"} =>
    run.queue = <<>> /\ run.stage = "none"

\* What is sealed makes every file current, and so does its publication.
SealOK == OwnWork /\ run.pc \in {"reconcile", "advance", "commit"} =>
    \A p \in Paths : IF receipt.state = "sealed" /\ p \in Changed THEN NewEvidence(p) = Due(p)
                     ELSE proof[p] = Due(p)
DoneOK == OwnWork /\ run.pc = "finish" => \A p \in Paths : proof[p] = Due(p)

CurrentInv == BeginOK /\ ReadOK /\ SealOK /\ DoneOK

LEMMA SegmentsOf ==
    ASSUME NEW p \in Paths, NEW c \in Contents, NEW u \in ToSet(Segments(p, c))
    PROVE  ~Deletes(u) /\ u.path = p /\ u.digest = c
  <1>1. DOMAIN Segments(p, c) = 1 .. Len(Segments(p, c))
    BY SegmentsFacts
  <1>2. PICK i \in DOMAIN Segments(p, c) : u = Segments(p, c)[i]
    BY DEF ToSet
  <1> QED BY <1>1, <1>2, SegmentsFacts

LEMMA OtherRun ==
    ASSUME run'.pc \in {"idle", "discard", "classify"} PROVE CurrentInv'
  BY DEF CurrentInv, BeginOK, ReadOK, SealOK, DoneOK, Working, AtUnit

LEMMA RaisedCurrent ==
    ASSUME run \in Runs, NEW hit \in BOOLEAN, Unwind(hit) PROVE CurrentInv'
  <1>1. run'.pc \in {"discard", "classify", "idle"}
    <2> DEFINE mode == IF run.hit \/ hit THEN "hit" ELSE "failed"
    <2>1. mode \in Modes
      BY DEF Modes
    <2> HIDE DEF mode
    <2>2. Idle(mode).pc = "idle"
      BY <2>1, IdleFacts
    <2> HIDE DEF Unwind
    <2> QED BY <2>2, UnwindFacts DEF mode
  <1> QED BY <1>1, OtherRun

LEMMA CheckedCurrent ==
    ASSUME run \in Runs, Check PROVE CurrentInv'
  <1>1. run'.pc = "check" /\ run'.stage = "none" /\ run'.queue = <<>>
    BY CheckFacts
  <1> QED BY <1>1 DEF CurrentInv, BeginOK, ReadOK, SealOK, DoneOK, Working, AtUnit

\* Files that the scan finds neither stale nor gone are current.
LEMMA ScanCurrent ==
    ASSUME SourceType, LedgerInv, RunInv, CurrentInv, Scan PROVE CurrentInv'
  <1>0. PICK view \in Scanned :
          LET stale == {p \in Paths : /\ view[p] # None
                                      /\ \/ proof[p] = None \/ p \in run.replay
                                         \/ proof[p].digest # view[p]}
              gone == {p \in Paths : proof[p] # None /\ view[p] = None}
          IN  IF stale \cup gone # {}
              THEN /\ run' = [run EXCEPT !.pc = "open", !.seen = view, !.todo = stale, !.dels = gone,
                                         !.attempted = stale \cup gone]
                   /\ UNCHANGED ledger
              ELSE IF run.mode = "index" THEN run' = Idle("ok") /\ UNCHANGED ledger
              ELSE IF \E p \in run.replay : proof[p] # None
                   THEN Unwind(FALSE) /\ UNCHANGED ledger
                   ELSE NewGeneration /\ Check
    BY DEF Scan
  <1>v. view \in [Paths -> Contents \cup {None}] /\ UNCHANGED <<storage, proof, gaps>>
    BY DEF Scanned, Scan, SourceType
  <1> DEFINE stale == {p \in Paths : /\ view[p] # None
                                     /\ \/ proof[p] = None \/ p \in run.replay
                                        \/ proof[p].digest # view[p]}
             gone == {p \in Paths : proof[p] # None /\ view[p] = None}
  <1>1. /\ \/ /\ run' = [run EXCEPT !.pc = "open", !.seen = view, !.todo = stale, !.dels = gone,
                                    !.attempted = stale \cup gone]
              /\ UNCHANGED ledger
           \/ run' = Idle("ok")
           \/ Unwind(FALSE)
           \/ Check
        /\ run.pc = "check" /\ run \in Runs /\ UNCHANGED proof
    BY <1>0, <1>v DEF Scan, RunInv
  <1>2. CASE /\ run' = [run EXCEPT !.pc = "open", !.seen = view, !.todo = stale, !.dels = gone,
                                   !.attempted = stale \cup gone]
             /\ UNCHANGED ledger
    <2>1. /\ run'.pc = "open" /\ run'.seen = view /\ run'.todo = stale
          /\ run'.attempted = stale \cup gone
          /\ run'.queue = run.queue /\ run'.stage = run.stage /\ run'.mode = run.mode
      BY <1>1, <1>2 DEF Runs
    <2>2. UNCHANGED receipt /\ (Reading' <=> Reading)
      BY <1>2, <2>1 DEF ledger, Reading
    <2>3. ASSUME Reading
          PROVE  Known' = {} /\ run'.queue = <<>> /\ run'.stage = "none"
      <3>1. run.queue = <<>> /\ run.stage = "none" /\ receipt.muts = {}
        BY <1>1, <2>3 DEF CurrentInv, BeginOK, RunInv, StepOK
      <3> QED BY <2>1, <2>2, <3>1 DEF Known, Recorded, ToSet
    <2>4. ASSUME NEW p \in Paths, p \notin stale \cup gone
          PROVE  proof[p] = Evidence(p, view[p])
      <3>1. CASE view[p] = None
        BY <2>4, <3>1 DEF Evidence
      <3>2. CASE view[p] # None
        <4>1. proof[p] # None /\ proof[p].digest = view[p]
          BY <2>4, <3>2
        <4>2. PICK c \in Contents : PointsOf(p, c) # {} /\ proof[p] = Evidence(p, c)
          BY <4>1 DEF LedgerInv, WholeProof
        <4>3. c = view[p]
          BY <4>1, <4>2, PublicationAssumption DEF Evidence
        <4> QED BY <4>2, <4>3
      <3> QED BY <3>1, <3>2
    <2>5. \A p \in gone : view[p] = None
      OBVIOUS
    <2> HIDE DEF stale, gone
    <2>6. ReadOK'
      <3> SUFFICES ASSUME Reading PROVE ReadOK'
        BY <2>2 DEF ReadOK
      <3> QED BY <1>1, <2>1, <2>3, <2>4, <2>5 DEF ReadOK, Due
    <2> QED BY <2>1, <2>6 DEF CurrentInv, BeginOK, SealOK, DoneOK, Working, AtUnit
  <1>3. CASE run' = Idle("ok")
    <2>1. run'.pc = "idle"
      BY <1>3, IdleFacts DEF Modes
    <2> QED BY <2>1, OtherRun
  <1>4. CASE Unwind(FALSE)
    <2>1. Unwind(FALSE)
      BY <1>4
    <2> HIDE DEF Unwind
    <2> QED BY <1>1, <2>1, RaisedCurrent
  <1>5. CASE Check
    BY <1>1, <1>5, CheckedCurrent
  <1> QED BY <1>1, <1>2, <1>3, <1>4, <1>5

\* Only a receipt of its own is streamed under.
LEMMA OpenCurrent ==
    ASSUME RunInv, CurrentInv, OpenFresh \/ OpenResumed PROVE CurrentInv'
  <1>1. /\ \/ Streaming /\ Same /\ UNCHANGED receipt
           \/ Streaming /\ Same /\ receipt' = [state |-> "reserved", muts |-> {}]
           \/ gaps' = gaps \cup {"skipped"} /\ run' = [run EXCEPT !.pc = "commit", !.stage = "seal"]
        /\ run.pc = "open" /\ run \in Runs /\ UNCHANGED proof
    BY DEF OpenFresh, OpenResumed, Met, RunInv
  <1>2. CASE gaps' = gaps \cup {"skipped"} /\ run' = [run EXCEPT !.pc = "commit", !.stage = "seal"]
    <2>1. run'.pc = "commit"
      BY <1>1, <1>2 DEF Runs
    <2> QED BY <1>2, <2>1
            DEF CurrentInv, BeginOK, ReadOK, SealOK, DoneOK, OwnWork, Working, AtUnit
  <1>3. CASE Streaming /\ Same /\ receipt'.muts = {}
    <2>1. /\ run'.pc = "stream" /\ run'.stage = "stream" /\ run'.seen = run.seen
          /\ run'.todo = run.todo /\ run'.attempted = run.attempted
          /\ run'.queue = run.queue /\ run'.mode = run.mode
      BY <1>1, <1>3 DEF Runs, Streaming
    <2>2. Reading' <=> Reading
      BY <1>3, <2>1 DEF Same, Reading
    <2>3. ReadOK'
      <3> SUFFICES ASSUME Reading PROVE ReadOK'
        BY <2>2 DEF ReadOK
      <3>1. Recorded = {} /\ Recorded' = {}
        BY <1>1, <1>3 DEF RunInv, StepOK, Recorded
      <3>2. Known' = Known
        BY <2>1, <3>1 DEF Known
      <3> QED BY <1>1, <2>1, <3>2 DEF CurrentInv, ReadOK, Due
    <2> QED BY <2>1, <2>3 DEF CurrentInv, BeginOK, SealOK, DoneOK
  <1>4. receipt.muts = {}
    BY <1>1 DEF RunInv, StepOK
  <1> QED BY <1>1, <1>2, <1>3, <1>4

\* A file that is read is queued whole, or has nothing to queue.
LEMMA ReadSourceCurrent ==
    ASSUME SourceType, RunInv, CurrentInv, NEW p \in Paths, ReadSource(p) PROVE CurrentInv'
  <1> DEFINE c == source[p]
             segments == IF c = None THEN <<>> ELSE Segments(p, c)
             pc == IF segments = <<>> THEN "stream" ELSE "prepare"
             next == [run EXCEPT !.todo = @ \ {p}, !.seen[p] = c, !.queue = segments, !.pc = pc]
  <1>1. /\ run' = next /\ run.pc = "stream" /\ p \in run.todo /\ run \in Runs
        /\ gaps \subseteq gaps' /\ UNCHANGED <<proof, receipt>>
    BY DEF ReadSource, Same, Met, RunInv
  <1>2. c \in Contents \cup {None}
    BY DEF SourceType
  <1>3. \A u \in ToSet(segments) : u.path = p /\ u.digest = c
    <2>1. CASE c = None
      BY <2>1 DEF ToSet
    <2>2. CASE c # None
      BY <1>2, <2>2, SegmentsOf
    <2> QED BY <2>1, <2>2
  <1>4. c = None \/ ToSet(Segments(p, c)) = ToSet(segments)
    OBVIOUS
  <1> HIDE DEF c, segments
  <1>5. /\ run'.pc = pc /\ run'.queue = segments /\ run'.mode = run.mode
        /\ run'.stage = run.stage /\ run'.attempted = run.attempted
        /\ run'.todo = run.todo \ {p} /\ run'.seen = [run.seen EXCEPT ![p] = c]
    BY <1>1 DEF Runs
  <1>6. /\ run'.seen[p] = c /\ \A q \in Paths \ {p} : run'.seen[q] = run.seen[q]
    BY <1>1, <1>5 DEF Runs
  <1>7. run.stage = "stream" /\ run.attempted \subseteq Paths
    BY <1>1 DEF RunInv, ModeOK, Runs
  <1>8. Reading' => Reading
    BY <1>1, <1>5 DEF Reading
  <1>9. ReadOK'
    <2> SUFFICES ASSUME Reading PROVE ReadOK'
      BY <1>8 DEF ReadOK
    <2>1. /\ run.todo \subseteq run.attempted /\ run.queue = <<>>
          /\ \A q \in Paths \ run.attempted : proof[q] = Due(q)
          /\ \A u \in Known : /\ u.path \in run.attempted \ run.todo
                              /\ ~Deletes(u) => u.digest = run.seen[u.path]
          /\ \A q \in run.attempted \ run.todo :
                run.seen[q] = None \/ ToSet(Segments(q, run.seen[q])) \subseteq Known
      BY <1>1 DEF CurrentInv, ReadOK, Working
    <2>2. Known = Recorded /\ Known' = Recorded \cup ToSet(segments)
      BY <1>1, <1>5, <2>1 DEF Known, Recorded, ToSet
    <2>3. \A q \in Paths \ run.attempted : proof'[q] = Due(q)'
      BY <1>1, <1>6, <2>1 DEF Due
    <2>4. \A u \in Known' : /\ u.path \in run'.attempted \ run'.todo
                            /\ ~Deletes(u) => u.digest = run'.seen[u.path]
      BY <1>1, <1>3, <1>5, <1>6, <1>7, <2>1, <2>2
    <2>5. ASSUME NEW q \in run'.attempted \ run'.todo
          PROVE  run'.seen[q] = None \/ ToSet(Segments(q, run'.seen[q])) \subseteq Known'
      <3>1. CASE q = p
        BY <1>4, <1>6, <2>2, <3>1
      <3>2. CASE q # p
        BY <1>5, <1>6, <1>7, <2>1, <2>2, <3>2
      <3> QED BY <3>1, <3>2
    <2> QED BY <1>1, <1>5, <1>7, <2>1, <2>3, <2>4, <2>5 DEF ReadOK, Deletes
  <1> QED BY <1>5, <1>9 DEF CurrentInv, BeginOK, SealOK, DoneOK

\* Whatever is published of a file that has nothing any more has been, or is to be, deleted.
LEMMA DeleteObsoleteCurrent ==
    ASSUME LedgerInv, RunInv, CurrentInv, DeleteObsolete PROVE CurrentInv'
  <1> DEFINE prior(p) == Of(run.existing, {p}) \cup Published(p)
             kind(p) == IF p \in run.dels THEN "path" ELSE "stale"
             obsolete(p) == prior(p) \ UnitPoints(Upserts(units, p))
             due == {p \in run.attempted : obsolete(p) # {}
                         /\ ~\E u \in units : u.path = p /\ u.kind = kind(p)}
             D == {Deletion(p, kind(p), obsolete(p)) : p \in due}
             pc == IF SetToSeq(D) = <<>> THEN "seal" ELSE "prepare"
  <1>1. /\ run' = [run EXCEPT !.stage = "seal", !.queue = SetToSeq(D), !.pc = pc]
        /\ run.pc = "stream" /\ run.todo = {} /\ run \in Runs
        /\ UNCHANGED <<proof, receipt, gaps>>
    BY DEF DeleteObsolete, Same, ledger, RunInv
  <1>2. due \subseteq run.attempted /\ run.attempted \subseteq Paths
    BY <1>1 DEF Runs
  <1>3. \A p \in Paths : kind(p) \in {"path", "stale"} /\ obsolete(p) \in SUBSET ({p} \X Chunks)
    <2> SUFFICES ASSUME NEW p \in Paths PROVE prior(p) \in SUBSET ({p} \X Chunks)
      OBVIOUS
    <2>1. run.existing \in SUBSET AllPoints
      BY <1>1 DEF Runs
    <2>2. Of(run.existing, {p}) \in SUBSET ({p} \X Chunks)
      BY <2>1 DEF Of, AllPoints
    <2> QED BY <2>2, PublishedFacts DEF LedgerInv
  <1>4. ASSUME NEW p \in run.attempted, proof[p] # None, p \notin due
        PROVE  \E u \in Recorded : u.path = p
    <2>1. Published(p) # {}
      <3>1. PICK c \in Contents : PointsOf(p, c) # {} /\ proof[p] = Evidence(p, c)
        BY <1>2, <1>4 DEF LedgerInv, WholeProof
      <3> QED BY <1>4, <3>1, PublicationAssumption DEF Published, Evidence
    <2>2. (\E u \in units : u.path = p) \/ obsolete(p) = {}
      BY <1>4
    <2>3. (\E u \in units : u.path = p) \/ UnitPoints(Upserts(units, p)) # {}
      BY <2>1, <2>2
    <2>4. \E u \in units : u.path = p
      BY <2>3 DEF UnitPoints, Upserts
    <2> QED BY <2>4 DEF LedgerInv, LedgerOK
  <1> HIDE DEF due, kind, obsolete
  <1>5. /\ D \in SUBSET Units /\ (\A d \in D : Deletes(d) /\ d.path \in due)
        /\ (\A p \in due : \E d \in D : d.path = p)
        /\ \A d, e \in D : d.path = e.path => d = e
    <2>1. \A p \in due : /\ Deletion(p, kind(p), obsolete(p)) \in Units
                         /\ Deletes(Deletion(p, kind(p), obsolete(p)))
                         /\ Deletion(p, kind(p), obsolete(p)).path = p
      BY <1>2, <1>3, DeletionIsUnit
    <2> QED BY <2>1
  <1>6. ToSet(SetToSeq(D)) = D
    <2>1. IsFiniteSet(D)
      BY <1>5, FewUnits
    <2> HIDE DEF D
    <2> QED BY <1>5, <2>1, Listed
  <1> HIDE DEF D
  <1>7. /\ run'.stage = "seal" /\ run'.queue = SetToSeq(D) /\ run'.pc = pc
        /\ run'.mode = run.mode /\ run'.attempted = run.attempted /\ run'.todo = run.todo
        /\ run'.seen = run.seen
    BY <1>1 DEF Runs
  <1>8. Reading' <=> Reading
    BY <1>1, <1>7 DEF Reading
  <1>9. ReadOK'
    <2> SUFFICES ASSUME Reading PROVE ReadOK'
      BY <1>8 DEF ReadOK
    <2>1. /\ run.queue = <<>>
          /\ \A p \in Paths \ run.attempted : proof[p] = Due(p)
          /\ \A u \in Known : /\ u.path \in run.attempted
                              /\ ~Deletes(u) => u.digest = run.seen[u.path]
          /\ \A p \in run.attempted :
                run.seen[p] = None \/ ToSet(Segments(p, run.seen[p])) \subseteq Known
      BY <1>1 DEF CurrentInv, ReadOK, Working
    <2>2. Known = Recorded /\ Known' = Recorded \cup D
      BY <1>1, <1>6, <1>7, <2>1 DEF Known, Recorded, ToSet
    <2>3. \A p \in Paths \ run.attempted : proof'[p] = Due(p)'
      BY <1>1, <1>7, <2>1 DEF Due
    <2>4. \A u \in Known' : /\ u.path \in run'.attempted \ run'.todo
                            /\ ~Deletes(u) => u.digest = run'.seen[u.path]
      BY <1>1, <1>2, <1>5, <1>7, <2>1, <2>2
    <2>5. \A p \in run'.attempted :
              run'.seen[p] = None \/ ToSet(Segments(p, run'.seen[p])) \subseteq Known'
      BY <1>7, <2>1, <2>2
    <2>6. \A p \in run'.attempted : proof'[p] # None => \E u \in Known' : u.path = p
      BY <1>1, <1>4, <1>5, <1>7, <2>2
    <2> QED BY <1>1, <1>7, <2>3, <2>4, <2>5, <2>6 DEF ReadOK, Deletes
  <1> QED BY <1>7, <1>9 DEF CurrentInv, BeginOK, SealOK, DoneOK

\* What is in hand becomes recorded.
LEMMA UnitCurrent ==
    ASSUME RunInv, CurrentInv, run.pc \in AtUnit, NEW pc \in AtUnit, Goto(pc),
           UNCHANGED <<proof, gaps>>, Recorded' = Recorded \/ Recorded' = Recorded \cup {Unit}
    PROVE  CurrentInv'
  <1>1. run \in Runs /\ run.queue # <<>> /\ run.queue \in Seq(Units)
    BY DEF RunInv, UnitOK, Runs
  <1>2. run'.pc = pc /\ RunGoesOn
    BY <1>1, GotoFacts DEF PCs, Working
  <1>3. /\ run'.mode = run.mode /\ run'.stage = run.stage /\ run'.attempted = run.attempted
        /\ run'.todo = run.todo /\ run'.seen = run.seen /\ run'.queue = run.queue
    BY <1>2 DEF RunGoesOn
  <1>4. Unit \in ToSet(run.queue)
    BY <1>1 DEF Unit, ToSet
  <1>5. Known' = Known
    BY <1>3, <1>4 DEF Known
  <1>6. Reading' <=> Reading
    BY <1>3 DEF Reading
  <1>7. ReadOK'
    BY <1>2, <1>3, <1>5, <1>6 DEF CurrentInv, ReadOK, Working, AtUnit, Due, Deletes
  <1> QED BY <1>2, <1>7 DEF CurrentInv, BeginOK, SealOK, DoneOK, AtUnit

LEMMA PrepareCurrent ==
    ASSUME LedgerInv, RunInv, CurrentInv, Prepare PROVE CurrentInv'
  <1>1. /\ \/ receipt' = Advanced("prepared") /\ Goto("write") /\ Same
           \/ Raise(IF receipt.state = "rolledback" THEN {"closed"} ELSE {})
           \/ Goto("write") /\ Same /\ UNCHANGED receipt
           \/ receipt' = Advanced("confirmed") /\ Goto("record") /\ Same
        /\ run.pc = "prepare" /\ UNCHANGED proof
    BY DEF Prepare
  <1>2. Unit \in Units /\ run.pc \in AtUnit /\ run \in Runs
    BY <1>1, UnitInHand DEF AtUnit
  <1>3. CASE Raise(IF receipt.state = "rolledback" THEN {"closed"} ELSE {})
    <2>1. Unwind(FALSE)
      BY <1>3 DEF Raise
    <2> HIDE DEF Unwind
    <2> QED BY <1>2, <2>1, RaisedCurrent
  <1>4. CASE receipt' = Advanced("prepared") /\ Goto("write") /\ Same
    <2>1. Recorded' = Recorded \cup {Unit}
      BY <1>2, <1>4, AdvancedFacts DEF LedgerInv
    <2> QED BY <1>1, <1>2, <1>4, <2>1, UnitCurrent DEF Same, AtUnit
  <1>5. CASE Goto("write") /\ Same /\ UNCHANGED receipt
    <2>1. Recorded' = Recorded
      BY <1>5 DEF Recorded
    <2> QED BY <1>1, <1>2, <1>5, <2>1, UnitCurrent DEF Same, AtUnit
  <1>6. CASE receipt' = Advanced("confirmed") /\ Goto("record") /\ Same
    <2>1. Recorded' = Recorded \cup {Unit}
      BY <1>2, <1>6, AdvancedFacts DEF LedgerInv
    <2> QED BY <1>1, <1>2, <1>6, <2>1, UnitCurrent DEF Same, AtUnit
  <1> QED BY <1>1, <1>3, <1>4, <1>5, <1>6

LEMMA MarkCurrent ==
    ASSUME LedgerInv, RunInv, CurrentInv, Write \/ MarkApplied \/ Confirm PROVE CurrentInv'
  <1>1. CASE Write
    <2>1. /\ run.pc = "write" /\ Goto("applied") /\ UNCHANGED <<proof, receipt, gaps>>
      BY <1>1 DEF Write, Same, ledger
    <2>2. Recorded' = Recorded
      BY <2>1 DEF Recorded
    <2> QED BY <2>1, <2>2, UnitCurrent DEF AtUnit
  <1>2. CASE MarkApplied \/ Confirm
    <2>1. /\ run.pc \in AtUnit /\ UNCHANGED <<proof, gaps>>
          /\ \/ Goto("confirm") /\ receipt' = Advanced("applied")
             \/ Goto("record") /\ receipt' = Advanced("confirmed")
      BY <1>2 DEF MarkApplied, Confirm, Same, AtUnit
    <2>2. Unit \in Units
      BY <2>1, UnitInHand
    <2>3. Recorded' = Recorded \cup {Unit}
      BY <2>1, <2>2, AdvancedFacts DEF LedgerInv
    <2> QED BY <2>1, <2>3, UnitCurrent DEF AtUnit
  <1> QED BY <1>1, <1>2

LEMMA RecordCurrent ==
    ASSUME RunInv, CurrentInv, Record PROVE CurrentInv'
  <1> DEFINE tail == Tail(run.queue)
             pc == IF tail = <<>> THEN run.stage ELSE "prepare"
  <1>1. /\ run' = [run EXCEPT !.queue = tail, !.pc = pc] /\ run.pc = "record"
        /\ UNCHANGED <<proof, receipt, gaps>>
    BY DEF Record, Same
  <1>2. run \in Runs /\ run.queue # <<>> /\ run.queue \in Seq(Units) /\ Unit \in Recorded
    BY <1>1 DEF RunInv, UnitOK, Runs, AtUnit
  <1>3. ToSet(tail) \cup {Unit} = ToSet(run.queue)
    <2>1. \A i \in 1 .. Len(tail) : tail[i] = run.queue[i + 1] /\ i + 1 \in 1 .. Len(run.queue)
      BY <1>2
    <2>2. \A i \in 1 .. Len(run.queue) : i = 1 \/ (i - 1 \in 1 .. Len(tail) /\ tail[i - 1] = run.queue[i])
      BY <1>2
    <2>3. Unit = run.queue[1] /\ 1 \in 1 .. Len(run.queue)
      BY <1>2 DEF Unit
    <2>4. DOMAIN tail = 1 .. Len(tail) /\ DOMAIN run.queue = 1 .. Len(run.queue)
      BY <1>2
    <2> HIDE DEF tail
    <2>5. \A u \in ToSet(tail) \cup {Unit} : u \in ToSet(run.queue)
      BY <2>1, <2>3, <2>4 DEF ToSet
    <2>6. \A u \in ToSet(run.queue) : u \in ToSet(tail) \cup {Unit}
      BY <2>2, <2>3, <2>4 DEF ToSet
    <2> QED BY <2>5, <2>6
  <1> HIDE DEF tail
  <1>4. /\ run'.pc = pc /\ run'.queue = tail /\ run'.mode = run.mode /\ run'.stage = run.stage
        /\ run'.attempted = run.attempted /\ run'.todo = run.todo /\ run'.seen = run.seen
    BY <1>1, <1>2 DEF Runs
  <1>5. Recorded' = Recorded /\ (Reading' <=> Reading)
    BY <1>1, <1>4 DEF Recorded, Reading
  <1>6. Known' = Known
    BY <1>2, <1>3, <1>4, <1>5 DEF Known
  <1>7. Reading => run.stage \in {"stream", "seal"}
    BY <1>1, <1>2 DEF RunInv, ModeOK, StepOK, Reading, Working, AtUnit, Runs, Stages
  <1>8. ReadOK'
    <2> SUFFICES ASSUME Reading PROVE ReadOK'
      BY <1>5 DEF ReadOK
    <2> QED BY <1>1, <1>4, <1>6, <1>7 DEF CurrentInv, ReadOK, Working, AtUnit, Due, Deletes
  <1>9. pc \in Stages \cup {"prepare"}
    BY <1>2 DEF Runs
  <1> QED BY <1>4, <1>8, <1>9 DEF CurrentInv, BeginOK, SealOK, DoneOK, Stages

\* An upload is of a content that has something to publish.
LEMMA UploadFacts ==
    ASSUME NEW u \in Units, ~Deletes(u)
    PROVE  u.digest \in Contents /\ Evidence(u.path, u.digest) # None
  <1>1. IsUpload(u)
    BY DEF Units, IsDeletion, Deletion, Deletes
  <1>2. PICK p \in Paths, c \in Contents : \E i \in 1 .. Len(Stream[c]) : u = Upsert(p, c, i)
    BY <1>1 DEF IsUpload
  <1>3. PICK i \in 1 .. Len(Stream[c]) : u = Upsert(p, c, i)
    BY <1>2
  <1>4. u.path = p /\ u.digest = c
    BY <1>3 DEF Upsert
  <1>5. Stream[c] \in Seq(Nat)
    BY PublicationAssumption
  <1>6. Stream[c][i] \in ToSet(Stream[c])
    BY <1>5 DEF ToSet
  <1>7. Point(p, Stream[c][i]) \in PointsOf(p, c) /\ PointsOf(p, c) \subseteq Paths \X Chunks
    BY <1>6 DEF PointsOf, Point, Chunks
  <1>8. Evidence(p, c) = [digest |-> c, points |-> PointsOf(p, c)]
    BY <1>7, PublicationAssumption DEF Evidence
  <1> QED BY <1>4, <1>7, <1>8, NoneAssumption

\* What has been published, or recorded, of a whole content.
LEMMA WholeFacts ==
    ASSUME NEW p \in Paths, NEW c \in Contents, PointsOf(p, c) # {}
    PROVE  Evidence(p, c).digest = c
  BY PublicationAssumption DEF Evidence

\* At the end of the stream the receipt says of every file what the run read of it.
LEMMA SealedEvidence ==
    ASSUME LedgerInv, RunInv, CurrentInv, Reading, run.pc = "seal", NEW p \in Paths
    PROVE  /\ p \notin Touched => proof[p] = Due(p)
           /\ p \in Touched => \/ NewEvidence(p) = None /\ Due(p) = None
                               \/ NewEvidence(p) # None /\ NewEvidence(p).digest = run.seen[p]
  <1>1. /\ run.stage = "seal" /\ run.todo = {} /\ run.queue = <<>>
        /\ (p \notin run.attempted => proof[p] = Due(p))
        /\ \A u \in Known : /\ u.path \in run.attempted
                            /\ ~Deletes(u) => u.digest = run.seen[u.path]
        /\ p \in run.attempted =>
              run.seen[p] = None \/ ToSet(Segments(p, run.seen[p])) \subseteq Known
        /\ p \in run.attempted /\ Due(p) = None /\ proof[p] # None => \E u \in Known : u.path = p
    BY DEF CurrentInv, ReadOK, RunInv, ModeOK, Working
  <1>2. Known = Recorded
    BY <1>1 DEF Known, ToSet
  <1>3. Recorded \in SUBSET Units /\ run.seen[p] \in Contents \cup {None}
    BY RecordedFacts DEF LedgerInv, RunInv, Runs
  <1>4. ASSUME NEW u \in Upserts(Recorded, p)
        PROVE  u.digest = run.seen[p] /\ Due(p) # None
    <2>1. u \in Units /\ u \in Known /\ ~Deletes(u) /\ u.path = p
      BY <1>2, <1>3 DEF Upserts, Deletes
    <2>2. u.digest = run.seen[p]
      BY <1>1, <2>1
    <2> QED BY <2>1, <2>2, UploadFacts DEF Due
  <1>5. CASE Upserts(Recorded, p) # {}
    <2>1. (CHOOSE u \in Upserts(Recorded, p) : TRUE) \in Upserts(Recorded, p)
      BY <1>5
    <2>2. NewEvidence(p) # None
      BY <1>5, EvidenceFacts DEF LedgerInv
    <2>3. NewEvidence(p).digest = run.seen[p]
      <3> DEFINE u == CHOOSE v \in Upserts(Recorded, p) : TRUE
                 all == UnitPoints(Upserts(Recorded, p))
      <3>1. NewEvidence(p) = [digest |-> u.digest, points |-> all]
        BY <1>5 DEF NewEvidence
      <3>2. u.digest = run.seen[p]
        BY <1>4, <2>1
      <3> HIDE DEF u, all
      <3> QED BY <3>1, <3>2
    <2>4. p \in Touched
      BY <1>5 DEF Upserts, Touched
    <2> QED BY <2>2, <2>3, <2>4
  <1>6. CASE Upserts(Recorded, p) = {}
    <2>1. NewEvidence(p) = None
      BY <1>6, EvidenceFacts DEF LedgerInv
    <2>2. p \in run.attempted => Due(p) = None
      <3> SUFFICES ASSUME p \in run.attempted, Due(p) # None PROVE FALSE
        OBVIOUS
      <3> DEFINE c == run.seen[p]
      <3>1. c \in Contents /\ PointsOf(p, c) # {}
        BY <1>3 DEF Due, Evidence
      <3>2. ToSet(Segments(p, c)) \subseteq Recorded
        BY <1>1, <1>2, <3>1, PublicationAssumption
      <3> HIDE DEF c
      <3>3. PICK x : x \in UnitPoints(ToSet(Segments(p, c)))
        BY <3>1, SegmentsFacts
      <3>4. PICK u \in ToSet(Segments(p, c)) : x \in u.points
        BY <3>3 DEF UnitPoints
      <3>5. ~Deletes(u) /\ u.path = p
        BY <3>1, <3>4, SegmentsOf
      <3> QED BY <1>6, <3>2, <3>4, <3>5 DEF Upserts, Deletes
    <2>3. p \in Touched => p \in run.attempted
      BY <1>1, <1>2 DEF Touched
    <2>4. p \notin Touched => proof[p] = Due(p)
      BY <1>1, <1>2, <2>2 DEF Touched
    <2> QED BY <2>1, <2>2, <2>3, <2>4
  <1> QED BY <1>5, <1>6

LEMMA SealIndexCurrent ==
    ASSUME LedgerInv, RunInv, CurrentInv, SealIndex PROVE CurrentInv'
  <1>1. /\ \/ receipt.state = "rolledback" /\ Goto("advance") /\ Same /\ UNCHANGED receipt
           \/ /\ receipt.muts = {} /\ receipt' = [receipt EXCEPT !.state = "rolledback"]
              /\ Goto("advance") /\ Same
           \/ /\ Covers(Recorded) /\ receipt' = [receipt EXCEPT !.state = "sealed"]
              /\ Goto("reconcile") /\ Same
           \/ Raise(Reverted)
        /\ run.pc = "seal" /\ run \in Runs /\ UNCHANGED proof
    BY DEF SealIndex, RunInv
  <1>2. CASE Raise(Reverted)
    <2>1. Unwind(FALSE)
      BY <1>2 DEF Raise
    <2> HIDE DEF Unwind
    <2> QED BY <1>1, <2>1, RaisedCurrent
  <1>3. CASE receipt.muts = {} /\ Goto("advance") /\ Same /\ receipt'.state = "rolledback"
    <2>1. run'.pc = "advance" /\ RunGoesOn
      BY <1>1, <1>3, GotoFacts DEF PCs
    <2>2. run'.mode = run.mode /\ run'.seen = run.seen
      BY <2>1 DEF RunGoesOn
    <2>3. OwnWork' <=> OwnWork
      BY <1>3, <2>2 DEF OwnWork, Same
    <2>4. ASSUME OwnWork, NEW p \in Paths PROVE proof'[p] = Due(p)'
      <3>1. p \notin Touched
        BY <1>3, TouchedFacts DEF LedgerInv
      <3>2. proof[p] = Due(p)
        BY <1>1, <2>4, <3>1, SealedEvidence DEF OwnWork, Reading
      <3> QED BY <1>1, <2>2, <3>2 DEF Due
    <2> QED BY <1>3, <2>1, <2>3, <2>4
            DEF CurrentInv, BeginOK, ReadOK, SealOK, DoneOK, Working, AtUnit
  <1>4. CASE /\ Covers(Recorded) /\ receipt' = [receipt EXCEPT !.state = "sealed"]
             /\ Goto("reconcile") /\ Same
    <2>1. run'.pc = "reconcile" /\ RunGoesOn
      BY <1>1, <1>4, GotoFacts DEF PCs
    <2>2. run'.mode = run.mode /\ run'.seen = run.seen
      BY <2>1 DEF RunGoesOn
    <2>3. OwnWork' <=> OwnWork
      BY <1>4, <2>2 DEF OwnWork, Same
    <2>4. Recorded' = Recorded
      BY <1>4 DEF LedgerInv, LedgerType, Recorded
    <2>5. Changed' = Changed /\ \A p \in Paths : NewEvidence(p)' = NewEvidence(p)
      BY <1>1, <2>4, RecordViews
    <2>6. ASSUME OwnWork, NEW p \in Paths
          PROVE  IF p \in Changed THEN NewEvidence(p) = Due(p) ELSE proof[p] = Due(p)
      <3>1. /\ p \notin Touched => proof[p] = Due(p)
            /\ p \in Touched => \/ NewEvidence(p) = None /\ Due(p) = None
                                \/ NewEvidence(p) # None /\ NewEvidence(p).digest = run.seen[p]
        BY <1>1, <2>6, SealedEvidence DEF OwnWork, Reading
      <3>2. CASE p \notin Touched
        BY <3>1, <3>2 DEF Changed
      <3>3. CASE NewEvidence(p) = None /\ Due(p) = None /\ p \in Touched
        BY <3>3 DEF Changed
      <3>4. CASE NewEvidence(p) # None /\ NewEvidence(p).digest = run.seen[p] /\ p \in Changed
        <4>1. NewEvidence(p) = Evidence(p, NewEvidence(p).digest)
          BY <1>4, <3>4, CompleteEvidence DEF Covers, LedgerInv
        <4> QED BY <3>4, <4>1 DEF Due
      <3>5. CASE /\ NewEvidence(p) # None /\ NewEvidence(p).digest = run.seen[p]
                 /\ p \in Touched /\ p \notin Changed
        <4>1. proof[p] = NewEvidence(p)
          BY <3>5 DEF Changed
        <4>2. PICK c \in Contents : PointsOf(p, c) # {} /\ proof[p] = Evidence(p, c)
          BY <3>5, <4>1 DEF LedgerInv, WholeProof
        <4>3. c = run.seen[p]
          BY <3>5, <4>1, <4>2, WholeFacts
        <4> QED BY <3>5, <4>2, <4>3 DEF Due
      <3> QED BY <3>1, <3>2, <3>3, <3>4, <3>5 DEF Changed
    <2>7. ASSUME OwnWork, NEW p \in Paths
          PROVE  IF p \in Changed' THEN NewEvidence(p)' = Due(p)' ELSE proof'[p] = Due(p)'
      BY <1>1, <2>2, <2>5, <2>6, <2>7 DEF Due
    <2>8. receipt'.state = "sealed"
      BY <1>4 DEF LedgerInv, LedgerType
    <2> QED BY <2>1, <2>3, <2>7, <2>8
            DEF CurrentInv, BeginOK, ReadOK, SealOK, DoneOK, Working, AtUnit
  <1>5. Closed => receipt.muts = {}
    BY DEF LedgerInv, LedgerOK
  <1>6. [receipt EXCEPT !.state = "rolledback"].state = "rolledback"
    BY DEF LedgerInv, LedgerType
  <1> QED BY <1>1, <1>2, <1>3, <1>4, <1>5, <1>6 DEF Closed

\* What is to be published stays so until it is.
LEMMA LateCurrent ==
    ASSUME LedgerInv, RunInv, CurrentInv, Reconcile \/ Advance PROVE CurrentInv'
  <1>1. /\ run.pc \in {"reconcile", "advance"} /\ run \in Runs /\ UNCHANGED <<proof, receipt>>
        /\ \/ Same /\ Goto("advance")
           \/ Same /\ Goto("commit")
           \/ Unwind(FALSE)
    BY DEF Reconcile, Advance, Raise, ledger, RunInv
  <1>2. CASE Unwind(FALSE)
    <2> HIDE DEF Unwind
    <2> QED BY <1>1, <1>2, RaisedCurrent
  <1>3. ASSUME NEW pc \in {"advance", "commit"}, Same, Goto(pc) PROVE CurrentInv'
    <2>1. run'.pc = pc /\ RunGoesOn
      BY <1>1, <1>3, GotoFacts DEF PCs
    <2>2. run'.mode = run.mode /\ run'.seen = run.seen
      BY <2>1 DEF RunGoesOn
    <2>3. OwnWork' <=> OwnWork
      BY <1>3, <2>2 DEF OwnWork, Same
    <2>4. Recorded' = Recorded
      BY <1>1 DEF Recorded
    <2>5. Changed' = Changed /\ \A p \in Paths : NewEvidence(p)' = NewEvidence(p)
      BY <1>1, <2>4, RecordViews
    <2>6. SealOK'
      BY <1>1, <2>1, <2>2, <2>3, <2>5 DEF CurrentInv, SealOK, Due
    <2> QED BY <2>1, <2>6 DEF CurrentInv, BeginOK, ReadOK, DoneOK, Working, AtUnit
  <1> QED BY <1>1, <1>2, <1>3

LEMMA CommitCurrent ==
    ASSUME LedgerInv, RunInv, CurrentInv, Commit PROVE CurrentInv'
  <1>1. /\ \/ /\ receipt.state = "sealed"
              /\ proof' = [p \in Paths |-> IF p \in Changed THEN NewEvidence(p) ELSE proof[p]]
           \/ receipt.state # "sealed" /\ UNCHANGED proof
        /\ run.pc = "commit" /\ run \in Runs /\ Goto("finish") /\ Same
    BY DEF Commit, RunInv
  <1>2. run'.pc = "finish" /\ RunGoesOn
    BY <1>1, GotoFacts DEF PCs
  <1>3. run'.mode = run.mode /\ run'.seen = run.seen
    BY <1>2 DEF RunGoesOn
  <1>4. OwnWork' <=> OwnWork
    BY <1>1, <1>3 DEF OwnWork, Same
  <1>5. ASSUME OwnWork, NEW p \in Paths PROVE proof'[p] = Due(p)
    BY <1>1, <1>5 DEF CurrentInv, SealOK
  <1>6. DoneOK'
    BY <1>3, <1>4, <1>5 DEF DoneOK, Due
  <1> QED BY <1>2, <1>6 DEF CurrentInv, BeginOK, ReadOK, SealOK, Working, AtUnit

LEMMA EndCurrent ==
    ASSUME RunInv, Finish \/ Fail \/ Crash \/ Discard \/ Classify PROVE CurrentInv'
  <1>1. run \in Runs
    BY DEF RunInv
  <1>2. CASE run' = Idle("ok") \/ run' = Idle("hit") \/ run' = Idle("failed")
    <2>1. run'.pc = "idle"
      BY <1>2, IdleFacts DEF Modes
    <2> QED BY <2>1, OtherRun
  <1>3. CASE Finish
    BY <1>1, <1>2, <1>3, CheckedCurrent DEF Finish
  <1>4. CASE Fail
    <2>1. Unwind(TRUE)
      BY <1>4 DEF Fail
    <2> HIDE DEF Unwind
    <2> QED BY <1>1, <2>1, RaisedCurrent
  <1>5. CASE Crash \/ Classify
    BY <1>2, <1>5 DEF Crash, Classify
  <1>6. CASE Discard
    <2>1. run'.pc = "classify"
      BY <1>1, <1>6, GotoFacts DEF Discard, PCs
    <2> QED BY <2>1, OtherRun
  <1> QED BY <1>3, <1>4, <1>5, <1>6

\* Settling what the last run left is nobody's own work.
LEMMA SettlingCurrent ==
    ASSUME LedgerInv, RunInv, CurrentInv,
           \/ Start \/ SettleNothing \/ RefuseRecovery \/ SettleCommitted \/ SettleEmpty
           \/ SettleForward \/ SealForward \/ RecordOutcomes \/ SettleReplay \/ ResetStorage
           \/ Reopen \/ SealReplay
    PROVE  CurrentInv'
  <1>1. run \in Runs
    BY DEF RunInv
  <1>2. ASSUME run'.pc \in {"recover", "reset", "reopen", "check"},
               run'.queue = <<>>, run'.stage = "none"
        PROVE  CurrentInv'
    BY <1>2 DEF CurrentInv, BeginOK, ReadOK, SealOK, DoneOK, Working, AtUnit
  <1>3. CASE Start
    <2>1. run' = [Idle("recover") EXCEPT !.pc = "recover"]
      BY <1>3 DEF Start
    <2>2. run'.pc = "recover" /\ run'.queue = <<>> /\ run'.stage = "none"
      BY <2>1, IdleFacts DEF Modes, Runs
    <2> QED BY <1>2, <2>2
  <1>4. CASE SettleNothing \/ SettleEmpty
    BY <1>1, <1>4, CheckedCurrent DEF SettleNothing, SettleEmpty
  <1>5. ASSUME run.mode \in {"recover", "replay"}, NEW pc \in PCs, Goto(pc),
               run.mode = "replay" => pc \in {"reconcile", "advance"},
               pc \notin {"recover", "reset", "reopen", "check"}
        PROVE  CurrentInv'
    <2>1. run'.mode = run.mode /\ run'.pc = pc
      BY <1>1, <1>5, GotoFacts DEF RunGoesOn
    <2> QED BY <1>5, <2>1
            DEF CurrentInv, BeginOK, ReadOK, SealOK, DoneOK, OwnWork, Reading, Working, AtUnit
  <1>6. ASSUME Unwind(FALSE) PROVE CurrentInv'
    <2> HIDE DEF Unwind
    <2> QED BY <1>1, <1>6, RaisedCurrent
  <1>7. CASE RefuseRecovery
    BY <1>6, <1>7 DEF RefuseRecovery, Raise
  <1>8. run.pc \in {"recover", "reset", "reopen", "forward", "outcomes"} => run.mode = "recover"
    BY DEF RunInv, ModeOK
  <1>9. CASE SettleCommitted
    BY <1>5, <1>8, <1>9 DEF SettleCommitted, Settling, Pending, PCs
  <1>10. CASE SettleReplay \/ ResetStorage \/ Reopen
    <2>1. run.queue = <<>> /\ run.stage = "none"
      BY <1>10 DEF SettleReplay, Settling, Pending, ResetStorage, Reopen, CurrentInv, BeginOK
    <2>2. /\ run'.queue = run.queue /\ run'.stage = run.stage
          /\ run'.pc \in {"reset", "reopen", "check"}
      BY <1>1, <1>10 DEF SettleReplay, ResetStorage, Reopen, Goto, Runs
    <2> QED BY <1>2, <2>1, <2>2
  <1>11. CASE SettleForward
    <2>1. run.mode = "recover"
      BY <1>8, <1>11 DEF SettleForward, Settling, Pending
    <2>2. run'.mode = "recover" /\ run'.pc \in {"forward", "prepare"}
      BY <1>1, <1>11, <2>1 DEF SettleForward, Runs
    <2> QED BY <2>2 DEF CurrentInv, BeginOK, ReadOK, SealOK, DoneOK, Reading
  <1>12. CASE SealForward \/ RecordOutcomes
    <2>1. run.mode = "recover"
      BY <1>8, <1>12 DEF SealForward, RecordOutcomes
    <2>2. Goto("outcomes") \/ Goto("advance") \/ Unwind(FALSE)
      BY <1>12 DEF SealForward, RecordOutcomes, Raise
    <2> QED BY <1>5, <1>6, <2>1, <2>2 DEF PCs
  <1>13. CASE SealReplay
    <2>1. run.mode = "replay" /\ (Goto("advance") \/ Goto("reconcile") \/ Unwind(FALSE))
      BY <1>13 DEF SealReplay, Raise
    <2> QED BY <1>5, <1>6, <2>1 DEF PCs
  <1> QED BY <1>3, <1>4, <1>7, <1>9, <1>10, <1>11, <1>12, <1>13

\* Files may change: what the run read does not.
LEMMA StillCurrent ==
    ASSUME CurrentInv, UNCHANGED <<proof, receipt, run, gaps>> PROVE CurrentInv'
  <1>1. Recorded' = Recorded
    BY DEF Recorded
  <1>2. Changed' = Changed /\ \A p \in Paths : NewEvidence(p)' = NewEvidence(p)
    BY <1>1, RecordViews
  <1>3. (OwnWork' <=> OwnWork) /\ (Reading' <=> Reading) /\ Known' = Known /\ \A p : Due(p)' = Due(p)
    BY <1>1 DEF OwnWork, Reading, Known, Due
  <1>4. BeginOK' /\ ReadOK' /\ DoneOK'
    BY <1>3 DEF CurrentInv, BeginOK, ReadOK, DoneOK, Deletes
  <1>5. SealOK'
    BY <1>2, <1>3 DEF CurrentInv, SealOK
  <1> QED BY <1>4, <1>5 DEF CurrentInv

LEMMA CurrentKept ==
    PublicationInv /\ CurrentInv /\ [PublicationNext]_publicationVars => CurrentInv'
  <1> SUFFICES ASSUME PublicationInv, CurrentInv, [PublicationNext]_publicationVars
               PROVE  CurrentInv'
    OBVIOUS
  <1>1. SourceType /\ LedgerInv /\ RunInv
    BY DEF PublicationInv
  <1>2. CASE Start
    BY <1>1, <1>2, SettlingCurrent
  <1>3. CASE RunStep
    <2>1. CASE \/ SettleNothing \/ RefuseRecovery \/ SettleCommitted \/ SettleEmpty
               \/ SettleForward \/ SealForward \/ RecordOutcomes \/ SettleReplay
               \/ ResetStorage \/ Reopen \/ SealReplay
      BY <1>1, <2>1, SettlingCurrent
    <2>2. CASE Scan
      BY <1>1, <2>2, ScanCurrent
    <2>3. CASE RefuseIndexing
      <3>1. Unwind(FALSE) /\ run \in Runs
        BY <1>1, <2>3 DEF RefuseIndexing, Raise, RunInv
      <3> HIDE DEF Unwind
      <3> QED BY <3>1, RaisedCurrent
    <2>4. CASE OpenFresh \/ OpenResumed
      BY <1>1, <2>4, OpenCurrent
    <2>5. CASE \E p \in Paths : ReadSource(p)
      BY <1>1, <2>5, ReadSourceCurrent
    <2>6. CASE DeleteObsolete
      BY <1>1, <2>6, DeleteObsoleteCurrent
    <2>7. CASE Prepare
      BY <1>1, <2>7, PrepareCurrent
    <2>8. CASE Write \/ MarkApplied \/ Confirm
      BY <1>1, <2>8, MarkCurrent
    <2>9. CASE Record
      BY <1>1, <2>9, RecordCurrent
    <2>10. CASE SealIndex
      BY <1>1, <2>10, SealIndexCurrent
    <2>11. CASE Reconcile \/ Advance
      BY <1>1, <2>11, LateCurrent
    <2>12. CASE Commit
      BY <1>1, <2>12, CommitCurrent
    <2>13. CASE Finish \/ Discard \/ Classify
      BY <1>1, <2>13, EndCurrent
    <2> QED BY <1>3, <2>1, <2>2, <2>3, <2>4, <2>5, <2>6, <2>7, <2>8, <2>9, <2>10, <2>11, <2>12,
               <2>13 DEF RunStep
  <1>4. CASE Fail \/ Crash
    BY <1>1, <1>4, EndCurrent
  <1>5. CASE \E p \in Paths : Edit(p) \/ Unreadable(p)
    <2>1. PICK p \in Paths : Edit(p) \/ Unreadable(p)
      BY <1>5
    <2>2. CASE Edit(p)
      BY <2>2, StillCurrent DEF Edit, ledger
    <2>3. CASE Unreadable(p)
      <3>1. Unwind(TRUE) /\ run \in Runs
        BY <1>1, <2>3 DEF Unreadable, RunInv
      <3> HIDE DEF Unwind
      <3> QED BY <3>1, RaisedCurrent
    <2> QED BY <2>1, <2>2, <2>3
  <1>6. CASE UNCHANGED publicationVars
    BY <1>6, StillCurrent DEF publicationVars
  <1> QED BY <1>2, <1>3, <1>4, <1>5, <1>6 DEF PublicationNext

\* Only an idle run is over.
Underway == run.pc # "idle" => run.mode \in {"recover", "index", "replay"}

LEMMA StepUnderway ==
    ASSUME RunInv, Underway, run.pc # "idle",
           \/ \E pc \in PCs : Goto(pc)
           \/ \E hit \in BOOLEAN : Unwind(hit)
           \/ Check
           \/ run'.mode \in {run.mode, "replay"}
           \/ \E mode \in Modes : run' = Idle(mode)
    PROVE  Underway'
  <1>1. run \in Runs
    BY DEF RunInv
  <1>2. CASE \E pc \in PCs : Goto(pc)
    <2>1. run'.mode = run.mode
      BY <1>1, <1>2, GotoFacts DEF RunGoesOn
    <2> QED BY <2>1 DEF Underway
  <1>3. ASSUME NEW mode \in Modes, run' = Idle(mode) PROVE Underway'
    <2>1. run'.pc = "idle"
      BY <1>3, IdleFacts
    <2> QED BY <2>1 DEF Underway
  <1>4. ASSUME NEW hit \in BOOLEAN, Unwind(hit) PROVE Underway'
    <2> DEFINE mode == IF run.hit \/ hit THEN "hit" ELSE "failed"
    <2>1. mode \in Modes
      BY DEF Modes
    <2> HIDE DEF Unwind
    <2>2. run'.mode = run.mode \/ run' = Idle(mode)
      BY <1>1, <1>4, UnwindFacts DEF RunGoesOn
    <2> HIDE DEF mode
    <2> QED BY <1>3, <2>1, <2>2 DEF Underway
  <1>5. CASE Check
    <2>1. run'.mode = "index"
      BY <1>1, <1>5, CheckFacts
    <2> QED BY <2>1 DEF Underway
  <1> QED BY <1>2, <1>3, <1>4, <1>5 DEF Underway

LEMMA UnderwayKept ==
    PublicationInv /\ Underway /\ [PublicationNext]_publicationVars => Underway'
  <1> SUFFICES ASSUME PublicationInv, Underway, [PublicationNext]_publicationVars
               PROVE  Underway'
    OBVIOUS
  <1>1. RunInv /\ run \in Runs
    BY DEF PublicationInv, RunInv
  <1> USE DEF Raise, PCs, Working, AtUnit
  <1>2. CASE Start
    <2>1. run'.mode = "recover"
      BY <1>2, IdleFacts DEF Start, Modes, Runs
    <2> QED BY <2>1 DEF Underway
  <1>3. CASE RunStep
    <2>1. CASE \/ SettleNothing \/ RefuseRecovery \/ SettleCommitted \/ SettleEmpty
               \/ SealForward \/ RecordOutcomes \/ ResetStorage
      BY <1>1, <2>1, StepUnderway
         DEF SettleNothing, RefuseRecovery, SettleCommitted, SettleEmpty, Settling, Pending,
             SealForward, RecordOutcomes, ResetStorage
    <2>2. CASE SettleForward \/ SettleReplay \/ Reopen \/ OpenFresh \/ DeleteObsolete \/ Record
      <3>1. run.pc # "idle" /\ run'.mode \in {run.mode, "replay"}
        BY <1>1, <2>2 DEF SettleForward, SettleReplay, Settling, Pending, Reopen, OpenFresh,
                          Streaming, DeleteObsolete, Record, Runs
      <3> QED BY <1>1, <3>1, StepUnderway
    <2>3. CASE Scan
      <3>1. /\ run.pc # "idle"
            /\ \/ run'.mode = run.mode \/ run' = Idle("ok") \/ Unwind(FALSE) \/ Check
        BY <1>1, <2>3 DEF Scan, Runs
      <3> QED BY <1>1, <3>1, StepUnderway DEF Modes
    <2>4. CASE RefuseIndexing
      BY <1>1, <2>4, StepUnderway DEF RefuseIndexing
    <2>5. CASE OpenResumed \/ \E p \in Paths : ReadSource(p)
      <3>1. run.pc # "idle" /\ run'.mode = run.mode
        BY <1>1, <2>5 DEF OpenResumed, Streaming, ReadSource, Runs
      <3> QED BY <1>1, <3>1, StepUnderway
    <2>6. CASE Prepare
      BY <1>1, <2>6, StepUnderway DEF Prepare
    <2>7. CASE Write \/ MarkApplied \/ Confirm
      BY <1>1, <2>7, StepUnderway DEF Write, MarkApplied, Confirm
    <2>8. CASE SealIndex
      BY <1>1, <2>8, StepUnderway DEF SealIndex
    <2>9. CASE SealReplay
      BY <1>1, <2>9, StepUnderway DEF SealReplay
    <2>10. CASE Reconcile \/ Advance \/ Commit \/ Discard
      BY <1>1, <2>10, StepUnderway DEF Reconcile, Advance, Commit, Discard
    <2>11. CASE Finish
      BY <1>1, <2>11, StepUnderway DEF Finish, Modes
    <2>12. CASE Classify
      BY <1>1, <2>12, StepUnderway DEF Classify, Modes
    <2> QED BY <1>3, <2>1, <2>2, <2>3, <2>4, <2>5, <2>6, <2>7, <2>8, <2>9, <2>10, <2>11, <2>12
            DEF RunStep
  <1>4. CASE Fail
    BY <1>1, <1>4, StepUnderway DEF Fail
  <1>5. CASE Crash
    BY <1>1, <1>5, StepUnderway DEF Crash, Modes
  <1>6. CASE \E p \in Paths : Edit(p) \/ Unreadable(p)
    <2>1. UNCHANGED run \/ (run.pc # "idle" /\ Unwind(TRUE))
      BY <1>6 DEF Edit, Unreadable
    <2> QED BY <1>1, <2>1, StepUnderway DEF Underway
  <1>7. CASE UNCHANGED publicationVars
    BY <1>7 DEF publicationVars, Underway
  <1> QED BY <1>2, <1>3, <1>4, <1>5, <1>6, <1>7 DEF PublicationNext

LEMMA RunsAreCurrent == PublicationSpec => [](CurrentInv /\ Underway)
  <1>1. PublicationInit => CurrentInv /\ Underway
    <2> SUFFICES ASSUME PublicationInit PROVE CurrentInv /\ Underway
      OBVIOUS
    <2>1. run.mode = "none" /\ run.pc = "idle"
      BY IdleFacts DEF PublicationInit, Modes
    <2> QED BY <2>1 DEF CurrentInv, BeginOK, ReadOK, SealOK, DoneOK, OwnWork, Reading,
                      Working, AtUnit, Underway
  <1> QED BY <1>1, CurrentKept, UnderwayKept, PublicationInvariant, PTL DEF PublicationSpec

\* A run that succeeds has published every file as it read it, however the tree changed
\* while it ran and whatever an earlier attempt left behind, unless all it did was to
\* finish a generation that was past reading.  A file the scan could not read counts
\* as gone.
THEOREM SuccessIsPublished == PublicationSpec => SuccessIsCurrent
  <1>1. PublicationInv /\ CurrentInv /\ Underway /\ [PublicationNext]_publicationVars =>
            [run.pc = "finish" /\ run'.mode = "ok" /\ "skipped" \notin gaps
              => \A p \in Paths : proof[p] = Evidence(p, run.seen[p])]_publicationVars
    <2> SUFFICES ASSUME PublicationInv, CurrentInv, Underway, PublicationNext,
                        run.pc = "finish", run'.mode = "ok", "skipped" \notin gaps
                 PROVE  \A p \in Paths : proof[p] = Evidence(p, run.seen[p])
      OBVIOUS
    <2>1. run \in Runs /\ run.mode \in {"recover", "index", "replay"}
      BY DEF Underway, PublicationInv, RunInv
    <2>2. ASSUME Unwind(TRUE) PROVE FALSE
      <3>1. Idle("hit").mode = "hit"
        BY IdleFacts DEF Modes
      <3>2. run'.mode = run.mode \/ run' = Idle("hit")
        BY <2>1, <2>2 DEF Unwind, Runs
      <3> QED BY <2>1, <3>1, <3>2
    <2>3. run' # run
      BY <2>1
    <2>4. Finish
      <3>1. ~RunStep \/ Finish
        BY DEF RunStep, SettleNothing, RefuseRecovery, SettleCommitted, SettleEmpty, SettleForward,
               SealForward, RecordOutcomes, SettleReplay, ResetStorage, Reopen, Scan,
               RefuseIndexing, OpenFresh, OpenResumed, ReadSource, DeleteObsolete, Prepare, Write,
               MarkApplied, Confirm, Record, SealIndex, SealReplay, Reconcile, Advance, Commit,
               Discard, Classify, Settling, Pending
      <3>2. ~Start /\ ~Fail /\ ~\E p \in Paths : Edit(p) \/ Unreadable(p)
        BY <2>2, <2>3 DEF Start, Fail, Edit, Unreadable
      <3>3. ~Crash
        <4>1. Idle("hit").mode = "hit"
          BY IdleFacts DEF Modes
        <4> QED BY <4>1 DEF Crash
      <3> QED BY <3>1, <3>2, <3>3 DEF PublicationNext
    <2>5. run.mode = "index"
      <3>1. Check => run'.mode = "index"
        BY <2>1, CheckFacts
      <3> QED BY <2>4, <3>1 DEF Finish
    <2> QED BY <2>5 DEF CurrentInv, DoneOK, OwnWork, Due
  <1> QED BY <1>1, RunsAreCurrent, PublicationInvariant, PTL DEF PublicationSpec, SuccessIsCurrent

----------------------------------------------------------------------------
(* Why a run that nothing interrupts succeeds.                               *)

\* No situation was met that the code has no answer to.
Clean == gaps \subseteq {"skipped"}

\* The unit that is being recorded.
InHand(pcs) == IF run.pc \in pcs THEN {Unit} ELSE {}
LastUnit(p) == Upsert(p, run.seen[p], Len(Stream[run.seen[p]]))

\* A deletion that is recorded is the one sealing will ask for, also after a crash.
LedgerAble ==
    /\ IsFiniteSet(storage)
    /\ receipt.state = "none" => gen.state = "none"
    /\ OpenReceipt /\ gen.phase # "ingesting" => Recorded \subseteq units
    /\ Clean /\ OpenReceipt =>
          \A u \in Recorded : Deletes(u) => ExpectedDeletion(u.path) = {u}

\* Who owns what; and that only an interruption ends a run before its end.
OwnerOK ==
    /\ Reading /\ run.pc \notin {"check", "open"} => receipt.state # "none"
    /\ Reading /\ run.pc \in Working => gen.phase = "ingesting"
    /\ run.mode = "recover" /\ run.pc \notin {"reset", "reopen"} =>
          run.attempted = {} /\ run.replay = {}
    /\ run.mode = "index" => run.replay = {}
    /\ run.pc = "forward" => run.queue = <<>>
    /\ run.pc \in {"discard", "classify"} => Reading /\ (Clean => run.hit)
    /\ Clean => run.mode # "failed"

\* All but the unit in hand is confirmed, and the generation has it.
HeldOK ==
    /\ Reading /\ run.pc \in Working =>
          /\ \A m \in receipt.muts :
                m.st = "confirmed" \/ m.unit \in InHand({"write", "applied", "confirm"})
          /\ Recorded \subseteq units \cup InHand({"write", "applied", "confirm", "record"})
    /\ run.pc \in {"reconcile", "advance"} => Recorded \subseteq units

\* The deletions that are still to be made, and that none is made while files are read.
PlanOK == Clean /\ run.pc \in Working \cup {"forward"} =>
    /\ run.stage = "stream" => \A u \in Known : ~Deletes(u)
    /\ run.stage \in {"seal", "forward"} =>
          \A u \in ToSet(run.queue) : ExpectedDeletion(u.path) = {u}
    /\ run.stage = "seal" => \A p \in run.attempted : ExpectedDeletion(p) \subseteq Known
    /\ run.stage = "forward" => /\ \A p \in Changed : ExpectedDeletion(p) \subseteq Known
                                /\ \A u \in ToSet(run.queue) : u.path \in Changed

\* A file that is published and has nothing to publish is one the scan found gone.
SeenOK == Clean /\ Reading /\ run.pc \in Working \cup {"open"} =>
    /\ run.dels \subseteq run.attempted \ run.todo
    /\ \A p \in run.dels : run.seen[p] = None /\ proof[p] # None
    /\ \A p \in run.attempted \ (run.todo \cup run.dels) : Due(p) = None => proof[p] = None
    /\ \A p \in run.replay : proof[p] # None => p \in run.attempted
    /\ run.stage = "stream" => \A p \in Paths : Of(run.existing, {p}) \subseteq Published(p)

\* The generation's account of a file is what the run read of it.
StatesOK == Clean /\ Reading =>
    /\ run.pc = "check" => \A p \in run.replay : states[p] = None
    /\ run.pc \in Working \cup {"open"} =>
          /\ \A p \in run.replay \ run.attempted : states[p] = None
          /\ \A p \in run.dels : Deleted(p) => states[p] = None /\ p \in marks
          /\ \A p \in run.attempted \ (run.todo \cup run.dels) :
                /\ Due(p) = None => states[p] \in {None, "rejected"} /\ p \notin marks
                /\ Due(p) # None /\ LastUnit(p) \in units =>
                      states[p] = run.seen[p] /\ p \notin marks
AccountOK == Clean /\ run.pc \in {"reconcile", "advance"} /\ gen.phase = "ingesting" =>
    \A p \in run.attempted \cup run.replay \cup Touched : Consistent(p)

RunAble == OwnerOK /\ HeldOK /\ PlanOK /\ SeenOK /\ StatesOK /\ AccountOK
AbleInv == LedgerAble /\ RunAble

----------------------------------------------------------------------------
(* What is published is finite, and that it is stored can be counted.        *)

LEMMA RetainedIsFinite ==
    ASSUME LedgerType, WholeProof PROVE IsFiniteSet(Retained)
  <1>1. ASSUME NEW p \in Paths PROVE IsFiniteSet(Published(p))
    <2>1. CASE proof[p] = None
      BY <2>1, FS_EmptySet DEF Published
    <2>2. CASE proof[p] # None
      <3>1. PICK c \in Contents : PointsOf(p, c) # {} /\ proof[p] = Evidence(p, c)
        BY <2>2 DEF WholeProof
      <3>2. Published(p) = PointsOf(p, c)
        BY <2>2, <3>1, PublicationAssumption DEF Published, Evidence
      <3>3. Stream[c] \in Seq(Nat) /\ Len(Stream[c]) \in Nat
        BY PublicationAssumption
      <3> DEFINE n == Len(Stream[c])
                 f == [i \in 1 .. n |-> Point(p, Stream[c][i])]
      <3>4. PointsOf(p, c) = {Point(p, Stream[c][i]) : i \in 1 .. n}
        BY <3>3 DEF PointsOf, ToSet
      <3>5. f \in Surjection(1 .. n, PointsOf(p, c))
        BY <3>4 DEF Surjection
      <3>6. IsFiniteSet(1 .. n)
        BY <3>3, FS_Interval
      <3> QED BY <3>2, <3>5, <3>6, FS_Surjection
    <2> QED BY <2>1, <2>2
  <1> DEFINE all == {Published(p) : p \in Paths}
             g == [p \in Paths |-> Published(p)]
  <1>2. g \in Surjection(Paths, all)
    BY DEF Surjection
  <1>3. IsFiniteSet(all)
    BY <1>2, FS_Surjection, PublicationAssumption
  <1>4. \A T \in all : IsFiniteSet(T)
    BY <1>1
  <1> HIDE DEF all
  <1>5. IsFiniteSet(UNION all)
    BY <1>3, <1>4, FS_UNION
  <1> QED BY <1>5 DEF all, Retained

\* A point is its file's.
LEMMA PointOfFile ==
    ASSUME LedgerType, WholeProof, NEW p \in Paths, NEW x \in Published(p)
    PROVE  x[1] = p /\ x \in Retained
  <1>1. x \in {p} \X Chunks
    BY PublishedFacts
  <1> QED BY <1>1 DEF Retained

LEMMA ClosedIsBacked ==
    ASSUME LedgerType, WholeProof, IsFiniteSet(storage), Retained \subseteq storage
    PROVE  Cardinality(storage) >= Cardinality(Retained) /\ Backed
  <1>1. IsFiniteSet(Retained) /\ Of(Retained, RecoveryPaths) \in SUBSET Retained
    BY RetainedIsFinite DEF Of
  <1>2. IsFiniteSet(Of(Retained, RecoveryPaths))
    BY <1>1, FS_Subset
  <1>3. Cardinality(Retained) <= Cardinality(storage)
    BY FS_Subset
  <1>4. /\ Cardinality(Retained) \in Nat /\ Cardinality(storage) \in Nat
        /\ Cardinality(Of(Retained, RecoveryPaths)) \in Nat
    BY <1>1, <1>2, FS_CardinalityType
  <1> QED BY <1>3, <1>4 DEF Backed

\* A recovery is never refused for points its own paths lack.
LEMMA RecoveryIsBacked ==
    ASSUME LedgerInv, LedgerAble, Clean PROVE Backed
  <1>1. LedgerType /\ WholeProof /\ IsFiniteSet(storage) /\ Traced
    BY DEF LedgerInv, LedgerAble, Clean, Traced
  <1>2. CASE ~OpenReceipt
    BY <1>1, <1>2, ClosedIsBacked DEF LedgerInv, Backing
  <1>3. CASE OpenReceipt
    <2> DEFINE touched == Of(Retained, RecoveryPaths)
    <2>1. ASSUME NEW x \in Retained \ touched PROVE x \in storage
      <3>1. PICK p \in Paths : x \in Published(p)
        BY DEF Retained
      <3>2. p \notin RecoveryPaths
        BY <1>1, <3>1, PointOfFile DEF Of
      <3> QED BY <1>1, <1>3, <3>1, <3>2 DEF LedgerInv, Backing
    <2>2. IsFiniteSet(Retained)
      BY <1>1, RetainedIsFinite
    <2>3. Retained \cap touched = touched /\ touched \in SUBSET Retained
      BY DEF Of
    <2> HIDE DEF touched
    <2>4. Cardinality(Retained \ touched) = Cardinality(Retained) - Cardinality(touched)
      BY <2>2, <2>3, FS_Difference
    <2>5. Retained \ touched \in SUBSET storage
      BY <2>1
    <2>6. Cardinality(Retained \ touched) <= Cardinality(storage)
      BY <1>1, <2>5, FS_Subset
    <2>7. /\ Cardinality(Retained) \in Nat /\ Cardinality(touched) \in Nat
          /\ Cardinality(storage) \in Nat
      BY <1>1, <2>2, <2>3, FS_CardinalityType, FS_Subset
    <2> QED BY <2>4, <2>6, <2>7 DEF Backed, touched
  <1> QED BY <1>2, <1>3

----------------------------------------------------------------------------
(* What a run has read and recorded.                                         *)

LEMMA UploadIsSegment ==
    ASSUME NEW u \in Units, ~Deletes(u)
    PROVE  /\ u.path \in Paths /\ u.digest \in Contents /\ u.kind = "upsert"
           /\ u \in ToSet(Segments(u.path, u.digest))
           /\ u.seg \in 1 .. Len(Stream[u.digest]) /\ u = Upsert(u.path, u.digest, u.seg)
  <1>1. IsUpload(u)
    BY DEF Units, IsDeletion, Deletion, Deletes
  <1>2. PICK p \in Paths, c \in Contents : \E i \in 1 .. Len(Stream[c]) : u = Upsert(p, c, i)
    BY <1>1 DEF IsUpload
  <1>3. PICK i \in 1 .. Len(Stream[c]) : u = Upsert(p, c, i)
    BY <1>2
  <1>4. u.path = p /\ u.digest = c /\ u.kind = "upsert" /\ u.seg = i
    BY <1>3 DEF Upsert
  <1>5. u \in ToSet(Segments(p, c))
    BY <1>3 DEF ToSet, Segments
  <1> QED BY <1>3, <1>4, <1>5

\* The points of two segments of a file are two.
LEMMA SegmentsApart ==
    ASSUME NEW u \in Units, NEW v \in Units, ~Deletes(u), ~Deletes(v), u # v,
           u.path = v.path => u.digest = v.digest
    PROVE  /\ u.points \cap v.points = {}
           /\ <<u.path, u.kind, u.seg>> # <<v.path, v.kind, v.seg>>
  <1>1. /\ u.digest \in Contents /\ u.seg \in 1 .. Len(Stream[u.digest])
        /\ u = Upsert(u.path, u.digest, u.seg)
    BY UploadIsSegment
  <1>2. /\ v.digest \in Contents /\ v.seg \in 1 .. Len(Stream[v.digest])
        /\ v = Upsert(v.path, v.digest, v.seg)
    BY UploadIsSegment
  <1>3. u.points = {<<u.path, Stream[u.digest][u.seg]>>}
    BY <1>1 DEF Upsert, Point
  <1>4. v.points = {<<v.path, Stream[v.digest][v.seg]>>}
    BY <1>2 DEF Upsert, Point
  <1>5. CASE u.path # v.path
    BY <1>3, <1>4, <1>5
  <1>6. CASE u.path = v.path
    <2>1. u.seg # v.seg
      BY <1>1, <1>2, <1>6
    <2>2. Stream[u.digest][u.seg] # Stream[v.digest][v.seg]
      BY <1>1, <1>2, <1>6, <2>1, ChunkAssumption
    <2> QED BY <1>3, <1>4, <2>1, <2>2
  <1> QED BY <1>5, <1>6

\* Once all is read, what is recorded of a file is all it was cut into.
LEMMA ReadEvidence ==
    ASSUME LedgerInv, RunInv, CurrentInv, Reading, run.pc \in {"stream", "seal"}, run.todo = {},
           NEW p \in Paths
    PROVE  /\ Upserts(Recorded, p) # {} =>
                 /\ p \in run.attempted /\ Due(p) # None /\ run.seen[p] \in Contents
                 /\ Upserts(Recorded, p) = ToSet(Segments(p, run.seen[p]))
                 /\ NewEvidence(p) # None /\ NewEvidence(p).digest = run.seen[p]
                 /\ CompleteStream(p)
           /\ Upserts(Recorded, p) = {} =>
                 /\ NewEvidence(p) = None /\ CompleteStream(p)
                 /\ p \in run.attempted => Due(p) = None
           /\ Known = Recorded /\ run.queue = <<>>
  <1>1. /\ run.queue = <<>>
        /\ \A u \in Known : /\ u.path \in run.attempted
                            /\ ~Deletes(u) => u.digest = run.seen[u.path]
        /\ p \in run.attempted =>
              run.seen[p] = None \/ ToSet(Segments(p, run.seen[p])) \subseteq Known
    BY DEF CurrentInv, ReadOK, Working
  <1>2. Known = Recorded
    BY <1>1 DEF Known, ToSet
  <1>3. Recorded \in SUBSET Units /\ run.seen[p] \in Contents \cup {None}
    BY RecordedFacts DEF LedgerInv, RunInv, Runs
  <1> DEFINE c == run.seen[p]
  <1>4. ASSUME NEW u \in Upserts(Recorded, p)
        PROVE  /\ p \in run.attempted /\ c \in Contents /\ Due(p) # None
               /\ u \in ToSet(Segments(p, c)) /\ u.digest = c
    <2>1. u \in Units /\ u \in Known /\ ~Deletes(u) /\ u.path = p
      BY <1>2, <1>3, <1>4 DEF Upserts, Deletes
    <2>2. u.digest = c
      BY <1>1, <2>1
    <2> QED BY <1>1, <2>1, <2>2, UploadFacts, UploadIsSegment DEF Due
  <1>5. ASSUME p \in run.attempted, c \in Contents
        PROVE  ToSet(Segments(p, c)) \subseteq Upserts(Recorded, p)
    <2> SUFFICES ASSUME NEW u \in ToSet(Segments(p, c)) PROVE u \in Upserts(Recorded, p)
      OBVIOUS
    <2>1. ~Deletes(u) /\ u.path = p
      BY <1>5, SegmentsOf
    <2>2. u \in Recorded
      BY <1>1, <1>2, <1>5, PublicationAssumption
    <2> QED BY <2>1, <2>2 DEF Upserts, Deletes
  <1>6. CASE Upserts(Recorded, p) # {}
    <2>1. PICK u \in Upserts(Recorded, p) : TRUE
      BY <1>6
    <2>2. /\ p \in run.attempted /\ c \in Contents /\ Due(p) # None
      BY <1>4, <2>1
    <2>3. Upserts(Recorded, p) = ToSet(Segments(p, c))
      BY <1>4, <1>5, <2>2
    <2>4. NewEvidence(p) # None
      BY <1>6, EvidenceFacts DEF LedgerInv
    <2>5. NewEvidence(p).digest = c
      <3> DEFINE v == CHOOSE w \in Upserts(Recorded, p) : TRUE
                 all == UnitPoints(Upserts(Recorded, p))
      <3>1. NewEvidence(p) = [digest |-> v.digest, points |-> all]
        BY <1>6 DEF NewEvidence
      <3>2. v \in Upserts(Recorded, p)
        BY <1>6
      <3>3. v.digest = c
        BY <1>4, <3>2
      <3> HIDE DEF v, all, c
      <3> QED BY <3>1, <3>3
    <2>6. CompleteStream(p)
      BY <2>3, <2>5 DEF CompleteStream
    <2> QED BY <1>1, <1>2, <1>6, <2>2, <2>3, <2>4, <2>5, <2>6
  <1>7. CASE Upserts(Recorded, p) = {}
    <2>1. NewEvidence(p) = None
      BY <1>7, EvidenceFacts DEF LedgerInv
    <2>2. ASSUME p \in run.attempted, Due(p) # None PROVE FALSE
      <3>1. c \in Contents /\ PointsOf(p, c) # {}
        BY <1>3, <2>2 DEF Due, Evidence
      <3>2. ToSet(Segments(p, c)) = {}
        BY <1>5, <1>7, <2>2, <3>1
      <3> HIDE DEF c
      <3> QED BY <3>1, <3>2, SegmentsFacts DEF UnitPoints
    <2> QED BY <1>1, <1>2, <1>7, <2>1, <2>2 DEF CompleteStream
  <1> QED BY <1>6, <1>7

----------------------------------------------------------------------------
(* Runs that are not at their own work, and ledgers that say no more.        *)

LEMMA QuietAble ==
    ASSUME run'.pc \notin Working \cup {"forward", "open", "reconcile", "advance"},
           run'.mode \in {"index", "replay"} /\ run'.pc # "check" => receipt'.state # "none",
           run'.mode = "recover" /\ run'.pc \notin {"reset", "reopen"} =>
               run'.attempted = {} /\ run'.replay = {},
           run'.mode = "index" => run'.replay = {},
           run'.pc \in {"discard", "classify"} =>
               run'.mode \in {"index", "replay"} /\ (Clean' => run'.hit),
           Clean' => run'.mode # "failed",
           run'.pc = "check" => \A p \in run'.replay : states'[p] = None
    PROVE  RunAble'
  <1>1. OwnerOK'
    BY DEF OwnerOK, Reading, Working
  <1>2. HeldOK' /\ PlanOK' /\ SeenOK' /\ StatesOK' /\ AccountOK'
    BY DEF HeldOK, PlanOK, SeenOK, StatesOK, AccountOK, Working
  <1> QED BY <1>1, <1>2 DEF RunAble

LEMMA StoppedAble ==
    ASSUME NEW mode \in {"none", "ok", "hit", "failed"}, run' = Idle(mode),
           Clean' => mode # "failed"
    PROVE  RunAble'
  <1>1. run'.pc = "idle" /\ run'.mode = mode
    BY IdleFacts DEF Modes
  <1> QED BY <1>1, QuietAble DEF Working, AtUnit

LEMMA CheckedAble ==
    ASSUME run \in Runs, Check PROVE RunAble'
  <1>1. run'.pc = "check" /\ run'.mode = "index" /\ run'.replay = {}
    BY CheckFacts
  <1> QED BY <1>1, QuietAble DEF Working, AtUnit

\* Only an interruption, or a situation without an answer, makes a run fail.
LEMMA RaisedAble ==
    ASSUME RunInv, OwnerOK, NEW hit \in BOOLEAN, Unwind(hit), ~hit => ~Clean',
           receipt'.state = receipt.state
    PROVE  RunAble'
  <1> DEFINE mode == IF run.hit \/ hit THEN "hit" ELSE "failed"
  <1>1. run \in Runs
    BY DEF RunInv
  <1>2. CASE run' = Idle(mode)
    <2>1. mode \in {"none", "ok", "hit", "failed"} /\ (Clean' => mode # "failed")
      OBVIOUS
    <2> HIDE DEF mode
    <2> QED BY <1>2, <2>1, StoppedAble
  <1>3. CASE run' # Idle(mode)
    <2> HIDE DEF Unwind
    <2>1. /\ run'.pc = IF run.stage = "stream" THEN "discard" ELSE "classify"
          /\ run.mode \in {"index", "replay"} /\ run.pc \notin {"check", "open"}
          /\ run'.hit = (run.hit \/ hit) /\ RunGoesOn
      BY <1>1, <1>3, UnwindFacts
    <2>2. run'.mode = run.mode /\ run'.replay = run.replay
      BY <2>1 DEF RunGoesOn
    <2>3. receipt'.state # "none"
      BY <2>1 DEF OwnerOK, Reading
    <2>4. run'.pc \in {"discard", "classify"}
      BY <2>1
    <2>5. run'.mode = "index" => run'.replay = {}
      BY <2>2 DEF OwnerOK
    <2>6. Clean' => run'.hit
      BY <2>1
    <2> QED BY <2>1, <2>2, <2>3, <2>4, <2>5, <2>6, QuietAble DEF Working, AtUnit
  <1> QED BY <1>2, <1>3

LEMMA LaterAble ==
    ASSUME RunInv, OwnerOK, run.pc \notin {"check", "open", "reset", "reopen"},
           NEW pc \in {"outcomes", "commit", "finish"}, Goto(pc), gaps \subseteq gaps',
           receipt.state # "none" => receipt'.state # "none"
    PROVE  RunAble'
  <1>1. run'.pc = pc /\ RunGoesOn
    BY GotoFacts DEF RunInv, PCs
  <1>2. /\ run'.mode = run.mode /\ run'.replay = run.replay /\ run'.attempted = run.attempted
    BY <1>1 DEF RunGoesOn
  <1>3. /\ run.mode \in {"index", "replay"} => receipt'.state # "none"
        /\ run.mode = "recover" => run.attempted = {} /\ run.replay = {}
        /\ run.mode = "index" => run.replay = {}
        /\ Clean' => run.mode # "failed"
    BY DEF OwnerOK, Reading, Clean
  <1> QED BY <1>1, <1>2, <1>3, QuietAble DEF Working, AtUnit

LEMMA EmptyAble ==
    ASSUME receipt'.muts = {}, IsFiniteSet(storage'),
           receipt'.state = "none" => gen'.state = "none"
    PROVE  LedgerAble'
  <1>1. Recorded' = {}
    BY DEF Recorded
  <1> QED BY <1>1 DEF LedgerAble

LEMMA LedgerStaysAble ==
    ASSUME LedgerType, LedgerAble, UNCHANGED proof, Recorded' = Recorded, IsFiniteSet(storage'),
           receipt'.state = "none" => gen'.state = "none", gaps \subseteq gaps',
           OpenReceipt' => OpenReceipt,
           OpenReceipt' /\ gen'.phase # "ingesting" => Recorded \subseteq units'
    PROVE  LedgerAble'
  <1>1. \A u \in Recorded : ExpectedDeletion(u.path)' = ExpectedDeletion(u.path)
    BY RecordViews, RecordedFacts
  <1>2. Clean' => Clean
    BY DEF Clean
  <1> QED BY <1>1, <1>2 DEF LedgerAble, Deletes

LEMMA SameLedgerAble ==
    ASSUME LedgerType, LedgerAble, UNCHANGED <<proof, receipt>>, units \subseteq units',
           gaps \subseteq gaps', IsFiniteSet(storage'), gen'.phase = gen.phase,
           gen'.state = gen.state \/ receipt.state # "none"
    PROVE  LedgerAble'
  <1>1. Recorded' = Recorded /\ (OpenReceipt' <=> OpenReceipt)
    BY DEF Recorded, OpenReceipt
  <1>2. /\ receipt'.state = "none" => gen'.state = "none"
        /\ OpenReceipt' /\ gen'.phase # "ingesting" => Recorded \subseteq units'
    BY <1>1 DEF LedgerAble
  <1> QED BY <1>1, <1>2, LedgerStaysAble

----------------------------------------------------------------------------
(* Settling what the last run left succeeds.                                 *)

LEMMA BeginAble ==
    ASSUME LedgerInv, RunInv, AbleInv, Start \/ SettleNothing \/ SettleCommitted \/ SettleEmpty
    PROVE  AbleInv'
  <1>1. LedgerType /\ run \in Runs /\ LedgerAble /\ OwnerOK /\ IsFiniteSet(storage)
    BY DEF LedgerInv, RunInv, AbleInv, LedgerAble, RunAble
  <1>2. CASE Start
    <2>1. run' = [Idle("recover") EXCEPT !.pc = "recover"]
      BY <1>2 DEF Start
    <2>2. /\ run'.pc = "recover" /\ run'.mode = "recover" /\ run'.attempted = {}
          /\ run'.replay = {}
      BY <2>1, IdleFacts DEF Modes, Runs
    <2>3. RunAble'
      BY <2>2, QuietAble DEF Working, AtUnit
    <2>4. UNCHANGED <<storage, proof, receipt, gen, units, gaps>>
      BY <1>2 DEF Start, Same, ledger
    <2>5. LedgerAble'
      BY <1>1, <2>4, SameLedgerAble
    <2> QED BY <2>3, <2>5 DEF AbleInv
  <1>3. CASE SettleNothing
    <2>1. RunAble'
      BY <1>1, <1>3, CheckedAble DEF SettleNothing
    <2>2. UNCHANGED <<storage, proof, receipt, gen, units, gaps>>
      BY <1>3 DEF SettleNothing, Same, ledger
    <2>3. LedgerAble'
      BY <1>1, <2>2, SameLedgerAble
    <2> QED BY <2>1, <2>3 DEF AbleInv
  <1>4. CASE SettleCommitted
    <2>1. /\ run.pc = "recover" /\ Goto("finish") /\ receipt.state = "committed"
          /\ UNCHANGED <<storage, proof, receipt, units, gaps>>
          /\ gen' = Resumed
      BY <1>4 DEF SettleCommitted, Settling, Pending, Same
    <2>2. RunAble'
      BY <1>1, <2>1, LaterAble
    <2>3. gen'.phase = gen.phase
      BY <1>1, <2>1 DEF Resumed, LedgerType
    <2>4. LedgerAble'
      BY <1>1, <2>1, <2>3, SameLedgerAble
    <2> QED BY <2>2, <2>4 DEF AbleInv
  <1>5. CASE SettleEmpty
    <2>1. RunAble'
      BY <1>1, <1>5, CheckedAble DEF SettleEmpty
    <2>2. /\ \/ NewGeneration \/ receipt' = [receipt EXCEPT !.state = "rolledback"]
          /\ receipt.muts = {} /\ UNCHANGED storage
      BY <1>5 DEF SettleEmpty, NothingDone
    <2>3. receipt'.muts = {} /\ (receipt'.state = "none" => gen'.state = "none")
      BY <1>1, <2>2 DEF NewGeneration, NoReceipt, NoGen, LedgerType
    <2>4. LedgerAble'
      BY <1>1, <2>2, <2>3, EmptyAble
    <2> QED BY <2>1, <2>4 DEF AbleInv
  <1> QED BY <1>2, <1>3, <1>4, <1>5

\* A recovery is refused, if ever, after points were lost.
LEMMA RefuseRecoveryAble ==
    ASSUME LedgerInv, RunInv, AbleInv, RefuseRecovery PROVE AbleInv'
  <1>1. LedgerType /\ LedgerAble /\ OwnerOK /\ IsFiniteSet(storage)
    BY DEF LedgerInv, AbleInv, LedgerAble, RunAble
  <1>2. /\ ~Backed /\ Unwind(FALSE) /\ UNCHANGED <<storage, proof, receipt, gen, units>>
        /\ gaps' = gaps \cup {}
    BY DEF RefuseRecovery, Raise, Met, ledger
  <1> HIDE DEF Unwind
  <1>3. ~Clean'
    BY <1>1, <1>2, RecoveryIsBacked DEF Clean
  <1>4. RunAble'
    BY <1>1, <1>2, <1>3, RaisedAble
  <1>5. LedgerAble'
    BY <1>1, <1>2, SameLedgerAble
  <1> QED BY <1>4, <1>5 DEF AbleInv

LEMMA ReplayAble ==
    ASSUME LedgerInv, RunInv, AbleInv, SettleReplay \/ ResetStorage \/ Reopen PROVE AbleInv'
  <1>1. LedgerType /\ run \in Runs /\ LedgerAble /\ OwnerOK /\ IsFiniteSet(storage)
    BY DEF LedgerInv, RunInv, AbleInv, LedgerAble, RunAble
  <1>2. ASSUME gaps \subseteq gaps' PROVE Clean' => run.mode # "failed"
    BY <1>1, <1>2 DEF OwnerOK, Clean
  <1>3. CASE SettleReplay
    <2>1. /\ run.pc = "recover" /\ receipt.state \in {"reserved", "sealed"} /\ gen' = Resumed
          /\ UNCHANGED <<storage, proof, receipt, units, gaps>>
          /\ run' = [run EXCEPT !.pc = "reset", !.replay = RecoveryPaths]
      BY <1>3 DEF SettleReplay, Settling, Pending, OpenReceipt, Same
    <2>2. run'.pc = "reset" /\ run'.mode = run.mode /\ run.mode = "recover"
      BY <1>1, <2>1 DEF Runs, RunInv, ModeOK
    <2>3. RunAble'
      BY <1>2, <2>1, <2>2, QuietAble DEF Working, AtUnit
    <2>4. gen'.phase = gen.phase
      BY <1>1, <2>1 DEF Resumed, LedgerType
    <2>5. LedgerAble'
      BY <1>1, <2>1, <2>4, SameLedgerAble
    <2> QED BY <2>3, <2>5 DEF AbleInv
  <1>4. CASE ResetStorage
    <2>1. /\ run.pc = "reset" /\ Goto("reopen") /\ storage' \in SUBSET storage
          /\ UNCHANGED <<proof, receipt, gen, units, gaps>>
      BY <1>4 DEF ResetStorage, Same, ledger
    <2>2. run'.pc = "reopen" /\ run'.mode = run.mode /\ run.mode = "recover"
      BY <1>1, <2>1, GotoFacts DEF RunGoesOn, PCs, RunInv, ModeOK
    <2>3. RunAble'
      BY <1>2, <2>1, <2>2, QuietAble DEF Working, AtUnit
    <2>4. IsFiniteSet(storage')
      BY <1>1, <2>1, FS_Subset
    <2>5. LedgerAble'
      BY <1>1, <2>1, <2>4, SameLedgerAble
    <2> QED BY <2>3, <2>5 DEF AbleInv
  <1>5. CASE Reopen
    <2>1. /\ run' = [run EXCEPT !.pc = "check", !.mode = "replay"]
          /\ receipt' = [state |-> "reserved", muts |-> {}] /\ UNCHANGED storage
          /\ states' = [p \in Paths |-> IF p \in run.replay THEN None ELSE states[p]]
      BY <1>5 DEF Reopen
    <2>2. run'.pc = "check" /\ run'.mode = "replay" /\ run'.replay = run.replay
      BY <1>1, <2>1 DEF Runs
    <2>3. run.replay \subseteq Paths
      BY <1>1 DEF Runs
    <2>4. \A p \in run'.replay : states'[p] = None
      BY <2>1, <2>2, <2>3
    <2>5. RunAble'
      BY <2>2, <2>4, QuietAble DEF Working, AtUnit
    <2>6. LedgerAble'
      BY <1>1, <2>1, EmptyAble
    <2> QED BY <2>5, <2>6 DEF AbleInv
  <1> QED BY <1>3, <1>4, <1>5

----------------------------------------------------------------------------
(* What a receipt must delete.                                               *)

LEMMA ExpectedKind ==
    ASSUME LedgerType, NEW p \in Paths, NEW d \in ExpectedDeletion(p)
    PROVE  /\ proof[p] # None /\ d.kind \in {"path", "stale"}
           /\ d.kind = "path" <=> NewEvidence(p) = None
           /\ NewEvidence(p) = None => d = Deletion(p, "path", Published(p))
           /\ d.points \cap UnitPoints(Upserts(Recorded, p)) = {}
  <1> DEFINE rest == Published(p) \ UnitPoints(Upserts(Recorded, p))
  <1>1. NewEvidence(p) = None => UnitPoints(Upserts(Recorded, p)) = {}
    BY EvidenceFacts DEF UnitPoints
  <1>2. proof[p] # None
    BY DEF ExpectedDeletion
  <1>3. CASE NewEvidence(p) = None
    <2>1. d = Deletion(p, "path", Published(p))
      BY <1>2, <1>3 DEF ExpectedDeletion
    <2> QED BY <1>1, <1>2, <1>3, <2>1 DEF Deletion
  <1>4. CASE NewEvidence(p) # None
    <2>1. d = Deletion(p, "stale", rest)
      BY <1>2, <1>4 DEF ExpectedDeletion
    <2>2. d.kind = "stale" /\ d.points = rest
      BY <2>1 DEF Deletion
    <2> QED BY <1>2, <1>4, <2>2
  <1> QED BY <1>3, <1>4

LEMMA ExpectedOne ==
    ASSUME LedgerType, WholeProof, NEW p \in Paths, NEW d \in ExpectedDeletion(p)
    PROVE  d.path = p /\ ExpectedDeletion(p) = {d}
  BY ExpectedFacts

LEMMA CoversFacts ==
    ASSUME LedgerType, WholeProof, Covers(Recorded)
    PROVE  /\ Touched = Changed /\ \A p \in Changed : ExpectedDeletion(p) \subseteq Recorded
           /\ \A u \in Recorded : Deletes(u) => ExpectedDeletion(u.path) = {u}
  <1>1. Recorded = UNION {Upserts(Recorded, p) \cup ExpectedDeletion(p) : p \in Changed}
    BY DEF Covers
  <1>2. Changed \subseteq Paths
    BY TouchedFacts
  <1>3. ASSUME NEW u \in Recorded
        PROVE  u.path \in Changed /\ (Deletes(u) => ExpectedDeletion(u.path) = {u})
    <2>1. PICK p \in Changed : u \in Upserts(Recorded, p) \cup ExpectedDeletion(p)
      BY <1>1
    <2>2. CASE u \in Upserts(Recorded, p)
      BY <2>2 DEF Upserts, Deletes
    <2>3. CASE u \in ExpectedDeletion(p)
      BY <1>2, <2>3, ExpectedOne
    <2> QED BY <2>1, <2>2, <2>3
  <1>4. Touched = Changed
    BY <1>3 DEF Touched, Changed
  <1> QED BY <1>1, <1>3, <1>4

\* A receipt whose every file changed, with all it must delete and no other deletion, is whole.
LEMMA MakesCovers ==
    ASSUME LedgerType, WholeProof, NEW us \in SUBSET Recorded,
           \A p \in Changed : CompleteStream(p) /\ ExpectedDeletion(p) \subseteq us,
           \A p \in Changed : Upserts(Recorded, p) \subseteq us,
           \A u \in us : u.path \in Changed /\ (Deletes(u) => ExpectedDeletion(u.path) = {u})
    PROVE  Covers(us)
  <1>1. ASSUME NEW u \in us
        PROVE  u \in Upserts(us, u.path) \cup ExpectedDeletion(u.path)
    BY DEF Upserts, Deletes
  <1>2. us \subseteq UNION {Upserts(us, p) \cup ExpectedDeletion(p) : p \in Changed}
    BY <1>1
  <1>3. UNION {Upserts(us, p) \cup ExpectedDeletion(p) : p \in Changed} \subseteq us
    BY DEF Upserts
  <1> QED BY <1>2, <1>3 DEF Covers

----------------------------------------------------------------------------
(* Finishing recorded work.                                                  *)

LEMMA SettleForwardAble ==
    ASSUME LedgerInv, RunInv, AbleInv, SettleForward PROVE AbleInv'
  <1> DEFINE D == UNION {ExpectedDeletion(p) : p \in Changed}
             pc == IF SetToSeq(D) = <<>> THEN "forward" ELSE "prepare"
  <1>1. /\ run.pc = "recover" /\ receipt.state \in {"reserved", "sealed"} /\ gen' = Resumed
        /\ UNCHANGED <<storage, proof, receipt, units, gaps>>
        /\ run' = [run EXCEPT !.stage = "forward", !.queue = SetToSeq(D), !.pc = pc]
    BY DEF SettleForward, Settling, Pending, OpenReceipt, Same
  <1>2. /\ LedgerType /\ WholeProof /\ run \in Runs /\ LedgerAble /\ OwnerOK /\ IsFiniteSet(storage)
        /\ Changed \subseteq Paths
    BY TouchedFacts DEF LedgerInv, RunInv, AbleInv, LedgerAble, RunAble
  <1>3. ASSUME NEW d \in D
        PROVE  d \in Units /\ d.path \in Changed /\ ExpectedDeletion(d.path) = {d}
    <2>1. PICK p \in Changed : d \in ExpectedDeletion(p)
      OBVIOUS
    <2> QED BY <1>2, <2>1, ExpectedOne, ExpectedFacts
  <1>4. \A d, e \in D : d.path = e.path => d = e
    <2>1. ASSUME NEW d \in D, NEW e \in D, d.path = e.path PROVE d = e
      <3>1. ExpectedDeletion(d.path) = {d} /\ ExpectedDeletion(d.path) = {e}
        BY <1>3, <2>1
      <3> QED BY <3>1
    <2> QED BY <2>1
  <1>5. \A p \in Changed : ExpectedDeletion(p) \subseteq D
    OBVIOUS
  <1> HIDE DEF D
  <1>6. IsFiniteSet(D) /\ D \subseteq Units
    BY <1>3, <1>4, FewUnits
  <1>7. ToSet(SetToSeq(D)) = D
    BY <1>6, Listed
  <1>8. /\ run'.pc = pc /\ run'.stage = "forward" /\ run'.queue = SetToSeq(D)
        /\ run'.mode = run.mode /\ run'.replay = run.replay /\ run'.attempted = run.attempted
    BY <1>1, <1>2 DEF Runs
  <1>9. run.mode = "recover" /\ run.replay = {} /\ run.attempted = {}
    BY <1>1, <1>2 DEF RunInv, ModeOK, OwnerOK
  <1>10. Recorded' = Recorded
    BY <1>1 DEF Recorded
  <1>11. Changed' = Changed /\ \A p \in Paths : ExpectedDeletion(p)' = ExpectedDeletion(p)
    BY <1>1, <1>10, RecordViews
  <1>12. Known' = Recorded \cup D
    BY <1>7, <1>8, <1>10 DEF Known
  <1>13. OwnerOK' /\ HeldOK'
    BY <1>8, <1>9 DEF OwnerOK, HeldOK, Reading, Working, AtUnit
  <1>14. PlanOK'
    <2>1. \A u \in ToSet(run'.queue) : ExpectedDeletion(u.path)' = {u} /\ u.path \in Changed'
      BY <1>2, <1>3, <1>7, <1>8, <1>11
    <2>2. \A p \in Changed' : ExpectedDeletion(p)' \subseteq Known'
      BY <1>2, <1>5, <1>11, <1>12
    <2> QED BY <1>8, <2>1, <2>2 DEF PlanOK
  <1>15. SeenOK' /\ StatesOK' /\ AccountOK'
    BY <1>8, <1>9 DEF SeenOK, StatesOK, AccountOK, Reading
  <1>16. gen'.phase = gen.phase
    BY <1>1, <1>2 DEF Resumed, LedgerType
  <1>17. LedgerAble'
    BY <1>1, <1>2, <1>16, SameLedgerAble
  <1> QED BY <1>13, <1>14, <1>15, <1>17 DEF AbleInv, RunAble

LEMMA SealForwardAble ==
    ASSUME LedgerInv, RunInv, AbleInv, SealForward PROVE AbleInv'
  <1> DEFINE confirmed == {[m EXCEPT !.st = IF @ = "applied" THEN "confirmed" ELSE @] : m \in receipt.muts}
             sealed == receipt.state = "sealed" \/ Covers(Recorded)
  <1>1. /\ run.pc = "forward" /\ UNCHANGED <<storage, proof, gen, units>>
        /\ receipt' = [state |-> IF sealed THEN "sealed" ELSE receipt.state, muts |-> confirmed]
        /\ IF sealed THEN Goto("outcomes") /\ Same ELSE Raise(Reverted)
    BY DEF SealForward
  <1>2. /\ LedgerType /\ WholeProof /\ run \in Runs /\ LedgerAble /\ OwnerOK /\ IsFiniteSet(storage)
        /\ PlanOK
    BY DEF LedgerInv, RunInv, AbleInv, LedgerAble, RunAble
  <1>3. OpenReceipt /\ Finishable /\ run.stage = "forward"
    BY <1>1 DEF RunInv, ModeOK, StepOK
  <1>4. receipt'.muts = confirmed /\ receipt'.state = IF sealed THEN "sealed" ELSE receipt.state
    BY <1>1
  <1> HIDE DEF sealed
  <1>5. Recorded' = Recorded
    BY <1>2, <1>4, ConfirmedFacts
  <1>6. gaps \subseteq gaps'
    BY <1>1 DEF Same, Raise, Met
  <1>7. receipt'.state # "none"
    BY <1>3, <1>4 DEF OpenReceipt
  <1>8. LedgerAble'
    BY <1>1, <1>2, <1>3, <1>5, <1>6, <1>7, LedgerStaysAble DEF LedgerAble
  <1>9. CASE sealed
    <2>1. Goto("outcomes") /\ Same
      BY <1>1, <1>9
    <2>2. RunAble'
      BY <1>1, <1>2, <1>6, <1>7, <2>1, LaterAble
    <2> QED BY <1>8, <2>2 DEF AbleInv
  <1>10. CASE ~sealed
    <2>1. Unwind(FALSE) /\ gaps' = gaps \cup Reverted
      BY <1>1, <1>10 DEF Raise, Met
    <2> HIDE DEF Unwind
    <2>2. ~Clean'
      <3> SUFFICES ASSUME Clean' PROVE FALSE
        OBVIOUS
      <3>1. Clean /\ Touched = Changed
        BY <2>1 DEF Clean, Reverted
      <3>2. run.queue = <<>>
        BY <1>1, <1>2 DEF OwnerOK
      <3>3. Known = Recorded
        BY <3>2 DEF Known, ToSet
      <3>4. \A p \in Changed : CompleteStream(p) /\ ExpectedDeletion(p) \subseteq Recorded
        BY <1>1, <1>2, <1>3, <3>1, <3>3 DEF PlanOK, Finishable
      <3>5. \A u \in Recorded :
                u.path \in Changed /\ (Deletes(u) => ExpectedDeletion(u.path) = {u})
        BY <1>2, <1>3, <3>1 DEF LedgerAble, Touched
      <3>6. \A p \in Changed : Upserts(Recorded, p) \subseteq Recorded
        BY DEF Upserts
      <3>7. Covers(Recorded)
        BY <1>2, <3>4, <3>5, <3>6, MakesCovers
      <3> QED BY <1>10, <3>7 DEF sealed
    <2>3. RunAble'
      BY <1>2, <1>4, <1>10, <2>1, <2>2, RaisedAble
    <2> QED BY <1>8, <2>3 DEF AbleInv
  <1> QED BY <1>9, <1>10

----------------------------------------------------------------------------
(* From the seal to the end.                                                 *)

LEMMA CountedAble ==
    ASSUME RunInv, OwnerOK, run.pc \notin {"check", "open", "reset", "reopen"},
           NEW pc \in {"reconcile", "advance"}, Goto(pc), gaps \subseteq gaps',
           receipt.state # "none" => receipt'.state # "none", Recorded' \subseteq units',
           Clean' /\ gen'.phase = "ingesting" =>
               \A p \in run.attempted \cup run.replay \cup Touched' : Consistent(p)'
    PROVE  RunAble'
  <1>1. run'.pc = pc /\ RunGoesOn
    BY GotoFacts DEF RunInv, PCs
  <1>2. /\ run'.mode = run.mode /\ run'.replay = run.replay /\ run'.attempted = run.attempted
    BY <1>1 DEF RunGoesOn
  <1>3. OwnerOK'
    BY <1>1, <1>2 DEF OwnerOK, Reading, Clean, Working, AtUnit
  <1>4. HeldOK' /\ PlanOK' /\ SeenOK' /\ StatesOK'
    BY <1>1 DEF HeldOK, PlanOK, SeenOK, StatesOK, Working, AtUnit
  <1>5. AccountOK'
    BY <1>2 DEF AccountOK
  <1> QED BY <1>3, <1>4, <1>5 DEF RunAble

LEMMA RecordOutcomesAble ==
    ASSUME LedgerInv, RunInv, AbleInv, RecordOutcomes PROVE AbleInv'
  <1>1. /\ LedgerType /\ WholeProof /\ run \in Runs /\ LedgerAble /\ OwnerOK /\ IsFiniteSet(storage)
        /\ units \subseteq Recorded /\ Recorded \subseteq Units
    BY RecordedFacts DEF LedgerInv, LedgerOK, RunInv, AbleInv, LedgerAble, RunAble
  <1>2. /\ run.pc = "outcomes" /\ UNCHANGED <<storage, proof, receipt, gen>>
        /\ receipt.state = "sealed" /\ OpenReceipt /\ Covers(Recorded)
        /\ run.attempted = {} /\ run.replay = {}
    BY <1>1 DEF RecordOutcomes, RunInv, StepOK, OpenReceipt, LedgerInv, LedgerOK, ModeOK, OwnerOK
  <1>3. Recorded' = Recorded
    BY <1>2 DEF Recorded
  <1>4. CASE gen.phase = "ingesting"
    <2> DEFINE removed == {u.path : u \in {v \in Recorded : v.kind = "path"}}
               written == {u.path : u \in {v \in Recorded : v.kind = "upsert"}}
    <2>1. /\ units' = units \cup Recorded
          /\ states' = [p \in Paths |-> IF p \in written THEN NewEvidence(p).digest
                                        ELSE IF p \in removed THEN None ELSE states[p]]
          /\ marks' = (marks \ written) \cup removed
          /\ Goto("advance") /\ Same
      BY <1>4 DEF RecordOutcomes
    <2>2. units' = Recorded
      BY <1>1, <2>1
    <2>3. ASSUME NEW p \in Touched' PROVE Consistent(p)'
      <3>1. Touched' = Touched /\ p \in Paths /\ p \in Changed
        BY <1>1, <1>2, <1>3, <2>3, CoversFacts, TouchedFacts DEF Touched
      <3>2. p \in written <=> Upserts(Recorded, p) # {}
        BY DEF Upserts
      <3>3. p \in written <=> NewEvidence(p) # None
        BY <1>1, <3>1, <3>2, EvidenceFacts
      <3>4. Deleted(p)' <=> p \in removed
        BY <2>2 DEF Deleted
      <3>5. p \in removed <=> NewEvidence(p) = None
        <4>1. ASSUME p \in removed PROVE NewEvidence(p) = None
          <5>1. PICK u \in Recorded : u.kind = "path" /\ u.path = p
            BY <4>1
          <5>2. ExpectedDeletion(p) = {u}
            BY <1>1, <1>2, <5>1, CoversFacts DEF Deletes
          <5> QED BY <1>1, <3>1, <5>1, <5>2, ExpectedKind
        <4>2. ASSUME NewEvidence(p) = None PROVE p \in removed
          <5>1. PICK u \in Recorded : u.path = p
            BY <1>3, <3>1 DEF Touched
          <5>2. u \in Units /\ Deletes(u)
            BY <1>1, <3>1, <4>2, <5>1, EvidenceFacts DEF Upserts, Deletes
          <5>3. ExpectedDeletion(p) = {u}
            BY <1>1, <1>2, <5>1, <5>2, CoversFacts
          <5>4. u.kind = "path"
            BY <1>1, <3>1, <4>2, <5>3, ExpectedKind
          <5> QED BY <5>1, <5>4
        <4> QED BY <4>1, <4>2
      <3>6. Upserts(units, p)' = Upserts(Recorded, p)
        BY <2>2 DEF Upserts
      <3>7. states'[p] = IF p \in written THEN NewEvidence(p).digest ELSE None
        BY <2>1, <3>1, <3>3, <3>5
      <3>8. p \in marks' <=> p \in removed
        BY <2>1, <3>3, <3>5
      <3>9. ASSUME p \in written
            PROVE  states'[p] \in Contents /\ Upserts(Recorded, p) = ToSet(Segments(p, states'[p]))
        <4>1. CompleteStream(p) /\ NewEvidence(p) # None
          BY <1>2, <3>1, <3>3, <3>9 DEF Covers
        <4>2. NewEvidence(p).digest \in Contents
          BY <1>1, <3>1, <4>1, EvidenceFacts
        <4> QED BY <3>7, <3>9, <4>1, <4>2 DEF CompleteStream
      <3> HIDE DEF written, removed
      <3>10. states'[p] # "failed"
        BY <3>7, <3>9, OutcomeAssumption
      <3> QED BY <3>2, <3>3, <3>4, <3>5, <3>6, <3>7, <3>8, <3>9, <3>10 DEF Consistent
    <2>4. RunAble'
      BY <1>1, <1>2, <1>3, <2>1, <2>2, <2>3, CountedAble DEF Same
    <2>5. LedgerAble'
      BY <1>1, <1>2, <2>1, SameLedgerAble DEF Same
    <2> QED BY <2>4, <2>5 DEF AbleInv
  <1>5. CASE gen.phase # "ingesting"
    <2>1. Recorded \subseteq units
      BY <1>1, <1>2, <1>5 DEF LedgerAble
    <2>2. Goto("advance") /\ Same /\ UNCHANGED <<units, states, marks>>
      BY <1>5, <2>1 DEF RecordOutcomes
    <2>3. RunAble'
      BY <1>1, <1>2, <1>3, <1>5, <2>1, <2>2, CountedAble DEF Same
    <2>4. LedgerAble'
      BY <1>1, <1>2, <2>2, SameLedgerAble DEF Same
    <2> QED BY <2>3, <2>4 DEF AbleInv
  <1> QED BY <1>4, <1>5

LEMMA ReconcileAble ==
    ASSUME LedgerInv, RunInv, AbleInv, Reconcile PROVE AbleInv'
  <1>1. /\ run.pc = "reconcile" /\ storage' \in SUBSET storage /\ Goto("advance")
        /\ UNCHANGED <<proof, receipt, gen, units, states, marks, gaps>>
    BY DEF Reconcile, Same, ledger
  <1>2. /\ LedgerType /\ run \in Runs /\ LedgerAble /\ OwnerOK /\ IsFiniteSet(storage)
        /\ Recorded \subseteq units
    BY <1>1 DEF LedgerInv, RunInv, AbleInv, LedgerAble, RunAble, HeldOK
  <1>3. Recorded' = Recorded /\ Touched' = Touched
    BY <1>1 DEF Recorded, Touched
  <1>4. \A p \in Paths : Consistent(p)' <=> Consistent(p)
    BY <1>1 DEF Consistent, Upserts, Deleted
  <1>5. run.attempted \cup run.replay \cup Touched \subseteq Paths
    BY <1>2, TouchedFacts DEF Runs
  <1>6. Clean' /\ gen'.phase = "ingesting" =>
            \A p \in run.attempted \cup run.replay \cup Touched' : Consistent(p)'
    BY <1>1, <1>3, <1>4, <1>5 DEF AbleInv, RunAble, AccountOK, Clean
  <1>7. RunAble'
    BY <1>1, <1>2, <1>3, <1>6, CountedAble
  <1>8. LedgerAble'
    BY <1>1, <1>2, FS_Subset, SameLedgerAble
  <1> QED BY <1>7, <1>8 DEF AbleInv

LEMMA AdvanceAble ==
    ASSUME LedgerInv, RunInv, AbleInv, Advance PROVE AbleInv'
  <1>1. /\ run.pc = "advance" /\ UNCHANGED <<storage, proof, receipt, units, states, marks>>
        /\ \/ gen.phase # "ingesting" /\ Goto("commit") /\ Same /\ UNCHANGED gen
           \/ gen.phase = "ingesting" /\ Raise({"restored"}) /\ UNCHANGED gen
           \/ gen.phase = "ingesting" /\ ~ReadyToFinalize /\ Raise(StaleRows) /\ UNCHANGED gen
           \/ gen' = [gen EXCEPT !.phase = "reconciled"] /\ Goto("commit") /\ Same
    BY DEF Advance
  <1>2. /\ LedgerType /\ run \in Runs /\ LedgerAble /\ OwnerOK /\ IsFiniteSet(storage)
        /\ Recorded \subseteq units /\ AccountOK
    BY <1>1 DEF LedgerInv, RunInv, AbleInv, LedgerAble, RunAble, HeldOK
  <1>3. Recorded' = Recorded /\ (OpenReceipt' <=> OpenReceipt)
    BY <1>1 DEF Recorded, OpenReceipt
  <1>4. gen'.state = gen.state /\ gaps \subseteq gaps'
    BY <1>1, <1>2 DEF LedgerType, Same, Raise, Met
  <1>5. LedgerAble'
    BY <1>1, <1>2, <1>3, <1>4, LedgerStaysAble DEF LedgerAble
  <1>6. CASE Goto("commit")
    <2>1. RunAble'
      BY <1>1, <1>2, <1>4, <1>6, LaterAble
    <2> QED BY <1>5, <2>1 DEF AbleInv
  <1>7. ASSUME NEW kinds, Raise(kinds), gen.phase = "ingesting",
               kinds = {"restored"} \/ (~ReadyToFinalize /\ kinds = StaleRows)
        PROVE  AbleInv'
    <2>1. Unwind(FALSE) /\ gaps' = gaps \cup kinds
      BY <1>7 DEF Raise, Met
    <2> HIDE DEF Unwind
    <2>2. CASE kinds = {"restored"}
      <3>1. ~Clean'
        BY <2>1, <2>2 DEF Clean
      <3>2. RunAble'
        BY <1>1, <1>2, <2>1, <3>1, RaisedAble
      <3> QED BY <1>5, <3>2 DEF AbleInv
    <2>3. CASE ~ReadyToFinalize /\ kinds = StaleRows
      <3>1. ~Clean'
        <4> SUFFICES ASSUME Clean' PROVE FALSE
          OBVIOUS
        <4>1. Clean /\ StaleRows = {}
          BY <2>1, <2>3 DEF Clean, StaleRows
        <4>2. \A p \in run.attempted \cup run.replay \cup Touched : Consistent(p)
          BY <1>1, <1>2, <1>7, <4>1 DEF AccountOK
        <4> QED BY <4>1, <4>2 DEF StaleRows
      <3>2. RunAble'
        BY <1>1, <1>2, <2>1, <3>1, RaisedAble
      <3> QED BY <1>5, <3>2 DEF AbleInv
    <2> QED BY <1>7, <2>2, <2>3
  <1> QED BY <1>1, <1>6, <1>7

LEMMA CommitAble ==
    ASSUME LedgerInv, RunInv, AbleInv, Commit PROVE AbleInv'
  <1>1. /\ run.pc = "commit" /\ Goto("finish") /\ UNCHANGED <<storage, gen, units, gaps>>
        /\ \/ receipt' = [receipt EXCEPT !.state = "committed"]
           \/ UNCHANGED <<proof, receipt>>
    BY DEF Commit, Same
  <1>2. /\ LedgerType /\ run \in Runs /\ LedgerAble /\ OwnerOK /\ IsFiniteSet(storage)
    BY <1>1 DEF LedgerInv, RunInv, AbleInv, LedgerAble, RunAble
  <1>3. [receipt EXCEPT !.state = "committed"].state = "committed"
    BY <1>2 DEF LedgerType
  <1>4. RunAble'
    BY <1>1, <1>2, <1>3, LaterAble
  <1>5. LedgerAble'
    BY <1>1, <1>2, <1>3, SameLedgerAble DEF LedgerAble, OpenReceipt
  <1> QED BY <1>4, <1>5 DEF AbleInv

LEMMA EndAble ==
    ASSUME LedgerInv, RunInv, AbleInv, Finish \/ Discard \/ Classify \/ Fail \/ Crash
    PROVE  AbleInv'
  <1>1. LedgerType /\ run \in Runs /\ LedgerAble /\ OwnerOK /\ IsFiniteSet(storage)
    BY DEF LedgerInv, RunInv, AbleInv, LedgerAble, RunAble
  <1>2. CASE Finish
    <2>1. NewGeneration /\ UNCHANGED storage /\ (run' = Idle("ok") \/ Check)
      BY <1>2 DEF Finish
    <2>2. receipt'.muts = {} /\ gen'.state = "none"
      BY <2>1 DEF NewGeneration, NoReceipt, NoGen
    <2>3. RunAble'
      BY <1>1, <2>1, StoppedAble, CheckedAble
    <2>4. LedgerAble'
      BY <1>1, <2>1, <2>2, EmptyAble
    <2> QED BY <2>3, <2>4 DEF AbleInv
  <1>3. CASE Discard
    <2>1. /\ run.pc = "discard" /\ storage' \in SUBSET storage /\ Goto("classify")
          /\ UNCHANGED <<proof, receipt, gen, units, states, marks>> /\ gaps \subseteq gaps'
      BY <1>3 DEF Discard, Met, ledger
    <2>2. run'.pc = "classify" /\ run'.hit = run.hit /\ RunGoesOn
      BY <1>1, <2>1, GotoFacts DEF PCs
    <2>3. run'.mode = run.mode /\ run'.replay = run.replay
      BY <2>2 DEF RunGoesOn
    <2>4. /\ run.mode \in {"index", "replay"} /\ receipt.state # "none"
          /\ run.mode = "index" => run.replay = {}
          /\ Clean => run.hit
      BY <1>1, <2>1 DEF OwnerOK, Reading
    <2>5. Clean' => Clean
      BY <2>1 DEF Clean
    <2>6. Clean' => run'.hit
      BY <2>2, <2>4, <2>5
    <2>7. RunAble'
      BY <2>1, <2>2, <2>3, <2>4, <2>6, QuietAble DEF Working, AtUnit
    <2>8. LedgerAble'
      BY <1>1, <2>1, FS_Subset, SameLedgerAble
    <2> QED BY <2>7, <2>8 DEF AbleInv
  <1>4. CASE Classify
    <2> DEFINE mode == IF run.hit THEN "hit" ELSE "failed"
    <2>1. /\ run.pc = "classify" /\ run' = Idle(mode)
          /\ gen' = [gen EXCEPT !.state = "failed", !.failures = @ + 1]
          /\ UNCHANGED <<storage, proof, receipt, units, states, marks, gaps>>
      BY <1>4 DEF Classify, Same
    <2>2. receipt.state # "none" /\ (Clean => run.hit)
      BY <1>1, <2>1 DEF OwnerOK, Reading
    <2>3. mode \in {"none", "ok", "hit", "failed"} /\ (Clean' => mode # "failed")
      BY <2>1, <2>2 DEF Clean
    <2> HIDE DEF mode
    <2>4. RunAble'
      BY <2>1, <2>3, StoppedAble
    <2>5. gen'.phase = gen.phase
      BY <1>1, <2>1 DEF LedgerType
    <2>6. LedgerAble'
      BY <1>1, <2>1, <2>2, <2>5, SameLedgerAble
    <2> QED BY <2>4, <2>6 DEF AbleInv
  <1>5. CASE Fail \/ Crash
    <2>1. /\ UNCHANGED <<storage, proof, receipt, gen, units, gaps>>
          /\ Unwind(TRUE) \/ run' = Idle("hit")
      BY <1>5 DEF Fail, Crash, ledger
    <2> HIDE DEF Unwind
    <2>2. RunAble'
      BY <1>1, <2>1, RaisedAble, StoppedAble
    <2>3. LedgerAble'
      BY <1>1, <2>1, SameLedgerAble
    <2> QED BY <2>2, <2>3 DEF AbleInv
  <1> QED BY <1>2, <1>3, <1>4, <1>5

LEMMA UnreadableAble ==
    ASSUME LedgerInv, RunInv, AbleInv, NEW p \in Paths, Unreadable(p) PROVE AbleInv'
  <1>1. LedgerType /\ run \in Runs /\ LedgerAble /\ OwnerOK /\ IsFiniteSet(storage)
    BY DEF LedgerInv, RunInv, AbleInv, LedgerAble, RunAble
  <1>2. /\ UNCHANGED <<storage, proof, receipt, gen, units>> /\ gaps \subseteq gaps'
        /\ Unwind(TRUE)
    BY DEF Unreadable, Met
  <1> HIDE DEF Unwind
  <1>3. RunAble'
    BY <1>1, <1>2, RaisedAble
  <1>4. LedgerAble'
    BY <1>1, <1>2, SameLedgerAble
  <1> QED BY <1>3, <1>4 DEF AbleInv

\* Nothing that the invariant speaks of changes.
LEMMA StillAble ==
    ASSUME LedgerInv, AbleInv, UNCHANGED <<storage, proof, ledger, run, gaps>> PROVE AbleInv'
  <1>1. /\ UNCHANGED <<storage, proof, receipt, gen, units, states, marks, run, gaps>>
        /\ LedgerType /\ LedgerAble /\ RunAble
    BY DEF ledger, LedgerInv, AbleInv
  <1>2. Recorded' = Recorded
    BY <1>1 DEF Recorded
  <1>3. /\ Changed' = Changed /\ Touched' = Touched
        /\ \A p : ExpectedDeletion(p)' = ExpectedDeletion(p)
    BY <1>1, <1>2 DEF Changed, Touched, NewEvidence, Upserts, UnitPoints, ExpectedDeletion, Published
  <1>4. /\ (Reading' <=> Reading) /\ Known' = Known /\ (Clean' <=> Clean) /\ Unit' = Unit
        /\ \A pcs : InHand(pcs)' = InHand(pcs)
        /\ \A p : /\ Due(p)' = Due(p) /\ (Deleted(p)' <=> Deleted(p))
                  /\ Consistent(p)' <=> Consistent(p)
    BY <1>1, <1>2 DEF Reading, Known, Clean, Unit, InHand, Due, Deleted, Consistent, Upserts
  <1>5. OwnerOK' /\ HeldOK'
    BY <1>1, <1>2, <1>4 DEF RunAble, OwnerOK, HeldOK
  <1>6. PlanOK'
    BY <1>1, <1>3, <1>4 DEF RunAble, PlanOK, Deletes
  <1>7. SeenOK' /\ StatesOK' /\ AccountOK'
    <2>1. \A p : Published(p)' = Published(p) /\ LastUnit(p)' = LastUnit(p)
      BY <1>1 DEF Published, LastUnit
    <2>2. SeenOK'
      BY <1>1, <1>4, <2>1 DEF RunAble, SeenOK
    <2>3. StatesOK'
      BY <1>1, <1>4, <2>1 DEF RunAble, StatesOK
    <2>4. AccountOK'
      BY <1>1, <1>3, <1>4 DEF RunAble, AccountOK
    <2> QED BY <2>2, <2>3, <2>4
  <1>8. LedgerAble'
    BY <1>1, SameLedgerAble DEF LedgerAble
  <1> QED BY <1>5, <1>6, <1>7, <1>8 DEF AbleInv, RunAble

----------------------------------------------------------------------------
(* Scanning and opening.                                                     *)

LEMMA ScanAble ==
    ASSUME SourceType, LedgerInv, RunInv, CurrentInv, AbleInv, Scan PROVE AbleInv'
  <1>0. PICK view \in Scanned :
          LET stale == {p \in Paths : /\ view[p] # None
                                      /\ \/ proof[p] = None \/ p \in run.replay
                                         \/ proof[p].digest # view[p]}
              gone == {p \in Paths : proof[p] # None /\ view[p] = None}
          IN  IF stale \cup gone # {}
              THEN /\ run' = [run EXCEPT !.pc = "open", !.seen = view, !.todo = stale, !.dels = gone,
                                         !.attempted = stale \cup gone]
                   /\ UNCHANGED ledger
              ELSE IF run.mode = "index" THEN run' = Idle("ok") /\ UNCHANGED ledger
              ELSE IF \E p \in run.replay : proof[p] # None
                   THEN Unwind(FALSE) /\ UNCHANGED ledger
                   ELSE NewGeneration /\ Check
    BY DEF Scan
  <1>v. view \in [Paths -> Contents \cup {None}] /\ UNCHANGED <<storage, proof, gaps>>
    BY DEF Scanned, Scan, SourceType
  <1> DEFINE stale == {p \in Paths : /\ view[p] # None
                                     /\ \/ proof[p] = None \/ p \in run.replay
                                        \/ proof[p].digest # view[p]}
             gone == {p \in Paths : proof[p] # None /\ view[p] = None}
  <1>1. /\ run.pc = "check" /\ UNCHANGED <<storage, proof>>
        /\ LedgerType /\ run \in Runs /\ LedgerAble /\ OwnerOK /\ StatesOK /\ IsFiniteSet(storage)
        /\ run.mode \in {"index", "replay"}
    BY DEF Scan, LedgerInv, RunInv, AbleInv, LedgerAble, RunAble, ModeOK
  <1>2. CASE /\ run' = [run EXCEPT !.pc = "open", !.seen = view, !.todo = stale, !.dels = gone,
                                   !.attempted = stale \cup gone]
             /\ UNCHANGED ledger
    <2>1. /\ run'.pc = "open" /\ run'.seen = view /\ run'.todo = stale /\ run'.dels = gone
          /\ run'.attempted = stale \cup gone /\ run'.mode = run.mode /\ run'.replay = run.replay
          /\ run'.stage = run.stage
      BY <1>1, <1>2 DEF Runs
    <2>2. UNCHANGED <<receipt, gen, units, states, marks, gaps>>
      BY <1>2, <1>v DEF ledger
    <2>3. run.stage = "none" /\ Recorded = {} /\ run.replay \subseteq Paths
      BY <1>1 DEF CurrentInv, BeginOK, RunInv, StepOK, Recorded, Runs
    <2>4. units = {}
      BY <2>3 DEF LedgerInv, LedgerOK
    <2>5. \A p \in run.replay : proof[p] # None => p \in stale \cup gone
      BY <2>3
    <2>6. /\ gone \subseteq (stale \cup gone) \ stale /\ (stale \cup gone) \ (stale \cup gone) = {}
          /\ \A p \in gone : view[p] = None /\ proof[p] # None
      OBVIOUS
    <2> HIDE DEF stale, gone
    <2>7. (Clean' => Clean) /\ (Reading' <=> Reading)
      BY <2>1, <2>2 DEF Clean, Reading
    <2>8. OwnerOK' /\ HeldOK' /\ PlanOK' /\ AccountOK'
      BY <1>1, <2>1, <2>7 DEF OwnerOK, HeldOK, PlanOK, AccountOK, Working, AtUnit
    <2>9. SeenOK'
      BY <1>1, <2>1, <2>3, <2>5, <2>6 DEF SeenOK
    <2>10. StatesOK'
      <3>1. Clean /\ Reading => \A p \in run.replay : states[p] = None
        BY <1>1 DEF StatesOK
      <3>2. \A p : ~Deleted(p)'
        BY <2>2, <2>4 DEF Deleted
      <3> QED BY <2>1, <2>2, <2>6, <2>7, <3>1, <3>2 DEF StatesOK
    <2>11. LedgerAble'
      BY <1>1, <2>2, SameLedgerAble
    <2> QED BY <2>8, <2>9, <2>10, <2>11 DEF AbleInv, RunAble
  <1>3. CASE run' = Idle("ok") /\ UNCHANGED ledger
    <2>1. UNCHANGED <<receipt, gen, units, states, marks, gaps>>
      BY <1>3, <1>v DEF ledger
    <2> QED BY <1>1, <1>3, <2>1, StoppedAble, SameLedgerAble DEF AbleInv
  <1>4. CASE NewGeneration /\ Check
    <2>1. receipt'.muts = {} /\ gen'.state = "none"
      BY <1>4 DEF NewGeneration, NoReceipt, NoGen
    <2> QED BY <1>1, <1>4, <2>1, CheckedAble, EmptyAble DEF AbleInv
  <1>5. ~(stale \cup gone = {} /\ \E p \in run.replay : proof[p] # None)
    <2>1. run.replay \subseteq Paths
      BY <1>1 DEF Runs
    <2> QED BY <2>1
  <1> QED BY <1>0, <1>2, <1>3, <1>4, <1>5

LEMMA RefuseIndexingAble ==
    ASSUME LedgerInv, RunInv, AbleInv, RefuseIndexing PROVE AbleInv'
  <1>1. /\ run.pc = "check" /\ run.mode = "index" /\ Cardinality(storage) < Cardinality(Retained)
        /\ Unwind(FALSE) /\ gaps' = gaps \cup {} /\ UNCHANGED <<storage, proof, receipt, gen, units>>
    BY DEF RefuseIndexing, EvidenceLost, Raise, Met, ledger
  <1> HIDE DEF Unwind
  <1>2. /\ LedgerType /\ WholeProof /\ LedgerAble /\ OwnerOK /\ IsFiniteSet(storage)
    BY DEF LedgerInv, AbleInv, LedgerAble, RunAble
  <1>3. ~Clean'
    <2> SUFFICES ASSUME Clean' PROVE FALSE
      OBVIOUS
    <2>1. Traced /\ Closed
      BY <1>1 DEF Clean, Traced, RunInv, StepOK
    <2>2. Retained \subseteq storage
      BY <2>1, NothingHidden
    <2>3. Cardinality(storage) >= Cardinality(Retained)
      BY <1>2, <2>2, ClosedIsBacked
    <2>4. Cardinality(storage) \in Nat /\ Cardinality(Retained) \in Nat
      BY <1>2, RetainedIsFinite, FS_CardinalityType
    <2> QED BY <1>1, <2>3, <2>4
  <1>4. RunAble' /\ LedgerAble'
    BY <1>1, <1>2, <1>3, RaisedAble, SameLedgerAble
  <1> QED BY <1>4 DEF AbleInv

LEMMA OpenAble ==
    ASSUME LedgerInv, RunInv, CurrentInv, AbleInv, OpenFresh \/ OpenResumed PROVE AbleInv'
  <1>1. /\ run.pc = "open" /\ UNCHANGED <<storage, proof>>
        /\ LedgerType /\ WholeProof /\ run \in Runs /\ LedgerAble /\ OwnerOK /\ SeenOK /\ StatesOK
        /\ IsFiniteSet(storage) /\ run.mode \in {"index", "replay"} /\ receipt.muts = {}
    BY DEF OpenFresh, OpenResumed, LedgerInv, RunInv, AbleInv, LedgerAble, RunAble, ModeOK, StepOK
  <1>2. units = {} /\ Recorded = {}
    BY <1>1 DEF LedgerInv, LedgerOK, Recorded
  <1>3. ASSUME Streaming, receipt'.muts = {}, receipt'.state # "none", units' = {},
               gaps \subseteq gaps', gen'.phase = "ingesting",
               \/ states' = Nothing /\ marks' = {}
               \/ UNCHANGED <<states, marks>>
        PROVE  AbleInv'
    <2>1. /\ run'.pc = "stream" /\ run'.stage = "stream" /\ run'.existing = Of(storage, run.attempted)
          /\ run'.seen = run.seen /\ run'.todo = run.todo /\ run'.dels = run.dels
          /\ run'.attempted = run.attempted /\ run'.mode = run.mode /\ run'.replay = run.replay
          /\ run'.queue = run.queue
      BY <1>1, <1>3 DEF Runs, Streaming
    <2>2. (Clean' => Clean) /\ (Reading' <=> Reading) /\ Reading
      BY <1>1, <1>3, <2>1 DEF Clean, Reading
    <2>3. run.queue = <<>> /\ Recorded' = {}
      BY <1>1, <1>3, <2>2 DEF CurrentInv, ReadOK, Recorded
    <2>4. OwnerOK'
      BY <1>1, <1>3, <2>1, <2>2 DEF OwnerOK, Working, AtUnit
    <2>5. HeldOK' /\ PlanOK' /\ AccountOK'
      BY <1>3, <2>1, <2>3 DEF HeldOK, PlanOK, AccountOK, Known, ToSet
    <2>6. ASSUME NEW p \in Paths PROVE Of(run'.existing, {p}) \subseteq Published(p)'
      <3>1. storage \subseteq Retained
        BY <1>2 DEF LedgerInv, NoStrays, Uploads, UnitPoints
      <3>2. ASSUME NEW x \in Of(run'.existing, {p}) PROVE x \in Published(p)
        <4>1. x \in Retained /\ x[1] = p
          BY <2>1, <3>1 DEF Of
        <4>2. PICK q \in Paths : x \in Published(q)
          BY <4>1 DEF Retained
        <4>3. q = p
          BY <1>1, <4>1, <4>2, PointOfFile
        <4> QED BY <4>2, <4>3
      <3> QED BY <1>1, <3>2 DEF Published
    <2>7. SeenOK'
      BY <1>1, <2>1, <2>2, <2>6 DEF SeenOK, Due
    <2>8. StatesOK'
      <3>1. \A p : ~Deleted(p)'
        BY <1>3 DEF Deleted
      <3>2. run.attempted \subseteq Paths /\ run.replay \subseteq Paths
        BY <1>1 DEF Runs
      <3>3. CASE states' = Nothing /\ marks' = {}
        BY <1>3, <2>1, <3>1, <3>2, <3>3 DEF StatesOK, Nothing
      <3>4. CASE UNCHANGED <<states, marks>>
        BY <1>1, <1>2, <1>3, <2>1, <2>2, <3>1, <3>4 DEF StatesOK, Due
      <3> QED BY <1>3, <3>3, <3>4
    <2>9. LedgerAble'
      BY <1>1, <1>3, EmptyAble
    <2> QED BY <2>4, <2>5, <2>7, <2>8, <2>9 DEF AbleInv, RunAble
  <1>4. CASE OpenFresh
    <2>1. /\ receipt' = [state |-> "reserved", muts |-> {}] /\ units' = {} /\ marks' = {}
          /\ states' = Nothing /\ Streaming /\ UNCHANGED gaps
          /\ gen' = [state |-> "running", phase |-> "ingesting", failures |-> 0]
      BY <1>4 DEF OpenFresh, NoGen, Same
    <2> QED BY <1>3, <2>1
  <1>5. CASE OpenResumed
    <2>1. /\ gen' = [gen EXCEPT !.state = "running"]
          /\ \/ gen.phase = "ingesting" /\ Streaming /\ Same
             \/ /\ run' = [run EXCEPT !.pc = "commit", !.stage = "seal"]
                /\ gaps \subseteq gaps' /\ gaps' = gaps \cup {"skipped"}
          /\ UNCHANGED <<receipt, units, states, marks>>
      BY <1>5 DEF OpenResumed, Met
    <2>2. receipt.state # "none"
      BY <1>1, <1>5 DEF OpenResumed, LedgerAble, RunInv, StepOK
    <2>3. gen'.phase = gen.phase
      BY <1>1, <2>1 DEF LedgerType
    <2>4. CASE gen.phase = "ingesting" /\ Streaming /\ Same
      BY <1>1, <1>2, <1>3, <2>1, <2>2, <2>3, <2>4 DEF Same
    <2>5. CASE run' = [run EXCEPT !.pc = "commit", !.stage = "seal"] /\ gaps \subseteq gaps'
      <3>1. run'.pc = "commit" /\ run'.mode = run.mode /\ run'.replay = run.replay
        BY <1>1, <2>5 DEF Runs
      <3>2. (Clean' => run.mode # "failed") /\ (run.mode = "index" => run.replay = {})
        BY <1>1, <2>5 DEF OwnerOK, Clean
      <3>3. RunAble'
        BY <1>1, <2>1, <2>2, <3>1, <3>2, QuietAble DEF Working, AtUnit
      <3>4. LedgerAble'
        BY <1>1, <2>1, <2>2, EmptyAble
      <3> QED BY <3>3, <3>4 DEF AbleInv
    <2> QED BY <2>1, <2>4, <2>5
  <1> QED BY <1>4, <1>5

----------------------------------------------------------------------------
(* Reading files, and what is obsolete once all are read.                    *)

LEMMA NothingToPublish ==
    ASSUME NEW p \in Paths, NEW c \in Contents
    PROVE  Evidence(p, c) = None <=> Segments(p, c) = <<>>
  <1>1. Stream[c] \in Seq(Nat) /\ c # None
    BY PublicationAssumption
  <1>2. PointsOf(p, c) \subseteq Paths \X Chunks
    BY DEF PointsOf, Point, Chunks
  <1>3. Evidence(p, c) = None <=> PointsOf(p, c) = {}
    BY <1>1, <1>2, NoneAssumption DEF Evidence
  <1>4. Segments(p, c) \in Seq(Units) /\ Len(Segments(p, c)) = Len(Stream[c])
    BY SegmentsFacts
  <1>5. PointsOf(p, c) = {} <=> Len(Stream[c]) = 0
    <2>1. ToSet(Stream[c]) = {Stream[c][i] : i \in 1 .. Len(Stream[c])}
      BY <1>1 DEF ToSet
    <2>2. ToSet(Stream[c]) = {} <=> Len(Stream[c]) = 0
      <3>1. Len(Stream[c]) \in Nat
        BY <1>1
      <3>2. Len(Stream[c]) # 0 => 1 \in 1 .. Len(Stream[c])
        BY <3>1
      <3>3. Len(Stream[c]) = 0 => 1 .. Len(Stream[c]) = {}
        BY <3>1
      <3> QED BY <2>1, <3>2, <3>3
    <2> QED BY <2>2 DEF PointsOf
  <1>6. Segments(p, c) = <<>> <=> Len(Segments(p, c)) = 0
    BY <1>4
  <1> QED BY <1>3, <1>4, <1>5, <1>6

LEMMA ReadSourceAble ==
    ASSUME SourceType, LedgerInv, RunInv, CurrentInv, AbleInv, NEW p \in Paths, ReadSource(p)
    PROVE  AbleInv'
  <1> DEFINE c == source[p]
             segments == IF c = None THEN <<>> ELSE Segments(p, c)
             pc == IF segments = <<>> THEN "stream" ELSE "prepare"
             next == [run EXCEPT !.todo = @ \ {p}, !.seen[p] = c, !.queue = segments, !.pc = pc]
  <1>1. /\ run' = next /\ run.pc = "stream" /\ p \in run.todo /\ run \in Runs
        /\ gaps \subseteq gaps' /\ UNCHANGED <<storage, proof, receipt, gen, units>>
        /\ IF segments # <<>> THEN UNCHANGED <<states, marks>>
           ELSE /\ states' = [states EXCEPT ![p] = IF c = None THEN None ELSE "rejected"]
                /\ marks' = marks \ {p} /\ gaps' = gaps \cup Lost(p, c)
    BY DEF ReadSource, Same, Met, RunInv
  <1>2. c \in Contents \cup {None}
    BY DEF SourceType
  <1>3. \A u \in ToSet(segments) : ~Deletes(u)
    <2>1. CASE c = None
      BY <2>1 DEF ToSet
    <2>2. CASE c # None
      BY <1>2, <2>2, SegmentsOf
    <2> QED BY <2>1, <2>2
  <1>4. Evidence(p, c) = None <=> segments = <<>>
    <2>1. CASE c = None
      BY <2>1 DEF Evidence
    <2>2. CASE c # None
      BY <1>2, <2>2, NothingToPublish
    <2> QED BY <2>1, <2>2
  <1> HIDE DEF c, segments
  <1>5. /\ run'.pc = pc /\ run'.queue = segments /\ run'.mode = run.mode
        /\ run'.stage = run.stage /\ run'.attempted = run.attempted /\ run'.replay = run.replay
        /\ run'.dels = run.dels /\ run'.existing = run.existing
        /\ run'.todo = run.todo \ {p} /\ run'.seen = [run.seen EXCEPT ![p] = c]
    BY <1>1 DEF Runs
  <1>6. /\ run'.seen[p] = c /\ \A q \in Paths \ {p} : run'.seen[q] = run.seen[q]
    BY <1>1, <1>5 DEF Runs
  <1>7. run.stage = "stream" /\ run.attempted \subseteq Paths /\ run.replay \subseteq Paths
    BY <1>1 DEF RunInv, ModeOK, Runs
  <1>8. Reading
    BY <1>1, <1>7 DEF RunInv, StepOK, Working, Reading
  <1>9. /\ run.todo \subseteq run.attempted /\ run.queue = <<>>
        /\ \A u \in Known : u.path \in run.attempted \ run.todo
    BY <1>1, <1>8 DEF CurrentInv, ReadOK, Working
  <1>10. /\ LedgerType /\ LedgerAble /\ OwnerOK /\ HeldOK /\ PlanOK /\ SeenOK /\ StatesOK
         /\ IsFiniteSet(storage)
    BY DEF LedgerInv, AbleInv, LedgerAble, RunAble
  <1>11. Recorded' = Recorded /\ (Clean' => Clean)
    BY <1>1 DEF Recorded, Clean
  <1>12. OwnerOK' /\ AccountOK'
    <2>1. run'.pc \in {"stream", "prepare"}
      BY <1>5
    <2>2. OwnerOK'
      BY <1>1, <1>5, <1>8, <1>10, <1>11, <2>1 DEF OwnerOK, Reading, Working, AtUnit
    <2>3. AccountOK'
      BY <2>1 DEF AccountOK
    <2> QED BY <2>2, <2>3
  <1>13. HeldOK'
    BY <1>1, <1>5, <1>8, <1>10, <1>11 DEF HeldOK, InHand, Working, Reading
  <1>14. PlanOK'
    <2>1. Clean => \A u \in Recorded : ~Deletes(u)
      BY <1>1, <1>7, <1>10 DEF PlanOK, Working, Known
    <2>2. Clean' => \A u \in Known' : ~Deletes(u)
      BY <1>3, <1>5, <1>11, <2>1 DEF Known
    <2> QED BY <1>5, <1>7, <2>2 DEF PlanOK, Deletes
  <1>15. ASSUME NEW q \in Paths \ {p} PROVE Due(q)' = Due(q) /\ LastUnit(q)' = LastUnit(q)
    BY <1>6 DEF Due, LastUnit
  <1>16. Due(p)' = None => segments = <<>>
    BY <1>4, <1>6 DEF Due
  <1>17. SeenOK'
    <2> SUFFICES ASSUME Clean' PROVE SeenOK'
      BY DEF SeenOK
    <2>1. /\ run.dels \subseteq run.attempted \ run.todo
          /\ \A q \in run.dels : run.seen[q] = None /\ proof[q] # None
          /\ \A q \in run.attempted \ (run.todo \cup run.dels) : Due(q) = None => proof[q] = None
          /\ \A q \in run.replay : proof[q] # None => q \in run.attempted
          /\ \A q \in Paths : Of(run.existing, {q}) \subseteq Published(q)
      BY <1>1, <1>7, <1>8, <1>10, <1>11 DEF SeenOK, Working
    <2>2. ASSUME segments = <<>> PROVE proof[p] = None
      <3>1. gaps' = gaps \cup Lost(p, c)
        BY <1>1, <2>2
      <3>2. Lost(p, c) = {} \/ Lost(p, c) \in {{"unmarked"}, {"vanished"}, {"emptied"}}
        BY DEF Lost
      <3>3. Lost(p, c) = {}
        BY <3>1, <3>2 DEF Clean
      <3> QED BY <3>3 DEF Lost
    <2>3. \A q \in run'.attempted \ (run'.todo \cup run'.dels) : Due(q)' = None => proof'[q] = None
      BY <1>1, <1>5, <1>7, <1>15, <1>16, <2>1, <2>2
    <2>4. \A q \in run'.dels : run'.seen[q] = None /\ proof'[q] # None
      BY <1>1, <1>5, <1>6, <1>7, <2>1
    <2>5. \A q \in Paths : Published(q)' = Published(q)
      BY <1>1 DEF Published
    <2> QED BY <1>1, <1>5, <2>1, <2>3, <2>4, <2>5 DEF SeenOK
  <1>18. StatesOK'
    <2> SUFFICES ASSUME Clean' PROVE StatesOK'
      BY DEF StatesOK
    <2>1. /\ \A q \in run.replay \ run.attempted : states[q] = None
          /\ \A q \in run.dels : Deleted(q) => states[q] = None /\ q \in marks
          /\ \A q \in run.attempted \ (run.todo \cup run.dels) :
                /\ Due(q) = None => states[q] \in {None, "rejected"} /\ q \notin marks
                /\ Due(q) # None /\ LastUnit(q) \in units =>
                      states[q] = run.seen[q] /\ q \notin marks
      BY <1>1, <1>8, <1>10, <1>11 DEF StatesOK, Working
    <2>2. \A q \in Paths \ {p} : states'[q] = states[q] /\ (q \in marks' <=> q \in marks)
      BY <1>1, <1>10 DEF LedgerType
    <2>3. /\ segments = <<>> => states'[p] \in {None, "rejected"} /\ p \notin marks'
      BY <1>1, <1>10 DEF LedgerType
    <2>4. LastUnit(p)' \notin units
      <3>1. \A u \in units : u.path # p
        BY <1>1, <1>9 DEF Known, LedgerInv, LedgerOK
      <3> QED BY <3>1 DEF LastUnit, Upsert
    <2>5. run.dels \subseteq Paths \ {p}
      BY <1>1, <1>8, <1>10, <1>11 DEF SeenOK, Working, Runs
    <2>6. \A q : Deleted(q)' <=> Deleted(q)
      BY <1>1 DEF Deleted
    <2>7. \A q \in run'.replay \ run'.attempted : states'[q] = None
      BY <1>1, <1>5, <1>7, <1>9, <2>1, <2>2
    <2>8. \A q \in run'.dels : Deleted(q)' => states'[q] = None /\ q \in marks'
      BY <1>5, <2>1, <2>2, <2>5, <2>6
    <2>9. ASSUME NEW q \in run'.attempted \ (run'.todo \cup run'.dels)
          PROVE  /\ Due(q)' = None => states'[q] \in {None, "rejected"} /\ q \notin marks'
                 /\ Due(q)' # None /\ LastUnit(q)' \in units' =>
                       states'[q] = run'.seen[q] /\ q \notin marks'
      <3>1. CASE q = p
        BY <1>1, <1>16, <2>3, <2>4, <3>1
      <3>2. CASE q # p
        <4>1. q \in Paths \ {p} /\ q \in run.attempted \ (run.todo \cup run.dels)
          BY <1>5, <1>7, <3>2
        <4> QED BY <1>1, <1>6, <1>15, <2>1, <2>2, <4>1
      <3> QED BY <3>1, <3>2
    <2> QED BY <1>5, <2>7, <2>8, <2>9 DEF StatesOK
  <1>19. LedgerAble'
    BY <1>1, <1>10, SameLedgerAble
  <1> QED BY <1>12, <1>13, <1>14, <1>17, <1>18, <1>19 DEF AbleInv, RunAble

LEMMA PublishedIsSome ==
    ASSUME WholeProof, NEW p \in Paths, proof[p] # None PROVE Published(p) # {}
  <1>1. PICK c \in Contents : PointsOf(p, c) # {} /\ proof[p] = Evidence(p, c)
    BY DEF WholeProof
  <1> QED BY <1>1, PublicationAssumption DEF Published, Evidence

\* The deletions that are made are the ones sealing asks for.
LEMMA DeleteObsoleteAble ==
    ASSUME LedgerInv, RunInv, CurrentInv, AbleInv, DeleteObsolete PROVE AbleInv'
  <1> DEFINE prior(p) == Of(run.existing, {p}) \cup Published(p)
             kind(p) == IF p \in run.dels THEN "path" ELSE "stale"
             obsolete(p) == prior(p) \ UnitPoints(Upserts(units, p))
             due == {p \in run.attempted : obsolete(p) # {}
                         /\ ~\E u \in units : u.path = p /\ u.kind = kind(p)}
             D == {Deletion(p, kind(p), obsolete(p)) : p \in due}
             pc == IF SetToSeq(D) = <<>> THEN "seal" ELSE "prepare"
  <1>1. /\ run' = [run EXCEPT !.stage = "seal", !.queue = SetToSeq(D), !.pc = pc]
        /\ run.pc = "stream" /\ run.todo = {} /\ run \in Runs
        /\ UNCHANGED <<storage, proof, receipt, gen, units, states, marks, gaps>>
    BY DEF DeleteObsolete, Same, ledger, RunInv
  <1>2. due \subseteq run.attempted /\ run.attempted \subseteq Paths
    BY <1>1 DEF Runs
  <1>3. \A p \in Paths : kind(p) \in {"path", "stale"} /\ obsolete(p) \in SUBSET ({p} \X Chunks)
    <2> SUFFICES ASSUME NEW p \in Paths PROVE prior(p) \in SUBSET ({p} \X Chunks)
      OBVIOUS
    <2>1. run.existing \in SUBSET AllPoints
      BY <1>1 DEF Runs
    <2>2. Of(run.existing, {p}) \in SUBSET ({p} \X Chunks)
      BY <2>1 DEF Of, AllPoints
    <2> QED BY <2>2, PublishedFacts DEF LedgerInv
  <1>4. /\ LedgerType /\ WholeProof /\ LedgerAble /\ OwnerOK /\ HeldOK /\ PlanOK /\ SeenOK
        /\ StatesOK /\ IsFiniteSet(storage)
    BY DEF LedgerInv, AbleInv, LedgerAble, RunAble
  <1>5. Reading /\ run.stage = "stream"
    BY <1>1 DEF RunInv, ModeOK, StepOK, Working, Reading
  <1>6. units = Recorded
    BY <1>1, <1>4, <1>5 DEF HeldOK, InHand, Working, LedgerInv, LedgerOK
  <1>7. Known = Recorded
    <2>1. run.queue = <<>>
      BY <1>1, <1>5 DEF CurrentInv, ReadOK, Working
    <2> QED BY <2>1 DEF Known, ToSet
  <1>8. ASSUME Clean, NEW p \in run.attempted
        PROVE  ExpectedDeletion(p) = IF p \in due THEN {Deletion(p, kind(p), obsolete(p))} ELSE {}
    <2> DEFINE rest == Published(p) \ UnitPoints(Upserts(Recorded, p))
    <2>1. \A u \in units : ~(u.path = p /\ u.kind = kind(p))
      <3>1. \A u \in Recorded : ~Deletes(u)
        BY <1>1, <1>4, <1>5, <1>7, <1>8 DEF PlanOK, Working
      <3> QED BY <1>6, <3>1 DEF Deletes
    <2>2. p \in due <=> obsolete(p) # {}
      BY <2>1
    <2>3. obsolete(p) = rest
      <3>1. Of(run.existing, {p}) \subseteq Published(p)
        BY <1>1, <1>2, <1>4, <1>5, <1>8 DEF SeenOK, Working
      <3> QED BY <1>6, <3>1
    <2>4. /\ Upserts(Recorded, p) # {} =>
                run.seen[p] \in Contents /\ NewEvidence(p) # None
          /\ Upserts(Recorded, p) = {} => NewEvidence(p) = None /\ Due(p) = None
      BY <1>1, <1>2, <1>5, <1>8, ReadEvidence
    <2>5. p \in run.dels => run.seen[p] = None
      BY <1>1, <1>4, <1>5, <1>8 DEF SeenOK, Working
    <2>6. p \notin run.dels /\ Due(p) = None => proof[p] = None
      BY <1>1, <1>4, <1>5, <1>8 DEF SeenOK, Working
    <2>7. CASE proof[p] = None
      BY <2>2, <2>3, <2>7 DEF ExpectedDeletion, Published
    <2>8. CASE proof[p] # None /\ NewEvidence(p) = None
      <3>1. Upserts(Recorded, p) = {} /\ p \in run.dels
        BY <2>4, <2>6, <2>8
      <3>2. rest = Published(p)
        BY <3>1 DEF UnitPoints
      <3>3. Published(p) # {}
        BY <1>2, <1>4, <1>8, <2>8, PublishedIsSome
      <3>4. ExpectedDeletion(p) = {Deletion(p, "path", Published(p))}
        BY <2>8 DEF ExpectedDeletion
      <3> HIDE DEF obsolete, due, rest
      <3> QED BY <2>2, <2>3, <3>1, <3>2, <3>3, <3>4
    <2>9. CASE proof[p] # None /\ NewEvidence(p) # None
      <3>1. p \notin run.dels
        BY <2>4, <2>5, <2>9, PublicationAssumption
      <3>2. ExpectedDeletion(p) = IF rest = {} THEN {} ELSE {Deletion(p, "stale", rest)}
        BY <2>9 DEF ExpectedDeletion
      <3> HIDE DEF obsolete, due, rest
      <3> QED BY <2>2, <2>3, <3>1, <3>2
    <2> QED BY <2>7, <2>8, <2>9
  <1> HIDE DEF due, kind, obsolete
  <1>9. /\ D \in SUBSET Units /\ \A d, e \in D : d.path = e.path => d = e
        /\ \A d \in D : d.path \in due /\ d = Deletion(d.path, kind(d.path), obsolete(d.path))
        /\ \A p \in due : Deletion(p, kind(p), obsolete(p)) \in D
    <2>1. \A p \in due : /\ Deletion(p, kind(p), obsolete(p)) \in Units
                         /\ Deletion(p, kind(p), obsolete(p)).path = p
      BY <1>2, <1>3, DeletionIsUnit
    <2> QED BY <2>1
  <1>10. ToSet(SetToSeq(D)) = D
    <2>1. IsFiniteSet(D)
      BY <1>9, FewUnits
    <2> HIDE DEF D
    <2> QED BY <1>9, <2>1, Listed
  <1> HIDE DEF D
  <1>11. /\ run'.stage = "seal" /\ run'.queue = SetToSeq(D) /\ run'.pc = pc
         /\ run'.mode = run.mode /\ run'.attempted = run.attempted /\ run'.todo = run.todo
         /\ run'.seen = run.seen /\ run'.dels = run.dels /\ run'.replay = run.replay
    BY <1>1 DEF Runs
  <1>12. run'.pc \in {"seal", "prepare"}
    BY <1>11
  <1> HIDE DEF pc
  <1>13. Recorded' = Recorded /\ (Clean' <=> Clean) /\ (Reading' <=> Reading)
    BY <1>1, <1>11 DEF Recorded, Clean, Reading
  <1>14. \A p \in Paths : ExpectedDeletion(p)' = ExpectedDeletion(p)
    BY <1>1, <1>13, RecordViews
  <1>15. Known' = Recorded \cup D
    BY <1>10, <1>11, <1>13 DEF Known
  <1>16. OwnerOK'
    BY <1>1, <1>4, <1>5, <1>11, <1>12, <1>13 DEF OwnerOK, Reading, Working, AtUnit
  <1>17. HeldOK' /\ AccountOK'
    BY <1>1, <1>4, <1>5, <1>12, <1>13 DEF HeldOK, AccountOK, InHand, Working
  <1>18. PlanOK'
    <2> SUFFICES ASSUME Clean PROVE PlanOK'
      BY <1>13 DEF PlanOK
    <2>1. ASSUME NEW u \in ToSet(run'.queue) PROVE ExpectedDeletion(u.path)' = {u}
      BY <1>2, <1>8, <1>9, <1>10, <1>11, <1>14, <2>1
    <2>2. \A p \in run'.attempted : ExpectedDeletion(p)' \subseteq Known'
      BY <1>2, <1>8, <1>9, <1>11, <1>14, <1>15
    <2> QED BY <1>11, <2>1, <2>2 DEF PlanOK
  <1>19. SeenOK'
    BY <1>1, <1>4, <1>5, <1>11, <1>12, <1>13 DEF SeenOK, Due, Working, AtUnit
  <1>20. StatesOK'
    <2>1. \A p : Due(p)' = Due(p) /\ LastUnit(p)' = LastUnit(p) /\ (Deleted(p)' <=> Deleted(p))
      BY <1>1, <1>11 DEF Due, LastUnit, Deleted
    <2> QED BY <1>1, <1>4, <1>5, <1>11, <1>12, <1>13, <2>1 DEF StatesOK, Working, AtUnit
  <1>21. LedgerAble'
    BY <1>1, <1>4, SameLedgerAble
  <1> QED BY <1>16, <1>17, <1>18, <1>19, <1>20, <1>21 DEF AbleInv, RunAble

----------------------------------------------------------------------------
(* One mutation.                                                             *)

\* A deletion is recorded of a file whose deletion it is, an upload while nothing is deleted.
LEMMA UnitAble ==
    ASSUME LedgerInv, RunInv, AbleInv, run.pc \in AtUnit,
           NEW pc \in {"write", "applied", "confirm", "record"}, Goto(pc),
           UNCHANGED <<proof, gen, units, states, marks, gaps>>, receipt'.state = receipt.state,
           IsFiniteSet(storage'), Recorded' = Recorded \cup {Unit},
           Reading => \A m \in receipt'.muts :
               m.st = "confirmed" \/ (pc # "record" /\ m.unit = Unit),
           OpenReceipt /\ gen.phase # "ingesting" => Unit \in Recorded
    PROVE  AbleInv'
  <1>1. /\ run \in Runs /\ Unit \in Units /\ run.queue # <<>> /\ run.queue \in Seq(Units)
        /\ run.stage \in {"stream", "seal", "forward"}
        /\ run.stage \in {"seal", "forward"} => Deletes(Unit)
        /\ Reading => run.stage # "forward"
    BY UnitInHand DEF Runs, Stages, Reading
  <1>2. run'.pc = pc /\ RunGoesOn
    BY <1>1, GotoFacts DEF PCs, Working, AtUnit
  <1>3. /\ run'.mode = run.mode /\ run'.stage = run.stage /\ run'.attempted = run.attempted
        /\ run'.todo = run.todo /\ run'.seen = run.seen /\ run'.queue = run.queue
        /\ run'.dels = run.dels /\ run'.replay = run.replay /\ run'.existing = run.existing
    BY <1>2 DEF RunGoesOn
  <1>4. Unit' = Unit /\ Unit \in ToSet(run.queue)
    BY <1>1, <1>3 DEF Unit, ToSet
  <1>5. /\ (Reading' <=> Reading) /\ (Clean' <=> Clean) /\ Known' = Known /\ Unit \in Known
        /\ (OpenReceipt' <=> OpenReceipt)
    BY <1>3, <1>4 DEF Reading, Clean, Known, OpenReceipt
  <1>6. /\ LedgerType /\ WholeProof /\ LedgerAble /\ OwnerOK /\ HeldOK /\ PlanOK /\ SeenOK
        /\ StatesOK /\ Recorded \in SUBSET Units
    BY RecordedFacts DEF LedgerInv, AbleInv, LedgerAble, RunAble
  <1>7. OwnerOK' /\ AccountOK'
    <2>1. OwnerOK'
      BY <1>2, <1>3, <1>5, <1>6 DEF OwnerOK, Reading, Working, AtUnit
    <2>2. AccountOK'
      BY <1>2 DEF AccountOK
    <2> QED BY <2>1, <2>2
  <1>8. HeldOK'
    <2>1. Reading => Recorded \subseteq units \cup {Unit}
      BY <1>6 DEF HeldOK, InHand, Working
    <2> QED BY <1>2, <1>4, <1>5, <2>1 DEF HeldOK, InHand
  <1>9. ASSUME Deletes(Unit), NEW p \in Paths
        PROVE  ExpectedDeletion(p)' = ExpectedDeletion(p) /\ NewEvidence(p)' = NewEvidence(p)
    <2>1. Upserts(Recorded', p) = Upserts(Recorded, p)
      BY <1>9 DEF Upserts, Deletes
    <2>2. NewEvidence(p)' = NewEvidence(p) /\ Published(p)' = Published(p)
      BY <2>1 DEF NewEvidence, Published
    <2> QED BY <2>1, <2>2 DEF ExpectedDeletion
  <1>10. Clean => (run.stage = "stream" <=> ~Deletes(Unit))
    BY <1>1, <1>5, <1>6 DEF PlanOK, Working
  <1>11. Unit.path \in Paths /\ \A u \in Recorded' : u.path \in Paths
    BY <1>1, <1>6, UnitFacts
  <1>12. run.attempted \subseteq Paths /\ Changed \subseteq Paths
    BY <1>1, <1>6, TouchedFacts DEF Runs
  <1>13. PlanOK'
    <2> SUFFICES ASSUME Clean PROVE PlanOK'
      BY <1>5 DEF PlanOK
    <2>1. CASE run.stage = "stream"
      BY <1>3, <1>5, <1>6, <2>1 DEF PlanOK, Working, Deletes
    <2>2. CASE run.stage \in {"seal", "forward"}
      <3>1. \A u \in ToSet(run.queue) : u \in Units /\ u.path \in Paths
        BY <1>1, UnitFacts DEF ToSet
      <3>2. \A u \in ToSet(run'.queue) : ExpectedDeletion(u.path)' = {u}
        BY <1>1, <1>3, <1>6, <1>9, <2>2, <3>1 DEF PlanOK, Working
      <3>3. run.stage = "seal" => \A p \in run'.attempted : ExpectedDeletion(p)' \subseteq Known'
        BY <1>1, <1>3, <1>5, <1>6, <1>9, <1>12, <2>2 DEF PlanOK, Working
      <3>4. ASSUME run.stage = "forward"
            PROVE  /\ \A p \in Changed' : ExpectedDeletion(p)' \subseteq Known'
                   /\ \A u \in ToSet(run'.queue) : u.path \in Changed'
        <4>1. /\ \A p \in Changed : ExpectedDeletion(p) \subseteq Known
              /\ \A u \in ToSet(run.queue) : u.path \in Changed
          BY <1>6, <3>4 DEF PlanOK, Working
        <4>2. Touched' = Touched
          <5>1. Unit.path \in Touched
            BY <1>4, <4>1 DEF Changed
          <5> QED BY <5>1 DEF Touched
        <4>3. Changed' = Changed
          <5>1. Touched \subseteq Paths
            BY <1>6, TouchedFacts
          <5> QED BY <1>1, <1>9, <3>4, <4>2, <5>1 DEF Changed
        <4> QED BY <1>1, <1>3, <1>5, <1>9, <1>12, <3>4, <4>1, <4>3
      <3> QED BY <1>3, <2>2, <3>2, <3>3, <3>4 DEF PlanOK
    <2> QED BY <1>1, <2>1, <2>2
  <1>14. SeenOK' /\ StatesOK'
    <2>1. \A p : /\ Due(p)' = Due(p) /\ LastUnit(p)' = LastUnit(p) /\ (Deleted(p)' <=> Deleted(p))
                 /\ Published(p)' = Published(p)
      BY <1>3 DEF Due, LastUnit, Deleted, Published
    <2>2. SeenOK'
      BY <1>2, <1>3, <1>5, <1>6, <2>1 DEF SeenOK, Working, AtUnit
    <2>3. StatesOK'
      BY <1>2, <1>3, <1>5, <1>6, <2>1 DEF StatesOK, Working, AtUnit
    <2> QED BY <2>2, <2>3
  <1>15. LedgerAble'
    <2>1. ASSUME Clean, OpenReceipt, NEW u \in Recorded', Deletes(u)
          PROVE  ExpectedDeletion(u.path)' = {u}
      <3>1. CASE ~Deletes(Unit)
        BY <1>6, <1>10, <2>1, <3>1 DEF PlanOK, Known, Working
      <3>2. CASE Deletes(Unit)
        <4>1. ExpectedDeletion(Unit.path) = {Unit}
          BY <1>1, <1>4, <1>6, <1>10, <2>1, <3>2 DEF PlanOK, Working
        <4>2. ExpectedDeletion(u.path) = {u}
          BY <1>6, <2>1, <4>1 DEF LedgerAble
        <4> QED BY <1>9, <1>11, <3>2, <4>2
      <3> QED BY <3>1, <3>2
    <2> QED BY <1>5, <1>6, <2>1 DEF LedgerAble, Deletes
  <1> QED BY <1>7, <1>8, <1>13, <1>14, <1>15 DEF AbleInv, RunAble

LEMMA MarkAble ==
    ASSUME LedgerInv, RunInv, AbleInv, Write \/ MarkApplied \/ Confirm PROVE AbleInv'
  <1>1. /\ run.pc \in AtUnit /\ run.pc \in {"write", "applied", "confirm"}
        /\ UNCHANGED <<proof, gen, units, states, marks, gaps>>
        /\ \/ Write /\ UNCHANGED receipt /\ Goto("applied") /\ run.pc = "write"
           \/ /\ UNCHANGED storage
              /\ \/ receipt' = Advanced("applied") /\ Goto("confirm")
                 \/ receipt' = Advanced("confirmed") /\ Goto("record")
    BY DEF Write, MarkApplied, Confirm, Same, AtUnit, ledger
  <1>2. /\ Unit \in Units /\ Unit \in Recorded
        /\ LedgerType /\ HeldOK /\ IsFiniteSet(storage)
    BY <1>1, UnitInHand DEF RunInv, UnitOK, AbleInv, RunAble, LedgerAble, LedgerInv
  <1>3. Reading => \A m \in receipt.muts : m.st = "confirmed" \/ m.unit = Unit
    BY <1>1, <1>2 DEF HeldOK, InHand, Working
  <1>4. CASE Write
    <2>1. UNCHANGED receipt /\ Goto("applied")
      BY <1>4 DEF Write, ledger
    <2>2. Recorded' = Recorded \cup {Unit}
      BY <1>2, <2>1 DEF Recorded
    <2>3. IsFiniteSet(storage')
      <3>1. CASE Unit.kind = "upsert"
        <4>1. Unit = Upsert(Unit.path, Unit.digest, Unit.seg)
          BY <1>2, <3>1, UploadIsSegment DEF Deletes
        <4>2. \E x : Unit.points = {x}
          BY <4>1 DEF Upsert
        <4>3. IsFiniteSet(Unit.points)
          BY <4>2, FS_Singleton
        <4> QED BY <1>2, <1>4, <3>1, <4>3, FS_Union DEF Write
      <3>2. CASE Unit.kind # "upsert"
        <4>1. storage' = storage \ Unit.points
          BY <1>4, <3>2 DEF Write
        <4> QED BY <1>2, <4>1, FS_Difference
      <3> QED BY <3>1, <3>2
    <2> QED BY <1>1, <1>2, <1>3, <2>1, <2>2, <2>3, UnitAble
  <1>5. ASSUME NEW st \in {"applied", "confirmed"}, receipt' = Advanced(st), UNCHANGED storage,
               Goto(IF st = "applied" THEN "confirm" ELSE "record")
        PROVE  AbleInv'
    <2>1. /\ receipt'.state = receipt.state /\ Recorded' = Recorded \cup {Unit}
          /\ \A n \in receipt'.muts : \/ n \in receipt.muts /\ n.unit # Unit
                                      \/ n.unit = Unit /\ n.st = st
      BY <1>2, <1>5, AdvancedFacts
    <2> QED BY <1>1, <1>2, <1>3, <1>5, <2>1, UnitAble
  <1>6. CASE UNCHANGED storage /\ receipt' = Advanced("applied") /\ Goto("confirm")
    BY <1>5, <1>6
  <1>7. CASE UNCHANGED storage /\ receipt' = Advanced("confirmed") /\ Goto("record")
    BY <1>5, <1>7
  <1> QED BY <1>1, <1>4, <1>6, <1>7

\* Without a situation the code has no answer to, a new mutation is the receipt's to make.
LEMMA CleanIsPreparable ==
    ASSUME LedgerInv, RunInv, CurrentInv, AbleInv, run.pc = "prepare", Unit \notin Recorded,
           Clean, receipt.state # "rolledback"
    PROVE  Preparable
  <1>1. /\ LedgerType /\ WholeProof /\ LedgerAble /\ OwnerOK /\ PlanOK /\ Recorded \in SUBSET Units
        /\ LedgerOK
    BY RecordedFacts DEF LedgerInv, AbleInv, RunAble
  <1>2. /\ run \in Runs /\ Unit \in Units /\ run.queue # <<>> /\ run.queue \in Seq(Units)
        /\ run.stage \in {"stream", "seal", "forward"}
        /\ run.stage # "forward" => Reading /\ (Closed \/ receipt.state = "reserved")
        /\ run.stage = "forward" => OpenReceipt
        /\ run.stage \in {"seal", "forward"} => Deletes(Unit)
    BY UnitInHand DEF Runs, Stages, Reading, AtUnit
  <1>3. Unit \in ToSet(run.queue) /\ Unit \in Known /\ Recorded \subseteq Known
    BY <1>2 DEF Unit, ToSet, Known
  <1>4. Unit.path \in Paths /\ \A u \in Recorded : u.path \in Paths
    BY <1>1, <1>2, UnitFacts
  <1>5. /\ run.stage = "stream" => \A u \in Known : ~Deletes(u)
        /\ run.stage \in {"seal", "forward"} => ExpectedDeletion(Unit.path) = {Unit}
        /\ run.stage = "forward" => Unit.path \in Changed
    BY <1>1, <1>3 DEF PlanOK, Working, AtUnit
  <1>6. receipt.state = "reserved"
    <2>1. CASE run.stage # "forward"
      BY <1>1, <1>2, <2>1 DEF OwnerOK, Closed
    <2>2. CASE run.stage = "forward"
      <3>1. receipt.state = "sealed" => ExpectedDeletion(Unit.path) \subseteq Recorded
        BY <1>1, <1>5, <2>2, CoversFacts DEF LedgerOK
      <3> QED BY <1>2, <1>5, <2>2, <3>1 DEF OpenReceipt
    <2> QED BY <2>1, <2>2
  <1>7. gen.phase = "ingesting"
    BY <1>1, <1>6 DEF LedgerOK, OpenReceipt
  <1>8. ASSUME Deletes(Unit)
        PROVE  /\ ExpectedDeletion(Unit.path) = {Unit}
               /\ Unit.points \subseteq Published(Unit.path)
               /\ \A x \in Unit.points : x[1] = Unit.path
    <2>1. ExpectedDeletion(Unit.path) = {Unit}
      BY <1>2, <1>3, <1>5, <1>8
    <2>2. Unit.points \subseteq Published(Unit.path)
      BY <1>1, <1>4, <2>1, ExpectedFacts
    <2> QED BY <1>1, <1>4, <2>1, <2>2, PointOfFile
  <1>9. ASSUME NEW u \in Recorded
        PROVE  /\ u.points \cap Unit.points = {}
               /\ <<u.path, u.kind, u.seg>> # <<Unit.path, Unit.kind, Unit.seg>>
    <2>1. CASE run.stage = "stream"
      <3>1. ~Deletes(u) /\ ~Deletes(Unit) /\ u # Unit /\ u \in Units
        BY <1>1, <1>3, <1>5, <2>1
      <3>2. u.digest = run.seen[u.path] /\ Unit.digest = run.seen[Unit.path]
        <4>1. ReadOK /\ Reading
          BY <1>2, <2>1 DEF CurrentInv
        <4> QED BY <1>3, <3>1, <4>1 DEF ReadOK, Working, AtUnit
      <3> QED BY <1>2, <3>1, <3>2, SegmentsApart
    <2>2. CASE run.stage # "stream" /\ Deletes(u)
      <3>1. ExpectedDeletion(u.path) = {u} /\ Deletes(Unit)
        BY <1>1, <1>2, <1>6, <2>2 DEF LedgerAble, OpenReceipt
      <3>2. u.path # Unit.path
        BY <1>8, <3>1
      <3>3. \A x \in u.points : x[1] = u.path
        <4>1. u.points \subseteq Published(u.path)
          BY <1>1, <1>4, <3>1, ExpectedFacts
        <4> QED BY <1>1, <1>4, <4>1, PointOfFile
      <3> QED BY <1>8, <3>1, <3>2, <3>3
    <2>3. CASE run.stage # "stream" /\ ~Deletes(u)
      <3>1. Deletes(Unit)
        BY <1>2, <2>3
      <3>2. u.kind = "upsert" /\ u = Upsert(u.path, u.digest, u.seg)
        BY <1>1, <2>3, UploadIsSegment
      <3>3. <<u.path, u.kind, u.seg>> # <<Unit.path, Unit.kind, Unit.seg>>
        BY <3>1, <3>2 DEF Deletes
      <3>4. CASE u.path = Unit.path
        <4>1. u \in Upserts(Recorded, Unit.path)
          BY <3>2, <3>4 DEF Upserts
        <4>2. Unit.points \cap UnitPoints(Upserts(Recorded, Unit.path)) = {}
          BY <1>1, <1>4, <1>8, <3>1, ExpectedKind
        <4> QED BY <3>3, <4>1, <4>2 DEF UnitPoints
      <3>5. CASE u.path # Unit.path
        <4>1. u.points = {<<u.path, Stream[u.digest][u.seg]>>}
          BY <3>2 DEF Upsert, Point
        <4>2. \A x \in u.points : x[1] = u.path
          BY <4>1
        <4> QED BY <1>8, <3>1, <3>3, <3>5, <4>2
      <3> QED BY <3>4, <3>5
    <2> QED BY <2>1, <2>2, <2>3
  <1> QED BY <1>6, <1>7, <1>8, <1>9 DEF Preparable, Deletes

LEMMA PrepareAble ==
    ASSUME LedgerInv, RunInv, CurrentInv, AbleInv, Prepare PROVE AbleInv'
  <1> DEFINE kinds == IF receipt.state = "rolledback" THEN {"closed"} ELSE {}
  <1>1. /\ \/ Unit \notin Recorded /\ Preparable
              /\ receipt' = Advanced("prepared") /\ Goto("write") /\ Same
           \/ Unit \notin Recorded /\ ~Preparable /\ Raise(kinds) /\ UNCHANGED receipt
           \/ OfUnit("prepared") \in receipt.muts
              /\ Goto("write") /\ Same /\ UNCHANGED receipt
           \/ {OfUnit("applied"), OfUnit("confirmed")} \cap receipt.muts # {}
              /\ receipt' = Advanced("confirmed") /\ Goto("record") /\ Same
        /\ run.pc = "prepare" /\ UNCHANGED <<storage, proof, gen, units, states, marks>>
    BY DEF Prepare
  <1>2. /\ Unit \in Units /\ run.pc \in AtUnit /\ LedgerType /\ LedgerAble /\ OwnerOK
        /\ IsFiniteSet(storage)
    BY <1>1, UnitInHand DEF AtUnit, LedgerInv, AbleInv, RunAble, LedgerAble
  <1>3. Reading => \A m \in receipt.muts : m.st = "confirmed"
    BY <1>1 DEF AbleInv, RunAble, HeldOK, InHand, Working, AtUnit
  <1>4. CASE Unit \notin Recorded /\ Preparable
             /\ receipt' = Advanced("prepared") /\ Goto("write") /\ Same
    <2>1. /\ receipt'.state = receipt.state /\ Recorded' = Recorded \cup {Unit}
          /\ \A n \in receipt'.muts : \/ n \in receipt.muts /\ n.unit # Unit
                                      \/ n.unit = Unit /\ n.st = "prepared"
      BY <1>2, <1>4, AdvancedFacts
    <2>2. gen.phase = "ingesting"
      BY <1>4 DEF Preparable
    <2>3. Reading => \A m \in receipt'.muts : m.st = "confirmed" \/ m.unit = Unit
      BY <1>3, <2>1
    <2>4. UNCHANGED <<proof, gen, units, states, marks, gaps, storage>> /\ Goto("write")
      BY <1>1, <1>4 DEF Same
    <2> QED BY <1>2, <2>1, <2>2, <2>3, <2>4, UnitAble
  <1>5. CASE Unit \notin Recorded /\ ~Preparable /\ Raise(kinds) /\ UNCHANGED receipt
    <2>1. Unwind(FALSE) /\ gaps' = gaps \cup kinds
      BY <1>5 DEF Raise, Met
    <2> HIDE DEF Unwind
    <2>2. ~Clean'
      <3> SUFFICES ASSUME Clean' PROVE FALSE
        OBVIOUS
      <3>1. Clean /\ receipt.state # "rolledback"
        BY <2>1 DEF Clean
      <3> QED BY <1>1, <1>5, <3>1, CleanIsPreparable
    <2>3. RunAble'
      BY <1>2, <1>5, <2>1, <2>2, RaisedAble
    <2>4. LedgerAble'
      BY <1>1, <1>2, <1>5, <2>1, SameLedgerAble
    <2> QED BY <2>3, <2>4 DEF AbleInv
  <1>6. CASE OfUnit("prepared") \in receipt.muts /\ Goto("write") /\ Same /\ UNCHANGED receipt
    <2>1. Unit \in Recorded
      BY <1>6 DEF OfUnit, Recorded
    <2>2. Recorded' = Recorded \cup {Unit}
      BY <1>6, <2>1 DEF Recorded
    <2> QED BY <1>1, <1>2, <1>3, <1>6, <2>1, <2>2, UnitAble DEF Same
  <1>7. CASE {OfUnit("applied"), OfUnit("confirmed")} \cap receipt.muts # {}
             /\ receipt' = Advanced("confirmed") /\ Goto("record") /\ Same
    <2>1. Unit \in Recorded
      BY <1>7 DEF OfUnit, Recorded
    <2>2. /\ receipt'.state = receipt.state /\ Recorded' = Recorded \cup {Unit}
          /\ \A n \in receipt'.muts : \/ n \in receipt.muts /\ n.unit # Unit
                                      \/ n.unit = Unit /\ n.st = "confirmed"
      BY <1>2, <1>7, AdvancedFacts
    <2>3. Reading => \A m \in receipt'.muts : m.st = "confirmed"
      BY <1>3, <2>2
    <2>4. UNCHANGED <<proof, gen, units, states, marks, gaps, storage>> /\ Goto("record")
      BY <1>1, <1>7 DEF Same
    <2> QED BY <1>2, <2>1, <2>2, <2>3, <2>4, UnitAble
  <1> QED BY <1>1, <1>4, <1>5, <1>6, <1>7

LEMMA RecordAble ==
    ASSUME LedgerInv, RunInv, CurrentInv, AbleInv, Record PROVE AbleInv'
  <1> DEFINE tail == Tail(run.queue)
             pc == IF tail = <<>> THEN run.stage ELSE "prepare"
             complete == Unit.kind = "upsert" /\ Unit.seg = Len(Stream[Unit.digest])
  <1>1. /\ run' = [run EXCEPT !.queue = tail, !.pc = pc] /\ run.pc = "record" /\ run.pc \in AtUnit
        /\ UNCHANGED <<storage, proof, receipt, gen, gaps>>
        /\ run.stage = "forward" => UNCHANGED <<units, states, marks>>
        /\ run.stage # "forward" =>
              /\ units' = units \cup {Unit}
              /\ states' = IF complete THEN [states EXCEPT ![Unit.path] = Unit.digest]
                           ELSE IF Unit.kind = "path" THEN [states EXCEPT ![Unit.path] = None]
                           ELSE states
              /\ marks' = IF complete THEN marks \ {Unit.path}
                          ELSE IF Unit.kind = "path" THEN marks \cup {Unit.path} ELSE marks
    BY DEF Record, Same, AtUnit
  <1>2. /\ run \in Runs /\ Unit \in Units /\ run.queue # <<>> /\ run.queue \in Seq(Units)
        /\ run.stage \in {"stream", "seal", "forward"} /\ Unit \in Recorded
        /\ run.stage \in {"seal", "forward"} => Deletes(Unit)
        /\ Reading => run.stage # "forward"
        /\ run.stage # "forward" => Reading
    BY <1>1, UnitInHand DEF Runs, Stages, Reading, RunInv, UnitOK
  <1>3. ToSet(tail) \subseteq ToSet(run.queue) /\ ToSet(run.queue) \subseteq ToSet(tail) \cup {Unit}
    <2>1. \A i \in 1 .. Len(tail) : tail[i] = run.queue[i + 1] /\ i + 1 \in 1 .. Len(run.queue)
      BY <1>2
    <2>2. \A i \in 1 .. Len(run.queue) : i = 1 \/ (i - 1 \in 1 .. Len(tail) /\ tail[i - 1] = run.queue[i])
      BY <1>2
    <2>3. Unit = run.queue[1]
      BY <1>2 DEF Unit
    <2>4. DOMAIN tail = 1 .. Len(tail) /\ DOMAIN run.queue = 1 .. Len(run.queue)
      BY <1>2
    <2> HIDE DEF tail
    <2>5. \A u \in ToSet(tail) : u \in ToSet(run.queue)
      BY <2>1, <2>4 DEF ToSet
    <2>6. \A u \in ToSet(run.queue) : u \in ToSet(tail) \cup {Unit}
      BY <2>2, <2>3, <2>4 DEF ToSet
    <2> QED BY <2>5, <2>6
  <1> HIDE DEF tail
  <1>4. /\ run'.pc = pc /\ run'.queue = tail /\ run'.mode = run.mode /\ run'.stage = run.stage
        /\ run'.attempted = run.attempted /\ run'.todo = run.todo /\ run'.seen = run.seen
        /\ run'.dels = run.dels /\ run'.replay = run.replay /\ run'.existing = run.existing
    BY <1>1, <1>2 DEF Runs
  <1>5. pc \in {"stream", "seal", "forward", "prepare"} /\ (pc = "forward" => tail = <<>>)
    BY <1>2
  <1> HIDE DEF pc, complete
  <1>6. /\ (Reading' <=> Reading) /\ (Clean' <=> Clean) /\ Recorded' = Recorded
        /\ Unit \in ToSet(run.queue) /\ Unit \in Known
    BY <1>1, <1>2, <1>4 DEF Reading, Clean, Recorded, Unit, ToSet, Known
  <1>7. Known' = Known
    <2>1. Known' = Recorded \cup ToSet(tail)
      BY <1>4, <1>6 DEF Known
    <2> QED BY <1>2, <1>3, <2>1 DEF Known
  <1>8. /\ LedgerType /\ WholeProof /\ LedgerAble /\ OwnerOK /\ HeldOK /\ PlanOK /\ SeenOK
        /\ StatesOK /\ IsFiniteSet(storage) /\ Recorded \in SUBSET Units /\ units \subseteq Recorded
    BY RecordedFacts DEF LedgerInv, LedgerOK, AbleInv, LedgerAble, RunAble
  <1>9. OwnerOK' /\ AccountOK'
    BY <1>1, <1>4, <1>5, <1>6, <1>8 DEF OwnerOK, AccountOK, Reading, Working, AtUnit
  <1>10. HeldOK'
    <2>1. Reading => /\ \A m \in receipt.muts : m.st = "confirmed"
                     /\ Recorded \subseteq units \cup {Unit}
      BY <1>1, <1>8 DEF HeldOK, InHand, Working, AtUnit
    <2>2. Reading => Recorded \subseteq units'
      BY <1>1, <1>2, <2>1
    <2> QED BY <1>1, <1>4, <1>5, <1>6, <2>1, <2>2 DEF HeldOK, Working
  <1>11. PlanOK'
    <2>1. /\ Changed' = Changed
          /\ \A p \in Paths : ExpectedDeletion(p)' = ExpectedDeletion(p)
      BY <1>1, <1>6, RecordViews
    <2>2. /\ \A u \in ToSet(run.queue) : u.path \in Paths
          /\ run.attempted \subseteq Paths /\ Changed \subseteq Paths
      <3>1. \A u \in ToSet(run.queue) : u \in Units
        BY <1>2 DEF ToSet
      <3> QED BY <1>2, <1>8, <3>1, UnitFacts, TouchedFacts DEF Runs
    <2>3. Clean => /\ run.stage = "stream" => \A u \in Known : ~Deletes(u)
                   /\ run.stage \in {"seal", "forward"} =>
                          \A u \in ToSet(run.queue) : ExpectedDeletion(u.path) = {u}
                   /\ run.stage = "seal" => \A p \in run.attempted : ExpectedDeletion(p) \subseteq Known
                   /\ run.stage = "forward" =>
                          /\ \A p \in Changed : ExpectedDeletion(p) \subseteq Known
                          /\ \A u \in ToSet(run.queue) : u.path \in Changed
      BY <1>1, <1>8 DEF PlanOK, Working
    <2>4. ToSet(run'.queue) \subseteq ToSet(run.queue)
      BY <1>3, <1>4
    <2> QED BY <1>4, <1>6, <1>7, <2>1, <2>2, <2>3, <2>4 DEF PlanOK, Deletes
  <1>12. SeenOK'
    <2>1. \A p : Due(p)' = Due(p) /\ Published(p)' = Published(p)
      BY <1>1, <1>4 DEF Due, Published
    <2> QED BY <1>1, <1>4, <1>6, <1>8, <2>1 DEF SeenOK, Working
  <1>13. StatesOK'
    <2> SUFFICES ASSUME Clean, Reading PROVE StatesOK'
      BY <1>6 DEF StatesOK
    <2> DEFINE q == Unit.path
    <2>1. /\ units' = units \cup {Unit}
          /\ states' = IF complete THEN [states EXCEPT ![q] = Unit.digest]
                       ELSE IF Unit.kind = "path" THEN [states EXCEPT ![q] = None] ELSE states
          /\ marks' = IF complete THEN marks \ {q}
                      ELSE IF Unit.kind = "path" THEN marks \cup {q} ELSE marks
      BY <1>1, <1>2
    <2>2. /\ q \in run.attempted \ run.todo /\ q \in Paths
          /\ ~Deletes(Unit) => Unit.digest = run.seen[q]
      BY <1>1, <1>2, <1>6, UnitFacts DEF CurrentInv, ReadOK, Working
    <2>3. ~Deletes(Unit) => /\ run.seen[q] \in Contents /\ Due(q) # None
                            /\ Unit = Upsert(q, run.seen[q], Unit.seg)
      BY <1>2, <2>2, UploadFacts, UploadIsSegment DEF Due
    <2>4. Deletes(Unit) => ExpectedDeletion(q) = {Unit} /\ proof[q] # None
      <3>1. Deletes(Unit) => ExpectedDeletion(q) = {Unit}
        BY <1>1, <1>2, <1>6, <1>8 DEF PlanOK, Working
      <3> QED BY <1>8, <2>2, <3>1, ExpectedKind
    <2>5. complete => ~Deletes(Unit) /\ Unit.seg = Len(Stream[Unit.digest])
      BY DEF complete, Deletes
    <2>6. /\ \A p \in run.dels : run.seen[p] = None
          /\ \A p \in run.attempted \ (run.todo \cup run.dels) : Due(p) = None => proof[p] = None
          /\ run.attempted \subseteq Paths /\ run.replay \subseteq Paths /\ run.dels \subseteq Paths
      BY <1>1, <1>2, <1>8 DEF SeenOK, Working, Runs
    <2>7. /\ \A p \in run.replay \ run.attempted : states[p] = None
          /\ \A p \in run.dels : Deleted(p) => states[p] = None /\ p \in marks
          /\ \A p \in run.attempted \ (run.todo \cup run.dels) :
                /\ Due(p) = None => states[p] \in {None, "rejected"} /\ p \notin marks
                /\ Due(p) # None /\ LastUnit(p) \in units =>
                      states[p] = run.seen[p] /\ p \notin marks
      BY <1>1, <1>8 DEF StatesOK, Working
    <2>8. \A p : Due(p)' = Due(p) /\ LastUnit(p)' = LastUnit(p)
      BY <1>4 DEF Due, LastUnit
    <2>9. \A p \in Paths : Deleted(p)' <=> Deleted(p) \/ (Unit.kind = "path" /\ q = p)
      BY <2>1 DEF Deleted
    <2>10. states \in [Paths -> Contents \cup {None, "failed", "rejected"}]
      BY <1>8 DEF LedgerType
    <2>11. \A p \in Paths \ {q} : states'[p] = states[p] /\ (p \in marks' <=> p \in marks)
      BY <2>1, <2>10
    <2>12. /\ complete => states'[q] = Unit.digest /\ q \notin marks'
           /\ ~complete /\ Unit.kind = "path" => states'[q] = None /\ q \in marks'
           /\ ~complete /\ Unit.kind # "path" => states'[q] = states[q] /\ (q \in marks' <=> q \in marks)
      BY <2>1, <2>2, <2>10
    <2> HIDE DEF q
    <2>13. \A p \in run.replay \ run.attempted : states'[p] = None
      BY <2>2, <2>6, <2>7, <2>11
    <2>14. ASSUME NEW p \in run.dels, Deleted(p)' PROVE states'[p] = None /\ p \in marks'
      <3>1. CASE p # q
        BY <2>6, <2>7, <2>9, <2>11, <2>14, <3>1
      <3>2. CASE p = q
        <4>1. ~complete
          BY <2>3, <2>5, <2>6, <3>2, PublicationAssumption
        <4> QED BY <2>6, <2>7, <2>9, <2>12, <2>14, <3>2, <4>1
      <3> QED BY <3>1, <3>2
    <2>15. ASSUME NEW p \in run.attempted \ (run.todo \cup run.dels), Due(p) = None
           PROVE  states'[p] \in {None, "rejected"} /\ p \notin marks'
      <3>1. p # q
        BY <2>3, <2>4, <2>6, <2>15
      <3> QED BY <2>6, <2>7, <2>11, <2>15, <3>1
    <2>16. ASSUME NEW p \in run.attempted \ (run.todo \cup run.dels), Due(p) # None,
                  LastUnit(p) \in units'
           PROVE  states'[p] = run.seen[p] /\ p \notin marks'
      <3>1. LastUnit(p).path = p /\ LastUnit(p).kind = "upsert"
            /\ LastUnit(p).seg = Len(Stream[run.seen[p]])
        BY DEF LastUnit, Upsert
      <3>2. LastUnit(p) \in units \/ LastUnit(p) = Unit
        BY <2>1, <2>16
      <3>3. CASE p # q
        <4>1. LastUnit(p) \in units
          BY <3>1, <3>2, <3>3 DEF q
        <4> QED BY <2>6, <2>7, <2>11, <2>16, <3>3, <4>1
      <3>4. CASE p = q /\ complete
        BY <2>2, <2>5, <2>12, <3>4
      <3>5. CASE p = q /\ ~complete
        <4>1. LastUnit(p) \in units
          <5>1. LastUnit(p) # Unit
            BY <2>2, <3>1, <3>5 DEF complete, Deletes
          <5> QED BY <3>2, <5>1
        <4>2. Unit.kind # "path"
          <5> SUFFICES ASSUME Unit.kind = "path" PROVE FALSE
            OBVIOUS
          <5>1. NewEvidence(p) = None
            BY <1>8, <2>2, <2>4, <3>5, ExpectedKind DEF Deletes
          <5>2. LastUnit(p) \in Upserts(Recorded, p)
            BY <1>8, <3>1, <4>1 DEF Upserts
          <5> QED BY <1>8, <2>2, <3>5, <5>1, <5>2, EvidenceFacts
        <4> QED BY <2>7, <2>12, <2>16, <3>5, <4>1, <4>2
      <3> QED BY <3>3, <3>4, <3>5
    <2>17. run'.pc # "check"
      BY <1>4, <1>5
    <2> QED BY <1>4, <2>8, <2>13, <2>14, <2>15, <2>16, <2>17 DEF StatesOK
  <1>14. LedgerAble'
    BY <1>1, <1>8, SameLedgerAble
  <1> QED BY <1>9, <1>10, <1>11, <1>12, <1>13, <1>14 DEF AbleInv, RunAble

----------------------------------------------------------------------------
(* The seal.                                                                 *)

\* All that the run read is recorded, and the generation's account of it is right.
LEMMA SealAccount ==
    ASSUME LedgerInv, RunInv, CurrentInv, AbleInv, run.pc = "seal", Clean
    PROVE  /\ units = Recorded /\ Touched \subseteq run.attempted /\ run.attempted \subseteq Paths
           /\ Recorded # {} => receipt.state = "reserved"
           /\ \A m \in receipt.muts : m.st = "confirmed"
           /\ \A u \in Recorded : Deletes(u) => ExpectedDeletion(u.path) = {u}
           /\ \A p \in run.attempted : ExpectedDeletion(p) \subseteq Recorded /\ Consistent(p)
           /\ \A p \in run.replay \ run.attempted :
                  states[p] = None /\ Upserts(units, p) = {} /\ ~Deleted(p)
           /\ \A p \in Paths : CompleteStream(p)
  <1>1. /\ LedgerType /\ WholeProof /\ LedgerAble /\ HeldOK /\ PlanOK /\ SeenOK
        /\ StatesOK /\ Recorded \in SUBSET Units /\ units \subseteq Recorded
    BY RecordedFacts DEF LedgerInv, LedgerOK, AbleInv, RunAble
  <1>2. /\ run \in Runs /\ Reading /\ run.stage = "seal" /\ run.pc \in Working
        /\ (Closed \/ receipt.state = "reserved")
    BY AtSeal DEF Reading, Working
  <1>3. run.todo = {} /\ \A u \in Known : u.path \in run.attempted
    BY <1>2 DEF CurrentInv, ReadOK
  <1>4. ASSUME NEW p \in Paths
        PROVE  /\ Upserts(Recorded, p) # {} =>
                     /\ p \in run.attempted /\ Due(p) # None /\ run.seen[p] \in Contents
                     /\ Upserts(Recorded, p) = ToSet(Segments(p, run.seen[p]))
                     /\ NewEvidence(p) # None
               /\ Upserts(Recorded, p) = {} =>
                     /\ NewEvidence(p) = None
                     /\ p \in run.attempted => Due(p) = None
               /\ CompleteStream(p)
    BY <1>2, <1>3, ReadEvidence
  <1>5. Known = Recorded
    <2>1. run.queue = <<>>
      BY <1>2 DEF CurrentInv, ReadOK
    <2> QED BY <2>1 DEF Known, ToSet
  <1>6. units = Recorded /\ \A m \in receipt.muts : m.st = "confirmed"
    BY <1>1, <1>2 DEF HeldOK, InHand
  <1>7. Touched \subseteq run.attempted /\ run.attempted \subseteq Paths
    BY <1>2, <1>3, <1>5 DEF Touched, Runs
  <1>8. Recorded # {} => receipt.state = "reserved"
    BY <1>2 DEF LedgerInv, LedgerOK, Recorded
  <1>9. \A u \in Recorded : Deletes(u) => ExpectedDeletion(u.path) = {u}
    BY <1>1, <1>8 DEF LedgerAble, OpenReceipt
  <1>10. \A p \in run.attempted : ExpectedDeletion(p) \subseteq Recorded
    BY <1>1, <1>2, <1>5 DEF PlanOK
  <1>11. ASSUME NEW p \in Paths, Deleted(p)
         PROVE  proof[p] # None /\ Upserts(Recorded, p) = {} /\ p \in run.attempted
    <2>1. PICK u \in Recorded : u.kind = "path" /\ u.path = p
      BY <1>6, <1>11 DEF Deleted
    <2>2. ExpectedDeletion(p) = {u}
      BY <1>9, <2>1 DEF Deletes
    <2>3. p \in run.attempted
      BY <1>3, <1>5, <2>1
    <2> QED BY <1>1, <1>4, <2>1, <2>2, <2>3, ExpectedKind
  <1>12. ASSUME NEW p \in run.attempted PROVE Consistent(p)
    <2>1. p \in Paths /\ Upserts(units, p) = Upserts(Recorded, p)
      BY <1>6, <1>7
    <2>2. /\ p \in run.dels => run.seen[p] = None /\ proof[p] # None
          /\ p \notin run.dels /\ Due(p) = None => proof[p] = None
      BY <1>1, <1>2, <1>3, <1>12 DEF SeenOK
    <2>3. /\ p \in run.dels /\ Deleted(p) => states[p] = None /\ p \in marks
          /\ p \notin run.dels /\ Due(p) = None => states[p] \in {None, "rejected"} /\ p \notin marks
          /\ p \notin run.dels /\ Due(p) # None /\ LastUnit(p) \in units =>
                 states[p] = run.seen[p] /\ p \notin marks
      BY <1>1, <1>2, <1>3, <1>12 DEF StatesOK
    <2>4. CASE Upserts(Recorded, p) # {}
      <3>1. /\ Due(p) # None /\ run.seen[p] \in Contents
            /\ Upserts(Recorded, p) = ToSet(Segments(p, run.seen[p]))
        BY <1>4, <2>1, <2>4
      <3>2. p \notin run.dels /\ ~Deleted(p)
        BY <1>11, <2>1, <2>2, <2>4, <3>1, PublicationAssumption
      <3>3. LastUnit(p) \in units
        <4>1. Stream[run.seen[p]] \in Seq(Nat)
          BY <3>1, PublicationAssumption
        <4>2. DOMAIN Segments(p, run.seen[p]) = 1 .. Len(Stream[run.seen[p]])
          BY DEF Segments
        <4>3. Len(Stream[run.seen[p]]) \in 1 .. Len(Stream[run.seen[p]])
          <5>1. DOMAIN Segments(p, run.seen[p]) # {}
            BY <2>4, <3>1 DEF ToSet
          <5> QED BY <4>1, <4>2, <5>1
        <4>4. Segments(p, run.seen[p])[Len(Stream[run.seen[p]])] = LastUnit(p)
          BY <4>3 DEF Segments, LastUnit
        <4>5. LastUnit(p) \in ToSet(Segments(p, run.seen[p]))
          BY <4>2, <4>3, <4>4 DEF ToSet
        <4> QED BY <1>6, <3>1, <4>5 DEF Upserts
      <3>4. states[p] = run.seen[p] /\ p \notin marks
        BY <2>3, <3>1, <3>2, <3>3
      <3> QED BY <2>1, <3>1, <3>2, <3>4, OutcomeAssumption DEF Consistent
    <2>5. CASE Upserts(Recorded, p) = {} /\ p \in run.dels
      <3>1. NewEvidence(p) = None /\ proof[p] # None
        BY <1>4, <2>1, <2>2, <2>5
      <3>2. Deletion(p, "path", Published(p)) \in units
        BY <1>6, <1>10, <1>12, <3>1 DEF ExpectedDeletion
      <3>3. Deleted(p)
        BY <3>2 DEF Deleted, Deletion
      <3> QED BY <2>1, <2>3, <2>5, <3>3, OutcomeAssumption DEF Consistent
    <2>6. CASE Upserts(Recorded, p) = {} /\ p \notin run.dels
      <3>1. Due(p) = None
        BY <1>4, <1>12, <2>1, <2>6
      <3>2. ~Deleted(p)
        BY <1>11, <2>1, <2>2, <2>6, <3>1
      <3>3. states[p] # "failed" /\ p \notin marks
        BY <2>3, <2>6, <3>1, OutcomeAssumption
      <3> QED BY <2>1, <2>6, <3>2, <3>3 DEF Consistent
    <2> QED BY <2>4, <2>5, <2>6
  <1>13. ASSUME NEW p \in run.replay \ run.attempted
         PROVE  states[p] = None /\ Upserts(units, p) = {} /\ ~Deleted(p)
    <2>1. p \in Paths
      BY <1>2 DEF Runs
    <2>2. states[p] = None
      BY <1>1, <1>2, <1>13 DEF StatesOK
    <2> QED BY <1>4, <1>6, <1>11, <1>13, <2>1, <2>2
  <1> QED BY <1>4, <1>6, <1>7, <1>8, <1>9, <1>10, <1>12, <1>13

LEMMA SealIndexAble ==
    ASSUME LedgerInv, RunInv, CurrentInv, AbleInv, SealIndex PROVE AbleInv'
  <1>1. /\ \/ receipt.state = "rolledback" /\ Goto("advance") /\ Same /\ UNCHANGED receipt
           \/ /\ receipt.muts = {} /\ receipt' = [receipt EXCEPT !.state = "rolledback"]
              /\ Goto("advance") /\ Same
           \/ /\ receipt.muts # {} /\ receipt' = [receipt EXCEPT !.state = "sealed"]
              /\ Goto("reconcile") /\ Same
           \/ /\ receipt.muts # {} /\ ~(Changed # {} /\ Covers(Recorded))
              /\ Raise(Reverted) /\ UNCHANGED receipt
        /\ run.pc = "seal" /\ run.mode = "index"
        /\ UNCHANGED <<storage, proof, gen, units, states, marks>>
    BY DEF SealIndex
  <1>2. /\ LedgerType /\ WholeProof /\ run \in Runs /\ LedgerAble /\ OwnerOK /\ IsFiniteSet(storage)
        /\ Recorded \subseteq units /\ run.replay = {} /\ receipt.state # "none"
        /\ receipt.muts # {} => OpenReceipt
    <2>1. Recorded \subseteq units
      BY <1>1 DEF AbleInv, RunAble, HeldOK, InHand, Reading, Working
    <2>2. receipt.muts # {} => OpenReceipt
      BY <1>1, AtSeal DEF LedgerInv, LedgerOK, OpenReceipt
    <2> QED BY <1>1, <2>1, <2>2 DEF LedgerInv, RunInv, AbleInv, LedgerAble, RunAble, OwnerOK, Reading
  <1>3. \A p \in Paths : Consistent(p)' <=> Consistent(p)
    BY <1>1 DEF Consistent, Upserts, Deleted
  <1>4. ASSUME NEW pc \in {"advance", "reconcile"}, Goto(pc), Same,
               NEW state \in {"rolledback", "sealed"}, receipt'.state = state,
               receipt'.muts = receipt.muts, receipt.muts = {} \/ state = "sealed"
        PROVE  AbleInv'
    <2>1. Recorded' = Recorded /\ Touched' = Touched
      BY <1>4 DEF Recorded, Touched
    <2>2. Clean' => \A p \in run.attempted \cup run.replay \cup Touched' : Consistent(p)'
      <3> SUFFICES ASSUME Clean
                   PROVE  \A p \in run.attempted \cup run.replay \cup Touched' : Consistent(p)'
        BY <1>4 DEF Clean, Same
      <3> QED BY <1>1, <1>2, <1>3, <2>1, SealAccount
    <2>3. RunAble'
      BY <1>1, <1>2, <1>4, <2>1, <2>2, CountedAble DEF Same
    <2>4. LedgerAble'
      <3>1. CASE receipt.muts = {}
        BY <1>1, <1>2, <1>4, <3>1, EmptyAble
      <3>2. CASE receipt.muts # {}
        BY <1>1, <1>2, <1>4, <2>1, <3>2, LedgerStaysAble DEF Same
      <3> QED BY <3>1, <3>2
    <2> QED BY <2>3, <2>4 DEF AbleInv
  <1>5. receipt.state = "rolledback" => receipt.muts = {}
    BY DEF LedgerInv, LedgerOK, Closed
  <1>6. CASE Raise(Reverted) /\ UNCHANGED receipt /\ receipt.muts # {}
             /\ ~(Changed # {} /\ Covers(Recorded))
    <2>1. Unwind(FALSE) /\ gaps' = gaps \cup Reverted
      BY <1>6 DEF Raise, Met
    <2> HIDE DEF Unwind
    <2>2. ~Clean'
      <3> SUFFICES ASSUME Clean' PROVE FALSE
        OBVIOUS
      <3>1. Clean /\ Touched = Changed
        BY <2>1 DEF Clean, Reverted
      <3>2. /\ Changed # {} /\ Changed \subseteq run.attempted /\ run.attempted \subseteq Paths
            /\ \A u \in Recorded : u.path \in Changed
        <4>1. Touched \subseteq run.attempted /\ run.attempted \subseteq Paths
          BY <1>1, <3>1, SealAccount
        <4>2. \A u \in Recorded : u.path \in Touched
          BY DEF Touched
        <4>3. Recorded # {}
          BY <1>6 DEF Recorded
        <4> QED BY <3>1, <4>1, <4>2, <4>3
      <3>3. Covers(Recorded)
        <4>1. \A p \in Changed : Upserts(Recorded, p) \subseteq Recorded
          BY DEF Upserts
        <4>2. \A p \in Changed : CompleteStream(p) /\ ExpectedDeletion(p) \subseteq Recorded
          BY <1>1, <3>1, <3>2, SealAccount
        <4>3. \A u \in Recorded : Deletes(u) => ExpectedDeletion(u.path) = {u}
          BY <1>1, <3>1, SealAccount
        <4> QED BY <1>2, <3>2, <4>1, <4>2, <4>3, MakesCovers
      <3> QED BY <1>6, <3>2, <3>3
    <2>3. RunAble'
      BY <1>2, <1>6, <2>1, <2>2, RaisedAble
    <2>4. LedgerAble'
      BY <1>1, <1>2, <1>6, <2>1, SameLedgerAble
    <2> QED BY <2>3, <2>4 DEF AbleInv
  <1>7. CASE receipt.state = "rolledback" /\ Goto("advance") /\ Same /\ UNCHANGED receipt
    BY <1>4, <1>5, <1>7
  <1>8. CASE /\ receipt.muts = {} /\ receipt' = [receipt EXCEPT !.state = "rolledback"]
             /\ Goto("advance") /\ Same
    <2>1. receipt'.state = "rolledback" /\ receipt'.muts = receipt.muts
      BY <1>2, <1>8 DEF LedgerType
    <2> QED BY <1>4, <1>8, <2>1
  <1>9. CASE /\ receipt.muts # {} /\ receipt' = [receipt EXCEPT !.state = "sealed"]
             /\ Goto("reconcile") /\ Same
    <2>1. receipt'.state = "sealed" /\ receipt'.muts = receipt.muts
      BY <1>2, <1>9 DEF LedgerType
    <2> QED BY <1>4, <1>9, <2>1
  <1> QED BY <1>1, <1>6, <1>7, <1>8, <1>9

LEMMA SealReplayAble ==
    ASSUME LedgerInv, RunInv, CurrentInv, AbleInv, SealReplay PROVE AbleInv'
  <1> DEFINE restored == Touched \ Changed
             kept == {u \in Recorded : u.path \in Changed}
             whole == ParentsResolved /\ (\A p \in restored : CompleteStream(p)) /\ Covers(kept)
  <1>1. /\ \/ /\ receipt' = [state |-> IF Changed = {} THEN "rolledback" ELSE "sealed",
                             muts |-> {m \in receipt.muts : m.unit \in kept}]
              /\ units' = {u \in units : u.path \notin restored}
              /\ states' = [p \in Paths |-> IF p \in restored THEN None ELSE states[p]]
              /\ marks' = {p \in marks : Deleted(p)} \ restored
              /\ Goto(IF Changed = {} THEN "advance" ELSE "reconcile") /\ Same
           \/ ~whole /\ Raise({}) /\ UNCHANGED <<receipt, units, states, marks>>
        /\ run.pc = "seal" /\ run.mode = "replay" /\ UNCHANGED <<storage, proof, gen>>
    BY DEF SealReplay
  <1>2. /\ LedgerType /\ WholeProof /\ run \in Runs /\ LedgerAble /\ OwnerOK /\ SeenOK
        /\ IsFiniteSet(storage) /\ Recorded \subseteq units /\ receipt.state # "none"
        /\ receipt.muts # {} => OpenReceipt
    <2>1. Recorded \subseteq units
      BY <1>1 DEF AbleInv, RunAble, HeldOK, InHand, Reading, Working
    <2>2. receipt.muts # {} => OpenReceipt
      BY <1>1, AtSeal DEF LedgerInv, LedgerOK, OpenReceipt
    <2> QED BY <1>1, <2>1, <2>2 DEF LedgerInv, RunInv, AbleInv, LedgerAble, RunAble, OwnerOK, Reading
  <1>3. Touched \subseteq Paths /\ Changed \subseteq Touched /\ kept \subseteq Recorded
    BY <1>2, TouchedFacts
  <1>4. CASE ~whole /\ Raise({}) /\ UNCHANGED <<receipt, units, states, marks>>
    <2>1. Unwind(FALSE) /\ UNCHANGED gaps
      BY <1>4 DEF Raise, Met
    <2> HIDE DEF Unwind
    <2>2. ~Clean'
      <3> SUFFICES ASSUME Clean PROVE whole
        BY <1>4, <2>1 DEF Clean
      <3>1. /\ units = Recorded /\ Touched \subseteq run.attempted /\ run.attempted \subseteq Paths
            /\ \A m \in receipt.muts : m.st = "confirmed"
            /\ \A u \in Recorded : Deletes(u) => ExpectedDeletion(u.path) = {u}
            /\ \A p \in run.attempted : ExpectedDeletion(p) \subseteq Recorded
            /\ \A p \in Paths : CompleteStream(p)
        BY <1>1, SealAccount
      <3>2. Covers(kept)
        <4>1. ASSUME NEW p \in Changed
              PROVE  /\ CompleteStream(p) /\ ExpectedDeletion(p) \subseteq kept
                     /\ Upserts(Recorded, p) \subseteq kept
          <5>1. p \in Paths /\ p \in run.attempted
            BY <1>3, <3>1
          <5>2. \A d \in ExpectedDeletion(p) : d.path = p
            BY <1>2, <5>1, ExpectedFacts
          <5>3. Upserts(Recorded, p) \subseteq kept
            BY DEF Upserts
          <5> QED BY <3>1, <5>1, <5>2, <5>3
        <4>2. \A u \in kept : u.path \in Changed /\ (Deletes(u) => ExpectedDeletion(u.path) = {u})
          BY <3>1
        <4> HIDE DEF kept
        <4> QED BY <1>2, <1>3, <4>1, <4>2, MakesCovers
      <3>3. ASSUME NEW p \in run.replay, proof[p] # None PROVE Resolved(p)
        <4>1. p \in run.attempted /\ p \in Paths
          BY <1>1, <1>2, <3>1, <3>3 DEF SeenOK, Reading, Working
        <4>2. CASE NewEvidence(p) # None
          <5>1. PICK u \in Upserts(Recorded, p) : TRUE
            BY <1>2, <4>1, <4>2, EvidenceFacts
          <5>2. {m \in receipt.muts : m.unit.path = p} # {}
            BY <5>1 DEF Upserts, Recorded
          <5> QED BY <3>1, <4>1, <4>2, <5>2 DEF Resolved
        <4>3. CASE NewEvidence(p) = None
          <5> DEFINE d == Deletion(p, "path", Published(p))
          <5>1. ExpectedDeletion(p) = {d}
            BY <3>3, <4>3 DEF ExpectedDeletion
          <5>2. d.kind = "path" /\ d.path = p
            BY DEF Deletion
          <5> HIDE DEF d
          <5>3. d \in Recorded
            BY <3>1, <4>1, <5>1
          <5>4. {m \in receipt.muts : m.unit.path = p} # {}
            BY <5>2, <5>3 DEF Recorded
          <5>5. {u \in Recorded : u.path = p /\ u.kind = "path"} = {d}
            <6>1. ASSUME NEW u \in Recorded, u.path = p, u.kind = "path" PROVE u = d
              BY <3>1, <5>1, <6>1 DEF Deletes
            <6> QED BY <5>2, <5>3, <6>1
          <5> QED BY <3>1, <4>3, <5>4, <5>5 DEF Resolved, d
        <4> QED BY <4>2, <4>3
      <3>4. ParentsResolved
        BY <3>3 DEF ParentsResolved
      <3>5. \A p \in restored : CompleteStream(p)
        BY <1>3, <3>1
      <3> QED BY <3>2, <3>4, <3>5
    <2>3. RunAble'
      BY <1>2, <1>4, <2>1, <2>2, RaisedAble
    <2>4. LedgerAble'
      BY <1>1, <1>2, <1>4, <2>1, SameLedgerAble
    <2> QED BY <2>3, <2>4 DEF AbleInv
  <1> HIDE DEF whole
  <1>5. CASE /\ receipt' = [state |-> IF Changed = {} THEN "rolledback" ELSE "sealed",
                            muts |-> {m \in receipt.muts : m.unit \in kept}]
             /\ units' = {u \in units : u.path \notin restored}
             /\ states' = [p \in Paths |-> IF p \in restored THEN None ELSE states[p]]
             /\ marks' = {p \in marks : Deleted(p)} \ restored
             /\ Goto(IF Changed = {} THEN "advance" ELSE "reconcile") /\ Same
    <2>1. /\ receipt'.state \in {"rolledback", "sealed"}
          /\ receipt'.muts = {m \in receipt.muts : m.unit \in kept}
          /\ UNCHANGED <<storage, proof, gen, gaps>>
      BY <1>1, <1>5 DEF Same
    <2>2. Recorded' = kept
      <3>1. Recorded' = {m.unit : m \in receipt'.muts}
        BY DEF Recorded
      <3> QED BY <2>1, <3>1 DEF Recorded
    <2>3. Touched' = Changed
      BY <2>2 DEF Touched, Changed
    <2>4. Recorded' \subseteq units'
      BY <1>2, <1>5, <2>2
    <2>5. ASSUME NEW p \in Paths
          PROVE  /\ p \in restored => Upserts(units', p) = {} /\ ~Deleted(p)'
                 /\ p \notin restored => /\ Upserts(units', p) = Upserts(units, p)
                                         /\ Deleted(p)' <=> Deleted(p)
      BY <1>5 DEF Upserts, Deleted
    <2>6. Clean' => \A p \in run.attempted \cup run.replay \cup Touched' : Consistent(p)'
      <3> SUFFICES ASSUME Clean, NEW p \in run.attempted \cup run.replay \cup Touched'
                   PROVE  Consistent(p)'
        BY <2>1 DEF Clean
      <3>1. p \in run.attempted \cup run.replay /\ p \in Paths
        BY <1>1, <1>2, <1>3, <2>3, SealAccount DEF Runs
      <3>2. CASE p \in restored
        <4>1. states'[p] = None /\ p \notin marks'
          BY <1>5, <3>1, <3>2
        <4>2. Upserts(units, p)' = {} /\ ~Deleted(p)'
          BY <2>5, <3>1, <3>2
        <4> HIDE DEF restored
        <4> QED BY <4>1, <4>2, OutcomeAssumption DEF Consistent
      <3>3. CASE p \notin restored
        <4>1. /\ states'[p] = states[p] /\ (p \in marks' <=> p \in marks /\ Deleted(p))
              /\ Upserts(units, p)' = Upserts(units, p) /\ (Deleted(p)' <=> Deleted(p))
          BY <1>5, <2>5, <3>1, <3>3
        <4>2. CASE p \in run.attempted
          <5>1. Consistent(p)
            BY <1>1, <4>2, SealAccount
          <5> QED BY <4>1, <5>1 DEF Consistent
        <4>3. CASE p \notin run.attempted
          <5>1. states[p] = None /\ Upserts(units, p) = {} /\ ~Deleted(p)
            BY <1>1, <3>1, <4>3, SealAccount
          <5> QED BY <4>1, <5>1, OutcomeAssumption DEF Consistent
        <4> QED BY <4>2, <4>3
      <3> QED BY <3>2, <3>3
    <2>7. RunAble'
      <3>1. gaps \subseteq gaps' /\ receipt'.state # "none"
            /\ run.pc \notin {"check", "open", "reset", "reopen"}
        BY <1>1, <2>1
      <3>2. CASE Goto("advance")
        BY <1>2, <2>4, <2>6, <3>1, <3>2, CountedAble
      <3>3. CASE Goto("reconcile")
        BY <1>2, <2>4, <2>6, <3>1, <3>3, CountedAble
      <3> QED BY <1>5, <3>2, <3>3
    <2>8. LedgerAble'
      <3>1. ASSUME Clean, NEW u \in Recorded', Deletes(u)
            PROVE  ExpectedDeletion(u.path)' = {u}
        <4> DEFINE p == u.path
        <4>1. u \in Recorded /\ p \in Changed
          BY <2>2, <3>1
        <4>2. ExpectedDeletion(p) = {u}
          BY <1>1, <3>1, <4>1, SealAccount
        <4> HIDE DEF p
        <4>3. Upserts(Recorded', p) = Upserts(Recorded, p) /\ Published(p)' = Published(p)
          BY <2>1, <2>2, <4>1 DEF Upserts, Published
        <4>4. NewEvidence(p)' = NewEvidence(p)
          BY <4>3 DEF NewEvidence
        <4>5. ExpectedDeletion(p)' = ExpectedDeletion(p)
          BY <2>1, <4>3, <4>4 DEF ExpectedDeletion
        <4> QED BY <4>2, <4>5 DEF p
      <3> QED BY <1>2, <2>1, <2>4, <3>1 DEF LedgerAble, Clean, Deletes
    <2> QED BY <2>7, <2>8 DEF AbleInv
  <1> QED BY <1>1, <1>4, <1>5

----------------------------------------------------------------------------
(* Recovery unaided.                                                         *)

LEMMA AbleInit == PublicationInit => AbleInv
  <1> SUFFICES ASSUME PublicationInit PROVE AbleInv
    OBVIOUS
  <1>1. LedgerType /\ WholeProof
    BY PublicationInvInit DEF PublicationInv, LedgerInv
  <1>2. /\ run = Idle("none") /\ storage = Retained /\ gaps = {}
        /\ receipt = [state |-> "none", muts |-> {}]
        /\ gen = [state |-> "none", phase |-> "ingesting", failures |-> 0]
    BY DEF PublicationInit, NoReceipt, NoGen
  <1>3. run.pc = "idle" /\ run.mode = "none" /\ run.replay = {}
    BY <1>2, IdleFacts DEF Modes, Runs
  <1>4. Recorded = {} /\ receipt.state = "none" /\ gen.state = "none" /\ IsFiniteSet(storage)
    BY <1>1, <1>2, RetainedIsFinite DEF Recorded
  <1>5. LedgerAble
    BY <1>4 DEF LedgerAble
  <1>6. RunAble
    BY <1>3 DEF RunAble, OwnerOK, HeldOK, PlanOK, SeenOK, StatesOK, AccountOK, Reading,
                Working, AtUnit
  <1> QED BY <1>5, <1>6 DEF AbleInv

LEMMA AbleKept ==
    PublicationInv /\ CurrentInv /\ AbleInv /\ [PublicationNext]_publicationVars => AbleInv'
  <1> SUFFICES ASSUME PublicationInv, CurrentInv, AbleInv, [PublicationNext]_publicationVars
               PROVE  AbleInv'
    OBVIOUS
  <1>1. SourceType /\ LedgerInv /\ RunInv
    BY DEF PublicationInv
  <1>2. CASE Start
    BY <1>1, <1>2, BeginAble
  <1>3. CASE RunStep
    <2>1. CASE SettleNothing \/ SettleCommitted \/ SettleEmpty
      BY <1>1, <2>1, BeginAble
    <2>2. CASE RefuseRecovery
      BY <1>1, <2>2, RefuseRecoveryAble
    <2>3. CASE SettleForward
      BY <1>1, <2>3, SettleForwardAble
    <2>4. CASE SealForward
      BY <1>1, <2>4, SealForwardAble
    <2>5. CASE RecordOutcomes
      BY <1>1, <2>5, RecordOutcomesAble
    <2>6. CASE SettleReplay \/ ResetStorage \/ Reopen
      BY <1>1, <2>6, ReplayAble
    <2>7. CASE Scan
      BY <1>1, <2>7, ScanAble
    <2>8. CASE RefuseIndexing
      BY <1>1, <2>8, RefuseIndexingAble
    <2>9. CASE OpenFresh \/ OpenResumed
      BY <1>1, <2>9, OpenAble
    <2>10. CASE \E p \in Paths : ReadSource(p)
      BY <1>1, <2>10, ReadSourceAble
    <2>11. CASE DeleteObsolete
      BY <1>1, <2>11, DeleteObsoleteAble
    <2>12. CASE Prepare
      BY <1>1, <2>12, PrepareAble
    <2>13. CASE Write \/ MarkApplied \/ Confirm
      BY <1>1, <2>13, MarkAble
    <2>14. CASE Record
      BY <1>1, <2>14, RecordAble
    <2>15. CASE SealIndex
      BY <1>1, <2>15, SealIndexAble
    <2>16. CASE SealReplay
      BY <1>1, <2>16, SealReplayAble
    <2>17. CASE Reconcile
      BY <1>1, <2>17, ReconcileAble
    <2>18. CASE Advance
      BY <1>1, <2>18, AdvanceAble
    <2>19. CASE Commit
      BY <1>1, <2>19, CommitAble
    <2>20. CASE Finish \/ Discard \/ Classify
      BY <1>1, <2>20, EndAble
    <2> QED BY <1>3, <2>1, <2>2, <2>3, <2>4, <2>5, <2>6, <2>7, <2>8, <2>9, <2>10, <2>11, <2>12,
               <2>13, <2>14, <2>15, <2>16, <2>17, <2>18, <2>19, <2>20 DEF RunStep
  <1>4. CASE Fail \/ Crash
    BY <1>1, <1>4, EndAble
  <1>5. CASE \E p \in Paths : Edit(p) \/ Unreadable(p)
    <2>1. PICK p \in Paths : Edit(p) \/ Unreadable(p)
      BY <1>5
    <2>2. CASE Edit(p)
      BY <1>1, <2>2, StillAble DEF Edit
    <2>3. CASE Unreadable(p)
      BY <1>1, <2>3, UnreadableAble
    <2> QED BY <2>1, <2>2, <2>3
  <1>6. CASE UNCHANGED publicationVars
    BY <1>1, <1>6, StillAble DEF publicationVars, ledger
  <1> QED BY <1>2, <1>3, <1>4, <1>5, <1>6 DEF PublicationNext

\* A run that nothing interrupts fails, or asks for a rebuild, only after a situation the
\* code has no answer to: whatever the last run left, and however files change, it settles
\* that work, makes every mutation it plans, and seals and publishes them.
THEOREM RecoveryIsUnaided == PublicationSpec => []RecoversUnaided
  <1>1. AbleInv => RecoversUnaided
    BY DEF AbleInv, RunAble, OwnerOK, Clean, RecoversUnaided
  <1>2. PublicationSpec => []AbleInv
    BY AbleInit, AbleKept, PublicationInvariant, RunsAreCurrent, PTL DEF PublicationSpec
  <1> QED BY <1>1, <1>2, PTL

=============================================================================
