----------------------- MODULE StorageReclamationProofs -----------------------
(***************************************************************************)
(* That what maintenance destroyed can be recovered, for any collections,    *)
(* points, windows and numbers of writes, jobs and faults.                   *)
(*                                                                          *)
(* A drop destroys what is empty, what its cycle copied and nobody has       *)
(* written since, or what is excused because no count could tell.  The copies *)
(* are there and named from their publication on, because a file name is     *)
(* used once and every later manifest carries the records of collections     *)
(* that are gone.  That the totals tell, which is what the excuse depends    *)
(* on, is the arithmetic of a count that goes on while others write.         *)
(***************************************************************************)
EXTENDS StorageReclamation, FiniteSetTheorems, TLAPS

----------------------------------------------------------------------------
(* The inductive invariant.                                                  *)

Stages == {"rest", "survey", "classified", "stamped", "probe", "recount", "archive", "copy",
           "publish", "tidy", "verify", "settle", "plan", "drop", "forget", "sweep"}
Records   == [name : Collections, file : Nat, points : Nat]
Snapshots == [id : Nat, of : Collections, holds : SUBSET Points]
CycleState ==
    [at : Stages, todo : SUBSET (Collections \cup Records), tally : Nat, verified : BOOLEAN,
     status : {"live", "gone", "unverifiable", "unknown"}, stamp : Int,
     tier : {"empty", "data"}, target : Nat, pick : Collections \cup {"none", "some"},
     fresh : SUBSET Records, touched : SUBSET Collections, late : SUBSET Collections]

NamespaceOK ==
    /\ DOMAIN stored \in SUBSET Collections /\ stored \in [DOMAIN stored -> SUBSET Points]
    /\ DOMAIN owed \in SUBSET Collections /\ owed \in [DOMAIN owed -> SUBSET Points]
ArchiveOK ==
    /\ files \in SUBSET Snapshots /\ IsFiniteSet(files)
    /\ manifest \in [known : BOOLEAN, records : SUBSET Records]
    /\ IsFiniteSet(manifest.records)
CycleOK == cycle \in CycleState /\ IsFiniteSet(cycle.fresh)
TypeOK == NamespaceOK /\ ArchiveOK /\ CycleOK

\* A snapshot's name is its own.
OneFilePerName == \A f, g \in files : f.id = g.id => f = g

\* What is owed is in no collection, and can be recovered.
Recoverable(c, points) == \E r \in manifest.records, f \in files :
    r.name = c /\ r.file = f.id /\ f.of = c /\ f.holds = points
Secured == \A c \in DOMAIN owed : c \notin DOMAIN stored /\ Recoverable(c, owed[c])

\* What a stage works on, and what it has not begun.
Past(stages) == cycle.at \in stages
Outside == {"rest", "survey", "classified", "stamped", "probe", "sweep"}
StageOK ==
    /\ Past({"archive", "copy", "publish", "tidy", "verify", "settle"}) => cycle.tier = "data"
    /\ Past({"survey", "recount", "settle", "archive", "copy", "drop"}) =>
          cycle.todo \subseteq DOMAIN stored
    /\ cycle.at = "copy" => cycle.pick \in cycle.todo
    /\ cycle.tier = "empty" => cycle.target = 0 /\ cycle.fresh = {}
    /\ Past({"probe", "publish", "tidy", "verify"}) => cycle.tally = 0
    /\ Past(Outside) => cycle.touched = {} /\ cycle.late = {}
    /\ Past(Outside \cup {"recount"}) => cycle.fresh = {}

\* A copy is there, of what its collection holds unless that was written since.
CopiesHold ==
    \A e \in cycle.fresh :
        /\ Past({"archive", "copy", "publish"}) => e.name \in DOMAIN stored
        /\ Past({"tidy", "verify", "settle", "plan", "drop"}) => e \in manifest.records
        /\ cycle.at # "forget" => \E f \in files :
            /\ f.id = e.file /\ f.of = e.name
            /\ e.name \in DOMAIN stored \ cycle.touched => f.holds = stored[e.name]

\* Nothing that would be lost is destroyed: it is copied, unless it is empty or
\* was written too late to tell.
Copied(c) == \E e \in cycle.fresh : e.name = c
Spared(c) == c \in cycle.touched
          \/ (IF cycle.tier = "empty" THEN stored[c] = {} ELSE Copied(c))

NothingMissed ==
    /\ Past({"archive", "copy"}) =>
          \A c \in DOMAIN stored : c \in cycle.touched \cup cycle.todo \/ Copied(c)
    /\ Past({"publish", "tidy", "verify", "settle", "plan"}) => \A c \in DOMAIN stored : Spared(c)
    /\ cycle.at = "drop" => \A c \in cycle.todo : Spared(c)

\* What a recount has come to, unless a collection was written after its turn.
Counted == DOMAIN stored \ cycle.todo
CountsTell ==
    /\ Past({"recount", "settle"}) /\ Counted \cap cycle.late = {} =>
          cycle.tally = Cardinality(PointsIn(stored, Counted))
    /\ cycle.at = "recount" /\ cycle.tally = 0 =>
          \A c \in Counted \ cycle.touched : stored[c] = {}
    /\ cycle.at = "plan" /\ cycle.late = {} => TotalOf(stored) = cycle.target

\* The root and its entry, which most steps of a cycle do not look at.
EntryOK ==
    /\ root \in {"live", "gone"}
    /\ entry \in [known : BOOLEAN, orphaned : Int, idle : Int, observed : Int, whole : BOOLEAN]

ReclamationInv ==
    TypeOK /\ OneFilePerName /\ Secured /\ StageOK /\ CopiesHold /\ NothingMissed /\ CountsTell

----------------------------------------------------------------------------
(* Counting.                                                                 *)

\* A collection's points are a finite set.
LEMMA FiniteContents ==
    ASSUME NamespaceOK, NEW c \in DOMAIN stored
    PROVE  /\ IsFiniteSet(stored[c]) /\ Cardinality(stored[c]) \in Nat
           /\ Cardinality(stored[c]) = 0 => stored[c] = {}
  <1>1. stored[c] \subseteq Points /\ IsFiniteSet(Points)
    BY ReclamationAssumption DEF NamespaceOK
  <1> QED BY <1>1, FS_Subset, FS_CardinalityType, FS_EmptySet

\* A total grows by a collection's points when the collection is added to it.
LEMMA TotalGrows ==
    ASSUME NamespaceOK, NEW names \in SUBSET DOMAIN stored, NEW c \in DOMAIN stored \ names
    PROVE  /\ IsFiniteSet(PointsIn(stored, names))
           /\ Cardinality(PointsIn(stored, names)) \in Nat
           /\ Cardinality(PointsIn(stored, names \cup {c})) =
                Cardinality(PointsIn(stored, names)) + Cardinality(stored[c])
  <1> DEFINE A == PointsIn(stored, names)
             B == {c} \X stored[c]
  <1>1. A \subseteq Collections \X Points
    BY DEF PointsIn, NamespaceOK
  <1>2. IsFiniteSet(Collections \X Points)
    BY ReclamationAssumption, FS_Product
  <1>3. IsFiniteSet(A)
    BY <1>1, <1>2, FS_Subset
  <1>4. IsFiniteSet(B) /\ Cardinality(B) = Cardinality(stored[c])
    <2>1. IsFiniteSet(stored[c]) /\ Cardinality(stored[c]) \in Nat
      BY FiniteContents
    <2>2. IsFiniteSet({c}) /\ Cardinality({c}) = 1
      BY FS_Singleton
    <2>3. IsFiniteSet(B) /\ Cardinality(B) = Cardinality({c}) * Cardinality(stored[c])
      BY <2>1, <2>2, FS_Product
    <2> QED BY <2>1, <2>2, <2>3
  <1>5. A \cap B = {}
    BY DEF PointsIn
  <1>6. PointsIn(stored, names \cup {c}) = A \cup B
    BY DEF PointsIn
  <1> HIDE DEF A, B
  <1>7. Cardinality(A \cup B) = Cardinality(A) + Cardinality(B)
    <2>1. /\ IsFiniteSet(A \cup B) /\ Cardinality(A) \in Nat /\ Cardinality(B) \in Nat
          /\ Cardinality(A \cup B) = Cardinality(A) + Cardinality(B) - Cardinality(A \cap B)
      BY <1>3, <1>4, FS_Union, FS_CardinalityType
    <2>2. Cardinality(A \cap B) = 0
      BY <1>5, FS_EmptySet
    <2> QED BY <2>1, <2>2
  <1> QED BY <1>3, <1>4, <1>6, <1>7, FS_CardinalityType DEF A

\* A total of collections that nobody writes stays.
LEMMA TotalStays ==
    ASSUME NEW old, NEW new, NEW names, \A c \in names : new[c] = old[c]
    PROVE  PointsIn(new, names) = PointsIn(old, names)
  BY DEF PointsIn

\* Nothing counted, nothing found.
LEMMA NoTotal == ASSUME NEW namespace PROVE Cardinality(PointsIn(namespace, {})) = 0
  <1>1. PointsIn(namespace, {}) = {}
    BY DEF PointsIn
  <1> QED BY <1>1, FS_EmptySet

----------------------------------------------------------------------------
(* Steps that leave the namespace, the archive and the cycle alone, and those  *)
(* that end the cycle.                                                        *)

LEMMA QuietSteps ==
    ASSUME ReclamationInv, UNCHANGED <<stored, owed, files, manifest, cycle>>
    PROVE  ReclamationInv'
  <1>1. TypeOK'
    BY DEF ReclamationInv, TypeOK, NamespaceOK, ArchiveOK, CycleOK
  <1>2. OneFilePerName' /\ Secured'
    BY DEF ReclamationInv, OneFilePerName, Secured, Recoverable
  <1>3. StageOK' /\ CopiesHold'
    BY DEF ReclamationInv, StageOK, CopiesHold, Past, Outside
  <1>4. NothingMissed'
    BY DEF ReclamationInv, NothingMissed, Past, Spared, Copied
  <1>5. CountsTell'
    BY DEF ReclamationInv, CountsTell, Past, Counted, TotalOf, PointsIn
  <1> QED BY <1>1, <1>2, <1>3, <1>4, <1>5 DEF ReclamationInv

\* Such a step, with the cycle going on.
LEMMA StoresStay ==
    ASSUME ReclamationInv, UNCHANGED <<stored, owed, files, manifest>>
    PROVE  NamespaceOK' /\ ArchiveOK' /\ OneFilePerName' /\ Secured'
  BY DEF ReclamationInv, TypeOK, NamespaceOK, ArchiveOK, OneFilePerName, Secured, Recoverable

LEMMA RestIsACycle == Rest \in CycleState /\ Over \in CycleState
  <1>1. Rest \in CycleState
    BY DEF CycleState, Stages, Rest, Never
  <1> QED BY <1>1 DEF CycleState, Stages, Over

LEMMA CycleEnds ==
    ASSUME NamespaceOK', ArchiveOK', OneFilePerName', Secured', cycle' \in {Rest, Over}
    PROVE  ReclamationInv'
  <1>1. /\ cycle'.at \in {"rest", "sweep"} /\ cycle'.todo = {} /\ cycle'.tally = 0
        /\ cycle'.tier = "empty" /\ cycle'.target = 0 /\ cycle'.fresh = {}
        /\ cycle'.touched = {} /\ cycle'.late = {}
    BY DEF Rest, Over
  <1>2. CycleOK'
    <2>1. cycle' \in CycleState
      BY RestIsACycle
    <2>2. IsFiniteSet(cycle'.fresh)
      BY <1>1, FS_EmptySet
    <2> QED BY <2>1, <2>2 DEF CycleOK
  <1>3. StageOK' /\ CopiesHold' /\ NothingMissed' /\ CountsTell'
    BY <1>1 DEF StageOK, CopiesHold, NothingMissed, CountsTell, Past, Outside
  <1> QED BY <1>2, <1>3 DEF ReclamationInv, TypeOK

LEMMA CycleStops ==
    ASSUME ReclamationInv, UNCHANGED <<stored, owed, files, manifest>>, cycle' \in {Rest, Over}
    PROVE  ReclamationInv'
  BY StoresStay, CycleEnds

----------------------------------------------------------------------------
(* The steps of a cycle that read the namespace and the archive.              *)

LEMMA BeginCycleKeeps == ASSUME ReclamationInv, BeginCycle PROVE ReclamationInv'
  <1> DEFINE survey == [Rest EXCEPT !.at = "survey", !.todo = DOMAIN stored]
  <1>1. CASE UNCHANGED cycle
    BY <1>1, QuietSteps DEF BeginCycle, archiveVars
  <1>2. CASE cycle' = Over
    BY <1>2, CycleStops DEF BeginCycle, archiveVars
  <1>3. CASE cycle' = survey
    <2>a. DOMAIN stored \subseteq Collections
      BY DEF ReclamationInv, TypeOK, NamespaceOK
    <2>b. /\ cycle'.at = "survey" /\ cycle'.todo = DOMAIN stored /\ cycle'.tally = 0
          /\ cycle'.tier = "empty" /\ cycle'.target = 0 /\ cycle'.fresh = {}
          /\ cycle'.touched = {} /\ cycle'.late = {}
      BY <1>3 DEF Rest
    <2>c. cycle' \in CycleState
      BY <1>3, <2>a, RestIsACycle DEF CycleState, Stages
    <2>1. /\ cycle'.at = "survey" /\ cycle'.todo = DOMAIN stored /\ cycle'.tally = 0
          /\ cycle'.tier = "empty" /\ cycle'.target = 0 /\ cycle'.fresh = {}
          /\ cycle'.touched = {} /\ cycle'.late = {} /\ cycle' \in CycleState
      BY <2>b, <2>c
    <2>2. CycleOK'
      BY <2>1, FS_EmptySet DEF CycleOK
    <2>3. UNCHANGED <<stored, owed, files, manifest>>
      BY DEF BeginCycle, archiveVars
    <2>4. StageOK' /\ CopiesHold' /\ NothingMissed' /\ CountsTell'
      BY <2>1, <2>3 DEF StageOK, CopiesHold, NothingMissed, CountsTell, Past, Outside
    <2> QED BY <2>2, <2>3, <2>4, StoresStay DEF ReclamationInv, TypeOK
  <1> QED BY <1>1, <1>2, <1>3 DEF BeginCycle

\* The survey's last step and the first clock: the cycle goes on with what it read.
LEMMA ReadingKeeps ==
    ASSUME ReclamationInv, UNCHANGED <<stored, owed, files, manifest>>,
           cycle.at \in {"survey", "classified"}, cycle'.at \in {"classified", "stamped"},
           cycle' \in CycleState,
           \A field \in {"tier", "target", "fresh", "touched", "late"} :
               cycle'[field] = cycle[field]
    PROVE  ReclamationInv'
  <1>1. /\ cycle'.fresh = {} /\ cycle'.touched = {} /\ cycle'.late = {}
        /\ cycle'.tier = "empty" => cycle'.target = 0
    BY DEF ReclamationInv, StageOK, Past, Outside
  <1>2. CycleOK'
    BY <1>1, FS_EmptySet DEF CycleOK
  <1>3. StageOK' /\ CopiesHold' /\ NothingMissed' /\ CountsTell'
    BY <1>1 DEF StageOK, CopiesHold, NothingMissed, CountsTell, Past, Outside
  <1> QED BY <1>2, <1>3, StoresStay DEF ReclamationInv, TypeOK

LEMMA ClassifyKeeps == ASSUME ReclamationInv, EntryOK, Classify PROVE ReclamationInv'
  <1>1. PICK status \in {"live", "gone", "unverifiable", "unknown"} :
            cycle' = [cycle EXCEPT !.at = "classified", !.status = status]
    BY DEF Classify, EntryOK
  <1>2. /\ cycle.at = "survey" /\ cycle \in CycleState
        /\ UNCHANGED <<stored, owed, files, manifest>>
    BY DEF Classify, namespaceVars, archiveVars, ReclamationInv, TypeOK, CycleOK
  <1>3. /\ cycle' \in CycleState /\ cycle'.at = "classified"
        /\ \A field \in {"tier", "target", "fresh", "touched", "late"} :
              cycle'[field] = cycle[field]
    BY <1>1, <1>2 DEF CycleState, Stages
  <1> QED BY <1>2, <1>3, ReadingKeeps

LEMMA StampOrphanKeeps ==
    ASSUME ReclamationInv, EntryOK', StampOrphan PROVE ReclamationInv'
  <1>1. PICK stamp \in Int : cycle' = [cycle EXCEPT !.at = "stamped", !.stamp = stamp]
    BY DEF StampOrphan, EntryOK
  <1>2. /\ cycle.at = "classified" /\ cycle \in CycleState
        /\ UNCHANGED <<stored, owed, files, manifest>>
    BY DEF StampOrphan, archiveVars, ReclamationInv, TypeOK, CycleOK
  <1>3. /\ cycle' \in CycleState /\ cycle'.at = "stamped"
        /\ \A field \in {"tier", "target", "fresh", "touched", "late"} :
              cycle'[field] = cycle[field]
    BY <1>1, <1>2 DEF CycleState, Stages
  <1> QED BY <1>2, <1>3, ReadingKeeps

LEMMA EvaluateKeeps == ASSUME ReclamationInv, Evaluate PROVE ReclamationInv'
  <1> DEFINE probe == [Rest EXCEPT !.at = "probe", !.tier = TierOf(cycle.tally),
                                   !.target = cycle.tally]
  <1>1. UNCHANGED <<stored, owed, files, manifest>> /\ cycle' \in {probe, Over}
    BY DEF Evaluate, archiveVars
  <1>2. CASE cycle' = Over
    BY <1>1, <1>2, CycleStops
  <1>3. CASE cycle' = probe
    <2>1. cycle.tally \in Nat
      BY DEF ReclamationInv, TypeOK, CycleOK, CycleState
    <2>b. /\ cycle'.at = "probe" /\ cycle'.todo = {} /\ cycle'.tally = 0
          /\ cycle'.fresh = {} /\ cycle'.touched = {} /\ cycle'.late = {}
          /\ cycle'.tier = "empty" => cycle'.target = 0
      BY <1>3, <2>1 DEF Rest, TierOf
    <2>c. TierOf(cycle.tally) \in {"empty", "data"}
      BY DEF TierOf
    <2>2. /\ cycle'.at = "probe" /\ cycle'.todo = {} /\ cycle'.tally = 0
          /\ cycle'.fresh = {} /\ cycle'.touched = {} /\ cycle'.late = {}
          /\ cycle'.tier = "empty" => cycle'.target = 0
          /\ cycle' \in CycleState
      BY <1>3, <2>1, <2>b, <2>c, RestIsACycle DEF CycleState, Stages
    <2>3. CycleOK'
      BY <2>2, FS_EmptySet DEF CycleOK
    <2>4. StageOK' /\ CopiesHold' /\ NothingMissed' /\ CountsTell'
      BY <2>2 DEF StageOK, CopiesHold, NothingMissed, CountsTell, Past, Outside
    <2> QED BY <2>3, <2>4, <1>1, StoresStay DEF ReclamationInv, TypeOK
  <1> QED BY <1>1, <1>2, <1>3

LEMMA ProbeKeeps == ASSUME ReclamationInv, Probe PROVE ReclamationInv'
  <1> DEFINE recount == [cycle EXCEPT !.at = "recount", !.todo = DOMAIN stored]
  <1>1. UNCHANGED <<stored, owed, files, manifest>> /\ cycle' \in {recount, Over}
    BY DEF Probe, archiveVars, namespaceVars
  <1>2. CASE cycle' = Over
    BY <1>1, <1>2, CycleStops
  <1>3. CASE cycle' = recount
    <2>1. cycle \in CycleState /\ IsFiniteSet(cycle.fresh)
      BY DEF ReclamationInv, TypeOK, CycleOK
    <2>2. /\ cycle.at = "probe" /\ cycle.tally = 0 /\ cycle.fresh = {}
          /\ cycle.touched = {} /\ cycle.late = {}
          /\ cycle.tier = "empty" => cycle.target = 0
      BY DEF Probe, ReclamationInv, StageOK, Past, Outside
    <2>3. /\ cycle'.at = "recount" /\ cycle'.todo = DOMAIN stored /\ cycle'.tally = 0
          /\ cycle'.fresh = {} /\ cycle'.touched = {} /\ cycle'.late = {}
          /\ cycle'.tier = "empty" => cycle'.target = 0
          /\ cycle' \in CycleState
      BY <1>3, <2>1, <2>2 DEF CycleState, Stages, ReclamationInv, TypeOK, NamespaceOK
    <2>4. CycleOK'
      BY <2>3, FS_EmptySet DEF CycleOK
    <2>5. Counted' = {} /\ stored' = stored
      BY <1>1, <2>3 DEF Counted
    <2>6. CountsTell'
      BY <2>3, <2>5, NoTotal DEF CountsTell, Past
    <2>7. StageOK' /\ CopiesHold' /\ NothingMissed'
      BY <2>3, <2>5 DEF StageOK, CopiesHold, NothingMissed, Past, Outside
    <2> QED BY <2>4, <2>6, <2>7, <1>1, StoresStay DEF ReclamationInv, TypeOK
  <1> QED BY <1>1, <1>2, <1>3

LEMMA CountKeeps ==
    ASSUME ReclamationInv, NEW c \in Collections, Count(c) PROVE ReclamationInv'
  <1> DEFINE next == [cycle EXCEPT !.todo = @ \ {c}, !.late = @ \ {c},
                                   !.tally = @ + Cardinality(stored[c])]
             blind == [cycle EXCEPT !.todo = @ \ {c}, !.verified = FALSE]
  <1>1. /\ UNCHANGED <<stored, owed, files, manifest>>
        /\ \/ cycle' = next
           \/ cycle.at = "survey" /\ cycle' = blind
           \/ cycle' = Over
    BY DEF Count, archiveVars, namespaceVars
  <1>2. /\ cycle.at \in {"survey", "recount", "settle"} /\ c \in cycle.todo
        /\ c \in DOMAIN stored /\ cycle.todo \subseteq DOMAIN stored
    BY DEF Count, ReclamationInv, StageOK, Past
  <1>3. cycle \in CycleState /\ IsFiniteSet(cycle.fresh) /\ NamespaceOK
    BY DEF ReclamationInv, TypeOK, CycleOK
  <1>4. /\ Cardinality(stored[c]) \in Nat
        /\ Cardinality(stored[c]) = 0 => stored[c] = {}
        /\ cycle.tally \in Nat
    BY <1>2, <1>3, FiniteContents DEF CycleState
  <1> DEFINE sum == cycle.tally + Cardinality(stored[c])
  <1>a. sum \in Nat
    BY <1>4
  <1>b. next = [cycle EXCEPT !.todo = @ \ {c}, !.late = @ \ {c}, !.tally = sum]
    OBVIOUS
  <1> HIDE DEF sum
  <1>c. next \in CycleState
    BY <1>3, <1>a, <1>b DEF CycleState
  <1>d. /\ next.at = cycle.at /\ next.todo = cycle.todo \ {c}
        /\ next.late = cycle.late \ {c} /\ next.tally = sum
        /\ next.tier = cycle.tier /\ next.target = cycle.target
        /\ next.fresh = cycle.fresh /\ next.touched = cycle.touched
    BY <1>3, <1>b DEF CycleState
  <1>5. CASE cycle' = Over
    BY <1>1, <1>5, CycleStops
  <1>6. CASE cycle.at = "survey" /\ cycle' \in {next, blind}
    <2>1. /\ cycle.fresh = {} /\ cycle.touched = {} /\ cycle.late = {}
          /\ cycle.tier = "empty" => cycle.target = 0
      BY <1>6 DEF ReclamationInv, StageOK, Past, Outside
    <2>2. cycle' \in CycleState
      <3>1. CASE cycle' = next BY <1>c, <3>1
      <3>2. CASE cycle' = blind BY <1>3, <3>2 DEF CycleState
      <3> QED BY <1>6, <3>1, <3>2
    <2>3. /\ cycle'.at = "survey" /\ cycle'.todo = cycle.todo \ {c}
          /\ cycle'.fresh = {} /\ cycle'.touched = {} /\ cycle'.late = {}
          /\ cycle'.tier = cycle.tier /\ cycle'.target = cycle.target
      BY <1>3, <1>6, <2>1 DEF CycleState
    <2>4. CycleOK'
      BY <2>2, <2>3, FS_EmptySet DEF CycleOK
    <2>5. StageOK' /\ CopiesHold' /\ NothingMissed' /\ CountsTell'
      BY <1>1, <1>2, <2>1, <2>3
         DEF StageOK, CopiesHold, NothingMissed, CountsTell, Past, Outside
    <2> QED BY <2>4, <2>5, <1>1, StoresStay DEF ReclamationInv, TypeOK
  <1>7. CASE cycle.at \in {"recount", "settle"} /\ cycle' = next
    <2>1. /\ cycle'.at = cycle.at /\ cycle'.todo = cycle.todo \ {c}
          /\ cycle'.late = cycle.late \ {c}
          /\ cycle'.tally = cycle.tally + Cardinality(stored[c])
          /\ cycle'.tier = cycle.tier /\ cycle'.target = cycle.target
          /\ cycle'.fresh = cycle.fresh /\ cycle'.touched = cycle.touched
          /\ cycle' \in CycleState
      BY <1>7, <1>c, <1>d DEF sum
    <2>2. CycleOK'
      BY <1>3, <2>1 DEF CycleOK
    <2>3. StageOK'
      BY <1>1, <1>2, <1>7, <2>1 DEF ReclamationInv, StageOK, Past, Outside
    <2>4. CopiesHold'
      BY <1>1, <1>7, <2>1 DEF ReclamationInv, CopiesHold, Past
    <2>5. NothingMissed'
      BY <1>1, <1>7, <2>1 DEF ReclamationInv, NothingMissed, Past, Spared, Copied
    <2>6. Counted' = Counted \cup {c} /\ c \notin Counted /\ Counted \in SUBSET DOMAIN stored
      BY <1>1, <1>2, <2>1 DEF Counted
    <2>7. Cardinality(PointsIn(stored, Counted \cup {c})) =
              Cardinality(PointsIn(stored, Counted)) + Cardinality(stored[c])
      BY <1>2, <1>3, <2>6, TotalGrows
    <2>8. (Past({"recount", "settle"}) /\ Counted \cap cycle.late = {} =>
              cycle.tally = Cardinality(PointsIn(stored, Counted)))'
      <3> SUFFICES ASSUME Counted' \cap cycle'.late = {}
                   PROVE  cycle'.tally = Cardinality(PointsIn(stored, Counted'))
        BY <1>1
      <3>1. Counted \cap cycle.late = {}
        BY <2>1, <2>6
      <3>2. cycle.tally = Cardinality(PointsIn(stored, Counted))
        BY <3>1, <1>7 DEF ReclamationInv, CountsTell, Past
      <3> QED BY <3>2, <2>1, <2>6, <2>7
    <2>9. (cycle.at = "recount" /\ cycle.tally = 0 =>
              \A d \in Counted \ cycle.touched : stored[d] = {})'
      <3> SUFFICES ASSUME cycle.at = "recount", cycle'.tally = 0,
                          NEW d \in (Counted \cup {c}) \ cycle.touched
                   PROVE  stored[d] = {}
        BY <1>1, <2>1, <2>6
      <3>1. cycle.tally = 0 /\ Cardinality(stored[c]) = 0
        BY <1>4, <2>1
      <3>2. CASE d = c BY <1>4, <3>1, <3>2
      <3>3. CASE d \in Counted
        BY <3>1, <3>3 DEF ReclamationInv, CountsTell
      <3> QED BY <3>2, <3>3
    <2>10. CountsTell'
      BY <1>7, <2>1, <2>8, <2>9 DEF CountsTell
    <2> QED BY <2>2, <2>3, <2>4, <2>5, <2>10, <1>1, StoresStay DEF ReclamationInv, TypeOK
  <1> QED BY <1>1, <1>2, <1>5, <1>6, <1>7

\* What a recount that has come to its end says of the whole namespace.
LEMMA AllCounted ==
    ASSUME ReclamationInv, cycle.at \in {"recount", "settle"}, cycle.todo = {}
    PROVE  /\ cycle.late = {} => TotalOf(stored) = cycle.tally
           /\ cycle.at = "recount" /\ cycle.tally = 0 =>
                 \A c \in DOMAIN stored \ cycle.touched : stored[c] = {}
  <1>1. Counted = DOMAIN stored
    BY DEF Counted
  <1> QED BY <1>1 DEF ReclamationInv, CountsTell, Past, TotalOf

LEMMA RecountedKeeps == ASSUME ReclamationInv, Recounted PROVE ReclamationInv'
  <1> DEFINE plan == [cycle EXCEPT !.at = "plan"]
             archive == [cycle EXCEPT !.at = "archive", !.todo = DOMAIN stored]
  <1>1. /\ UNCHANGED <<stored, owed, files, manifest>>
        /\ cycle.at = "recount" /\ cycle.todo = {}
        /\ \/ cycle' = Over
           \/ Agrees /\ cycle.tier = "empty" /\ cycle' = plan
           \/ cycle.tier # "empty" /\ cycle' = archive
    BY DEF Recounted, archiveVars, namespaceVars
  <1>2. cycle \in CycleState /\ IsFiniteSet(cycle.fresh) /\ NamespaceOK
    BY DEF ReclamationInv, TypeOK, CycleOK
  <1>3. cycle.fresh = {} /\ (cycle.tier = "empty" => cycle.target = 0)
    BY <1>1 DEF ReclamationInv, StageOK, Past, Outside
  <1>4. CASE cycle' = Over
    BY <1>1, <1>4, CycleStops
  <1>5. CASE Agrees /\ cycle.tier = "empty" /\ cycle' = plan
    <2>1. /\ cycle'.at = "plan" /\ cycle'.todo = {} /\ cycle'.fresh = {}
          /\ cycle'.tier = "empty" /\ cycle'.target = 0 /\ cycle.tally = 0
          /\ cycle'.touched = cycle.touched /\ cycle'.late = cycle.late
          /\ cycle' \in CycleState
      BY <1>1, <1>2, <1>3, <1>5 DEF CycleState, Stages, Agrees
    <2>2. CycleOK'
      BY <2>1, FS_EmptySet DEF CycleOK
    <2>3. StageOK' /\ CopiesHold'
      BY <2>1 DEF StageOK, CopiesHold, Past, Outside
    <2>4. /\ \A c \in DOMAIN stored \ cycle.touched : stored[c] = {}
          /\ cycle.late = {} => TotalOf(stored) = 0
      BY <1>1, <2>1, AllCounted
    <2>5. NothingMissed'
      BY <1>1, <2>1, <2>4 DEF NothingMissed, Past, Spared
    <2>6. CountsTell'
      BY <1>1, <2>1, <2>4 DEF CountsTell, Past, TotalOf, PointsIn
    <2> QED BY <2>2, <2>3, <2>5, <2>6, <1>1, StoresStay DEF ReclamationInv, TypeOK
  <1>6. CASE cycle.tier # "empty" /\ cycle' = archive
    <2>1. /\ cycle'.at = "archive" /\ cycle'.todo = DOMAIN stored /\ cycle'.fresh = {}
          /\ cycle'.tier = "data" /\ cycle' \in CycleState
      BY <1>2, <1>3, <1>6 DEF CycleState, Stages, NamespaceOK
    <2>2. CycleOK'
      BY <2>1, FS_EmptySet DEF CycleOK
    <2>3. StageOK' /\ CopiesHold' /\ NothingMissed' /\ CountsTell'
      BY <1>1, <2>1 DEF StageOK, CopiesHold, NothingMissed, CountsTell, Past, Outside
    <2> QED BY <2>2, <2>3, <1>1, StoresStay DEF ReclamationInv, TypeOK
  <1> QED BY <1>1, <1>4, <1>5, <1>6

LEMMA CountForCopyKeeps ==
    ASSUME ReclamationInv, NEW c \in Collections, CountForCopy(c) PROVE ReclamationInv'
  <1>1. /\ UNCHANGED <<stored, owed, files, manifest>>
        /\ cycle.at = "archive" /\ c \in cycle.todo /\ cycle.todo \subseteq DOMAIN stored
        /\ cycle.tier = "data"
        /\ cycle' = [cycle EXCEPT !.at = "copy", !.pick = c, !.late = @ \ {c},
                                  !.tally = Cardinality(stored[c])]
    BY DEF CountForCopy, archiveVars, namespaceVars, ReclamationInv, StageOK, Past
  <1>2. cycle \in CycleState /\ IsFiniteSet(cycle.fresh) /\ NamespaceOK
    BY DEF ReclamationInv, TypeOK, CycleOK
  <1>3. Cardinality(stored[c]) \in Nat
    BY <1>1, <1>2, FiniteContents
  <1>4. /\ cycle'.at = "copy" /\ cycle'.todo = cycle.todo /\ cycle'.pick = c
        /\ cycle'.fresh = cycle.fresh /\ cycle'.touched = cycle.touched
        /\ cycle'.tier = "data" /\ cycle' \in CycleState
    BY <1>1, <1>2, <1>3 DEF CycleState, Stages
  <1>5. CycleOK'
    BY <1>2, <1>4 DEF CycleOK
  <1>6. StageOK' /\ CountsTell'
    BY <1>1, <1>4 DEF StageOK, CountsTell, Past, Outside
  <1>7. CopiesHold'
    BY <1>1, <1>4 DEF ReclamationInv, CopiesHold, Past
  <1>8. NothingMissed'
    BY <1>1, <1>4 DEF ReclamationInv, NothingMissed, Past, Copied
  <1> QED BY <1>1, <1>5, <1>6, <1>7, <1>8, StoresStay DEF ReclamationInv, TypeOK

LEMMA VerifyKeeps ==
    ASSUME ReclamationInv, NEW r \in cycle.todo, Verify(r) PROVE ReclamationInv'
  <1> DEFINE next == [cycle EXCEPT
                        !.at = IF cycle.todo = {r} THEN "settle" ELSE "verify",
                        !.todo = IF cycle.todo = {r} THEN DOMAIN stored ELSE @ \ {r},
                        !.late = IF r \in cycle.fresh THEN @ \ {r.name} ELSE @]
  <1>1. /\ UNCHANGED <<stored, owed, files, manifest>> /\ cycle.at = "verify"
        /\ cycle' \in {next, Over}
    BY DEF Verify, archiveVars, namespaceVars
  <1>2. cycle \in CycleState /\ IsFiniteSet(cycle.fresh) /\ NamespaceOK
    BY DEF ReclamationInv, TypeOK, CycleOK
  <1>3. cycle.tier = "data" /\ cycle.tally = 0
    BY <1>1 DEF ReclamationInv, StageOK, Past
  <1>4. CASE cycle' = Over
    BY <1>1, <1>4, CycleStops
  <1>5. CASE cycle' = next
    <2>1. /\ cycle'.at \in {"settle", "verify"}
          /\ cycle'.at = "settle" => cycle'.todo = DOMAIN stored
          /\ cycle'.fresh = cycle.fresh /\ cycle'.touched = cycle.touched
          /\ cycle'.tier = "data" /\ cycle'.tally = 0
      BY <1>2, <1>3, <1>5 DEF CycleState
    <2>2. cycle' \in CycleState
      BY <1>2, <1>5 DEF CycleState, Stages, NamespaceOK
    <2>3. CycleOK'
      BY <1>2, <2>1, <2>2 DEF CycleOK
    <2>4. StageOK'
      BY <1>1, <2>1 DEF StageOK, Past, Outside
    <2>5. CopiesHold'
      BY <1>1, <2>1 DEF ReclamationInv, CopiesHold, Past
    <2>6. NothingMissed'
      BY <1>1, <1>3, <2>1 DEF ReclamationInv, NothingMissed, Past, Spared, Copied
    <2>7. CountsTell'
      <3>1. cycle'.at = "settle" => Counted' = {}
        BY <1>1, <2>1 DEF Counted
      <3> QED BY <2>1, <3>1, NoTotal DEF CountsTell, Past
    <2> QED BY <1>1, <2>3, <2>4, <2>5, <2>6, <2>7, StoresStay DEF ReclamationInv, TypeOK
  <1> QED BY <1>1, <1>4, <1>5

LEMMA SettledKeeps == ASSUME ReclamationInv, Settled PROVE ReclamationInv'
  <1>1. /\ UNCHANGED <<stored, owed, files, manifest>>
        /\ cycle.at = "settle" /\ cycle.todo = {} /\ cycle.tier = "data"
        /\ cycle' = Over \/ (Agrees /\ cycle' = [cycle EXCEPT !.at = "plan"])
    BY DEF Settled, archiveVars, namespaceVars, ReclamationInv, StageOK, Past
  <1>2. cycle \in CycleState /\ IsFiniteSet(cycle.fresh)
    BY DEF ReclamationInv, TypeOK, CycleOK
  <1>3. CASE cycle' = Over
    BY <1>1, <1>3, CycleStops
  <1>4. CASE Agrees /\ cycle' = [cycle EXCEPT !.at = "plan"]
    <2>1. /\ cycle'.at = "plan" /\ cycle'.todo = {} /\ cycle.tally = cycle.target
          /\ cycle'.fresh = cycle.fresh /\ cycle'.touched = cycle.touched
          /\ cycle'.late = cycle.late /\ cycle'.target = cycle.target
          /\ cycle'.tier = "data" /\ cycle' \in CycleState
      BY <1>1, <1>2, <1>4 DEF CycleState, Stages, Agrees
    <2>2. CycleOK'
      BY <1>2, <2>1 DEF CycleOK
    <2>3. StageOK'
      BY <2>1 DEF StageOK, Past, Outside
    <2>4. CopiesHold'
      BY <1>1, <2>1 DEF ReclamationInv, CopiesHold, Past
    <2>5. NothingMissed'
      BY <1>1, <2>1 DEF ReclamationInv, NothingMissed, Past, Spared, Copied
    <2>6. cycle.late = {} => TotalOf(stored) = cycle.target
      BY <1>1, <2>1, AllCounted
    <2>7. CountsTell'
      BY <1>1, <2>1, <2>6 DEF CountsTell, Past, TotalOf, PointsIn
    <2> QED BY <1>1, <2>2, <2>3, <2>4, <2>5, <2>7, StoresStay DEF ReclamationInv, TypeOK
  <1> QED BY <1>1, <1>3, <1>4

\* The excuse is not taken back: where the counts tell, they told.
LEMMA PlanKeeps == ASSUME ReclamationInv, Plan PROVE ReclamationInv'
  <1>1. UNCHANGED <<stored, owed, files, manifest>> /\ cycle.at = "plan"
    BY DEF Plan, archiveVars, namespaceVars
  <1>2. cycle \in CycleState /\ IsFiniteSet(cycle.fresh) /\ NamespaceOK
    BY DEF ReclamationInv, TypeOK, CycleOK
  <1>3. cycle.late = {} => TotalOf(stored) = cycle.target
    BY <1>1 DEF ReclamationInv, CountsTell
  <1>4. CASE cycle' = Over
    BY <1>1, <1>4, CycleStops
  <1>5. CASE cycle' # Over
    <2>1. /\ cycle'.at = "drop" /\ cycle'.todo = DOMAIN stored
          /\ cycle'.fresh = cycle.fresh /\ cycle'.touched = cycle.touched
          /\ cycle'.target = cycle.target /\ cycle'.tier = cycle.tier
          /\ cycle' \in CycleState
      BY <1>2, <1>3, <1>5 DEF Plan, CycleState, Stages, NamespaceOK
    <2>2. CycleOK'
      BY <1>2, <2>1 DEF CycleOK
    <2>3. StageOK'
      BY <1>1, <2>1 DEF ReclamationInv, StageOK, Past, Outside
    <2>4. CopiesHold'
      BY <1>1, <2>1 DEF ReclamationInv, CopiesHold, Past
    <2>5. NothingMissed'
      BY <1>1, <2>1 DEF ReclamationInv, NothingMissed, Past, Spared, Copied
    <2>6. CountsTell'
      BY <2>1 DEF CountsTell, Past
    <2> QED BY <1>1, <2>2, <2>3, <2>4, <2>5, <2>6, StoresStay DEF ReclamationInv, TypeOK
  <1> QED BY <1>4, <1>5

----------------------------------------------------------------------------
(* The steps that write the archive.                                          *)

LEMMA FiniteNames == ASSUME NEW n \in Nat PROVE Cardinality(1 .. n) = n
  <1>1. Cardinality(1 .. n) = IF 1 > n THEN 0 ELSE n - 1 + 1
    BY FS_Interval
  <1> QED BY <1>1

\* Among one more names than are in use there is an unused one.
LEMMA UnusedName ==
    ASSUME NEW used, IsFiniteSet(used), NEW id,
           id = CHOOSE i \in 1 .. Cardinality(used) + 1 : i \notin used
    PROVE  id \in Nat /\ id \notin used
  <1> DEFINE n == Cardinality(used) + 1
  <1>1. Cardinality(used) \in Nat /\ n \in Nat
    BY FS_CardinalityType
  <1>2. Cardinality(1 .. n) = n
    BY <1>1, FiniteNames
  <1>3. ASSUME 1 .. n \subseteq used PROVE FALSE
    <2>1. Cardinality(1 .. n) <= Cardinality(used)
      BY <1>3, FS_Subset
    <2> QED BY <1>1, <1>2, <2>1
  <1>4. \E i \in 1 .. n : i \notin used
    BY <1>3
  <1> HIDE DEF n
  <1>5. id = CHOOSE i \in 1 .. n : i \notin used
    BY DEF n
  <1>6. id \in 1 .. n /\ id \notin used
    BY <1>4, <1>5
  <1> QED BY <1>1, <1>6

LEMMA FiniteImage ==
    ASSUME NEW S, IsFiniteSet(S), NEW T, NEW f \in Surjection(S, T)
    PROVE  IsFiniteSet(T)
  BY FS_Surjection

LEMMA CopyKeeps == ASSUME ReclamationInv, Copy PROVE ReclamationInv'
  <1> DEFINE used == {f.id : f \in files} \cup {r.file : r \in manifest.records}
             id == CHOOSE i \in 1 .. Cardinality(used) + 1 : i \notin used
             snapshot == [id |-> id, of |-> cycle.pick, holds |-> stored[cycle.pick]]
             record == [name |-> cycle.pick, file |-> id, points |-> cycle.tally]
  <1>1. /\ cycle.at = "copy" /\ files' = files \cup {snapshot}
        /\ cycle' = [cycle EXCEPT
                       !.at = IF cycle.todo = {cycle.pick} THEN "publish" ELSE "archive",
                       !.todo = @ \ {cycle.pick}, !.pick = "none", !.tally = 0,
                       !.fresh = @ \cup {record}]
        /\ UNCHANGED <<stored, owed, manifest>>
    BY DEF Copy, namespaceVars
  <1>2. /\ NamespaceOK /\ ArchiveOK /\ cycle \in CycleState /\ IsFiniteSet(cycle.fresh)
        /\ cycle.todo \subseteq DOMAIN stored /\ cycle.pick \in cycle.todo
        /\ cycle.tier = "data"
    BY <1>1 DEF ReclamationInv, TypeOK, CycleOK, StageOK, Past
  <1>3. IsFiniteSet(used)
    <2>1. IsFiniteSet({f.id : f \in files})
      <3>1. [f \in files |-> f.id] \in Surjection(files, {f.id : f \in files})
        BY DEF Surjection
      <3> QED BY <1>2, <3>1, FiniteImage DEF ArchiveOK
    <2>2. IsFiniteSet({r.file : r \in manifest.records})
      <3>1. [r \in manifest.records |-> r.file]
               \in Surjection(manifest.records, {r.file : r \in manifest.records})
        BY DEF Surjection
      <3> QED BY <1>2, <3>1, FiniteImage DEF ArchiveOK
    <2> QED BY <2>1, <2>2, FS_Union
  <1>4. id \in Nat /\ id \notin used
    <2> HIDE DEF used
    <2> QED BY <1>3, UnusedName
  <1>5. \A f \in files : f.id # id
    BY <1>4
  <1> HIDE DEF used, id
  <1>6. snapshot \in Snapshots /\ record \in Records
    <2>1. cycle.pick \in Collections /\ stored[cycle.pick] \in SUBSET Points
      BY <1>2 DEF NamespaceOK
    <2>2. cycle.tally \in Nat
      BY <1>2 DEF CycleState
    <2> QED BY <1>4, <2>1, <2>2 DEF Snapshots, Records
  <1>7. /\ snapshot.id = id /\ snapshot.of = cycle.pick
        /\ snapshot.holds = stored[cycle.pick]
        /\ record.name = cycle.pick /\ record.file = id
    OBVIOUS
  <1> HIDE DEF snapshot, record
  <1>8. /\ cycle'.at \in {"publish", "archive"}
        /\ cycle'.at = "publish" => cycle.todo = {cycle.pick}
        /\ cycle'.todo = cycle.todo \ {cycle.pick} /\ cycle'.tally = 0
        /\ cycle'.fresh = cycle.fresh \cup {record} /\ cycle'.tier = "data"
        /\ cycle'.touched = cycle.touched /\ cycle' \in CycleState
    <2> DEFINE at == IF cycle.todo = {cycle.pick} THEN "publish" ELSE "archive"
               fresh == cycle.fresh \cup {record}
    <2>1. /\ at \in {"publish", "archive"} /\ fresh \in SUBSET Records
          /\ at = "publish" => cycle.todo = {cycle.pick}
      BY <1>2, <1>6 DEF CycleState
    <2>2. cycle' = [cycle EXCEPT !.at = at, !.todo = @ \ {cycle.pick}, !.pick = "none",
                                 !.tally = 0, !.fresh = fresh]
      BY <1>1
    <2> HIDE DEF at, fresh
    <2>3. cycle' \in CycleState
      BY <1>2, <2>1, <2>2 DEF CycleState, Stages
    <2>4. cycle'.at = at /\ cycle'.fresh = fresh
      BY <1>2, <2>2 DEF CycleState
    <2>5. /\ cycle'.todo = cycle.todo \ {cycle.pick} /\ cycle'.tally = 0
          /\ cycle'.tier = cycle.tier /\ cycle'.touched = cycle.touched
      BY <1>2, <2>2 DEF CycleState
    <2>6. cycle.tier = "data" /\ fresh = cycle.fresh \cup {record}
      BY <1>1, <1>2 DEF fresh
    <2> QED BY <2>1, <2>3, <2>4, <2>5, <2>6
  <1>9. NamespaceOK' /\ ArchiveOK'
    <2>1. IsFiniteSet(files')
      BY <1>1, <1>2, FS_AddElement DEF ArchiveOK
    <2> QED BY <1>1, <1>2, <1>6, <2>1 DEF NamespaceOK, ArchiveOK
  <1>10. CycleOK'
    BY <1>2, <1>8, FS_AddElement DEF CycleOK
  <1>11. OneFilePerName'
    BY <1>1, <1>5, <1>7 DEF ReclamationInv, OneFilePerName
  <1>12. Secured'
    BY <1>1 DEF ReclamationInv, Secured, Recoverable
  <1>13. StageOK' /\ CountsTell'
    BY <1>1, <1>2, <1>8 DEF StageOK, CountsTell, Past, Outside
  <1>14. CopiesHold'
    <2> SUFFICES ASSUME NEW e \in cycle.fresh \cup {record}
                 PROVE  /\ e.name \in DOMAIN stored
                        /\ \E f \in files \cup {snapshot} :
                              /\ f.id = e.file /\ f.of = e.name
                              /\ e.name \in DOMAIN stored \ cycle.touched
                                    => f.holds = stored[e.name]
      BY <1>1, <1>8 DEF CopiesHold, Past
    <2>1. CASE e = record
      BY <1>2, <1>7, <2>1
    <2>2. CASE e \in cycle.fresh
      BY <1>1, <2>2 DEF ReclamationInv, CopiesHold, Past
    <2> QED BY <2>1, <2>2
  <1>15. NothingMissed'
    <2>1. \A c \in DOMAIN stored :
            c \in cycle.touched \/ c \in cycle.todo \ {cycle.pick} \/ Copied(c)'
      BY <1>1, <1>7, <1>8 DEF ReclamationInv, NothingMissed, Past, Copied
    <2>2. cycle'.at = "publish" => cycle.todo \ {cycle.pick} = {}
      BY <1>8
    <2> QED BY <2>1, <2>2, <1>1, <1>8 DEF NothingMissed, Past, Spared
  <1> QED BY <1>9, <1>10, <1>11, <1>12, <1>13, <1>14, <1>15 DEF ReclamationInv, TypeOK

\* What is owed keeps its record: its file is not one of this attempt's copies,
\* whose collections are still there.
LEMMA OwedIsCarried ==
    ASSUME ReclamationInv, cycle.at = "publish", NEW c \in DOMAIN owed
    PROVE  \E r \in Carried, f \in files :
              r.name = c /\ r.file = f.id /\ f.of = c /\ f.holds = owed[c]
  <1>1. c \notin DOMAIN stored /\ Recoverable(c, owed[c])
    BY DEF ReclamationInv, Secured
  <1>2. PICK r \in manifest.records :
           \E f \in files : r.name = c /\ r.file = f.id /\ f.of = c /\ f.holds = owed[c]
    BY <1>1 DEF Recoverable
  <1>3. PICK f \in files : r.name = c /\ r.file = f.id /\ f.of = c /\ f.holds = owed[c]
    BY <1>2
  <1>4. \A e \in cycle.fresh :
          /\ e.name \in DOMAIN stored
          /\ \E g \in files : g.id = e.file /\ g.of = e.name
    BY DEF ReclamationInv, CopiesHold, Past
  <1>5. r.file \notin Named(cycle.fresh)
    <2> SUFFICES ASSUME NEW e \in cycle.fresh, e.file = r.file PROVE FALSE
      BY DEF Named
    <2>1. PICK g \in files : g.id = e.file /\ g.of = e.name
      BY <1>4
    <2>2. g = f
      BY <1>3, <2>1 DEF ReclamationInv, OneFilePerName
    <2> QED BY <1>1, <1>3, <1>4, <2>1, <2>2
  <1>6. r.file \in Ids /\ r.name \notin {e.name : e \in cycle.fresh}
    BY <1>1, <1>3, <1>4 DEF Ids
  <1>7. r \in Carried
    BY <1>5, <1>6 DEF Carried
  <1> QED BY <1>3, <1>7

LEMMA PublishKeeps == ASSUME ReclamationInv, Publish PROVE ReclamationInv'
  <1>1. /\ cycle.at = "publish" /\ cycle' = [cycle EXCEPT !.at = "tidy"]
        /\ manifest' = [known |-> TRUE, records |-> cycle.fresh \cup Carried]
        /\ UNCHANGED <<stored, owed, files>>
    BY DEF Publish, namespaceVars
  <1>2. /\ NamespaceOK /\ ArchiveOK /\ cycle \in CycleState /\ IsFiniteSet(cycle.fresh)
        /\ cycle.tier = "data" /\ cycle.tally = 0
    BY <1>1 DEF ReclamationInv, TypeOK, CycleOK, StageOK, Past
  <1>3. /\ cycle'.at = "tidy" /\ cycle'.fresh = cycle.fresh /\ cycle'.tier = "data"
        /\ cycle'.touched = cycle.touched /\ cycle'.tally = 0 /\ cycle' \in CycleState
    BY <1>1, <1>2 DEF CycleState, Stages
  <1>4. ArchiveOK'
    <2>1. Carried \subseteq manifest.records
      BY DEF Carried
    <2>2. IsFiniteSet(cycle.fresh \cup Carried)
      BY <1>2, <2>1, FS_Subset, FS_Union DEF ArchiveOK
    <2>3. cycle.fresh \cup Carried \in SUBSET Records
      BY <1>2, <2>1 DEF ArchiveOK, CycleState
    <2> QED BY <1>1, <1>2, <2>2, <2>3 DEF ArchiveOK
  <1>5. NamespaceOK' /\ CycleOK' /\ OneFilePerName'
    BY <1>1, <1>2, <1>3 DEF NamespaceOK, CycleOK, ReclamationInv, OneFilePerName
  <1>6. Secured'
    <2> SUFFICES ASSUME NEW c \in DOMAIN owed
                 PROVE  c \notin DOMAIN stored /\ Recoverable(c, owed[c])'
      BY <1>1 DEF Secured, Recoverable
    <2>1. c \notin DOMAIN stored
      BY DEF ReclamationInv, Secured
    <2>2. \E r \in Carried, f \in files :
             r.name = c /\ r.file = f.id /\ f.of = c /\ f.holds = owed[c]
      BY <1>1, OwedIsCarried
    <2>3. Carried \subseteq manifest'.records
      BY <1>1
    <2> QED BY <1>1, <2>1, <2>2, <2>3 DEF Recoverable
  <1>7. StageOK' /\ CountsTell'
    BY <1>3 DEF StageOK, CountsTell, Past, Outside
  <1>8. CopiesHold'
    <2>1. cycle.fresh \subseteq manifest'.records
      BY <1>1
    <2> QED BY <1>1, <1>3, <2>1 DEF ReclamationInv, CopiesHold, Past
  <1>9. NothingMissed'
    BY <1>1, <1>2, <1>3 DEF ReclamationInv, NothingMissed, Past, Spared, Copied
  <1> QED BY <1>4, <1>5, <1>6, <1>7, <1>8, <1>9 DEF ReclamationInv, TypeOK

LEMMA TidyKeeps == ASSUME ReclamationInv, Tidy PROVE ReclamationInv'
  <1> DEFINE named == {f \in files : f.id \in Named(manifest.records)}
             verify == [cycle EXCEPT !.at = "verify", !.todo = manifest.records]
  <1>1. /\ cycle.at = "tidy" /\ files' \in SUBSET files /\ named \subseteq files'
        /\ cycle' \in {verify, Over} /\ UNCHANGED <<stored, owed, manifest>>
    BY DEF Tidy, namespaceVars
  <1>2. /\ NamespaceOK /\ ArchiveOK /\ cycle \in CycleState /\ IsFiniteSet(cycle.fresh)
        /\ cycle.tier = "data" /\ cycle.tally = 0
    BY <1>1 DEF ReclamationInv, TypeOK, CycleOK, StageOK, Past
  <1>3. NamespaceOK' /\ ArchiveOK' /\ OneFilePerName'
    BY <1>1, <1>2, FS_Subset DEF NamespaceOK, ArchiveOK, ReclamationInv, OneFilePerName
  <1>4. Secured'
    BY <1>1 DEF ReclamationInv, Secured, Recoverable, Named
  <1>5. CASE cycle' = Over
    BY <1>3, <1>4, <1>5, CycleEnds
  <1>6. CASE cycle' = verify
    <2>1. /\ cycle'.at = "verify" /\ cycle'.fresh = cycle.fresh /\ cycle'.tier = "data"
          /\ cycle'.touched = cycle.touched /\ cycle'.tally = 0 /\ cycle' \in CycleState
      BY <1>2, <1>6 DEF CycleState, Stages, ArchiveOK
    <2>2. CycleOK'
      BY <1>2, <2>1 DEF CycleOK
    <2>3. StageOK' /\ CountsTell'
      BY <2>1 DEF StageOK, CountsTell, Past, Outside
    <2>4. CopiesHold'
      BY <1>1, <2>1 DEF ReclamationInv, CopiesHold, Past, Named
    <2>5. NothingMissed'
      BY <1>1, <1>2, <2>1 DEF ReclamationInv, NothingMissed, Past, Spared, Copied
    <2> QED BY <1>3, <1>4, <2>2, <2>3, <2>4, <2>5 DEF ReclamationInv, TypeOK
  <1> QED BY <1>1, <1>5, <1>6

\* What expires is owed no longer.
LEMMA SweepKeeps == ASSUME ReclamationInv, Sweep PROVE ReclamationInv'
  <1>1. /\ cycle' = Rest /\ stored' = stored
        /\ \/ UNCHANGED <<files, manifest, owed>>
           \/ owed' = <<>> /\ files' \in SUBSET files /\ manifest' \in {manifest, NoManifest}
    BY DEF Sweep, archiveVars
  <1>2. CASE UNCHANGED <<files, manifest, owed>>
    BY <1>1, <1>2, CycleStops
  <1>3. CASE owed' = <<>> /\ files' \in SUBSET files /\ manifest' \in {manifest, NoManifest}
    <2>1. NamespaceOK /\ ArchiveOK
      BY DEF ReclamationInv, TypeOK
    <2>2. DOMAIN owed' = {} /\ owed' \in [{} -> SUBSET Points]
      BY <1>3
    <2>3. NamespaceOK'
      BY <1>1, <2>1, <2>2 DEF NamespaceOK
    <2>4. NoManifest \in [known : BOOLEAN, records : SUBSET Records]
          /\ IsFiniteSet(NoManifest.records)
      BY FS_EmptySet DEF NoManifest
    <2>5. ArchiveOK'
      BY <1>3, <2>1, <2>4, FS_Subset DEF ArchiveOK
    <2>6. OneFilePerName' /\ Secured'
      BY <1>3, <2>2 DEF ReclamationInv, OneFilePerName, Secured
    <2> QED BY <1>1, <2>3, <2>5, <2>6, CycleEnds
  <1> QED BY <1>1, <1>2, <1>3

----------------------------------------------------------------------------
(* The steps that change the namespace.                                       *)

\* What is destroyed is empty, excused, or owed with its copy in the archive.
LEMMA DestroyKeeps ==
    ASSUME ReclamationInv, cycle.at = "drop", NEW c \in cycle.todo, Destroy(c),
           UNCHANGED <<files, manifest>>
    PROVE  /\ NamespaceOK' /\ Secured'
           /\ DOMAIN stored' = DOMAIN stored \ {c}
           /\ \A d \in DOMAIN stored \ {c} : stored'[d] = stored[d]
  <1>1. NamespaceOK /\ c \in DOMAIN stored /\ Spared(c)
    BY DEF ReclamationInv, TypeOK, StageOK, NothingMissed, Past
  <1>2. stored' = [d \in DOMAIN stored \ {c} |-> stored[d]]
    BY DEF Destroy, Restrict
  <1>3. stored[c] = {} \/ c \in cycle.touched \/ Recoverable(c, stored[c])
    <2> SUFFICES ASSUME stored[c] # {}, c \notin cycle.touched PROVE Recoverable(c, stored[c])
      OBVIOUS
    <2>1. PICK e \in cycle.fresh : e.name = c
      BY <1>1 DEF Spared, Copied
    <2>2. /\ e \in manifest.records
          /\ \E f \in files : f.id = e.file /\ f.of = c /\ f.holds = stored[c]
      BY <1>1, <2>1 DEF ReclamationInv, CopiesHold, Past
    <2> QED BY <2>1, <2>2 DEF Recoverable
  <1>4. \A d \in DOMAIN owed : d \notin DOMAIN stored /\ Recoverable(d, owed[d])
    BY DEF ReclamationInv, Secured
  <1>5. CASE owed' = owed
    <2>1. NamespaceOK'
      BY <1>1, <1>2, <1>5 DEF NamespaceOK
    <2>2. Secured'
      BY <1>2, <1>4, <1>5 DEF Secured, Recoverable
    <2> QED BY <1>2, <2>1, <2>2
  <1>6. CASE Recoverable(c, stored[c]) /\ owed' = With(owed, c, stored[c])
    <2>1. owed' = [d \in {c} \cup DOMAIN owed |-> IF d = c THEN stored[c] ELSE owed[d]]
      BY <1>6 DEF With
    <2>2. stored[c] \in SUBSET Points /\ c \in Collections
      BY <1>1 DEF NamespaceOK
    <2>3. NamespaceOK'
      BY <1>1, <1>2, <2>1, <2>2 DEF NamespaceOK
    <2>4. \A d \in DOMAIN owed' : d \notin DOMAIN stored' /\ Recoverable(d, owed'[d])
      BY <1>2, <1>4, <1>6, <2>1
    <2>5. Secured'
      BY <2>4 DEF Secured, Recoverable
    <2> QED BY <1>2, <2>3, <2>5
  <1> QED BY <1>3, <1>5, <1>6 DEF Destroy

LEMMA DropKeeps ==
    ASSUME ReclamationInv, NEW c \in Collections, Drop(c) PROVE ReclamationInv'
  <1> DEFINE next == [cycle EXCEPT !.todo = @ \ {c}, !.pick = "some",
                                   !.at = IF cycle.todo = {c} THEN "forget" ELSE "drop"]
  <1>1. /\ cycle.at = "drop" /\ c \in cycle.todo /\ UNCHANGED <<files, manifest>>
        /\ \/ cycle' = Over /\ UNCHANGED <<stored, owed>>
           \/ cycle' \in {next, Over} /\ Destroy(c)
    BY DEF Drop, archiveVars
  <1>2. ArchiveOK' /\ OneFilePerName'
    BY <1>1 DEF ReclamationInv, TypeOK, ArchiveOK, OneFilePerName
  <1>3. CASE cycle' = Over /\ UNCHANGED <<stored, owed>>
    BY <1>1, <1>3, CycleStops
  <1>4. CASE cycle' = Over /\ Destroy(c)
    <2>1. NamespaceOK' /\ Secured'
      BY <1>1, <1>4, DestroyKeeps
    <2> QED BY <1>2, <1>4, <2>1, CycleEnds
  <1>5. CASE cycle' = next /\ Destroy(c)
    <2>1. /\ NamespaceOK' /\ Secured'
          /\ DOMAIN stored' = DOMAIN stored \ {c}
          /\ \A d \in DOMAIN stored \ {c} : stored'[d] = stored[d]
      BY <1>1, <1>5, DestroyKeeps
    <2>2. cycle \in CycleState /\ IsFiniteSet(cycle.fresh)
      BY DEF ReclamationInv, TypeOK, CycleOK
    <2>3. /\ cycle'.at \in {"drop", "forget"} /\ cycle'.todo = cycle.todo \ {c}
          /\ cycle'.fresh = cycle.fresh /\ cycle'.touched = cycle.touched
          /\ cycle'.tier = cycle.tier /\ cycle'.target = cycle.target
          /\ cycle' \in CycleState
      BY <1>5, <2>2 DEF CycleState, Stages
    <2>4. CycleOK'
      BY <2>2, <2>3 DEF CycleOK
    <2>5. StageOK'
      BY <1>1, <2>1, <2>3 DEF ReclamationInv, StageOK, Past, Outside
    <2>6. CopiesHold'
      <3>1. \A e \in cycle.fresh :
              /\ e \in manifest.records
              /\ \E f \in files :
                    /\ f.id = e.file /\ f.of = e.name
                    /\ e.name \in DOMAIN stored' \ cycle.touched => f.holds = stored'[e.name]
        BY <1>1, <2>1 DEF ReclamationInv, CopiesHold, Past
      <3> QED BY <1>1, <2>3, <3>1 DEF CopiesHold, Past
    <2>7. NothingMissed'
      <3>1. \A d \in cycle.todo \ {c} : Spared(d) /\ d \in DOMAIN stored \ {c}
        BY <1>1 DEF ReclamationInv, NothingMissed, StageOK, Past
      <3>2. \A d \in cycle.todo \ {c} : Spared(d)'
        BY <2>1, <2>3, <3>1 DEF Spared, Copied
      <3> QED BY <2>3, <3>2 DEF NothingMissed, Past
    <2>8. CountsTell'
      BY <2>3 DEF CountsTell, Past
    <2> QED BY <1>2, <2>1, <2>4, <2>5, <2>6, <2>7, <2>8 DEF ReclamationInv, TypeOK
  <1> QED BY <1>1, <1>3, <1>4, <1>5

\* A collection is created or written: the cycle's history tells.
LEMMA WrittenKeeps ==
    ASSUME ReclamationInv, NEW c \in Collections, Wrote(c), NamespaceOK', Secured',
           UNCHANGED <<files, manifest>>,
           DOMAIN stored' = DOMAIN stored \cup {c},
           \A d \in DOMAIN stored \ {c} : stored'[d] = stored[d]
    PROVE  ReclamationInv'
  <1>1. cycle \in CycleState /\ IsFiniteSet(cycle.fresh)
    BY DEF ReclamationInv, TypeOK, CycleOK
  <1>2. ArchiveOK' /\ OneFilePerName'
    BY DEF ReclamationInv, TypeOK, ArchiveOK, OneFilePerName
  <1>3. CASE cycle.at \in Outside
    <2>1. cycle' = cycle
      BY <1>3 DEF Wrote, Outside
    <2>2. CycleOK'
      BY <1>1, <2>1 DEF CycleOK
    <2>3. StageOK'
      BY <1>3, <2>1 DEF ReclamationInv, StageOK, Past, Outside
    <2>4. cycle.fresh = {}
      BY <1>3 DEF ReclamationInv, StageOK, Past
    <2>5. CopiesHold' /\ NothingMissed' /\ CountsTell'
      BY <1>3, <2>1, <2>4 DEF CopiesHold, NothingMissed, CountsTell, Past, Outside
    <2> QED BY <1>2, <2>2, <2>3, <2>5 DEF ReclamationInv, TypeOK
  <1>4. CASE cycle.at \notin Outside
    <2>1. cycle' = [cycle EXCEPT !.touched = @ \cup {c}, !.late = @ \cup {c}]
      BY <1>4 DEF Wrote, Outside
    <2>2. /\ cycle'.at = cycle.at /\ cycle'.todo = cycle.todo /\ cycle'.pick = cycle.pick
          /\ cycle'.tier = cycle.tier /\ cycle'.target = cycle.target
          /\ cycle'.tally = cycle.tally /\ cycle'.fresh = cycle.fresh
          /\ cycle'.touched = cycle.touched \cup {c} /\ cycle'.late = cycle.late \cup {c}
          /\ cycle' \in CycleState
      BY <1>1, <2>1 DEF CycleState
    <2>3. CycleOK'
      BY <1>1, <2>2 DEF CycleOK
    <2>4. StageOK'
      BY <1>4, <2>2 DEF ReclamationInv, StageOK, Past, Outside
    <2>5. CopiesHold'
      <3> SUFFICES ASSUME NEW e \in cycle.fresh
                   PROVE  /\ Past({"archive", "copy", "publish"}) => e.name \in DOMAIN stored'
                          /\ Past({"tidy", "verify", "settle", "plan", "drop"})
                                => e \in manifest.records
                          /\ cycle.at # "forget" => \E f \in files :
                                /\ f.id = e.file /\ f.of = e.name
                                /\ e.name \in DOMAIN stored' \ (cycle.touched \cup {c})
                                      => f.holds = stored'[e.name]
        BY <2>2 DEF CopiesHold, Past
      <3> QED BY DEF ReclamationInv, CopiesHold
    <2>6. NothingMissed'
      <3>1. \A d \in DOMAIN stored : Spared(d) => Spared(d)'
        BY <2>2 DEF Spared, Copied
      <3>2. Spared(c)'
        BY <2>2 DEF Spared
      <3>3. cycle.at = "drop" => cycle.todo \subseteq DOMAIN stored
        BY DEF ReclamationInv, StageOK, Past
      <3>4. \A d : Copied(d)' <=> Copied(d)
        BY <2>2 DEF Copied
      <3> QED BY <2>2, <3>1, <3>2, <3>3, <3>4 DEF ReclamationInv, NothingMissed, Past
    <2>7. (Past({"recount", "settle"}) /\ Counted \cap cycle.late = {} =>
              cycle.tally = Cardinality(PointsIn(stored, Counted)))'
      <3> SUFFICES ASSUME Past({"recount", "settle"}), Counted' \cap cycle'.late = {}
                   PROVE  cycle.tally = Cardinality(PointsIn(stored', Counted'))
        BY <2>2 DEF Past
      <3>1. c \in cycle.todo /\ cycle.todo \subseteq DOMAIN stored
        BY <2>2 DEF Counted, ReclamationInv, StageOK, Past
      <3>2. Counted' = Counted /\ c \notin Counted /\ Counted \cap cycle.late = {}
        BY <2>2, <3>1 DEF Counted
      <3>3. PointsIn(stored', Counted) = PointsIn(stored, Counted)
        <4>1. \A d \in Counted : stored'[d] = stored[d]
          BY <3>2 DEF Counted
        <4> HIDE DEF Counted
        <4> QED BY <4>1, TotalStays
      <3> QED BY <3>2, <3>3 DEF ReclamationInv, CountsTell
    <2>8. (cycle.at = "recount" /\ cycle.tally = 0 =>
              \A d \in Counted \ cycle.touched : stored[d] = {})'
      BY <2>2 DEF ReclamationInv, CountsTell, Counted
    <2>9. CountsTell'
      <3>1. cycle'.late # {}
        BY <2>2
      <3> QED BY <2>7, <2>8, <3>1 DEF CountsTell
    <2> QED BY <1>2, <2>3, <2>4, <2>5, <2>6, <2>9 DEF ReclamationInv, TypeOK
  <1> QED BY <1>3, <1>4

LEMMA CreateKeeps ==
    ASSUME ReclamationInv, NEW c \in Collections, Create(c) PROVE ReclamationInv'
  <1>1. /\ c \notin DOMAIN stored /\ stored' = With(stored, c, {}) /\ Wrote(c)
        /\ owed' = Restrict(owed, DOMAIN owed \ {c}) /\ UNCHANGED <<files, manifest>>
    BY DEF Create, archiveVars
  <1>2. stored' = [d \in {c} \cup DOMAIN stored |-> IF d = c THEN {} ELSE stored[d]]
    BY <1>1 DEF With
  <1>3. owed' = [d \in DOMAIN owed \ {c} |-> owed[d]]
    BY <1>1 DEF Restrict
  <1>4. NamespaceOK'
    BY <1>2, <1>3 DEF ReclamationInv, TypeOK, NamespaceOK
  <1>5. Secured'
    <2>1. \A d \in DOMAIN owed' : /\ d \notin DOMAIN stored'
                                  /\ Recoverable(d, owed'[d])
      BY <1>2, <1>3 DEF ReclamationInv, Secured
    <2> QED BY <1>1, <2>1 DEF Secured, Recoverable
  <1>6. /\ DOMAIN stored' = DOMAIN stored \cup {c}
        /\ \A d \in DOMAIN stored \ {c} : stored'[d] = stored[d]
    BY <1>2
  <1> QED BY <1>1, <1>4, <1>5, <1>6, WrittenKeeps

LEMMA WriteKeeps ==
    ASSUME ReclamationInv, NEW c \in Collections, Write(c) PROVE ReclamationInv'
  <1>1. /\ c \in DOMAIN stored /\ Wrote(c) /\ UNCHANGED <<owed, files, manifest>>
        /\ \E points \in SUBSET Points : stored' = [stored EXCEPT ![c] = points]
    BY DEF Write, archiveVars
  <1>2. NamespaceOK'
    BY <1>1 DEF ReclamationInv, TypeOK, NamespaceOK
  <1>3. /\ DOMAIN stored' = DOMAIN stored \cup {c}
        /\ \A d \in DOMAIN stored \ {c} : stored'[d] = stored[d]
    BY <1>1 DEF ReclamationInv, TypeOK, NamespaceOK
  <1>4. Secured'
    BY <1>1, <1>3 DEF ReclamationInv, Secured, Recoverable
  <1> QED BY <1>1, <1>2, <1>3, <1>4, WrittenKeeps

----------------------------------------------------------------------------
(* The theorems.                                                              *)

LEMMA InitHolds == ASSUME ReclamationInit PROVE ReclamationInv
  <1>1. NamespaceOK
    <2>1. \E points \in {{}, Points} : stored = [c \in Collections |-> points]
      BY DEF ReclamationInit
    <2>2. DOMAIN owed = {} /\ owed \in [{} -> SUBSET Points]
      BY DEF ReclamationInit
    <2> QED BY <2>1, <2>2 DEF NamespaceOK
  <1>2. ArchiveOK
    BY FS_EmptySet DEF ReclamationInit, ArchiveOK, NoManifest
  <1>3. cycle \in CycleState /\ cycle.at = "rest" /\ cycle.fresh = {}
        /\ cycle.touched = {} /\ cycle.late = {} /\ cycle.target = 0
    BY DEF ReclamationInit, Rest, Never, CycleState, Stages
  <1>4. CycleOK
    BY <1>3, FS_EmptySet DEF CycleOK
  <1>5. OneFilePerName /\ Secured
    BY DEF ReclamationInit, OneFilePerName, Secured
  <1>6. StageOK /\ CopiesHold /\ NothingMissed /\ CountsTell
    BY <1>3 DEF StageOK, CopiesHold, NothingMissed, CountsTell, Past, Outside
  <1> QED BY <1>1, <1>2, <1>4, <1>5, <1>6 DEF ReclamationInv, TypeOK

\* The entry and its clocks.
LEMMA EntryStep ==
    ASSUME ReclamationInv, EntryOK, [ReclamationNext]_reclamationVars PROVE EntryOK'
  <1>1. cycle.tally \in Int
    BY DEF ReclamationInv, TypeOK, CycleOK, CycleState
  <1>2. Active \in Int /\ Never \in Int /\ NoEntry.orphaned \in Int
    BY DEF Active, Never, NoEntry
  <1>3. CASE BeginCycle
    <2>1. \A age \in Int : Older(age, LongestGrace) \in Int /\ Older(age, IdleWindow) \in Int
      BY DEF Older
    <2>2. UNCHANGED root
          /\ entry' = [entry EXCEPT !.orphaned = Older(@, LongestGrace),
                                    !.idle = Older(@, IdleWindow)]
      BY <1>3 DEF BeginCycle
    <2> QED BY <2>1, <2>2 DEF EntryOK
  <1>4. CASE StampOrphan
    BY <1>2, <1>4 DEF StampOrphan, EntryOK, OrphanClock
  <1>5. CASE Evaluate
    <2>1. PICK idle \in Int, observed \in Int :
              ActivityStamped = [entry EXCEPT !.idle = idle, !.observed = observed]
      <3> DEFINE idle == IF HeldStill THEN entry.idle ELSE Active
                 observed == IF temp /\ cycle.verified THEN cycle.tally ELSE Never
      <3>1. idle \in Int /\ observed \in Int
        BY <1>1, <1>2 DEF EntryOK
      <3>2. ActivityStamped = [entry EXCEPT !.idle = idle, !.observed = observed]
        BY DEF ActivityStamped
      <3> QED BY <3>1, <3>2
    <2>2. UNCHANGED root /\ (entry' = entry \/ entry' = ActivityStamped)
      BY <1>5 DEF Evaluate
    <2>3. ActivityStamped \in [known : BOOLEAN, orphaned : Int, idle : Int, observed : Int,
                               whole : BOOLEAN]
      BY <2>1 DEF EntryOK
    <2> QED BY <2>2, <2>3 DEF EntryOK
  <1>6. CASE Forget \/ Clobber
    <2>1. NoEntry \in [known : BOOLEAN, orphaned : Int, idle : Int, observed : Int,
                       whole : BOOLEAN]
      BY DEF NoEntry, Never
    <2>2. UNCHANGED root /\ entry' = NoEntry
      BY <1>6 DEF Forget, Clobber
    <2> QED BY <2>1, <2>2 DEF EntryOK
  <1>7. CASE \E c \in Collections : Drop(c)
    BY <1>7 DEF Drop, EntryOK
  <1>8. CASE \E c \in Collections : Create(c)
    BY <1>8 DEF Create, EntryOK
  <1>9. CASE Start \/ EndJob \/ RecordRoot
    BY <1>2, <1>9 DEF Start, EndJob, RecordRoot, Touch, NoEntry, EntryOK
  <1>10. CASE RootChanges
    BY <1>10 DEF RootChanges, namespaceVars, EntryOK
  <1>11. CASE UNCHANGED <<root, entry>>
    BY <1>11 DEF EntryOK
  <1>12. CASE \/ Classify \/ Probe \/ Recounted \/ Copy \/ Publish \/ Tidy \/ Settled \/ Plan
              \/ CycleFails \/ Sweep \/ Admit \/ Crash \/ UNCHANGED reclamationVars
              \/ (\E c \in Collections : Count(c) \/ CountForCopy(c) \/ Write(c))
              \/ (\E r \in cycle.todo : Verify(r))
    BY <1>11, <1>12
       DEF Classify, Probe, Recounted, Copy, Publish, Tidy, Settled, Plan, CycleFails, Sweep,
           Admit, Crash, Count, CountForCopy, Write, Verify, reclamationVars, namespaceVars
  <1> QED BY <1>3, <1>4, <1>5, <1>6, <1>7, <1>8, <1>9, <1>10, <1>12
          DEF ReclamationNext, CycleStep, JobStep

LEMMA NextKeeps ==
    ASSUME ReclamationInv, EntryOK, EntryOK', [ReclamationNext]_reclamationVars
    PROVE  ReclamationInv'
  <1>a. CASE Classify BY <1>a, ClassifyKeeps
  <1>b. CASE StampOrphan BY <1>b, StampOrphanKeeps
  <1>1. CASE BeginCycle BY <1>1, BeginCycleKeeps
  <1>2. CASE Evaluate BY <1>2, EvaluateKeeps
  <1>3. CASE Probe BY <1>3, ProbeKeeps
  <1>4. CASE Recounted BY <1>4, RecountedKeeps
  <1>5. CASE Copy BY <1>5, CopyKeeps
  <1>6. CASE Publish BY <1>6, PublishKeeps
  <1>7. CASE Tidy BY <1>7, TidyKeeps
  <1>8. CASE Settled BY <1>8, SettledKeeps
  <1>9. CASE Plan BY <1>9, PlanKeeps
  <1>10. CASE Forget
    BY <1>10, CycleStops DEF Forget, archiveVars
  <1>11. CASE CycleFails
    BY <1>11, CycleStops DEF CycleFails, archiveVars, namespaceVars
  <1>12. CASE Sweep BY <1>12, SweepKeeps
  <1>13. CASE \E c \in Collections : Count(c) \/ CountForCopy(c) \/ Drop(c)
    BY <1>13, CountKeeps, CountForCopyKeeps, DropKeeps
  <1>14. CASE \E r \in cycle.todo : Verify(r)
    BY <1>14, VerifyKeeps
  <1>15. CASE \E c \in Collections : Create(c) \/ Write(c)
    BY <1>15, CreateKeeps, WriteKeeps
  <1>16. CASE Crash
    BY <1>16, CycleStops DEF Crash, archiveVars, namespaceVars
  <1>17. CASE Start \/ EndJob \/ RootChanges \/ Admit \/ RecordRoot \/ Clobber
              \/ UNCHANGED reclamationVars
    <2>1. UNCHANGED <<stored, owed, files, manifest, cycle>>
      BY <1>17 DEF Start, EndJob, RootChanges, Admit, RecordRoot, Clobber,
                   reclamationVars, namespaceVars, archiveVars
    <2> QED BY <2>1, QuietSteps
  <1> QED BY <1>a, <1>b, <1>1, <1>2, <1>3, <1>4, <1>5, <1>6, <1>7, <1>8, <1>9, <1>10,
             <1>11, <1>12, <1>13, <1>14, <1>15, <1>16, <1>17
          DEF ReclamationNext, CycleStep, JobStep

\* The invariant of a reclamation, for every bound and window: what was destroyed
\* is archived (_record_archive, _drop_one), file names are used once, and the
\* counts of a cycle tell of every write they could have seen.
THEOREM ReclamationInvariant == ReclamationSpec => [](ReclamationInv /\ EntryOK)
  <1>1. ASSUME ReclamationInit PROVE EntryOK
    <2>1. Active \in Int /\ NoEntry \in [known : BOOLEAN, orphaned : Int, idle : Int,
                                         observed : Int, whole : BOOLEAN]
      BY DEF Active, NoEntry, Never
    <2>2. root = "live" /\ entry = [NoEntry EXCEPT !.known = TRUE, !.idle = Active]
      BY <1>1 DEF ReclamationInit
    <2> QED BY <2>1, <2>2 DEF EntryOK
  <1> QED BY InitHolds, <1>1, EntryStep, NextKeeps, PTL DEF ReclamationSpec

\* What maintenance destroyed is in the archive, named with the points it held,
\* until it is indexed anew or expires.
THEOREM DestroyedStaysRecoverable == ReclamationSpec => []DestroyedIsRecoverable
  <1>1. ReclamationInv => DestroyedIsRecoverable
    BY DEF ReclamationInv, Secured, Recoverable, DestroyedIsRecoverable
  <1> QED BY <1>1, ReclamationInvariant, PTL

=============================================================================
