-------------------------- MODULE StorageReclamation -------------------------
(***************************************************************************)
(* How the service reclaims the stored collections of a project whose root  *)
(* is gone, or of a throwaway project nobody indexes any more.  One          *)
(* namespace: the collections of one root, its entry in the storage manifest *)
(* with the two clocks, and its archive directory.  A maintenance cycle      *)
(* surveys, decides, passes the gates, copies what holds points, confirms    *)
(* that nothing moved, drops one collection after another, forgets the entry *)
(* and bounds the archive.  Meanwhile the root comes and goes, index jobs    *)
(* are admitted and write through a store that remembers what it ensured,    *)
(* calls fail and the process dies.  Time passes between cycles.             *)
(***************************************************************************)
EXTENDS Integers, FiniteSets, FiniteSetsExt, Functions

CONSTANTS
    Collections, Points,
    GraceEmpty, GraceData, GraceEphemeral,  \* windows of an orphan, in cycles
    IdleWindow,                             \* window of a live throwaway root
    MaxWrites, MaxJobs, MaxFaults           \* bounds

ASSUME ReclamationAssumption ==
    /\ {GraceEmpty, GraceData, GraceEphemeral, IdleWindow} \subseteq Nat \ {0}
    /\ {MaxWrites, MaxJobs, MaxFaults} \subseteq Nat
    /\ IsFiniteSet(Collections) /\ IsFiniteSet(Points)

VARIABLES
    root,      \* "live" or "gone"
    temp,      \* whether the root is under a temporary directory
    stored,    \* the collections there are, each with its points
    entry,     \* the manifest entry: clocks as ages in cycles, -1 for no stamp
    files,     \* snapshots in the archive directory
    manifest,  \* the archive's manifest: collection records, each naming a file
    cycle,     \* the maintenance cycle in progress
    job,       \* the index job of this root in the job registry
    ensured,   \* the collections its run has ensured
    bounds,    \* writes, jobs and faults so far
    owed       \* history: what was destroyed, by collection, and not since
               \* created anew or expired

namespaceVars == <<stored, entry, owed>>
archiveVars == <<files, manifest>>
indexVars == <<job, ensured>>
reclamationVars == <<root, temp, namespaceVars, archiveVars, cycle, indexVars, bounds>>

Never == -1
NoEntry == [known |-> FALSE, orphaned |-> Never, idle |-> Never, observed |-> Never,
            whole |-> TRUE]
NoManifest == [known |-> FALSE, records |-> {}]

\* The last two are history: the collections written since the cycle's probe, and
\* those written since they were last counted.
Rest == [at |-> "rest", todo |-> {}, tally |-> 0, verified |-> TRUE, status |-> "unknown",
         stamp |-> Never, tier |-> "empty", target |-> 0, pick |-> "none", fresh |-> {},
         touched |-> {}, late |-> {}]
Over == [Rest EXCEPT !.at = "sweep"]

Active == IF temp THEN 0 ELSE Never

PointsIn(namespace, names) == UNION {{c} \X namespace[c] : c \in names}
TotalOf(namespace) == Cardinality(PointsIn(namespace, DOMAIN namespace))
LongestGrace == IF temp THEN GraceEphemeral ELSE Max({GraceEmpty, GraceData})
With(namespace, c, points) ==
    [d \in DOMAIN namespace \cup {c} |-> IF d = c THEN points ELSE namespace[d]]
Older(age, window) == IF age \in 0 .. window - 1 THEN age + 1 ELSE age

Fault == bounds.faults < MaxFaults /\ bounds' = [bounds EXCEPT !.faults = @ + 1]

----------------------------------------------------------------------------
(* The survey and its decision.                                              *)

\* A cycle begins with the list of collections; without any, there is no
\* namespace to decide about.  A list that cannot be read ends the cycle.
BeginCycle ==
    /\ cycle.at = "rest"
    /\ entry' = [entry EXCEPT !.orphaned = Older(@, LongestGrace),
                              !.idle = Older(@, IdleWindow)]
    /\ \/ cycle' = (IF stored = <<>> THEN Over
                    ELSE [Rest EXCEPT !.at = "survey", !.todo = DOMAIN stored])
          /\ UNCHANGED bounds
       \/ Fault /\ UNCHANGED cycle
    /\ UNCHANGED <<root, temp, stored, owed, archiveVars, indexVars>>

\* Collections are counted one after another, by the survey and by both recounts.
\* A count that fails leaves the survey unverified and ends a recount.
Count(c) ==
    /\ cycle.at \in {"survey", "recount", "settle"} /\ c \in cycle.todo
    /\ \/ /\ cycle' = [cycle EXCEPT !.todo = @ \ {c}, !.late = @ \ {c},
                                    !.tally = @ + Cardinality(stored[c])]
          /\ UNCHANGED bounds
       \/ /\ Fault
          /\ cycle' = IF cycle.at = "survey"
                      THEN [cycle EXCEPT !.todo = @ \ {c}, !.verified = FALSE]
                      ELSE Over
    /\ UNCHANGED <<root, temp, namespaceVars, archiveVars, indexVars>>

\* Faulty variant: the clock starts over at every survey.
RestartedClock(age, status) == IF status = "gone" THEN 0 ELSE Never

\* The grace clock starts when the root is first seen gone, and any other
\* reading clears it.
OrphanClock(age, status) ==
    IF status # "gone" THEN Never ELSE IF age = Never THEN 0 ELSE age

\* The survey classifies what it counted by the entry there is then.  A root whose
\* drive or share cannot be reached is neither live nor gone.
Classify ==
    /\ cycle.at = "survey" /\ cycle.todo = {}
    /\ \E status \in IF entry.known THEN {root, "unverifiable"} ELSE {"unknown"} :
        /\ cycle' = [cycle EXCEPT !.at = "classified", !.status = status]
        /\ IF status = "unverifiable" THEN Fault ELSE UNCHANGED bounds
    /\ UNCHANGED <<root, temp, namespaceVars, archiveVars, indexVars>>

\* update_orphan_stamps, on the entry there is by now; the cycle goes on with the
\* stamp it returns.
StampOrphan ==
    /\ cycle.at = "classified"
    /\ entry' = IF entry.known
                THEN [entry EXCEPT !.orphaned = OrphanClock(@, cycle.status)] ELSE entry
    /\ cycle' = [cycle EXCEPT !.at = "stamped", !.stamp = entry'.orphaned]
    /\ UNCHANGED <<root, temp, stored, owed, archiveVars, indexVars, bounds>>

\* The idle clock goes on only when this survey counted what the last one did.
\* It is kept for throwaway roots, the only ones for which it is read.
HeldStill ==
    /\ cycle.verified /\ entry.observed # Never
    /\ cycle.tally = entry.observed /\ cycle.status # "unverifiable"

ActivityStamped ==
    [entry EXCEPT !.idle = IF HeldStill THEN @ ELSE Active,
                  !.observed = IF temp /\ cycle.verified THEN cycle.tally ELSE Never]

TierOf(points) == IF points = 0 THEN "empty" ELSE "data"

Window(tier) == IF temp THEN GraceEphemeral
                ELSE IF tier = "empty" THEN GraceEmpty ELSE GraceData

\* An orphan whose window has passed, or a live throwaway root that held still.
Eligible(idle) ==
    /\ cycle.verified
    /\ \/ cycle.status = "gone" /\ cycle.stamp >= Window(TierOf(cycle.tally))
       \/ cycle.status = "live" /\ temp /\ idle >= IdleWindow

\* update_activity_stamps, on the entry there is by then, and the decision on what
\* the two returned.
Evaluate ==
    /\ cycle.at = "stamped"
    /\ entry' = IF entry.known THEN ActivityStamped ELSE entry
    /\ cycle' = IF Eligible(entry'.idle)
                THEN [Rest EXCEPT !.at = "probe", !.tier = TierOf(cycle.tally),
                                  !.target = cycle.tally]
                ELSE Over
    /\ UNCHANGED <<root, temp, stored, owed, archiveVars, indexVars, bounds>>

----------------------------------------------------------------------------
(* The gates and the archive.                                                *)

\* Liveness first: any unfinished index job of the root holds the namespace.
Probe ==
    /\ cycle.at = "probe"
    /\ cycle' = IF job = "none"
                THEN [cycle EXCEPT !.at = "recount", !.todo = DOMAIN stored] ELSE Over
    /\ UNCHANGED <<root, temp, namespaceVars, archiveVars, indexVars, bounds>>

\* A recount must agree with the survey.
Agrees == cycle.tally = cycle.target

\* The empty tier drops at once; the other archives first, which an entry that
\* is gone from the manifest refuses.
Recounted ==
    /\ cycle.at = "recount" /\ cycle.todo = {}
    /\ cycle' = IF ~Agrees \/ (cycle.tier = "data" /\ ~entry.known) THEN Over
                ELSE IF cycle.tier = "empty" THEN [cycle EXCEPT !.at = "plan"]
                ELSE [cycle EXCEPT !.at = "archive", !.todo = DOMAIN stored]
    /\ UNCHANGED <<root, temp, namespaceVars, archiveVars, indexVars, bounds>>

\* A collection is counted, then copied.
CountForCopy(c) ==
    /\ cycle.at = "archive" /\ c \in cycle.todo
    /\ cycle' = [cycle EXCEPT !.at = "copy", !.pick = c, !.late = @ \ {c},
                              !.tally = Cardinality(stored[c])]
    /\ UNCHANGED <<root, temp, namespaceVars, archiveVars, indexVars, bounds>>

\* The copy is moved into the archive directory under a name of its own.
Copy ==
    LET used == {f.id : f \in files} \cup {r.file : r \in manifest.records}
        id == CHOOSE i \in 1 .. Cardinality(used) + 1 : i \notin used
    IN
    /\ cycle.at = "copy"
    /\ files' = files \cup {[id |-> id, of |-> cycle.pick, holds |-> stored[cycle.pick]]}
    /\ cycle' = [cycle EXCEPT
                    !.at = IF cycle.todo = {cycle.pick} THEN "publish" ELSE "archive",
                    !.todo = @ \ {cycle.pick}, !.pick = "none", !.tally = 0,
                    !.fresh = @ \cup {[name |-> cycle.pick, file |-> id, points |-> cycle.tally]}]
    /\ UNCHANGED <<root, temp, namespaceVars, manifest, indexVars, bounds>>

Named(records) == {r.file : r \in records}
Ids == {f.id : f \in files}

\* Faulty variant: an attempt's manifest names its own copies alone.
NothingCarried == {}

\* What an earlier attempt archived and this one must keep naming.
Carried == {r \in manifest.records :
               /\ r.file \notin Named(cycle.fresh) /\ r.file \in Ids
               /\ r.name \notin {f.name : f \in cycle.fresh}}

Publish ==
    /\ cycle.at = "publish"
    /\ manifest' = [known |-> TRUE, records |-> cycle.fresh \cup Carried]
    /\ cycle' = [cycle EXCEPT !.at = "tidy"]
    /\ UNCHANGED <<root, temp, namespaceVars, files, indexVars, bounds>>

\* Snapshots no record names are removed, or the archive fails.
Tidy ==
    LET named == {f \in files : f.id \in Named(manifest.records)} IN
    /\ cycle.at = "tidy"
    /\ \/ files' = named /\ UNCHANGED bounds
          /\ cycle' = [cycle EXCEPT !.at = "verify", !.todo = manifest.records]
       \/ Fault /\ cycle' = Over
          /\ \E left \in SUBSET (files \ named) : left # {} /\ files' = named \cup left
    /\ UNCHANGED <<root, temp, namespaceVars, manifest, indexVars>>

\* Every record's file is there, and what this attempt copied still counts the same.
RecordStands(r) ==
    /\ r.file \in Ids
    /\ r \in cycle.fresh => r.name \in DOMAIN stored /\ Cardinality(stored[r.name]) = r.points

Verify(r) ==
    /\ cycle.at = "verify" /\ r \in cycle.todo
    /\ cycle' = IF ~RecordStands(r) THEN Over
                ELSE [cycle EXCEPT
                        !.at = IF cycle.todo = {r} THEN "settle" ELSE "verify",
                        !.todo = IF cycle.todo = {r} THEN DOMAIN stored ELSE @ \ {r},
                        !.late = IF r \in cycle.fresh THEN @ \ {r.name} ELSE @]
    /\ UNCHANGED <<root, temp, namespaceVars, archiveVars, indexVars, bounds>>

\* Nothing moved across the copy.
Settled ==
    /\ cycle.at = "settle" /\ cycle.todo = {}
    /\ cycle' = IF Agrees THEN [cycle EXCEPT !.at = "plan"] ELSE Over
    /\ UNCHANGED <<root, temp, namespaceVars, archiveVars, indexVars, bounds>>

----------------------------------------------------------------------------
(* The drop, and the archive's bounds.                                       *)

\* The targets are listed again, and an unattributed namespace is refused.  The
\* history excuses what was written since the probe, unless a count was to tell.
Plan ==
    /\ cycle.at = "plan"
    /\ cycle' = IF ~entry.known THEN Over
                ELSE [cycle EXCEPT
                        !.at = "drop", !.todo = DOMAIN stored,
                        !.touched = IF cycle.late = {} /\ TotalOf(stored) # cycle.target
                                    THEN {} ELSE @]
    /\ UNCHANGED <<root, temp, namespaceVars, archiveVars, indexVars, bounds>>

Destroy(c) ==
    /\ stored' = Restrict(stored, DOMAIN stored \ {c})
    /\ owed' = IF stored[c] = {} \/ c \in cycle.touched THEN owed ELSE With(owed, c, stored[c])

\* One collection at a time.  A drop that fails may have destroyed this one too;
\* the entry then stands, no longer naming those known to be destroyed.
Drop(c) ==
    /\ cycle.at = "drop" /\ c \in cycle.todo
    /\ \/ /\ Destroy(c) /\ UNCHANGED <<entry, bounds>>
          /\ cycle' = [cycle EXCEPT !.todo = @ \ {c}, !.pick = "some",
                                    !.at = IF cycle.todo = {c} THEN "forget" ELSE "drop"]
       \/ /\ Fault /\ cycle' = Over
          /\ Destroy(c) \/ UNCHANGED <<stored, owed>>
          /\ entry' = [entry EXCEPT !.whole = @ /\ (entry.known => cycle.pick = "none")]
    /\ UNCHANGED <<root, temp, archiveVars, indexVars>>

\* remove_prefix.
Forget ==
    /\ cycle.at = "forget"
    /\ entry' = NoEntry /\ cycle' = Over
    /\ UNCHANGED <<root, temp, stored, owed, archiveVars, indexVars, bounds>>

\* A call that fails ends the namespace's turn, whatever it has written so far; a
\* clock that cannot be written ends the whole cycle.
CycleFails ==
    /\ \/ /\ cycle.at \in {"classified", "stamped"} /\ cycle' = Rest
       \/ /\ cycle.at \in {"probe", "archive", "copy", "publish", "verify", "settle",
                           "plan", "forget"}
          /\ cycle' = Over
    /\ Fault
    /\ UNCHANGED <<root, temp, namespaceVars, archiveVars, indexVars>>

\* A complete archive past its retention, or over the cap on bytes, is removed,
\* perhaps not entirely; what it held has expired.
Sweep ==
    /\ cycle.at = "sweep" /\ cycle' = Rest
    /\ \/ UNCHANGED <<archiveVars, owed, bounds>>
       \/ /\ manifest.known /\ owed' = <<>>
          /\ \/ files' = {} /\ manifest' = NoManifest /\ UNCHANGED bounds
             \/ /\ Fault /\ files' \in SUBSET files /\ manifest' \in {manifest, NoManifest}
                /\ <<files', manifest'>> # <<{}, NoManifest>>
    /\ UNCHANGED <<root, temp, stored, entry, indexVars>>

----------------------------------------------------------------------------
(* The root, its index jobs and its store.                                   *)

RootChanges ==
    /\ root' = IF root = "live" THEN "gone" ELSE "live"
    /\ UNCHANGED <<temp, namespaceVars, archiveVars, cycle, indexVars, bounds>>

\* record_root with a stamp, at a run's start and its end; best effort.
Touch ==
    \/ /\ entry' = [NoEntry EXCEPT !.known = TRUE, !.idle = Active, !.observed = entry.observed]
       /\ UNCHANGED bounds
    \/ Fault /\ UNCHANGED entry

Admit ==
    /\ job = "none" /\ root = "live" /\ bounds.jobs < MaxJobs
    /\ job' = "queued" /\ bounds' = [bounds EXCEPT !.jobs = @ + 1]
    /\ UNCHANGED <<root, temp, namespaceVars, archiveVars, cycle, ensured>>

\* The run's store ensures the collections there are; it does so once, and does
\* not create again what goes away later.
Start ==
    /\ job = "queued" /\ job' = "running" /\ ensured' = DOMAIN stored /\ Touch
    /\ UNCHANGED <<root, temp, stored, owed, archiveVars, cycle>>

\* A store opened for a run or a reader records its root; a root recorded as it
\* is stays untouched.
RecordRoot ==
    /\ job = "running" \/ root = "live"
    /\ ~(entry.known /\ entry.whole)
    /\ entry' = [NoEntry EXCEPT !.known = TRUE, !.observed = entry.observed]
    /\ UNCHANGED <<root, temp, stored, owed, archiveVars, cycle, indexVars, bounds>>

\* The history of a cycle past its probe.
Wrote(c) == cycle' = IF cycle.at \in {"rest", "survey", "classified", "stamped", "probe",
                                      "sweep"} THEN cycle
                     ELSE [cycle EXCEPT !.touched = @ \cup {c}, !.late = @ \cup {c}]

Create(c) ==
    /\ job = "running" /\ c \notin ensured \cup DOMAIN stored
    /\ ensured' = ensured \cup {c} /\ stored' = With(stored, c, {})
    /\ entry' = [entry EXCEPT !.known = TRUE, !.whole = TRUE]
    /\ owed' = Restrict(owed, DOMAIN owed \ {c})
    /\ Wrote(c)
    /\ UNCHANGED <<root, temp, archiveVars, job, bounds>>

\* Points are added, removed or replaced; in a collection that is gone nothing is.
Write(c) ==
    /\ job = "running" /\ c \in ensured \cap DOMAIN stored
    /\ bounds.writes < MaxWrites /\ bounds' = [bounds EXCEPT !.writes = @ + 1]
    /\ \E points \in SUBSET Points \ {stored[c]} : stored' = [stored EXCEPT ![c] = points]
    /\ Wrote(c)
    /\ UNCHANGED <<root, temp, entry, owed, archiveVars, indexVars>>

\* A run completes and stamps its root, or fails.
EndJob ==
    /\ job # "none" /\ job' = "none" /\ ensured' = {}
    /\ \/ job = "running" /\ Touch
       \/ UNCHANGED <<entry, bounds>>
    /\ UNCHANGED <<root, temp, stored, owed, archiveVars, cycle>>

\* A manifest read in vain is taken for an empty one, and another root's record
\* then replaces it; this namespace is unknown from then on.
Clobber ==
    /\ entry.known /\ entry' = NoEntry /\ Fault
    /\ UNCHANGED <<root, temp, stored, owed, archiveVars, cycle, indexVars>>

\* The service dies and starts again.
Crash ==
    /\ Fault /\ cycle' = Rest /\ job' = "none" /\ ensured' = {}
    /\ UNCHANGED <<root, temp, namespaceVars, archiveVars>>

----------------------------------------------------------------------------

\* A namespace that a completed run left behind, its first survey still to come.
ReclamationInit ==
    /\ root = "live" /\ temp \in BOOLEAN
    /\ \E points \in {{}, Points} : stored = [c \in Collections |-> points]
    /\ entry = [NoEntry EXCEPT !.known = TRUE, !.idle = Active]
    /\ files = {} /\ manifest = NoManifest
    /\ cycle = Rest /\ job = "none" /\ ensured = {}
    /\ bounds = [writes |-> 0, jobs |-> 0, faults |-> 0]
    /\ owed = <<>>

CycleStep ==
    \/ BeginCycle \/ Classify \/ StampOrphan \/ Evaluate \/ Probe \/ Recounted
    \/ Copy \/ Publish \/ Tidy \/ Settled \/ Plan \/ Forget \/ CycleFails \/ Sweep
    \/ \E c \in Collections : Count(c) \/ CountForCopy(c) \/ Drop(c)
    \/ \E r \in cycle.todo : Verify(r)

JobStep ==
    \/ Start \/ EndJob
    \/ \E c \in Collections : Create(c) \/ Write(c)

ReclamationNext ==
    \/ CycleStep \/ JobStep \/ RootChanges \/ Admit \/ RecordRoot \/ Clobber \/ Crash

ReclamationSpec == ReclamationInit /\ [][ReclamationNext]_reclamationVars

\* The maintenance loop ticks whatever a cycle came to, and a job that was
\* admitted comes to its end.
ReclamationFairness ==
    WF_reclamationVars(CycleStep) /\ WF_reclamationVars(EndJob)

FairReclamationSpec == ReclamationSpec /\ ReclamationFairness

----------------------------------------------------------------------------

\* What maintenance destroyed is in the archive, named by its manifest with the
\* points it held, until it is indexed anew or expires: through drops that stop
\* half way and are retried, attempts that leave copies behind, half-removed
\* archives and crashes.  Excepted is what was written after the liveness probe
\* where no count tells: after the last one, or with the totals back in the end
\* at what the survey counted.
DestroyedIsRecoverable ==
    \A c \in DOMAIN owed : \E r \in manifest.records, f \in files :
        r.name = c /\ r.file = f.id /\ f.of = c /\ f.holds = owed[c]

\* A namespace whose root is gone is dropped in the end, unless the root returns
\* or its entry, without which nothing may be destroyed, is lost.
DanglingIsReclaimed ==
    (root = "gone" /\ stored # <<>> /\ entry.known)
        ~> (root # "gone" \/ stored = <<>> \/ ~entry.known)

=============================================================================
