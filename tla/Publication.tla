----------------------------- MODULE Publication -----------------------------
(***************************************************************************)
(* How an incremental code index changes storage and the proof readers     *)
(* trust.  The proof says, per file, which content is published and which  *)
(* points back it.  A run may touch storage only under an open receipt,    *)
(* which records each mutation before, after and once confirmed; while it  *)
(* is open no reader is served.  The run's generation keeps the confirmed  *)
(* units and each file's outcome.  Sealing freezes the difference from the *)
(* proof; committing replaces the proof and closes the receipt.            *)
(* The process may die and the run may fail between any two steps, and     *)
(* files change at any time.  The next run first settles what the last one *)
(* left: it finishes complete recorded work without reading any file, or   *)
(* removes every point of the touched files and reads them again under the *)
(* same receipt (a replay) before it starts its own work.                  *)
(***************************************************************************)
EXTENDS Naturals, FiniteSets, SequencesExt

CONSTANTS
    Paths, Contents,
    Stream,             \* content -> the sequence of chunks it is cut into
    None,               \* no content, no evidence, no outcome
    MaxResumeFailures,  \* failed attempts after which a generation is retired
    MaxEdits,           \* bound: changes of files
    MaxFaults           \* bound: failures, crashes and unreadable files

ASSUME PublicationAssumption ==
    /\ Stream \in [Contents -> Seq(Nat)] /\ None \notin Contents
    /\ \A c \in Contents : ToSet(Stream[c]) \subseteq Nat
    /\ {MaxResumeFailures, MaxEdits, MaxFaults} \subseteq Nat
    /\ IsFiniteSet(Paths)

\* A chunk's identifier holds its place in the file, also where its text repeats.
ASSUME ChunkAssumption ==
    \A c \in Contents : \A i, j \in 1 .. Len(Stream[c]) : Stream[c][i] = Stream[c][j] => i = j

\* An outcome is told from what a file holds.
ASSUME OutcomeAssumption == "failed" \notin Contents \cup {None}

VARIABLES
    source,   \* what each file holds, None when there is no file
    storage,  \* the points in the collection
    proof,    \* path -> None or what is published of it
    receipt,  \* its state and its mutations
    gen,      \* the generation of the last unfinished run
    units,    \* that generation's storage-confirmed units
    states,   \* that generation's file outcomes
    marks,    \* that generation's tombstones; one without a deletion marks a replay
    run,      \* the run in progress
    edits, faults,
    gaps      \* the situations met that the code has no complete answer to

publicationVars == <<source, storage, proof, receipt, gen, units, states, marks, run,
                     edits, faults, gaps>>
ledger == <<receipt, gen, units, states, marks>>

NoReceipt == [state |-> "none", muts |-> {}]
NoGen == [state |-> "none", phase |-> "ingesting", failures |-> 0]
Nothing == [p \in Paths |-> None]
Idle(outcome) == [pc |-> "idle", mode |-> outcome, stage |-> "none", hit |-> FALSE,
                  replay |-> {}, seen |-> Nothing, todo |-> {}, attempted |-> {}, dels |-> {},
                  existing |-> {}, queue |-> <<>>]

----------------------------------------------------------------------------
(* Points, units, and what a receipt's mutations say.                        *)

Chunks == UNION {ToSet(Stream[c]) : c \in Contents}
ASSUME NoneAssumption ==
    \A c \in Contents, points \in SUBSET (Paths \X Chunks) : None # [digest |-> c, points |-> points]

Point(p, k) == <<p, k>>
PointsOf(p, c) == {Point(p, k) : k \in ToSet(Stream[c])}
Of(points, paths) == {x \in points : x[1] \in paths}

Upsert(p, c, i) == [kind |-> "upsert", path |-> p, digest |-> c, seg |-> i,
                    points |-> {Point(p, Stream[c][i])}]
Segments(p, c) == [i \in 1..Len(Stream[c]) |-> Upsert(p, c, i)]
Deletion(p, kind, points) == [kind |-> kind, path |-> p, digest |-> None, seg |-> 1,
                              points |-> points]

Published(p) == IF proof[p] = None THEN {} ELSE proof[p].points
Retained == UNION {Published(p) : p \in Paths}

Upserts(us, p) == {u \in us : u.kind = "upsert" /\ u.path = p}
UnitPoints(us) == UNION {u.points : u \in us}
Recorded == {m.unit : m \in receipt.muts}
Touched == {u.path : u \in Recorded}
NewEvidence(p) ==
    LET ups == Upserts(Recorded, p)
    IN  IF ups = {} THEN None
        ELSE [digest |-> (CHOOSE u \in ups : TRUE).digest, points |-> UnitPoints(ups)]
Changed == {p \in Touched : NewEvidence(p) # proof[p]}
CompleteStream(p) ==
    NewEvidence(p) # None => Upserts(Recorded, p) = ToSet(Segments(p, NewEvidence(p).digest))

\* The one deletion a changed path's receipt must carry, if any.
ExpectedDeletion(p) ==
    LET rest == Published(p) \ UnitPoints(Upserts(Recorded, p))
    IN  CASE proof[p] = None -> {}
          [] proof[p] # None /\ NewEvidence(p) = None -> {Deletion(p, "path", Published(p))}
          [] proof[p] # None /\ NewEvidence(p) # None ->
                 IF rest = {} THEN {} ELSE {Deletion(p, "stale", rest)}

\* A file went back, between scan and read, to what is published: its mutations change nothing.
Reverted == IF Touched = Changed THEN {} ELSE {"reverted"}

\* What sealing asks of a receipt: exactly the changed paths' complete streams and deletions.
Covers(us) ==
    /\ \A p \in Changed : CompleteStream(p)
    /\ us = UNION {Upserts(us, p) \cup ExpectedDeletion(p) : p \in Changed}

Confirmed == \A m \in receipt.muts : m.st = "confirmed"
OpenReceipt == receipt.state \in {"reserved", "sealed"}
Deleted(p) == \E u \in units : u.kind = "path" /\ u.path = p
ReplayMarks == {p \in marks : ~Deleted(p)}

----------------------------------------------------------------------------
Evidence(p, c) == IF c = None \/ PointsOf(p, c) = {} THEN None
                  ELSE [digest |-> c, points |-> PointsOf(p, c)]

\* A full build has published the tree as it was.
PublicationInit ==
    /\ source \in [Paths -> Contents \cup {None}]
    /\ proof = [p \in Paths |-> Evidence(p, source[p])] /\ storage = Retained
    /\ receipt = NoReceipt /\ gen = NoGen /\ units = {} /\ states = Nothing /\ marks = {}
    /\ run = Idle("none") /\ edits = 0 /\ faults = 0 /\ gaps = {}

\* An editor writes, creates or removes a file, whatever the indexer is doing.
Edit(p) ==
    /\ edits < MaxEdits
    /\ \E c \in (Contents \cup {None}) \ {source[p]} : source' = [source EXCEPT ![p] = c]
    /\ edits' = edits + 1
    /\ UNCHANGED <<storage, proof, ledger, run, faults, gaps>>

Goto(pc) == run' = [run EXCEPT !.pc = pc]
Same == UNCHANGED <<source, edits, faults, gaps>>
Met(kinds) == gaps' = gaps \cup kinds /\ UNCHANGED <<source, edits>>

\* Inside the checkpoint's context an exception ends the generation FAILED.
InContext == run.mode \in {"index", "replay"} /\ run.pc \notin {"check", "open"}

\* The step raises: while files are streamed the points the run introduced are discarded
\* first, and outside the context the generation is left as it is.
Unwind(hit) ==
    run' = IF InContext
           THEN [run EXCEPT !.pc = IF run.stage = "stream" THEN "discard" ELSE "classify",
                            !.hit = @ \/ hit]
           ELSE Idle(IF run.hit \/ hit THEN "hit" ELSE "failed")
Raise(kinds) == Unwind(FALSE) /\ Met(kinds) /\ UNCHANGED faults

Start ==
    /\ run.pc = "idle"
    /\ run' = [Idle("recover") EXCEPT !.pc = "recover"]
    /\ Same /\ UNCHANGED <<storage, proof, ledger>>

\* Settled: the run goes on with its own work, or the replay ends and its caller does.
Check == run' = [Idle("index") EXCEPT !.pc = "check", !.hit = run.hit]
NewGeneration == /\ gen' = NoGen /\ receipt' = NoReceipt
                 /\ units' = {} /\ states' = Nothing /\ marks' = {}

----------------------------------------------------------------------------
(* Settling what the last run left.                                          *)

Pending == run.pc = "recover" /\ receipt.state \in {"reserved", "sealed", "committed"}
RecoveryPaths == Touched \cup ReplayMarks

\* Repairing the receipt's paths cannot replace missing points of the others.
Backed == Cardinality(storage)
            >= Cardinality(Retained) - Cardinality(Of(Retained, RecoveryPaths))

SettleNothing ==
    /\ run.pc = "recover" /\ ~Pending
    /\ Check /\ Same /\ UNCHANGED <<storage, proof, ledger>>

RefuseRecovery ==
    /\ Pending /\ ~Backed
    /\ Raise({}) /\ UNCHANGED <<storage, proof, ledger>>

Settling == Pending /\ Backed
Resumed == [gen EXCEPT !.state = "running", !.failures = 0]

SettleCommitted ==
    /\ Settling /\ receipt.state = "committed"
    /\ gen' = Resumed /\ Goto("finish")
    /\ Same /\ UNCHANGED <<storage, proof, receipt, units, states, marks>>

NothingDone == receipt.muts = {} /\ ReplayMarks = {} /\ units = {}

\* The reservation touched no storage: it rolls back, and only a RUNNING generation goes
\* with it; a FAILED one stays to be resumed.
SettleEmpty ==
    /\ Settling /\ OpenReceipt /\ NothingDone
    /\ IF gen.state = "running" THEN NewGeneration
       ELSE /\ receipt' = [receipt EXCEPT !.state = "rolledback"]
            /\ UNCHANGED <<gen, units, states, marks>>
    /\ Check /\ Same /\ UNCHANGED <<storage, proof>>

\* Every recorded file stream is complete and stored: source bytes are not needed.
Finishable ==
    /\ ReplayMarks = {} /\ Changed # {}
    /\ \A m \in receipt.muts : m.unit.kind = "upsert" => m.st # "prepared"
    /\ \A p \in Changed : CompleteStream(p)

SettleForward ==
    /\ Settling /\ OpenReceipt /\ ~NothingDone /\ Finishable
    /\ gen' = Resumed
    /\ LET deletions == SetToSeq(UNION {ExpectedDeletion(p) : p \in Changed})
       IN  run' = [run EXCEPT !.stage = "forward", !.queue = deletions,
                              !.pc = IF deletions = <<>> THEN "forward" ELSE "prepare"]
    /\ Same /\ UNCHANGED <<storage, proof, receipt, units, states, marks>>

\* The expected deletions are confirmed: confirm what was applied, and seal.
SealForward ==
    /\ run.pc = "forward"
    /\ LET confirmed == {[m EXCEPT !.st = IF @ = "applied" THEN "confirmed" ELSE @] : m \in receipt.muts}
           sealed == receipt.state = "sealed" \/ Covers(Recorded)
       IN  /\ receipt' = [state |-> IF sealed THEN "sealed" ELSE receipt.state, muts |-> confirmed]
           /\ IF sealed THEN Goto("outcomes") /\ Same ELSE Raise(Reverted)
    /\ UNCHANGED <<storage, proof, gen, units, states, marks>>

\* Replay the confirmed mutations into the generation.
RecordOutcomes ==
    /\ run.pc = "outcomes"
    /\ IF gen.phase = "ingesting" THEN
         LET removed == {u.path : u \in {v \in Recorded : v.kind = "path"}}
             written == {u.path : u \in {v \in Recorded : v.kind = "upsert"}}
         IN  /\ units' = units \cup Recorded
             /\ states' = [p \in Paths |-> IF p \in written THEN NewEvidence(p).digest
                                           ELSE IF p \in removed THEN None ELSE states[p]]
             /\ marks' = (marks \ written) \cup removed
             /\ Goto("advance") /\ Same
       ELSE /\ IF Recorded \subseteq units THEN Goto("advance") /\ Same ELSE Raise({})
            /\ UNCHANGED <<units, states, marks>>
    /\ UNCHANGED <<storage, proof, receipt, gen>>

\* Anything less is removed and read again; the markers keep that decision.
SettleReplay ==
    /\ Settling /\ OpenReceipt /\ ~NothingDone /\ ~Finishable
    /\ gen' = Resumed /\ marks' = marks \cup RecoveryPaths
    /\ run' = [run EXCEPT !.pc = "reset", !.replay = RecoveryPaths]
    /\ Same /\ UNCHANGED <<storage, proof, receipt, units, states>>

\* Faulty variant: what the receipt wrote is left in storage.
ResetPublished ==
    /\ run.pc = "reset"
    /\ storage' = storage \ Of(Retained, run.replay)
    /\ Goto("reopen") /\ Same /\ UNCHANGED <<proof, ledger>>

ResetStorage ==
    /\ run.pc = "reset"
    /\ storage' = storage \ (UnitPoints(Recorded) \cup Of(Retained, run.replay))
    /\ Goto("reopen") /\ Same /\ UNCHANGED <<proof, ledger>>

\* Faulty variant: the units of the files to replay are kept.
ReopenReceiptOnly ==
    /\ run.pc = "reopen"
    /\ receipt' = [state |-> "reserved", muts |-> {}]
    /\ marks' = marks \cup run.replay
    /\ run' = [run EXCEPT !.pc = "check", !.mode = "replay"]
    /\ Same /\ UNCHANGED <<storage, proof, gen, units, states>>

Reopen ==
    /\ run.pc = "reopen"
    /\ receipt' = [state |-> "reserved", muts |-> {}]
    /\ units' = {u \in units : u.path \notin run.replay}
    /\ states' = [p \in Paths |-> IF p \in run.replay THEN None ELSE states[p]]
    /\ marks' = marks \cup run.replay
    /\ run' = [run EXCEPT !.pc = "check", !.mode = "replay"]
    /\ Same /\ UNCHANGED <<storage, proof, gen>>

----------------------------------------------------------------------------
(* The run's own work, or a replay's.                                        *)

\* Storage holds fewer points than the proof claims: only a rebuild can help.
EvidenceLost == run.mode = "index" /\ Cardinality(storage) < Cardinality(Retained)

\* The scan finds the tree as it is, but for files it cannot stat or hash: those
\* are skipped, and an indexed one then counts as deleted.
Scanned == {[p \in Paths |-> IF p \in skipped THEN None ELSE source[p]] : skipped \in SUBSET Paths}

Scan ==
    /\ run.pc = "check" /\ ~EvidenceLost
    /\ \E view \in Scanned :
         LET stale == {p \in Paths : /\ view[p] # None
                                     /\ \/ proof[p] = None \/ p \in run.replay
                                        \/ proof[p].digest # view[p]}
             gone == {p \in Paths : proof[p] # None /\ view[p] = None}
         IN  /\ \/ view = source /\ UNCHANGED faults
                \/ view # source /\ faults < MaxFaults /\ faults' = faults + 1
             /\ IF stale \cup gone # {}
                THEN /\ run' = [run EXCEPT !.pc = "open", !.seen = view, !.todo = stale, !.dels = gone,
                                           !.attempted = stale \cup gone]
                     /\ UNCHANGED ledger
                ELSE IF run.mode = "index" THEN run' = Idle("ok") /\ UNCHANGED ledger
                ELSE \* nothing to replay: no parent's points may have been removed for it
                     IF \E p \in run.replay : proof[p] # None
                     THEN Unwind(FALSE) /\ UNCHANGED ledger
                     ELSE NewGeneration /\ Check
    /\ UNCHANGED <<source, edits, gaps, storage, proof>>

RefuseIndexing ==
    /\ run.pc = "check" /\ EvidenceLost
    /\ Raise({}) /\ UNCHANGED <<storage, proof, ledger>>

Streaming == run' = [run EXCEPT !.pc = "stream", !.stage = "stream",
                                !.existing = Of(storage, run.attempted)]

\* No generation to resume, or one that failed too often: a fresh one, with its receipt.
OpenFresh ==
    /\ run.pc = "open" /\ run.mode = "index"
    /\ gen.state = "none" \/ gen.failures >= MaxResumeFailures
    /\ gen' = [NoGen EXCEPT !.state = "running"]
    /\ receipt' = [state |-> "reserved", muts |-> {}]
    /\ units' = {} /\ states' = Nothing /\ marks' = {}
    /\ Streaming /\ Same /\ UNCHANGED <<storage, proof>>

\* The generation goes on under its active receipt, or under the one it rolled back, which
\* counts as a finished run that had nothing to do.  Past ingesting, it is only finished.
OpenResumed ==
    /\ run.pc = "open"
    /\ run.mode = "replay" \/ (gen.state # "none" /\ gen.failures < MaxResumeFailures)
    /\ gen' = [gen EXCEPT !.state = "running"]
    /\ IF gen.phase = "ingesting" THEN Streaming /\ Same
       ELSE /\ run' = [run EXCEPT !.pc = "commit", !.stage = "seal"]
            /\ Met({"skipped"}) /\ UNCHANGED faults
    /\ UNCHANGED <<storage, proof, receipt, units, states, marks>>

\* A published file turns out to have nothing to publish; in a replay its marker goes too.
Lost(p, c) == IF proof[p] = None THEN {}
              ELSE IF p \in run.replay THEN {"unmarked"}
              ELSE IF c = None THEN {"vanished"} ELSE {"emptied"}

\* The worker reads one file: gone, without content, or cut into segments.
ReadSource(p) ==
    /\ run.pc = "stream" /\ p \in run.todo
    /\ LET c == source[p]
           segments == IF c = None THEN <<>> ELSE Segments(p, c)
       IN  /\ run' = [run EXCEPT !.todo = @ \ {p}, !.seen[p] = c, !.queue = segments,
                                 !.pc = IF segments = <<>> THEN "stream" ELSE "prepare"]
           /\ IF segments # <<>> THEN Same /\ UNCHANGED <<states, marks>>
              ELSE /\ states' = [states EXCEPT ![p] = IF c = None THEN None ELSE "rejected"]
                   /\ marks' = marks \ {p}
                   /\ Met(Lost(p, c)) /\ UNCHANGED faults
    /\ UNCHANGED <<storage, proof, receipt, gen, units>>

\* The file cannot be read or cut: its outcome is recorded and the run fails.
Unreadable(p) ==
    /\ run.pc = "stream" /\ p \in run.todo /\ faults < MaxFaults
    /\ states' = [states EXCEPT ![p] = "failed"] /\ marks' = marks \ {p}
    /\ Unwind(TRUE) /\ faults' = faults + 1
    /\ Met(IF p \in run.replay /\ proof[p] # None THEN {"unmarked"} ELSE {})
    /\ UNCHANGED <<storage, proof, receipt, gen, units>>

\* Every file is stored: delete, file by file, the points it no longer has.
DeleteObsolete ==
    /\ run.pc = "stream" /\ run.todo = {}
    /\ LET prior(p) == Of(run.existing, {p}) \cup Published(p)
           kind(p) == IF p \in run.dels THEN "path" ELSE "stale"
           obsolete(p) == prior(p) \ UnitPoints(Upserts(units, p))
           due == {p \in run.attempted : obsolete(p) # {}
                       /\ ~\E u \in units : u.path = p /\ u.kind = kind(p)}
           deletions == SetToSeq({Deletion(p, kind(p), obsolete(p)) : p \in due})
       IN  run' = [run EXCEPT !.stage = "seal", !.queue = deletions,
                              !.pc = IF deletions = <<>> THEN "seal" ELSE "prepare"]
    /\ Same /\ UNCHANGED <<storage, proof, ledger>>

----------------------------------------------------------------------------
(* One mutation: prepare, write, applied, confirm, then the unit's record.   *)

Unit == Head(run.queue)
OfUnit(st) == [unit |-> Unit, st |-> st]
Advanced(st) == [receipt EXCEPT !.muts = {m \in @ : m.unit # Unit} \cup {OfUnit(st)}]

\* Faulty variant: whether the receipt is still open is not asked.
PreparableAnywhere ==
    /\ gen.phase = "ingesting"
    /\ Unit.kind # "upsert" => Unit.points \subseteq Published(Unit.path)
    /\ \A u \in Recorded : /\ u.points \cap Unit.points = {}
                           /\ <<u.path, u.kind, u.seg>> # <<Unit.path, Unit.kind, Unit.seg>>

\* A new mutation must be the receipt's to make, and its points no other unit's.
Preparable ==
    /\ receipt.state = "reserved" /\ gen.phase = "ingesting"
    /\ Unit.kind # "upsert" => Unit.points \subseteq Published(Unit.path)
    /\ \A u \in Recorded : /\ u.points \cap Unit.points = {}
                           /\ <<u.path, u.kind, u.seg>> # <<Unit.path, Unit.kind, Unit.seg>>

Prepare ==
    /\ run.pc = "prepare"
    /\ \/ Unit \notin Recorded /\ Preparable
          /\ receipt' = Advanced("prepared") /\ Goto("write") /\ Same
       \/ Unit \notin Recorded /\ ~Preparable
          /\ Raise(IF receipt.state = "rolledback" THEN {"closed"} ELSE {}) /\ UNCHANGED receipt
       \/ OfUnit("prepared") \in receipt.muts
          /\ Goto("write") /\ Same /\ UNCHANGED receipt
       \/ {OfUnit("applied"), OfUnit("confirmed")} \cap receipt.muts # {}
          /\ receipt' = Advanced("confirmed") /\ Goto("record") /\ Same
    /\ UNCHANGED <<storage, proof, gen, units, states, marks>>

Write ==
    /\ run.pc = "write"
    /\ storage' = IF Unit.kind = "upsert" THEN storage \cup Unit.points ELSE storage \ Unit.points
    /\ Goto("applied") /\ Same /\ UNCHANGED <<proof, ledger>>

MarkApplied ==
    /\ run.pc = "applied"
    /\ receipt' = Advanced("applied") /\ Goto("confirm")
    /\ Same /\ UNCHANGED <<storage, proof, gen, units, states, marks>>

Confirm ==
    /\ run.pc = "confirm"
    /\ receipt' = Advanced("confirmed") /\ Goto("record")
    /\ Same /\ UNCHANGED <<storage, proof, gen, units, states, marks>>

\* The generation learns of it; a forward recovery records all units after sealing.
Record ==
    /\ run.pc = "record"
    /\ LET p == Unit.path
           complete == Unit.kind = "upsert" /\ Unit.seg = Len(Stream[Unit.digest])
           tail == Tail(run.queue)
       IN  /\ IF run.stage = "forward" THEN UNCHANGED <<units, states, marks>>
              ELSE /\ units' = units \cup {Unit}
                   /\ states' = IF complete THEN [states EXCEPT ![p] = Unit.digest]
                                ELSE IF Unit.kind = "path" THEN [states EXCEPT ![p] = None]
                                ELSE states
                   /\ marks' = IF complete THEN marks \ {p}
                               ELSE IF Unit.kind = "path" THEN marks \cup {p} ELSE marks
           /\ run' = [run EXCEPT !.queue = tail,
                                 !.pc = IF tail = <<>> THEN run.stage ELSE "prepare"]
    /\ Same /\ UNCHANGED <<storage, proof, receipt, gen>>

----------------------------------------------------------------------------
(* Sealing, publishing and finishing.                                        *)

SealIndex ==
    /\ run.pc = "seal" /\ run.mode = "index"
    /\ \/ receipt.state = "rolledback"
          /\ Goto("advance") /\ Same /\ UNCHANGED receipt
       \/ receipt.state # "rolledback" /\ receipt.muts = {}
          /\ receipt' = [receipt EXCEPT !.state = "rolledback"] /\ Goto("advance") /\ Same
       \/ receipt.state # "rolledback" /\ receipt.muts # {} /\ Changed # {} /\ Covers(Recorded)
          /\ receipt' = [receipt EXCEPT !.state = "sealed"] /\ Goto("reconcile") /\ Same
       \/ receipt.state # "rolledback" /\ receipt.muts # {} /\ ~(Changed # {} /\ Covers(Recorded))
          /\ Raise(Reverted) /\ UNCHANGED receipt
    /\ UNCHANGED <<storage, proof, gen, units, states, marks>>

\* A replayed path that was published is replaced whole or deleted whole.
Resolved(p) ==
    LET muts == {m \in receipt.muts : m.unit.path = p}
    IN  /\ muts # {} /\ \A m \in muts : m.st = "confirmed"
        /\ IF NewEvidence(p) # None THEN CompleteStream(p)
           ELSE {u \in Recorded : u.path = p /\ u.kind = "path"} = {Deletion(p, "path", Published(p))}
ParentsResolved == \A p \in run.replay : proof[p] # None => Resolved(p)

\* Faulty variant: the replay's markers are left behind.
SealReplayMarked ==
    /\ run.pc = "seal" /\ run.mode = "replay"
    /\ LET restored == Touched \ Changed
           kept == {u \in Recorded : u.path \in Changed}
       IN  IF ParentsResolved /\ (\A p \in restored : CompleteStream(p)) /\ Covers(kept)
           THEN /\ receipt' = [state |-> IF Changed = {} THEN "rolledback" ELSE "sealed",
                               muts |-> {m \in receipt.muts : m.unit \in kept}]
                /\ units' = {u \in units : u.path \notin restored}
                /\ Goto(IF Changed = {} THEN "advance" ELSE "reconcile") /\ Same
                /\ UNCHANGED <<states, marks>>
           ELSE Raise({}) /\ UNCHANGED <<receipt, units, states, marks>>
    /\ UNCHANGED <<storage, proof, gen>>

\* What the replay restored as it was published is no longer the receipt's.
SealReplay ==
    /\ run.pc = "seal" /\ run.mode = "replay"
    /\ LET restored == Touched \ Changed
           kept == {u \in Recorded : u.path \in Changed}
       IN  IF ParentsResolved /\ (\A p \in restored : CompleteStream(p)) /\ Covers(kept)
           THEN /\ receipt' = [state |-> IF Changed = {} THEN "rolledback" ELSE "sealed",
                               muts |-> {m \in receipt.muts : m.unit \in kept}]
                /\ units' = {u \in units : u.path \notin restored}
                /\ states' = [p \in Paths |-> IF p \in restored THEN None ELSE states[p]]
                /\ marks' = {p \in marks : Deleted(p)} \ restored
                /\ Goto(IF Changed = {} THEN "advance" ELSE "reconcile") /\ Same
           ELSE Raise({}) /\ UNCHANGED <<receipt, units, states, marks>>
    /\ UNCHANGED <<storage, proof, gen>>

\* Rows of the receipt's files outside the sealed membership are purged.
Reconcile ==
    /\ run.pc = "reconcile"
    /\ storage' = storage \ (Of(storage, Touched) \ UnitPoints({u \in Recorded : u.kind = "upsert"}))
    /\ Goto("advance") /\ Same /\ UNCHANGED <<proof, ledger>>

\* The generation's own account must be complete and agree with itself.
Consistent(p) ==
    LET ups == Upserts(units, p)
    IN  /\ ups # {} => states[p] \in Contents /\ ups = ToSet(Segments(p, states[p]))
        /\ Deleted(p) <=> p \in marks
        /\ p \in marks => states[p] = None
        /\ states[p] # "failed"
ReadyToFinalize == \A p \in Paths : Consistent(p)

\* Only rows of files this run has nothing to do with are in the way.
StaleRows == IF \A p \in run.attempted \cup run.replay \cup Touched : Consistent(p) THEN {"stale row"} ELSE {}

\* Publishing seals once more, which in a replay checks the replayed paths again.
Advance ==
    /\ run.pc = "advance"
    /\ IF gen.phase # "ingesting" THEN Goto("commit") /\ Same /\ UNCHANGED gen
       ELSE IF run.mode = "replay" /\ receipt.state = "sealed" /\ ~ParentsResolved
            THEN Raise({"restored"}) /\ UNCHANGED gen
       ELSE IF ~ReadyToFinalize
            THEN Raise(StaleRows) /\ UNCHANGED gen
       ELSE gen' = [gen EXCEPT !.phase = "reconciled"] /\ Goto("commit") /\ Same
    /\ UNCHANGED <<storage, proof, receipt, units, states, marks>>

Commit ==
    /\ run.pc = "commit"
    /\ IF receipt.state = "sealed"
       THEN /\ Confirmed
            /\ proof' = [p \in Paths |-> IF p \in Changed THEN NewEvidence(p) ELSE proof[p]]
            /\ receipt' = [receipt EXCEPT !.state = "committed"]
       ELSE UNCHANGED <<proof, receipt>>
    /\ Goto("finish") /\ Same /\ UNCHANGED <<storage, gen, units, states, marks>>

\* Faulty variant: a run that settled the last one's work stops there.
FinishAny ==
    /\ run.pc = "finish"
    /\ NewGeneration /\ run' = Idle("ok")
    /\ Same /\ UNCHANGED <<storage, proof>>

Finish ==
    /\ run.pc = "finish"
    /\ NewGeneration
    /\ IF run.mode = "index" THEN run' = Idle("ok") ELSE Check
    /\ Same /\ UNCHANGED <<storage, proof>>

----------------------------------------------------------------------------
(* Failures.                                                                 *)

\* A cancellation, or a ledger or storage call that raises before it took effect.
Fail ==
    /\ run.pc \notin {"idle", "discard", "classify"} /\ faults < MaxFaults
    /\ Unwind(TRUE) /\ faults' = faults + 1
    /\ UNCHANGED <<source, edits, gaps, storage, proof, ledger>>

\* What the attempt introduced and no unit claims is deleted, unless that fails too.
Discard ==
    /\ run.pc = "discard"
    /\ LET introduced == (Of(storage, run.attempted) \ run.existing) \ UnitPoints(units)
           claimed == UnitPoints({m.unit : m \in {n \in receipt.muts : n.st # "prepared"}})
       IN  \/ storage' = storage \ introduced
              /\ Met(IF introduced \cap claimed = {} THEN {} ELSE {"unrecorded"})
           \/ introduced # {} /\ UNCHANGED storage /\ Met({})
    /\ Goto("classify") /\ UNCHANGED <<proof, ledger, faults>>

\* Faulty variant: failed attempts are not counted.
ClassifyUncounted ==
    /\ run.pc = "classify"
    /\ gen' = [gen EXCEPT !.state = "failed"]
    /\ run' = Idle(IF run.hit THEN "hit" ELSE "failed")
    /\ Same /\ UNCHANGED <<storage, proof, receipt, units, states, marks>>

Classify ==
    /\ run.pc = "classify"
    /\ gen' = [gen EXCEPT !.state = "failed", !.failures = @ + 1]
    /\ run' = Idle(IF run.hit THEN "hit" ELSE "failed")
    /\ Same /\ UNCHANGED <<storage, proof, receipt, units, states, marks>>

Crash ==
    /\ run.pc # "idle" /\ faults < MaxFaults
    /\ faults' = faults + 1 /\ run' = Idle("hit")
    /\ UNCHANGED <<source, edits, gaps, storage, proof, ledger>>

RunStep ==
    \/ SettleNothing \/ RefuseRecovery \/ SettleCommitted \/ SettleEmpty \/ SettleForward
    \/ SealForward \/ RecordOutcomes \/ SettleReplay \/ ResetStorage \/ Reopen
    \/ Scan \/ RefuseIndexing \/ OpenFresh \/ OpenResumed \/ (\E p \in Paths : ReadSource(p))
    \/ DeleteObsolete \/ Prepare \/ Write \/ MarkApplied \/ Confirm \/ Record
    \/ SealIndex \/ SealReplay \/ Reconcile \/ Advance \/ Commit \/ Finish
    \/ Discard \/ Classify

PublicationNext ==
    \/ Start \/ RunStep \/ Fail \/ Crash
    \/ \E p \in Paths : Edit(p) \/ Unreadable(p)

PublicationSpec == PublicationInit /\ [][PublicationNext]_publicationVars
FairPublicationSpec == PublicationSpec /\ WF_publicationVars(Start) /\ WF_publicationVars(RunStep)

----------------------------------------------------------------------------
(* Properties.                                                               *)

\* What readers are served, which is whenever no receipt is open, is whole files, every
\* point of which is stored: unless a replay lost track of a file it had emptied, or a
\* failed attempt deleted points its receipt already counts on.
ServedProofIsBacked ==
    ~OpenReceipt /\ {"unmarked", "unrecorded"} \cap gaps = {} =>
        /\ Retained \subseteq storage
        /\ \A p \in Paths : proof[p] # None => proof[p] = Evidence(p, proof[p].digest)

\* Between runs, with nothing left to settle, storage holds no point of an older content
\* or of an attempt that failed (supersede_and_publish, _discard_failed_additions).
NoStrayPoints == run.pc = "idle" /\ ~OpenReceipt => storage \subseteq Retained

\* A run that starts to stream finds no unit or mutation of another attempt, so the repair
\* of drifted files (_drift_owner.py) has nothing to do in an incremental.
FreshStream == run.pc = "open" => units = {} /\ receipt.muts = {}

\* A run that nothing interrupted fails, or asks for a rebuild, only after a situation the
\* code has no answer to.
RecoversUnaided == run.pc = "idle" /\ run.mode = "failed" => gaps \ {"skipped"} # {}

\* A run that succeeds has published every file as it read it, one that the scan could not
\* read as if it were gone, unless all it did was to finish an earlier run's generation.
SuccessIsCurrent ==
    [][run.pc = "finish" /\ run'.mode = "ok" /\ "skipped" \notin gaps
        => \A p \in Paths : proof[p] = Evidence(p, run.seen[p])]_publicationVars

\* Once files are left alone and nothing fails, the index becomes current and stays so;
\* the three situations below cost failed or idle runs, not the index.
SelfHealing == {"closed", "skipped", "restored"}
Converges ==
    <>[](gaps \subseteq SelfHealing => \A p \in Paths : proof[p] = Evidence(p, source[p]))

\* "a genuinely empty file keeps that hash and stays converged. Neither retries forever,
\* and neither needs the run to fail" (_record_empty_source).
EmptySourceConverges == run.pc = "idle" /\ run.mode = "failed" => "emptied" \notin gaps
=============================================================================
