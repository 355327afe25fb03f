--------------------------- MODULE JobHistoryProofs ---------------------------
(***************************************************************************)
(* The job records' safety, for every number of jobs and works, every bound  *)
(* of the history and every way a write may fail.                            *)
(*                                                                          *)
(* A generation of records is good when no two active jobs claim one work,   *)
(* every job that was retried is done with, and a success leaves nothing it  *)
(* retried behind.  Each lifecycle call makes a good generation of a good    *)
(* one, and so does a restart; memory, file and the write under way only     *)
(* ever hold such generations.  That a clean manager's records are in the    *)
(* file rests on the order of the numbers: a flush carries the number of the *)
(* progress it publishes, one writes at a time, and what it wrote is entered *)
(* only if nothing later was.                                                *)
(*                                                                          *)
(* What a start may replay rests on the order of the ring: of two jobs for   *)
(* one work the earlier lies deeper, unless its stamp is the later one.  And *)
(* that no admitted work is forgotten needs a ring as large as the most work *)
(* a crash can end at once, which admission bounds.                          *)
(***************************************************************************)
EXTENDS JobHistory, FiniteSetTheorems, TLAPS

States == Active \cup Ended
Done   == {"succeeded", "superseded"}

JobRecords == [state : States, parent : Nat, created : Nat, progress : Nat, work : Works]

\* The records of one generation, made by the first b ids.
Formed(m, b) ==
    /\ DOMAIN m = {"job", "ring"}
    /\ Retained(m) \subseteq 1 .. b
    /\ m.job \in [Retained(m) -> JobRecords]
    /\ \A i \in Retained(m) : m.job[i].parent \in 0 .. b

\* No two active jobs claim one work.
Owned(m) == \A i, k \in Working(m) : m.job[i].work = m.job[k].work => i = k

\* What was retried has ended retryable, and is superseded once a retry succeeded.
Descent(m) ==
    \A i, k \in Retained(m) : m.job[i].parent = k =>
        /\ m.job[k].state \in Retryable \cup {"superseded"}
        /\ m.job[i].state \in Done => m.job[k].state = "superseded"

Good(m, b) == Formed(m, b) /\ Owned(m) /\ Descent(m)

\* The ring holds the ended jobs.
RingOfEnded(m) ==
    /\ DOMAIN m.ring = Retained(m) \ Working(m)
    /\ m.ring \in [DOMAIN m.ring -> Nat \ {0}]

\* Of two jobs for one work the earlier ended first, and so lies deeper in the ring,
\* unless the later one's stamp is smaller: then a start may have replayed the earlier.
InOrder(m) ==
    \A i, k \in Retained(m) :
        i < k /\ m.job[i].work = m.job[k].work /\ m.job[i].created <= m.job[k].created =>
            i \in DOMAIN m.ring /\ (k \in DOMAIN m.ring => m.ring[k] < m.ring[i])

\* The work a crash would end: no start replays such work, so admission bounds it.
Uncertain(m) == {i \in Working(m) : m.job[i].work \notin Recoverable}

Ranked(m) == RingOfEnded(m) /\ InOrder(m) /\ Cardinality(Uncertain(m)) <= MaxActive

Sound(m, b) == Good(m, b) /\ Ranked(m)

GenerationsGood ==
    /\ issued \in Nat
    /\ \A m \in Generations : Sound(m, issued)

\* The books: what a flush carries, and what a flush that ended still has to say.
BooksKept ==
    /\ generation \in Nat /\ flushed \in Nat /\ flushed <= generation
    /\ dirty \in BOOLEAN /\ life \in {"up", "stopping", "stopped", "down"}
    /\ \A p, q \in writing : p = q
    /\ \A p \in writing :
        /\ p.generation \in Nat /\ flushed < p.generation /\ p.generation <= generation
        /\ p.generation = generation => p.content = mem
        /\ Working(p.content) = Working(mem)
        /\ \A s \in settling : s.generation < p.generation
    /\ \A s \in settling :
        /\ s.generation \in Nat /\ s.generation <= generation /\ s.ok \in BOOLEAN
        /\ s.ok /\ s.generation = generation /\ flushed < generation => file = mem \/ dirty
    /\ life = "down" => /\ mem = NoRecords /\ generation = 0 /\ flushed = 0 /\ ~dirty
                        /\ writing = {} /\ settling = {}
    /\ CleanIsDurable

\* The conjunction that is inductive.
HistoryInv == GenerationsGood /\ BooksKept

----------------------------------------------------------------------------
(* What the operators on records do to a good generation.                    *)

\* A generation stays good while more ids are issued.
LEMMA GoodGrows ==
    ASSUME NEW m, NEW b \in Nat, NEW c \in Nat, b <= c, Good(m, b)
    PROVE  Good(m, c)
  BY DEF Good, Formed

\* No records are good records.
LEMMA NothingIsGood == ASSUME NEW b \in Nat PROVE Good(NoRecords, b)
  <1>1. Retained(NoRecords) = {} /\ NoRecords.job \in [{} -> JobRecords]
    BY DEF NoRecords, Retained
  <1>2. NoRecords = [job |-> NoRecords.job, ring |-> NoRecords.ring]
    BY DEF NoRecords
  <1> QED BY <1>1, <1>2 DEF Good, Formed, Owned, Descent, Working

\* How the records n come from the records m: some are dropped, the links and the
\* works stay, a job that was retried can at most become superseded, and a success
\* finds what it retried superseded.
Revises(m, n) ==
    /\ DOMAIN n = {"job", "ring"}
    /\ Retained(n) \subseteq Retained(m)
    /\ n.job \in [Retained(n) -> JobRecords]
    /\ \A i \in Retained(n) :
        /\ n.job[i].work = m.job[i].work /\ n.job[i].parent = m.job[i].parent
        /\ \/ n.job[i].state \in {m.job[i].state, "superseded"}
           \/ m.job[i].state \in Active
           \/ Children(m, i) = {}
        /\ n.job[i].state \in Done /\ m.job[i].state \notin Done =>
             \A k \in Retained(n) : m.job[i].parent = k => n.job[k].state = "superseded"

\* Records revised like that stay good, if no work is claimed twice.
LEMMA RevisedIsGood ==
    ASSUME NEW m, NEW n, NEW b \in Nat, Good(m, b), Revises(m, n), Owned(n)
    PROVE  Good(n, b)
  <1> USE DEF Good, Revises
  <1>1. Formed(n, b)
    BY DEF Formed
  <1>2. ASSUME NEW i \in Retained(n), NEW k \in Retained(n), n.job[i].parent = k
        PROVE  /\ n.job[k].state \in Retryable \cup {"superseded"}
               /\ n.job[i].state \in Done => n.job[k].state = "superseded"
    <2>1. i \in Retained(m) /\ k \in Retained(m) /\ m.job[i].parent = k
      BY <1>2
    <2>2. /\ m.job[k].state \in Retryable \cup {"superseded"}
          /\ m.job[i].state \in Done => m.job[k].state = "superseded"
      BY <2>1 DEF Descent
    <2>3. Children(m, k) # {}
      BY <2>1 DEF Children
    <2>4. n.job[k].state \in {m.job[k].state, "superseded"}
      BY <1>2, <2>2, <2>3 DEF Active, Retryable
    <2> QED BY <1>2, <2>1, <2>2, <2>4
  <1> QED BY <1>1, <1>2 DEF Descent

\* No work is claimed twice when no job becomes active.
LEMMA OwnedStays ==
    ASSUME NEW m, NEW n, Owned(m), Revises(m, n),
           \A i \in Retained(n) : n.job[i].state \in Active => m.job[i].state \in Active
    PROVE  Owned(n)
  BY DEF Owned, Revises, Working

\* Records that are dropped, from the history or by a deletion.
LEMMA WithoutIsGood ==
    ASSUME NEW m, NEW b \in Nat, Good(m, b), NEW dropped
    PROVE  Good(Without(m, dropped), b)
  <1> DEFINE n == Without(m, dropped)
  <1>1. /\ n.job = [k \in Retained(m) \ dropped |-> m.job[k]]
        /\ DOMAIN n = {"job", "ring"}
    BY DEF Without
  <1> HIDE DEF n
  <1>2. Retained(n) = Retained(m) \ dropped /\ \A k \in Retained(n) : n.job[k] = m.job[k]
    BY <1>1 DEF Retained
  <1>3. n.job \in [Retained(n) -> JobRecords]
    BY <1>1, <1>2 DEF Good, Formed
  <1>4. Revises(m, n)
    BY <1>1, <1>2, <1>3 DEF Revises
  <1>5. Owned(n)
    BY <1>2, <1>4, OwnedStays DEF Good
  <1>6. Good(n, b)
    BY <1>4, <1>5, RevisedIsGood
  <1> QED BY <1>6 DEF n

\* The ring drops its oldest entries.
LEMMA TrimmedIsGood ==
    ASSUME NEW m, NEW b \in Nat, Good(m, b)
    PROVE  Good(Trimmed(m), b)
  BY WithoutIsGood DEF Trimmed

\* A new job, the first to claim its work, and perhaps a retry of one that ended.
LEMMA CreatedIsGood ==
    ASSUME NEW m, NEW b \in Nat, Good(m, b), NEW w \in Works, Claims(m, w) = {},
           NEW parent, parent = NoParent \/ (parent \in Retained(m) /\ m.job[parent].state \in Retryable),
           NEW now \in Nat
    PROVE  Good(With(m, b + 1, [state |-> "queued", parent |-> parent, created |-> now,
                                progress |-> 0, work |-> w]), b + 1)
  <1> DEFINE r == [state |-> "queued", parent |-> parent, created |-> now,
                   progress |-> 0, work |-> w]
             n == With(m, b + 1, r)
  <1>1. parent \in 0 .. b
    BY DEF Good, Formed, NoParent
  <1>2. r \in JobRecords
    BY <1>1 DEF JobRecords, States, Active
  <1>3. r.state = "queued" /\ r.parent = parent /\ r.work = w
    OBVIOUS
  <1>4. DOMAIN m = {"job", "ring"}
    BY DEF Good, Formed
  <1> HIDE DEF r
  <1>5. /\ n.job = [k \in Retained(m) \cup {b + 1} |-> IF k = b + 1 THEN r ELSE m.job[k]]
        /\ DOMAIN n = {"job", "ring"}
    BY <1>4 DEF With
  <1> HIDE DEF n
  <1>6. /\ Retained(n) = Retained(m) \cup {b + 1} /\ b + 1 \notin Retained(m)
        /\ n.job[b + 1] = r /\ \A k \in Retained(m) : n.job[k] = m.job[k]
    BY <1>5 DEF Retained, Good, Formed
  <1>7. Formed(n, b + 1)
    <2>1. Retained(n) \subseteq 1 .. b + 1
      BY <1>6 DEF Good, Formed
    <2>2. n.job \in [Retained(n) -> JobRecords]
      BY <1>2, <1>5, <1>6 DEF Good, Formed
    <2>3. \A i \in Retained(n) : n.job[i].parent \in 0 .. b + 1
      BY <1>1, <1>3, <1>6 DEF Good, Formed
    <2> QED BY <1>5, <2>1, <2>2, <2>3 DEF Formed
  <1>8. Owned(n)
    <2>1. Working(n) \subseteq Working(m) \cup {b + 1}
      BY <1>6 DEF Working
    <2>2. \A i \in Working(m) : n.job[i] = m.job[i] /\ m.job[i].work # w
      BY <1>6 DEF Working, Claims
    <2> QED BY <1>3, <1>6, <2>1, <2>2 DEF Owned, Good
  <1>9. Descent(n)
    <2> SUFFICES ASSUME NEW i \in Retained(n), NEW k \in Retained(n), n.job[i].parent = k
                 PROVE  /\ n.job[k].state \in Retryable \cup {"superseded"}
                        /\ n.job[i].state \in Done => n.job[k].state = "superseded"
      BY DEF Descent
    <2>1. CASE i = b + 1
      <3>1. k = parent /\ k \in 1 .. b + 1 /\ k # 0
        BY <1>3, <1>6, <1>7, <2>1 DEF Formed
      <3>2. k \in Retained(m) /\ m.job[k].state \in Retryable
        BY <3>1 DEF NoParent
      <3> QED BY <1>3, <1>6, <2>1, <3>2 DEF Done
    <2>2. CASE i # b + 1
      <3>1. i \in Retained(m) /\ m.job[i].parent = k
        BY <1>6, <2>2
      <3>2. k \in 0 .. b
        BY <3>1 DEF Good, Formed
      <3>3. k \in Retained(m)
        BY <1>6, <3>2
      <3> QED BY <1>6, <3>1, <3>3 DEF Good, Descent
    <2> QED BY <2>1, <2>2
  <1>10. Good(n, b + 1)
    BY <1>7, <1>8, <1>9 DEF Good
  <1> QED BY <1>10 DEF n, r

\* The record of one active job is replaced: it starts, reports progress or ends.
LEMMA OneMoves ==
    ASSUME NEW m, NEW b \in Nat, Good(m, b), NEW i \in Retained(m), m.job[i].state \in Active,
           NEW r \in JobRecords, r.work = m.job[i].work, r.parent = m.job[i].parent,
           r.state # "superseded",
           r.state = "succeeded" =>
               \A k \in Retained(m) : m.job[i].parent = k => m.job[k].state = "superseded",
           NEW n, DOMAIN n = {"job", "ring"},
           n.job = [k \in Retained(m) |-> IF k = i THEN r ELSE m.job[k]]
    PROVE  Good(n, b)
  <1>1. Retained(n) = Retained(m)
    BY DEF Retained
  <1>2. n.job \in [Retained(n) -> JobRecords]
    BY <1>1 DEF Good, Formed
  <1>3. ASSUME NEW k \in Retained(m), m.job[i].parent = k
        PROVE  k # i
    BY <1>3 DEF Good, Descent, Active, Retryable
  <1>4. Revises(m, n)
    BY <1>1, <1>2, <1>3 DEF Revises, Done
  <1>5. Owned(n)
    BY <1>1, <1>4, OwnedStays DEF Good
  <1> QED BY <1>4, <1>5, RevisedIsGood

\* What Moved and Archived make of the records, before the ring is trimmed.
LEMMA MovedShape ==
    ASSUME NEW m, NEW b \in Nat, Formed(m, b), NEW i \in Retained(m), NEW s \in States
    PROVE  /\ DOMAIN Moved(m, i, s) = {"job", "ring"}
           /\ Moved(m, i, s).job =
                [k \in Retained(m) |-> IF k = i THEN [m.job[i] EXCEPT !.state = s] ELSE m.job[k]]
  BY DEF Moved, Formed, Retained

\* A job that has no outcome yet is moved.
LEMMA MovedIsGood ==
    ASSUME NEW m, NEW b \in Nat, Good(m, b), NEW i \in Retained(m), m.job[i].state \in Active,
           NEW s \in Active
    PROVE  Good(Moved(m, i, s), b)
  <1> DEFINE n == Moved(m, i, s)
             r == [m.job[i] EXCEPT !.state = s]
  <1>1. m.job[i] \in JobRecords
    BY DEF Good, Formed
  <1>2. /\ r \in JobRecords /\ r.work = m.job[i].work /\ r.parent = m.job[i].parent
        /\ r.state = s /\ s \in States
    BY <1>1 DEF JobRecords, States
  <1>3. /\ DOMAIN n = {"job", "ring"}
        /\ n.job = [k \in Retained(m) |-> IF k = i THEN r ELSE m.job[k]]
    BY <1>2, MovedShape DEF Good
  <1>4. s \notin {"superseded", "succeeded"}
    BY DEF Active
  <1> HIDE DEF n, r
  <1>5. Good(n, b)
    BY <1>2, <1>3, <1>4, OneMoves
  <1> QED BY <1>5 DEF n

\* The record of a job that ended.
RetiredRecord(m, i, s) == [m.job[i] EXCEPT !.state = s, !.progress = 0]

\* What Archived makes of the records, before the ring is trimmed.
LEMMA RetiredShape ==
    ASSUME NEW m, NEW b \in Nat, Formed(m, b), NEW i \in Retained(m), NEW s \in States
    PROVE  /\ DOMAIN Retired(m, i, s) = {"job", "ring"}
           /\ Retired(m, i, s).job =
                [k \in Retained(m) |-> IF k = i THEN RetiredRecord(m, i, s) ELSE m.job[k]]
           /\ Retired(m, i, s).ring = Appended(m.ring, i)
  <1> DEFINE a == Moved(m, i, s)
             n == [a EXCEPT !.job[i].progress = 0, !.ring = Appended(m.ring, i)]
             r == [m.job[i] EXCEPT !.state = s, !.progress = 0]
  <1>1. m.job[i] \in JobRecords
    BY DEF Formed
  <1>2. /\ DOMAIN a = {"job", "ring"}
        /\ a.job = [k \in Retained(m) |-> IF k = i THEN [m.job[i] EXCEPT !.state = s] ELSE m.job[k]]
    BY MovedShape
  <1>3. [[m.job[i] EXCEPT !.state = s] EXCEPT !.progress = 0] = r
    BY <1>1 DEF JobRecords
  <1>4. Retired(m, i, s) = n
    BY DEF Retired
  <1> HIDE DEF a, r
  <1>5. /\ DOMAIN a = {"job", "ring"}
        /\ DOMAIN a.job = Retained(m)
        /\ a.job[i] = [m.job[i] EXCEPT !.state = s]
        /\ \A k \in Retained(m) \ {i} : a.job[k] = m.job[k]
    BY <1>2
  <1>6. /\ DOMAIN n = {"job", "ring"} /\ n.ring = Appended(m.ring, i)
        /\ n.job = [k \in DOMAIN a.job |->
                      IF k = i THEN [a.job[i] EXCEPT !.progress = 0] ELSE a.job[k]]
    BY <1>5
  <1> HIDE DEF n
  <1>7. n.job = [k \in Retained(m) |-> IF k = i THEN r ELSE m.job[k]]
    BY <1>3, <1>5, <1>6
  <1> QED BY <1>4, <1>6, <1>7 DEF r, RetiredRecord

\* A job ends, and what it retried is superseded if it succeeded.
LEMMA ArchivedIsGood ==
    ASSUME NEW m, NEW b \in Nat, Good(m, b), NEW i \in Retained(m), m.job[i].state \in Active,
           NEW s \in Ended \ {"superseded"},
           s = "succeeded" =>
               \A k \in Retained(m) : m.job[i].parent = k => m.job[k].state = "superseded"
    PROVE  Good(Archived(m, i, s), b)
  <1> DEFINE n == Retired(m, i, s)
             r == RetiredRecord(m, i, s)
  <1>1. m.job[i] \in JobRecords
    BY DEF Good, Formed
  <1>2. /\ r \in JobRecords /\ r.work = m.job[i].work /\ r.parent = m.job[i].parent
        /\ r.state = s /\ s \in States
    BY <1>1 DEF JobRecords, States, RetiredRecord
  <1>3. /\ DOMAIN n = {"job", "ring"}
        /\ n.job = [k \in Retained(m) |-> IF k = i THEN r ELSE m.job[k]]
    <2>1. Formed(m, b) /\ s \in States
      BY <1>2 DEF Good
    <2> QED BY <2>1, RetiredShape
  <1>4. Archived(m, i, s) = Trimmed(n)
    BY DEF Archived
  <1> HIDE DEF n, r
  <1>5. Good(n, b)
    BY <1>2, <1>3, OneMoves
  <1> QED BY <1>4, <1>5, TrimmedIsGood

\* What a success resolves has ended retryable, and the links up from it, and from
\* the success itself, lead to nothing else that is retryable.
LEMMA ResolvableIsClosed ==
    ASSUME NEW m, NEW i \in Retained(m)
    PROVE  /\ \A k \in Resolvable(m, i) :
                k \in Retained(m) \ {i} /\ m.job[k].state \in Retryable
           /\ \A c \in Resolvable(m, i) \cup {i} : \A k \in Retained(m) \ {i} :
                m.job[k].state \in Retryable /\ m.job[c].parent = k => k \in Resolvable(m, i)
  <1> DEFINE Closed(S) == \A k \in Retained(m) :
               m.job[k].state \in Retryable /\ (\E c \in S : m.job[c].parent = k) => k \in S
  <1>1. Resolvable(m, i) = {k \in Retained(m) \ {i} :
               \A S \in SUBSET Retained(m) : i \in S /\ Closed(S) => k \in S}
    BY DEF Resolvable
  <1>2. ASSUME NEW k \in Resolvable(m, i)
        PROVE  k \in Retained(m) \ {i} /\ m.job[k].state \in Retryable
    <2> DEFINE R == {i} \cup {j \in Retained(m) : m.job[j].state \in Retryable}
    <2>1. R \in SUBSET Retained(m) /\ i \in R /\ Closed(R)
      OBVIOUS
    <2> HIDE DEF R, Closed
    <2>2. k \in Retained(m) \ {i} /\ k \in R
      BY <1>1, <2>1
    <2> QED BY <2>2 DEF R
  <1>3. ASSUME NEW c \in Resolvable(m, i) \cup {i}, NEW k \in Retained(m) \ {i},
               m.job[k].state \in Retryable, m.job[c].parent = k
        PROVE  k \in Resolvable(m, i)
    <2> SUFFICES ASSUME NEW S \in SUBSET Retained(m), i \in S, Closed(S)
                 PROVE  k \in S
      BY <1>1
    <2>1. c \in S
      <3> HIDE DEF Closed
      <3> QED BY <1>1
    <2> QED BY <1>3, <2>1
  <1> QED BY <1>2, <1>3

\* A success supersedes all it retried, through any number of links.
LEMMA ResolvedIsGood ==
    ASSUME NEW m, NEW b \in Nat, Good(m, b), NEW i \in Retained(m), m.job[i].state \in Active
    PROVE  LET n == Resolved(m, i) IN
           /\ Good(n, b) /\ Retained(n) = Retained(m) /\ n.job[i] = m.job[i]
           /\ \A k \in Retained(n) : n.job[i].parent = k => n.job[k].state = "superseded"
  <1> DEFINE n == Resolved(m, i)
             R == Resolvable(m, i)
  <1>1. DOMAIN m = {"job", "ring"}
    BY DEF Good, Formed
  <1>2. /\ DOMAIN n = {"job", "ring"}
        /\ n.job = [k \in Retained(m) |->
                      IF k \in R THEN [m.job[k] EXCEPT !.state = "superseded"] ELSE m.job[k]]
    BY <1>1 DEF Resolved
  <1> HIDE DEF n
  <1>3. Retained(n) = Retained(m)
    BY <1>2 DEF Retained
  <1>4. /\ \A k \in R : k \in Retained(m) \ {i} /\ m.job[k].state \in Retryable
        /\ \A c \in R \cup {i} : \A k \in Retained(m) \ {i} :
             m.job[k].state \in Retryable /\ m.job[c].parent = k => k \in R
    BY ResolvableIsClosed
  <1> HIDE DEF R
  <1>5. ASSUME NEW k \in Retained(m)
        PROVE  /\ n.job[k] \in JobRecords
               /\ n.job[k].work = m.job[k].work /\ n.job[k].parent = m.job[k].parent
               /\ n.job[k].state = IF k \in R THEN "superseded" ELSE m.job[k].state
    <2>1. m.job[k] \in JobRecords
      BY DEF Good, Formed
    <2> QED BY <1>2, <2>1 DEF JobRecords, States, Ended
  <1>6. ASSUME NEW c \in R \cup {i}, NEW k \in Retained(m), m.job[c].parent = k
        PROVE  n.job[k].state = "superseded"
    <2>1. c \in Retained(m)
      BY <1>4
    <2>2. m.job[k].state \in Retryable \cup {"superseded"}
      BY <1>6, <2>1 DEF Good, Descent
    <2>3. k # i
      BY <2>2 DEF Active, Retryable
    <2> QED BY <1>4, <1>5, <1>6, <2>2, <2>3
  <1>7. n.job \in [Retained(n) -> JobRecords]
    BY <1>2, <1>3, <1>5
  <1>8. Revises(m, n)
    <2>1. \A k \in Retained(m) : n.job[k].state \in Done /\ m.job[k].state \notin Done => k \in R
      BY <1>5
    <2> QED BY <1>2, <1>3, <1>5, <1>6, <1>7, <2>1 DEF Revises
  <1>9. Owned(n)
    BY <1>3, <1>5, <1>8, OwnedStays DEF Good, Active
  <1>10. Good(n, b)
    BY <1>8, <1>9, RevisedIsGood
  <1>11. n.job[i] = m.job[i]
    BY <1>2, <1>4
  <1> QED BY <1>3, <1>6, <1>10, <1>11 DEF n

\* What is replayed is later than all else that claimed its work: nothing else of that
\* work with as late a stamp is.
LEMMA ReplayedIsLast ==
    ASSUME NEW m, NEW b \in Nat, Good(m, b), Ranked(m), NEW i \in Replayed(m),
           NEW k \in Retained(m), i < k, m.job[k].work = m.job[i].work
    PROVE  m.job[k].created < m.job[i].created
  <1>1. /\ i \in Retained(m) /\ Claims(m, m.job[i].work) = {} /\ Latest(m, i)
        /\ m.job[k].created \in Nat /\ m.job[i].created \in Nat
    BY DEF Replayed, Good, Formed, JobRecords
  <1>2. k \notin Working(m) /\ i \notin Working(m)
    BY <1>1 DEF Claims
  <1>3. i \in DOMAIN m.ring /\ k \in DOMAIN m.ring /\ m.ring[i] \in Nat /\ m.ring[k] \in Nat
    BY <1>1, <1>2 DEF Ranked, RingOfEnded
  <1>4. ~(m.job[i].created <= m.job[k].created /\ m.ring[k] >= m.ring[i])
    BY <1>1, <1>3 DEF Ranked, InOrder
  <1> QED BY <1>1, <1>2, <1>4 DEF Latest, Before

\* So one job at most is replayed for each work.
LEMMA OneIsReplayed ==
    ASSUME NEW m, NEW b \in Nat, Good(m, b), Ranked(m), NEW i \in Replayed(m), NEW k \in Replayed(m),
           m.job[k].work = m.job[i].work
    PROVE  i = k
  <1>1. /\ i \in Retained(m) /\ k \in Retained(m) /\ i \in Nat /\ k \in Nat
        /\ m.job[k].created \in Nat /\ m.job[i].created \in Nat
        /\ Latest(m, i) /\ Latest(m, k)
    BY DEF Replayed, Good, Formed, JobRecords
  <1>2. ~(m.job[k].created < m.job[i].created) /\ ~(m.job[i].created < m.job[k].created)
    BY <1>1 DEF Latest
  <1>3. ~(i < k) /\ ~(k < i)
    BY <1>1, <1>2, ReplayedIsLast
  <1> QED BY <1>1, <1>3

\* What a start puts back to work: what it replays, and what had not ended.
Resumed(m) == Replayed(m) \cup (Working(m) \ Cut(m))

\* The records n a start makes of the records m, before the ring is trimmed.
Requeues(m, n, place) ==
    /\ Retained(n) = Retained(m)
    /\ n.ring = [i \in DOMAIN n.ring |-> n.ring[i]]
    /\ DOMAIN n.ring = (DOMAIN m.ring \ Replayed(m)) \cup Cut(m)
    /\ \A i \in DOMAIN n.ring :
         n.ring[i] = IF i \in Cut(m) THEN place[i]
                     ELSE Without(m, Replayed(m)).ring[i] + Cardinality(Cut(m))
    /\ \A i \in Retained(m) :
         /\ n.job[i].work = m.job[i].work /\ n.job[i].parent = m.job[i].parent
         /\ n.job[i].created = m.job[i].created
         /\ n.job[i].state = IF i \in Resumed(m) THEN "queued"
                             ELSE IF i \in Cut(m) THEN "interrupted" ELSE m.job[i].state

\* That is what Requeued does.
LEMMA RequeuedShape ==
    ASSUME NEW m, NEW b \in Nat, Formed(m, b), NEW place
    PROVE  Formed(Requeued(m, place), b) /\ Requeues(m, Requeued(m, place), place)
  <1> DEFINE requeued == Resumed(m)
             n == Requeued(m, place)
             old == Without(m, Replayed(m)).ring
  <1>1. DOMAIN old = DOMAIN m.ring \ Replayed(m)
    BY DEF Without
  <1> HIDE DEF old
  <1>2. /\ DOMAIN n = {"job", "ring"}
        /\ n.ring = [i \in DOMAIN old \cup Cut(m) |->
                       IF i \in Cut(m) THEN place[i] ELSE old[i] + Cardinality(Cut(m))]
        /\ n.job = [i \in Retained(m) |->
                          IF i \in requeued
                          THEN [m.job[i] EXCEPT !.state = "queued", !.progress = 0]
                          ELSE IF i \in Cut(m)
                          THEN [m.job[i] EXCEPT !.state = "interrupted", !.progress = 0]
                          ELSE m.job[i]]
    BY DEF Requeued, old, Resumed
  <1> HIDE DEF requeued, n
  <1>3. Retained(n) = Retained(m)
    BY <1>2 DEF Retained
  <1>4. ASSUME NEW i \in Retained(m)
        PROVE  /\ n.job[i] \in JobRecords
               /\ n.job[i].work = m.job[i].work /\ n.job[i].parent = m.job[i].parent
               /\ n.job[i].created = m.job[i].created
               /\ n.job[i].state = IF i \in requeued THEN "queued"
                                   ELSE IF i \in Cut(m) THEN "interrupted" ELSE m.job[i].state
    <2>1. m.job[i] \in JobRecords
      BY DEF Formed
    <2>2. "queued" \in States /\ "interrupted" \in States
      BY DEF States, Active, Ended, Retryable
    <2>3. CASE i \in requeued
      <3> DEFINE q == [m.job[i] EXCEPT !.state = "queued", !.progress = 0]
      <3>1. n.job[i] = q
        BY <1>2, <2>3
      <3>2. q \in JobRecords /\ q.state = "queued"
        BY <2>1, <2>2 DEF JobRecords
      <3>3. /\ q.work = m.job[i].work /\ q.parent = m.job[i].parent
            /\ q.created = m.job[i].created
        BY <2>1 DEF JobRecords
      <3> HIDE DEF q
      <3> QED BY <2>3, <3>1, <3>2, <3>3
    <2>4. CASE i \notin requeued /\ i \in Cut(m)
      <3> DEFINE q == [m.job[i] EXCEPT !.state = "interrupted", !.progress = 0]
      <3>1. n.job[i] = q
        BY <1>2, <2>4
      <3>2. q \in JobRecords /\ q.state = "interrupted"
        BY <2>1, <2>2 DEF JobRecords
      <3>3. /\ q.work = m.job[i].work /\ q.parent = m.job[i].parent
            /\ q.created = m.job[i].created
        BY <2>1 DEF JobRecords
      <3> HIDE DEF q
      <3> QED BY <2>4, <3>1, <3>2, <3>3
    <2>5. CASE i \notin requeued /\ i \notin Cut(m)
      BY <1>2, <2>1, <2>5
    <2> QED BY <2>3, <2>4, <2>5
  <1>5. Formed(n, b)
    <2>1. n.job \in [Retained(n) -> JobRecords]
      BY <1>2, <1>3, <1>4
    <2> QED BY <1>2, <1>3, <1>4, <2>1 DEF Formed
  <1>6. /\ n.ring = [i \in DOMAIN n.ring |-> n.ring[i]]
        /\ DOMAIN n.ring = (DOMAIN m.ring \ Replayed(m)) \cup Cut(m)
        /\ \A i \in DOMAIN n.ring :
             n.ring[i] = IF i \in Cut(m) THEN place[i] ELSE old[i] + Cardinality(Cut(m))
    BY <1>1, <1>2
  <1> QED BY <1>3, <1>4, <1>5, <1>6 DEF requeued, n, old, Requeues

\* After a start nothing else is active.
LEMMA OnlyResumedWorks ==
    ASSUME NEW m, NEW b \in Nat, Formed(m, b), NEW place, NEW j \in Working(Restored(m, place))
    PROVE  j \in Resumed(m)
  <1> DEFINE n == Requeued(m, place)
  <1>1. Restored(m, place) = Trimmed(n) /\ Formed(m, b)
    BY DEF Restored
  <1>2. Formed(n, b) /\ Requeues(m, n, place)
    BY <1>1, RequeuedShape
  <1> HIDE DEF n
  <1>3. j \in Retained(n) /\ Trimmed(n).job[j] = n.job[j]
    BY <1>1 DEF Working, Trimmed, Without, Retained
  <1>4. n.job[j].state \in Active
    BY <1>1, <1>3 DEF Working
  <1>5. ASSUME j \notin Resumed(m) PROVE j \notin Working(m) \/ j \in Cut(m)
    BY <1>5 DEF Resumed
  <1> QED BY <1>2, <1>3, <1>4, <1>5 DEF Working, Active, Requeues

\* A start requeues what was interrupted, and replays only work that nobody claims.
LEMMA RestoredIsGood ==
    ASSUME NEW m, NEW b \in Nat, Good(m, b), Ranked(m), NEW place
    PROVE  Good(Restored(m, place), b)
  <1> DEFINE n == Requeued(m, place)
  <1>1. Restored(m, place) = Trimmed(n) /\ Formed(m, b)
    BY DEF Restored, Good
  <1>2. Formed(n, b) /\ Requeues(m, n, place)
    BY <1>1, RequeuedShape
  <1> HIDE DEF n
  <1>3. /\ \A i \in Replayed(m) : /\ i \in Retained(m) /\ Children(m, i) = {}
                                  /\ Claims(m, m.job[i].work) = {}
                                  /\ Latest(m, i)
        /\ Cut(m) \subseteq Working(m)
        /\ \A i \in Working(m) : i \in Retained(m) /\ m.job[i].state \in Active
    BY DEF Replayed, Cut, Working
  <1>4. n.job \in [Retained(n) -> JobRecords] /\ DOMAIN n = {"job", "ring"}
    BY <1>2 DEF Formed, Requeues
  <1>5. Revises(m, n)
    <2>1. ASSUME NEW i \in Retained(m)
          PROVE  \/ n.job[i].state = m.job[i].state
                 \/ m.job[i].state \in Active
                 \/ Children(m, i) = {}
      BY <1>2, <1>3 DEF Resumed, Requeues
    <2>2. ASSUME NEW i \in Retained(m), n.job[i].state \in Done
          PROVE  m.job[i].state \in Done
      BY <1>2, <1>3, <2>2 DEF Done, Requeues, Resumed
    <2> QED BY <1>2, <1>4, <2>1, <2>2 DEF Revises, Requeues
  <1>6. Owned(n)
    <2> SUFFICES ASSUME NEW i \in Working(n), NEW k \in Working(n), n.job[i].work = n.job[k].work
                 PROVE  i = k
      BY DEF Owned
    <2>1. i \in Retained(m) /\ k \in Retained(m) /\ m.job[i].work = m.job[k].work
      BY <1>2 DEF Working, Requeues
    <2>2. ASSUME NEW j \in Working(n) PROVE j \in Replayed(m) \cup Working(m)
      <3>1. j \in Retained(m) /\ n.job[j].state \in Active
        BY <1>2, <2>2 DEF Working, Requeues
      <3> QED BY <1>2, <1>3, <3>1 DEF Resumed, Working, Active, Requeues
    <2>3. CASE i \in Working(m) /\ k \in Working(m)
      BY <2>1, <2>3 DEF Good, Owned
    <2>4. CASE i \in Replayed(m)
      <3>1. k \notin Working(m)
        BY <1>3, <2>1, <2>4 DEF Claims
      <3> QED BY <2>1, <2>2, <2>4, <3>1, OneIsReplayed
    <2>5. CASE k \in Replayed(m)
      <3>1. i \notin Working(m)
        BY <1>3, <2>1, <2>5 DEF Claims
      <3> QED BY <2>1, <2>2, <2>5, <3>1, OneIsReplayed
    <2> QED BY <2>2, <2>3, <2>4, <2>5
  <1>7. Good(n, b)
    BY <1>5, <1>6, RevisedIsGood
  <1> QED BY <1>1, <1>7, TrimmedIsGood

----------------------------------------------------------------------------
(* What they do to the ring.                                                 *)

\* Every record lies below the number of ids issued, so there are finitely many.
LEMMA RecordsAreFinite ==
    ASSUME NEW m, NEW b \in Nat, Formed(m, b)
    PROVE  /\ IsFiniteSet(Retained(m))
           /\ \A S \in SUBSET Retained(m) : IsFiniteSet(S) /\ Cardinality(S) \in Nat
  <1>1. IsFiniteSet(1 .. b)
    BY FS_Interval
  <1>2. Retained(m) \in SUBSET (1 .. b)
    BY DEF Formed
  <1>3. IsFiniteSet(Retained(m))
    BY <1>1, <1>2, FS_Subset
  <1> QED BY <1>3, FS_Subset, FS_CardinalityType

\* No more work is uncertain than before.
LEMMA UncertainShrinks ==
    ASSUME NEW m, NEW n, NEW b \in Nat, Formed(m, b), Ranked(m), Uncertain(n) \subseteq Uncertain(m)
    PROVE  Cardinality(Uncertain(n)) <= MaxActive
  <1>1. Uncertain(m) \in SUBSET Retained(m) /\ Uncertain(n) \in SUBSET Retained(m)
    BY DEF Uncertain, Working
  <1>2. /\ IsFiniteSet(Uncertain(m))
        /\ Cardinality(Uncertain(m)) \in Nat /\ Cardinality(Uncertain(n)) \in Nat
    BY <1>1, RecordsAreFinite
  <1>3. Cardinality(Uncertain(n)) <= Cardinality(Uncertain(m))
    BY <1>2, FS_Subset
  <1> QED BY <1>2, <1>3, HistoryAssumption DEF Ranked

\* Records that keep their ring, their stamps and their claims.
LEMMA RankedStays ==
    ASSUME NEW m, NEW n, NEW b \in Nat, Formed(m, b), Ranked(m),
           Retained(n) = Retained(m), Working(n) = Working(m), n.ring = m.ring,
           \A k \in Retained(m) : n.job[k].work = m.job[k].work /\ n.job[k].created = m.job[k].created
    PROVE  Ranked(n)
  <1>1. RingOfEnded(n)
    BY DEF Ranked, RingOfEnded
  <1>2. InOrder(n)
    BY DEF Ranked, InOrder
  <1>3. Uncertain(n) \subseteq Uncertain(m)
    BY DEF Uncertain, Working
  <1> QED BY <1>1, <1>2, <1>3, UncertainShrinks DEF Ranked

\* The entries of the ring up to k's, of those that are kept.
UpTo(ring, kept, k) == {j \in kept : ring[j] <= ring[k]}

\* Counting places anew among the entries that are kept leaves their order.
LEMMA PlacesKeepOrder ==
    ASSUME NEW ring, IsFiniteSet(DOMAIN ring), ring \in [DOMAIN ring -> Nat \ {0}],
           NEW kept \in SUBSET DOMAIN ring
    PROVE  /\ \A k \in kept : Cardinality(UpTo(ring, kept, k)) \in Nat \ {0}
           /\ \A i, k \in kept : ring[k] < ring[i] =>
                Cardinality(UpTo(ring, kept, k)) < Cardinality(UpTo(ring, kept, i))
  <1>1. ASSUME NEW k \in kept
        PROVE  IsFiniteSet(UpTo(ring, kept, k)) /\ Cardinality(UpTo(ring, kept, k)) \in Nat \ {0}
    <2>1. UpTo(ring, kept, k) \in SUBSET DOMAIN ring /\ k \in UpTo(ring, kept, k)
      BY <1>1 DEF UpTo
    <2>2. IsFiniteSet(UpTo(ring, kept, k)) /\ UpTo(ring, kept, k) # {}
      BY <2>1, FS_Subset
    <2> QED BY <2>2, FS_CardinalityType, FS_EmptySet
  <1>2. ASSUME NEW i \in kept, NEW k \in kept, ring[k] < ring[i]
        PROVE  Cardinality(UpTo(ring, kept, k)) < Cardinality(UpTo(ring, kept, i))
    <2>1. ring[i] \in Nat /\ ring[k] \in Nat
      BY <1>2
    <2>2. UpTo(ring, kept, k) \in SUBSET UpTo(ring, kept, i)
      BY <1>2, <2>1 DEF UpTo
    <2>3. i \in UpTo(ring, kept, i) /\ i \notin UpTo(ring, kept, k)
      BY <1>2, <2>1 DEF UpTo
    <2>4. /\ Cardinality(UpTo(ring, kept, k)) <= Cardinality(UpTo(ring, kept, i))
          /\ Cardinality(UpTo(ring, kept, k)) # Cardinality(UpTo(ring, kept, i))
      BY <1>1, <2>2, <2>3, FS_Subset
    <2> QED BY <1>1, <2>4
  <1> QED BY <1>1, <1>2

\* That is how records are dropped.
LEMMA WithoutKeepsOrder ==
    ASSUME NEW m, NEW b \in Nat, Formed(m, b), Ranked(m), NEW dropped
    PROVE  /\ Without(m, dropped).ring \in [DOMAIN m.ring \ dropped -> Nat \ {0}]
           /\ \A i, k \in DOMAIN m.ring \ dropped :
                m.ring[k] < m.ring[i] => Without(m, dropped).ring[k] < Without(m, dropped).ring[i]
  <1> DEFINE kept == DOMAIN m.ring \ dropped
  <1>1. Without(m, dropped).ring = [k \in kept |-> Cardinality(UpTo(m.ring, kept, k))]
    BY DEF Without, UpTo
  <1>2. /\ m.ring \in [DOMAIN m.ring -> Nat \ {0}] /\ IsFiniteSet(DOMAIN m.ring)
        /\ kept \in SUBSET DOMAIN m.ring
    BY RecordsAreFinite DEF Ranked, RingOfEnded
  <1> HIDE DEF kept
  <1>3. /\ \A k \in kept : Cardinality(UpTo(m.ring, kept, k)) \in Nat \ {0}
        /\ \A i, k \in kept : m.ring[k] < m.ring[i] =>
             Cardinality(UpTo(m.ring, kept, k)) < Cardinality(UpTo(m.ring, kept, i))
    BY <1>2, PlacesKeepOrder
  <1>4. /\ Without(m, dropped).ring \in [kept -> Nat \ {0}]
        /\ \A i, k \in kept : m.ring[k] < m.ring[i] =>
             Without(m, dropped).ring[k] < Without(m, dropped).ring[i]
    BY <1>1, <1>3
  <1> QED BY <1>4 DEF kept

\* Records that are dropped leave the others ranked.
LEMMA WithoutIsRanked ==
    ASSUME NEW m, NEW b \in Nat, Formed(m, b), Ranked(m), NEW dropped
    PROVE  Ranked(Without(m, dropped))
  <1> DEFINE n == Without(m, dropped)
             kept == DOMAIN m.ring \ dropped
  <1>1. n.job = [k \in Retained(m) \ dropped |-> m.job[k]]
    BY DEF Without
  <1>2. /\ n.ring \in [kept -> Nat \ {0}]
        /\ \A i, k \in kept : m.ring[k] < m.ring[i] => n.ring[k] < n.ring[i]
    BY WithoutKeepsOrder
  <1>3. kept = DOMAIN m.ring \ dropped
    OBVIOUS
  <1> HIDE DEF n, kept
  <1>4. Retained(n) = Retained(m) \ dropped /\ \A k \in Retained(n) : n.job[k] = m.job[k]
    BY <1>1 DEF Retained
  <1>5. Working(n) = Working(m) \ dropped
    BY <1>4 DEF Working
  <1>6. RingOfEnded(n)
    BY <1>2, <1>3, <1>4, <1>5 DEF Ranked, RingOfEnded
  <1>7. InOrder(n)
    BY <1>2, <1>3, <1>4 DEF Ranked, InOrder
  <1>8. Uncertain(n) \subseteq Uncertain(m)
    BY <1>4 DEF Uncertain, Working
  <1>9. Ranked(n)
    BY <1>6, <1>7, <1>8, UncertainShrinks DEF Ranked
  <1> QED BY <1>9 DEF n

\* So does the ring that drops its oldest entries.
LEMMA TrimmedIsRanked ==
    ASSUME NEW m, NEW b \in Nat, Formed(m, b), Ranked(m)
    PROVE  Ranked(Trimmed(m))
  BY WithoutIsRanked DEF Trimmed

\* A new job comes after all that claimed its work, which has ended by then.
LEMMA CreatedIsRanked ==
    ASSUME NEW m, NEW b \in Nat, Formed(m, b), Ranked(m), NEW w \in Works, Claims(m, w) = {},
           Cardinality(Working(m)) < MaxActive, NEW parent, NEW now \in Nat
    PROVE  Ranked(With(m, b + 1, [state |-> "queued", parent |-> parent, created |-> now,
                                  progress |-> 0, work |-> w]))
  <1> DEFINE r == [state |-> "queued", parent |-> parent, created |-> now,
                   progress |-> 0, work |-> w]
             n == With(m, b + 1, r)
  <1>1. r.state = "queued" /\ r.work = w /\ r.created = now
    OBVIOUS
  <1>2. DOMAIN m = {"job", "ring"}
    BY DEF Formed
  <1> HIDE DEF r
  <1>3. /\ n.job = [k \in Retained(m) \cup {b + 1} |-> IF k = b + 1 THEN r ELSE m.job[k]]
        /\ n.ring = m.ring
    BY <1>2 DEF With
  <1> HIDE DEF n
  <1>4. /\ Retained(n) = Retained(m) \cup {b + 1} /\ b + 1 \notin Retained(m)
        /\ n.job[b + 1] = r /\ \A k \in Retained(m) : n.job[k] = m.job[k] /\ k \in 1 .. b
    BY <1>3 DEF Retained, Formed
  <1>5. Working(n) = Working(m) \cup {b + 1}
    BY <1>1, <1>4 DEF Working, Active
  <1>6. RingOfEnded(n)
    <2>1. Working(m) \subseteq Retained(m)
      BY DEF Working
    <2> QED BY <1>3, <1>4, <1>5, <2>1 DEF Ranked, RingOfEnded
  <1>7. InOrder(n)
    <2> SUFFICES ASSUME NEW i \in Retained(n), NEW k \in Retained(n), i < k,
                        n.job[i].work = n.job[k].work, n.job[i].created <= n.job[k].created
                 PROVE  i \in DOMAIN n.ring /\ (k \in DOMAIN n.ring => n.ring[k] < n.ring[i])
      BY DEF InOrder
    <2>1. i # b + 1
      BY <1>4
    <2>2. CASE k = b + 1
      <3>1. i \in Retained(m) /\ m.job[i].work = w
        BY <1>1, <1>4, <2>1, <2>2
      <3>2. i \notin Working(m)
        BY <3>1 DEF Claims
      <3> QED BY <1>3, <1>4, <2>2, <3>1, <3>2 DEF Ranked, RingOfEnded
    <2>3. CASE k # b + 1
      BY <1>3, <1>4, <2>1, <2>3 DEF Ranked, InOrder
    <2> QED BY <2>2, <2>3
  <1>8. Cardinality(Uncertain(n)) <= MaxActive
    <2>1. Working(m) \in SUBSET Retained(m)
      BY DEF Working
    <2>2. IsFiniteSet(Working(m)) /\ Cardinality(Working(m)) \in Nat
      BY <2>1, RecordsAreFinite
    <2>3. /\ IsFiniteSet(Working(n))
          /\ Cardinality(Working(n)) <= Cardinality(Working(m)) + 1
      BY <1>5, <2>2, FS_AddElement
    <2>4. Uncertain(n) \in SUBSET Working(n)
      BY DEF Uncertain
    <2>5. Cardinality(Uncertain(n)) <= Cardinality(Working(n))
      BY <2>3, <2>4, FS_Subset
    <2>6. Cardinality(Uncertain(n)) \in Nat /\ Cardinality(Working(n)) \in Nat
      BY <2>3, <2>4, FS_Subset, FS_CardinalityType
    <2>7. MaxActive \in Nat
      BY HistoryAssumption
    <2> QED BY <2>2, <2>3, <2>5, <2>6, <2>7
  <1> QED BY <1>6, <1>7, <1>8 DEF Ranked, n, r

\* A job that starts claims what it claimed.
LEMMA MovedIsRanked ==
    ASSUME NEW m, NEW b \in Nat, Good(m, b), Ranked(m), NEW i \in Working(m), NEW s \in Active
    PROVE  Ranked(Moved(m, i, s)) /\ Retained(Moved(m, i, s)) = Retained(m)
  <1> DEFINE n == Moved(m, i, s)
  <1>1. Formed(m, b) /\ i \in Retained(m) /\ m.job[i] \in JobRecords /\ m.job[i].state \in Active
    BY DEF Good, Formed, Working
  <1>2. n.ring = m.ring /\ s \in States
    BY <1>1 DEF Moved, Formed, States
  <1>3. n.job = [k \in Retained(m) |-> IF k = i THEN [m.job[i] EXCEPT !.state = s] ELSE m.job[k]]
    BY <1>1, <1>2, MovedShape
  <1> HIDE DEF n
  <1>4. Retained(n) = Retained(m)
    BY <1>3 DEF Retained
  <1>5. /\ \A k \in Retained(m) : n.job[k].work = m.job[k].work /\ n.job[k].created = m.job[k].created
        /\ n.job[i].state = s /\ \A k \in Retained(m) \ {i} : n.job[k] = m.job[k]
    BY <1>1, <1>3 DEF JobRecords
  <1>6. Working(n) = Working(m)
    BY <1>1, <1>4, <1>5 DEF Working
  <1>7. Ranked(n)
    BY <1>1, <1>2, <1>4, <1>5, <1>6, RankedStays
  <1> QED BY <1>4, <1>7 DEF n

\* A job that ends takes the newest place; what claimed its work before has ended.
LEMMA ArchivedIsRanked ==
    ASSUME NEW m, NEW b \in Nat, Good(m, b), Ranked(m), NEW i \in Working(m),
           NEW s \in Ended \ {"superseded"}
    PROVE  /\ Ranked(Archived(m, i, s))
           /\ Working(m) \subseteq Retained(Archived(m, i, s))
  <1> DEFINE n == Retired(m, i, s)
             r == RetiredRecord(m, i, s)
  <1>1. Formed(m, b) /\ i \in Retained(m) /\ m.job[i] \in JobRecords /\ m.job[i].state \in Active
    BY DEF Good, Formed, Working
  <1>2. /\ r.work = m.job[i].work /\ r.created = m.job[i].created /\ r.state = s
        /\ r \in JobRecords /\ s \notin Active /\ s \in States
    BY <1>1 DEF JobRecords, States, Active, Ended, Retryable, RetiredRecord
  <1>3. /\ n.job = [k \in Retained(m) |-> IF k = i THEN r ELSE m.job[k]]
        /\ n.ring = Appended(m.ring, i) /\ DOMAIN n = {"job", "ring"}
    <2>1. Formed(m, b) /\ s \in States /\ i \in Retained(m)
      BY <1>1, <1>2
    <2> QED BY <2>1, RetiredShape
  <1>4. Archived(m, i, s) = Trimmed(n)
    BY DEF Archived
  <1> HIDE DEF n, r
  <1>5. Retained(n) = Retained(m)
    BY <1>3 DEF Retained
  <1>6. /\ \A k \in Retained(m) : n.job[k].work = m.job[k].work /\ n.job[k].created = m.job[k].created
        /\ n.job[i].state = s /\ \A k \in Retained(m) \ {i} : n.job[k] = m.job[k]
    BY <1>1, <1>2, <1>3
  <1>7. Working(n) = Working(m) \ {i}
    BY <1>2, <1>5, <1>6 DEF Working
  <1>8. /\ DOMAIN m.ring = Retained(m) \ Working(m)
        /\ m.ring \in [DOMAIN m.ring -> Nat \ {0}]
    BY DEF Ranked, RingOfEnded
  <1>9. /\ DOMAIN n.ring = DOMAIN m.ring \cup {i} /\ n.ring[i] = 1 /\ i \notin DOMAIN m.ring
        /\ \A k \in DOMAIN m.ring : n.ring[k] = m.ring[k] + 1
        /\ n.ring = [k \in DOMAIN n.ring |-> n.ring[k]]
    BY <1>3, <1>8 DEF Appended
  <1>10. RingOfEnded(n)
    <2>1. \A k \in DOMAIN n.ring : n.ring[k] \in Nat \ {0}
      BY <1>8, <1>9
    <2>2. DOMAIN n.ring = Retained(n) \ Working(n)
      BY <1>1, <1>5, <1>7, <1>8, <1>9
    <2> QED BY <1>9, <2>1, <2>2 DEF RingOfEnded
  <1>11. InOrder(n)
    <2> SUFFICES ASSUME NEW h \in Retained(n), NEW k \in Retained(n), h < k,
                        n.job[h].work = n.job[k].work, n.job[h].created <= n.job[k].created
                 PROVE  h \in DOMAIN n.ring /\ (k \in DOMAIN n.ring => n.ring[k] < n.ring[h])
      BY DEF InOrder
    <2>1. h \in DOMAIN m.ring /\ (k \in DOMAIN m.ring => m.ring[k] < m.ring[h])
      BY <1>5, <1>6 DEF Ranked, InOrder
    <2>2. n.ring[h] = m.ring[h] + 1 /\ m.ring[h] \in Nat \ {0} /\ h \in DOMAIN n.ring
      BY <1>8, <1>9, <2>1
    <2>3. CASE k = i
      BY <1>9, <2>2, <2>3
    <2>4. CASE k \in DOMAIN m.ring
      BY <1>8, <1>9, <2>1, <2>2, <2>4
    <2> QED BY <1>9, <2>2, <2>3, <2>4
  <1>12. Uncertain(n) \subseteq Uncertain(m)
    BY <1>1, <1>6, <1>7 DEF Uncertain, Working
  <1>13. Ranked(n)
    BY <1>1, <1>10, <1>11, <1>12, UncertainShrinks DEF Ranked
  <1>14. Formed(n, b)
    <2>1. n.job \in [Retained(n) -> JobRecords]
      BY <1>1, <1>2, <1>3, <1>5 DEF Formed
    <2>2. \A k \in Retained(n) : n.job[k].parent \in 0 .. b
      BY <1>1, <1>3, <1>5 DEF Formed, r, RetiredRecord, JobRecords
    <2> QED BY <1>1, <1>3, <1>5, <2>1, <2>2 DEF Formed
  <1>15. Ranked(Trimmed(n))
    BY <1>13, <1>14, TrimmedIsRanked
  <1>16. ASSUME NEW k \in Working(m) PROVE k \in Retained(Trimmed(n))
    <2>1. k \in Retained(n) /\ ~(k \in DOMAIN n.ring /\ n.ring[k] > MaxHistory)
      BY <1>5, <1>8, <1>9, HistoryAssumption DEF Working
    <2> QED BY <2>1 DEF Trimmed, Without, Retained
  <1> QED BY <1>4, <1>15, <1>16

\* What a success supersedes had ended, and stays where it is in the ring.
LEMMA ResolvedIsRanked ==
    ASSUME NEW m, NEW b \in Nat, Good(m, b), Ranked(m), NEW i \in Working(m)
    PROVE  Ranked(Resolved(m, i)) /\ Working(Resolved(m, i)) = Working(m)
  <1> DEFINE n == Resolved(m, i)
             R == Resolvable(m, i)
  <1>1. Formed(m, b) /\ DOMAIN m = {"job", "ring"} /\ i \in Retained(m)
    BY DEF Good, Formed, Working
  <1>2. /\ n.ring = m.ring
        /\ n.job = [k \in Retained(m) |->
                      IF k \in R THEN [m.job[k] EXCEPT !.state = "superseded"] ELSE m.job[k]]
    BY <1>1 DEF Resolved
  <1>3. \A k \in R : k \in Retained(m) /\ m.job[k].state \in Retryable
    BY <1>1, ResolvableIsClosed
  <1> HIDE DEF n, R
  <1>4. Retained(n) = Retained(m)
    BY <1>2 DEF Retained
  <1>5. ASSUME NEW k \in Retained(m)
        PROVE  /\ n.job[k].work = m.job[k].work /\ n.job[k].created = m.job[k].created
               /\ n.job[k].state = IF k \in R THEN "superseded" ELSE m.job[k].state
    <2>1. m.job[k] \in JobRecords
      BY <1>1 DEF Formed
    <2> QED BY <1>2, <2>1 DEF JobRecords
  <1>6. Working(n) = Working(m)
    BY <1>3, <1>4, <1>5 DEF Working, Active, Retryable
  <1>7. Ranked(n)
    BY <1>1, <1>2, <1>4, <1>5, <1>6, RankedStays
  <1> QED BY <1>6, <1>7 DEF n

\* A start keeps the order: what it replays was last among its work's records, and
\* what was running takes the newest places.
LEMMA RestoredIsRanked ==
    ASSUME NEW m, NEW b \in Nat, Good(m, b), Ranked(m),
           NEW place \in Injection(Cut(m), 1 .. Cardinality(Cut(m)))
    PROVE  /\ Ranked(Restored(m, place))
           /\ MaxActive <= MaxHistory => Working(m) \subseteq Retained(Restored(m, place))
  <1> DEFINE n == Requeued(m, place)
             old == Without(m, Replayed(m)).ring
             cuts == Cardinality(Cut(m))
  <1>1. Formed(m, b)
    BY DEF Good
  <1>2. Restored(m, place) = Trimmed(n)
    BY DEF Restored
  <1>3. Formed(n, b) /\ Requeues(m, n, place)
    BY <1>1, RequeuedShape
  <1> HIDE DEF n
  <1>4. /\ Formed(n, b) /\ Retained(n) = Retained(m)
        /\ n.ring = [i \in DOMAIN n.ring |-> n.ring[i]]
        /\ DOMAIN n.ring = (DOMAIN m.ring \ Replayed(m)) \cup Cut(m)
        /\ \A i \in DOMAIN n.ring :
             n.ring[i] = IF i \in Cut(m) THEN place[i] ELSE old[i] + cuts
        /\ \A i \in Retained(m) :
             /\ n.job[i].work = m.job[i].work
             /\ n.job[i].created = m.job[i].created
             /\ n.job[i].state = IF i \in Resumed(m) THEN "queued"
                                 ELSE IF i \in Cut(m) THEN "interrupted" ELSE m.job[i].state
    BY <1>3 DEF Requeues
  <1>5. /\ m.ring \in [DOMAIN m.ring -> Nat \ {0}] /\ IsFiniteSet(DOMAIN m.ring)
        /\ DOMAIN m.ring = Retained(m) \ Working(m)
    BY <1>1, RecordsAreFinite DEF Ranked, RingOfEnded
  <1>6. /\ old \in [DOMAIN m.ring \ Replayed(m) -> Nat \ {0}]
        /\ \A i, k \in DOMAIN m.ring \ Replayed(m) : m.ring[k] < m.ring[i] => old[k] < old[i]
    BY <1>1, WithoutKeepsOrder
  <1> HIDE DEF old
  <1>7. Cut(m) \in SUBSET Working(m) /\ Working(m) \in SUBSET Retained(m)
    BY DEF Cut, Working
  <1>8. cuts \in Nat /\ IsFiniteSet(Cut(m))
    <2>1. Cut(m) \in SUBSET Retained(m)
      BY <1>7
    <2> QED BY <1>1, <2>1, RecordsAreFinite
  <1>9. \A i \in Cut(m) : place[i] \in 1 .. cuts
    BY DEF Injection
  <1>10. cuts <= MaxActive
    <2>1. Cut(m) \in SUBSET Uncertain(m)
      BY DEF Cut, Uncertain
    <2>2. Uncertain(m) \in SUBSET Retained(m)
      BY DEF Uncertain, Working
    <2>3. IsFiniteSet(Uncertain(m)) /\ Cardinality(Uncertain(m)) \in Nat
      BY <1>1, <2>2, RecordsAreFinite
    <2>4. cuts <= Cardinality(Uncertain(m))
      BY <2>1, <2>3, FS_Subset
    <2>5. MaxActive \in Nat /\ Cardinality(Uncertain(m)) <= MaxActive
      BY HistoryAssumption DEF Ranked
    <2> QED BY <1>8, <2>3, <2>4, <2>5
  <1> HIDE DEF cuts
  <1>11. Replayed(m) \in SUBSET (Retained(m) \ Working(m))
    <2>1. \A i \in Replayed(m) : i \in Retained(m) /\ m.job[i].state = "shut_down"
      BY DEF Replayed
    <2> QED BY <2>1 DEF Working, Active
  <1>12. Working(n) = Resumed(m)
    <2>1. Resumed(m) \subseteq Retained(m) /\ Resumed(m) \cap Cut(m) = {}
      BY <1>7, <1>11 DEF Resumed
    <2>2. \A i \in Retained(m) \ Resumed(m) : n.job[i].state \notin Active
      BY <1>4, <1>7 DEF Resumed, Working, Active
    <2>3. \A i \in Resumed(m) : n.job[i].state \in Active
      BY <1>4, <2>1 DEF Active
    <2> QED BY <1>4, <2>1, <2>2, <2>3 DEF Working
  <1>13. RingOfEnded(n)
    <2>1. DOMAIN n.ring = Retained(n) \ Working(n)
      BY <1>4, <1>5, <1>7, <1>11, <1>12 DEF Resumed
    <2>2. \A i \in DOMAIN n.ring : n.ring[i] \in Nat \ {0}
      BY <1>4, <1>6, <1>8, <1>9
    <2> QED BY <1>4, <2>1, <2>2 DEF RingOfEnded
  <1>14. InOrder(n)
    <2> SUFFICES ASSUME NEW i \in Retained(n), NEW k \in Retained(n), i < k,
                        n.job[i].work = n.job[k].work, n.job[i].created <= n.job[k].created
                 PROVE  i \in DOMAIN n.ring /\ (k \in DOMAIN n.ring => n.ring[k] < n.ring[i])
      BY DEF InOrder
    <2>1. /\ i \in Retained(m) /\ k \in Retained(m) /\ m.job[k].work = m.job[i].work
          /\ m.job[i].created <= m.job[k].created
          /\ m.job[i].created \in Nat /\ m.job[k].created \in Nat
      BY <1>1, <1>4 DEF Formed, JobRecords
    <2>2. i \in DOMAIN m.ring /\ (k \in DOMAIN m.ring => m.ring[k] < m.ring[i])
      BY <2>1 DEF Ranked, InOrder
    <2>3. i \notin Replayed(m)
      BY <2>1, ReplayedIsLast
    <2>4. i \in DOMAIN n.ring /\ n.ring[i] = old[i] + cuts /\ old[i] \in Nat \ {0}
      BY <1>4, <1>5, <1>6, <1>7, <2>2, <2>3
    <2>5. CASE k \in Cut(m)
      BY <1>4, <1>8, <1>9, <2>4, <2>5
    <2>6. CASE k \notin Cut(m)
      <3> SUFFICES ASSUME k \in DOMAIN n.ring PROVE n.ring[k] < n.ring[i]
        BY <2>4
      <3>1. k \in DOMAIN m.ring \ Replayed(m) /\ n.ring[k] = old[k] + cuts
        BY <1>4, <2>6
      <3> QED BY <1>6, <1>8, <2>2, <2>3, <2>4, <3>1
    <2> QED BY <2>5, <2>6
  <1>15. Uncertain(n) \subseteq Uncertain(m)
    <2>1. \A i \in Replayed(m) : m.job[i].work \in Recoverable
      BY DEF Replayed
    <2> QED BY <1>4, <1>7, <1>11, <1>12, <2>1 DEF Uncertain, Resumed
  <1>16. Ranked(n)
    BY <1>1, <1>13, <1>14, <1>15, UncertainShrinks DEF Ranked
  <1>17. Ranked(Trimmed(n))
    BY <1>4, <1>16, TrimmedIsRanked
  <1>18. ASSUME MaxActive <= MaxHistory, NEW i \in Working(m)
         PROVE  i \in Retained(Trimmed(n))
    <2>1. i \in DOMAIN n.ring => n.ring[i] \in 1 .. cuts
      BY <1>4, <1>5, <1>9, <1>18
    <2>2. ~(i \in DOMAIN n.ring /\ n.ring[i] > MaxHistory)
      BY <1>8, <1>10, <1>18, <2>1, HistoryAssumption
    <2>3. i \in Retained(n)
      BY <1>4, <1>7
    <2> QED BY <2>2, <2>3 DEF Trimmed, Without, Retained
  <1> QED BY <1>2, <1>17, <1>18

\* No records are sound records.
LEMMA NothingIsSound == ASSUME NEW b \in Nat PROVE Sound(NoRecords, b)
  <1>1. Retained(NoRecords) = {} /\ NoRecords.ring = [i \in {} |-> 0]
    BY DEF NoRecords, Retained
  <1>2. Working(NoRecords) = {} /\ Uncertain(NoRecords) = {}
    BY <1>1 DEF Working, Uncertain
  <1>3. RingOfEnded(NoRecords) /\ InOrder(NoRecords)
    BY <1>1, <1>2 DEF RingOfEnded, InOrder
  <1>4. Cardinality(Uncertain(NoRecords)) <= MaxActive
    BY <1>2, FS_EmptySet, HistoryAssumption
  <1> QED BY <1>3, <1>4, NothingIsGood DEF Sound, Ranked

----------------------------------------------------------------------------
(* What a write leaves behind.                                               *)

\* Memory and file hold what they held, or what was to be written.
LEMMA PersistWrites ==
    ASSUME NEW new, NEW keep, Persist(new, keep)
    PROVE  /\ mem' \in {mem, new} /\ file' \in {file, new}
           /\ keep \/ (mem' = new /\ file' = new) \/ (mem' = mem /\ file' = file)
  BY DEF Persist

\* All generations are good when each one that is new is.
LEMMA GenerationsFollow ==
    ASSUME GenerationsGood, issued' \in Nat, issued <= issued',
           \A m \in Generations' : m \in Generations \/ Sound(m, issued')
    PROVE  GenerationsGood'
  <1>1. ASSUME NEW m \in Generations' PROVE Sound(m, issued')
    BY GoodGrows DEF GenerationsGood, Sound
  <1> QED BY <1>1 DEF GenerationsGood

\* A write of good records.
LEMMA PersistKeepsGood ==
    ASSUME GenerationsGood, NEW new, NEW keep, Persist(new, keep), UNCHANGED <<issued, writing>>,
           Sound(new, issued)
    PROVE  GenerationsGood'
  <1>1. \A m \in Generations' : m \in Generations \/ m = new
    BY PersistWrites DEF Generations
  <1>2. issued' \in Nat /\ issued <= issued'
    BY DEF GenerationsGood
  <1> QED BY <1>1, <1>2, GenerationsFollow

\* A write that is refused leaves dirty what it should, and one that is made cleans all.
LEMMA PersistKeepsBooks ==
    ASSUME BooksKept, NEW new, NEW keep, Persist(new, keep), UNCHANGED flushVars,
           life # "down", life' \in {"up", "stopping", "stopped"}
    PROVE  BooksKept'
  <1> USE DEF BooksKept, CleanIsDurable, Clean, flushVars
  <1>1. writing = {} /\ writing' = {} /\ settling' = settling /\ generation' = generation
    BY DEF Persist
  <1>2. CASE mem' = new /\ file' = new /\ dirty' = FALSE /\ flushed' = generation
    <2>1. generation \in Nat /\ ~(flushed' < generation')
      BY <1>1, <1>2
    <2>2. dirty' \in BOOLEAN
      BY <1>2, Zenon
    <2>3. \A s \in settling' :
            s.generation \in Nat /\ s.generation <= generation' /\ s.ok \in BOOLEAN
      BY <1>1
    <2>4. CleanIsDurable'
      BY <1>2
    <2>5. flushed' \in Nat /\ flushed' <= generation' /\ generation' \in Nat
      BY <1>1, <1>2, <2>1
    <2> QED BY <1>1, <2>1, <2>3, <2>4, <2>5, <2>2
  <1>3. CASE mem' = new /\ file' = new /\ dirty' = TRUE /\ UNCHANGED flushed
    BY <1>1, <1>3
  <1>4. CASE mem' = new /\ dirty' = TRUE /\ UNCHANGED <<file, flushed>>
    BY <1>1, <1>4
  <1>5. CASE UNCHANGED <<mem, file, dirty, flushed>>
    BY <1>1, <1>5
  <1> QED BY <1>2, <1>3, <1>4, <1>5 DEF Persist

\* A call that writes nothing.
LEMMA BooksStay ==
    ASSUME BooksKept, UNCHANGED <<mem, file, bookVars, flushVars>>,
           life # "down", life' \in {"up", "stopping", "stopped"}
    PROVE  BooksKept'
  BY DEF BooksKept, CleanIsDurable, Clean, bookVars, flushVars

----------------------------------------------------------------------------
(* Every step keeps the invariant.                                           *)

\* A job is admitted, and its number is used up once its record is.
LEMMA AdmitKeeps ==
    ASSUME HistoryInv, NEW w \in Works, NEW parent,
           parent = NoParent \/ (parent \in Retained(mem) /\ mem.job[parent].state \in Retryable),
           Admit(w, parent), life # "down"
    PROVE  HistoryInv'
  <1> USE DEF HistoryInv
  <1>1. PICK now \in 0 .. MaxClock : Persist(Created(issued + 1, w, parent, now), Undo)
    BY DEF Admit
  <1> DEFINE new == Created(issued + 1, w, parent, now)
  <1>2. /\ issued \in Nat /\ Sound(mem, issued)
        /\ life' \in {"up", "stopping", "stopped"}
    BY DEF GenerationsGood, Generations, Admit, BooksKept
  <1>3. Sound(new, issued + 1)
    BY <1>2, CreatedIsGood, CreatedIsRanked DEF Created, Admit, Sound, Good
  <1>4. issued + 1 \in Retained(new) /\ issued + 1 \notin Retained(mem)
    BY <1>2 DEF Created, With, Retained, Sound, Good, Formed
  <1>5. /\ issued' = IF mem' = mem THEN issued ELSE issued + 1
        /\ UNCHANGED flushVars
    BY DEF Admit
  <1> HIDE DEF new
  <1>6. (mem' = new /\ file' = new) \/ (mem' = mem /\ file' = file)
    BY <1>1, PersistWrites DEF Undo, new
  <1>7. GenerationsGood'
    <2>1. \A m \in Generations' : m \in Generations \/ Sound(m, issued')
      BY <1>3, <1>4, <1>5, <1>6 DEF Generations, flushVars
    <2> QED BY <1>2, <1>5, <2>1, GenerationsFollow
  <1>8. BooksKept'
    BY <1>1, <1>2, <1>5, PersistKeepsBooks
  <1> QED BY <1>7, <1>8

\* A call that writes records made of the present ones, or nothing.
LEMMA WriteKeeps ==
    ASSUME HistoryInv, NEW new, NEW keep, Persist(new, keep), Sound(new, issued),
           UNCHANGED <<issued, flushVars>>,
           life # "down", life' \in {"up", "stopping", "stopped"}
    PROVE  HistoryInv'
  BY PersistKeepsGood, PersistKeepsBooks DEF HistoryInv, flushVars

\* A running job reports progress, and its thread may go on to write it.
LEMMA PublishKeeps ==
    ASSUME HistoryInv, NEW i, Publish(i)
    PROVE  HistoryInv'
  <1> USE DEF HistoryInv
  <1>1. /\ issued \in Nat /\ Sound(mem, issued) /\ generation \in Nat
        /\ i \in Retained(mem) /\ mem.job[i].state = "running"
    BY DEF GenerationsGood, Generations, BooksKept, Publish, Working
  <1>2. /\ generation' = generation + 1
        /\ mem' = [mem EXCEPT !.job[i].progress = generation + 1]
        /\ BeginFlush(mem', generation')
        /\ UNCHANGED <<file, issued, dirty, flushed, settling, life>>
    BY DEF Publish
  <1> DEFINE r == [mem.job[i] EXCEPT !.progress = generation + 1]
  <1>3. mem.job[i] \in JobRecords
    BY <1>1 DEF Sound, Good, Formed
  <1>4. /\ r \in JobRecords /\ r.work = mem.job[i].work /\ r.parent = mem.job[i].parent
        /\ r.created = mem.job[i].created /\ r.state = "running"
    BY <1>1, <1>3 DEF JobRecords
  <1>5. /\ DOMAIN mem' = {"job", "ring"} /\ mem'.ring = mem.ring
        /\ mem'.job = [k \in Retained(mem) |-> IF k = i THEN r ELSE mem.job[k]]
    BY <1>1, <1>2 DEF Sound, Good, Formed, Retained
  <1> HIDE DEF r
  <1>6. Retained(mem') = Retained(mem)
    BY <1>5 DEF Retained
  <1>7. Working(mem') = Working(mem)
    BY <1>1, <1>4, <1>5, <1>6 DEF Working
  <1>8. Sound(mem', issued)
    <2>1. Good(mem', issued)
      BY <1>1, <1>4, <1>5, OneMoves DEF Sound, Active
    <2>2. \A k \in Retained(mem) : mem'.job[k].work = mem.job[k].work
                                   /\ mem'.job[k].created = mem.job[k].created
      BY <1>4, <1>5
    <2>3. Ranked(mem')
      BY <1>1, <1>5, <1>6, <1>7, <2>2, RankedStays DEF Sound, Good
    <2> QED BY <2>1, <2>3 DEF Sound
  <1>9. GenerationsGood'
    <2>1. \A m \in Generations' : m \in Generations \/ m = mem'
      BY <1>2 DEF Generations, BeginFlush
    <2> QED BY <1>1, <1>2, <1>8, <2>1, GenerationsFollow
  <1>10. BooksKept'
    <2>1. mem # NoRecords
      BY <1>1 DEF NoRecords, Retained
    <2>2. life # "down"
      BY <2>1 DEF BooksKept
    <2>3. CASE UNCHANGED writing
      BY <1>2, <1>7, <2>2, <2>3 DEF BooksKept, CleanIsDurable, Clean
    <2>4. CASE writing' = {[content |-> mem', generation |-> generation']}
      BY <1>2, <2>2, <2>4 DEF BooksKept, CleanIsDurable, Clean
    <2> QED BY <1>2, <2>3, <2>4 DEF BeginFlush
  <1> QED BY <1>9, <1>10

\* The flush ends its write, made or not.
LEMMA FlushWritesKeeps ==
    ASSUME HistoryInv, NEW p \in writing, FlushWrites(p)
    PROVE  HistoryInv'
  <1> USE DEF HistoryInv
  <1>1. /\ writing' = {} /\ UNCHANGED <<mem, issued, bookVars, life>>
        /\ file' \in {file, p.content}
    BY DEF FlushWrites, BooksKept
  <1>2. GenerationsGood'
    <2>1. \A m \in Generations' : m \in Generations
      BY <1>1 DEF Generations
    <2>2. issued \in Nat /\ issued' = issued
      BY <1>1 DEF GenerationsGood
    <2> QED BY <2>1, <2>2, GenerationsFollow
  <1>3. BooksKept'
    <2>1. /\ p.generation \in Nat /\ flushed < p.generation /\ p.generation <= generation
          /\ p.generation = generation => p.content = mem
          /\ \A s \in settling : s.generation < p.generation
          /\ flushed \in Nat /\ generation \in Nat /\ life # "down"
      BY DEF BooksKept
    <2>2. PICK ok \in BOOLEAN :
            /\ settling' = settling \cup {[generation |-> p.generation, ok |-> ok]}
            /\ ok => file' = p.content
      BY DEF FlushWrites
    <2>3. ~Clean'
      BY <1>1, <2>1 DEF bookVars, Clean
    <2>4. ASSUME NEW s \in settling'
          PROVE  /\ s.generation \in Nat /\ s.generation <= generation /\ s.ok \in BOOLEAN
                 /\ s.ok /\ s.generation = generation => file' = mem
      <3>1. CASE s \in settling
        BY <2>1, <3>1 DEF BooksKept
      <3>2. CASE s = [generation |-> p.generation, ok |-> ok]
        BY <2>1, <2>2, <3>2
      <3> QED BY <2>2, <3>1, <3>2
    <2>5. generation' = generation /\ mem' = mem /\ flushed' = flushed /\ dirty' = dirty /\ life' = life
      BY <1>1 DEF bookVars
    <2> QED BY <1>1, <2>1, <2>3, <2>4, <2>5 DEF BooksKept, CleanIsDurable
  <1> QED BY <1>2, <1>3

\* What the flush wrote is entered in the books.
LEMMA FlushSettlesKeeps ==
    ASSUME HistoryInv, NEW s \in settling, FlushSettles(s)
    PROVE  HistoryInv'
  <1> USE DEF HistoryInv
  <1>1. /\ settling' = settling \ {s}
        /\ flushed' = IF s.ok /\ s.generation > flushed THEN s.generation ELSE flushed
        /\ dirty' = (dirty \/ (~s.ok /\ flushed < s.generation))
        /\ mem' = mem /\ file' = file /\ issued' = issued /\ generation' = generation
        /\ writing' = writing /\ life' = life
    BY DEF FlushSettles
  <1>2. GenerationsGood'
    <2>1. \A m \in Generations' : m \in Generations
      BY <1>1 DEF Generations
    <2>2. issued \in Nat /\ issued' = issued
      BY <1>1 DEF GenerationsGood
    <2> QED BY <2>1, <2>2, GenerationsFollow
  <1>3. BooksKept'
    <2>1. /\ s.generation \in Nat /\ s.generation <= generation /\ s.ok \in BOOLEAN
          /\ s.ok /\ s.generation = generation /\ flushed < generation => file = mem \/ dirty
          /\ flushed \in Nat /\ generation \in Nat /\ flushed <= generation
          /\ dirty \in BOOLEAN /\ life # "down"
      BY DEF BooksKept
    <2>2. /\ flushed' \in Nat /\ flushed' <= generation' /\ flushed <= flushed'
          /\ flushed' \in {flushed, s.generation}
          /\ flushed' # flushed => s.ok
      BY <1>1, <2>1
    <2>3. dirty' \in BOOLEAN /\ (dirty => dirty')
      BY <1>1, <2>1
    <2>4. \A p \in writing' : flushed' < p.generation
      BY <1>1, <2>2 DEF BooksKept
    <2>5. ASSUME NEW t \in settling', t.ok, t.generation = generation', flushed' < generation'
          PROVE  file' = mem' \/ dirty'
      BY <1>1, <2>1, <2>2, <2>3, <2>5 DEF BooksKept
    <2>6. CleanIsDurable'
      <3> SUFFICES ASSUME ~dirty', flushed' = generation'
                   PROVE  file' = mem'
        BY DEF CleanIsDurable, Clean
      <3>1. ~dirty
        BY <2>3
      <3>2. CASE flushed = generation
        BY <1>1, <2>1, <3>1, <3>2 DEF BooksKept, CleanIsDurable, Clean
      <3>3. CASE flushed # generation
        BY <1>1, <2>1, <2>2, <3>1, <3>3
      <3> QED BY <3>2, <3>3
    <2> QED BY <1>1, <2>1, <2>2, <2>3, <2>4, <2>5, <2>6 DEF BooksKept
  <1> QED BY <1>2, <1>3

\* The process ends: what it was writing reaches the file, or not.
LEMMA ExitKeeps ==
    ASSUME HistoryInv, Exit
    PROVE  HistoryInv'
  <1> USE DEF HistoryInv, Exit
  <1>1. GenerationsGood'
    <2>1. \A m \in Generations' : m \in Generations \/ m = NoRecords
      BY DEF Generations
    <2>2. issued' \in Nat /\ issued <= issued'
      BY DEF GenerationsGood
    <2> QED BY <2>1, <2>2, NothingIsSound, GenerationsFollow
  <1>2. BooksKept'
    <2>1. dirty' \in BOOLEAN /\ ~dirty'
      BY Zenon
    <2> QED BY <2>1 DEF BooksKept, CleanIsDurable
  <1> QED BY <1>1, <1>2

\* A start reads the file, puts the records in order and writes them.
LEMMA RestartKeeps ==
    ASSUME HistoryInv, Restart
    PROVE  HistoryInv'
  <1> USE DEF HistoryInv
  <1>1. PICK place \in Injection(Cut(file), 1..Cardinality(Cut(file))) :
            mem' = Restored(file, place)
    BY DEF Restart
  <1>2. /\ file' = mem' /\ dirty' \in BOOLEAN /\ life' \in {"up", "stopping"} /\ life = "down"
        /\ UNCHANGED <<issued, generation, flushed, writing, settling>>
    BY DEF Restart, flushVars
  <1>3. GenerationsGood'
    <2>1. issued \in Nat /\ Sound(file, issued)
      BY DEF GenerationsGood, Generations
    <2>2. Sound(mem', issued')
      BY <1>1, <1>2, <2>1, RestoredIsGood, RestoredIsRanked DEF Sound
    <2>3. \A m \in Generations' : m \in Generations \/ Sound(m, issued')
      BY <1>2, <2>2 DEF Generations
    <2> QED BY <1>2, <2>1, <2>3, GenerationsFollow
  <1>4. BooksKept'
    BY <1>2 DEF BooksKept, CleanIsDurable
  <1> QED BY <1>3, <1>4

\* A restart, a call or a flush at a time: every step keeps the invariant.
LEMMA NextKeeps == HistoryInv /\ [HistoryNext]_historyVars => HistoryInv'
  <1> SUFFICES ASSUME HistoryInv, [HistoryNext]_historyVars PROVE HistoryInv'
    OBVIOUS
  <1>1. issued \in Nat /\ Sound(mem, issued)
    BY DEF HistoryInv, GenerationsGood, Generations
  <1>2. ASSUME NEW i \in Working(mem)
        PROVE  i \in Retained(mem) /\ mem.job[i].state \in Active /\ mem.job[i].work \in Works
    BY <1>1, <1>2 DEF Working, Sound, Good, Formed, JobRecords
  <1>3. ASSUME NEW i \in Retained(mem)
        PROVE  mem.job[i].work \in Works
    BY <1>1, <1>3 DEF Sound, Good, Formed, JobRecords
  <1>4. ASSUME NEW w \in Works, Create(w) PROVE HistoryInv'
    <2>1. Admit(w, NoParent) /\ life # "down"
      BY <1>4 DEF Create
    <2> QED BY <2>1, AdmitKeeps
  <1>5. ASSUME NEW i \in Ids, Retry(i) PROVE HistoryInv'
    <2>1. /\ i \in Retained(mem) /\ mem.job[i].state \in Retryable
          /\ Admit(mem.job[i].work, i) /\ life # "down"
      BY <1>5 DEF Retry
    <2> QED BY <1>3, <2>1, AdmitKeeps
  <1>6. ASSUME NEW i \in Ids, Start(i) PROVE HistoryInv'
    <2>1. /\ Persist(Moved(mem, i, "running"), Undo) /\ i \in Working(mem)
          /\ UNCHANGED <<issued, flushVars>> /\ life = "up" /\ life' = life
      BY <1>6 DEF Start
    <2>2. Sound(Moved(mem, i, "running"), issued)
      BY <1>1, <1>2, <2>1, MovedIsGood, MovedIsRanked DEF Active, Sound
    <2> QED BY <2>1, <2>2, WriteKeeps
  <1>7. ASSUME NEW i \in Ids, Publish(i) PROVE HistoryInv'
    BY <1>7, PublishKeeps
  <1>8. ASSUME NEW i \in Ids, FailUnstarted(i) PROVE HistoryInv'
    <2>1. /\ Persist(Archived(mem, i, "failed"), Undo) /\ i \in Working(mem)
          /\ UNCHANGED <<issued, flushVars>> /\ life \in {"up", "stopping"} /\ life' = life
      BY <1>8 DEF FailUnstarted
    <2>2. Sound(Archived(mem, i, "failed"), issued)
      BY <1>1, <1>2, <2>1, ArchivedIsGood, ArchivedIsRanked DEF Ended, Retryable, Sound
    <2> QED BY <2>1, <2>2, WriteKeeps
  <1>9. ASSUME NEW i \in Ids, Delete(i) PROVE HistoryInv'
    <2>1. /\ Persist(Without(mem, {i}), Undo)
          /\ UNCHANGED <<issued, flushVars>> /\ life \in {"up", "stopping"} /\ life' = life
      BY <1>9 DEF Delete
    <2>2. Sound(Without(mem, {i}), issued)
      BY <1>1, WithoutIsGood, WithoutIsRanked DEF Sound, Good
    <2> QED BY <2>1, <2>2, WriteKeeps
  <1>10. ASSUME NEW i \in Ids, NEW o \in {"succeeded", "failed", "shut_down"}, Finish(i, o)
         PROVE  HistoryInv'
    <2> DEFINE resolved == IF o = "succeeded" THEN Resolved(mem, i) ELSE mem
    <2>1. /\ Persist(Archived(resolved, i, o), Keep) /\ i \in Working(mem)
          /\ UNCHANGED <<issued, flushVars>> /\ life \in {"up", "stopping"} /\ life' = life
      BY <1>10 DEF Finish
    <2>2. Ranked(resolved) /\ Working(resolved) = Working(mem)
      BY <1>1, <2>1, ResolvedIsRanked DEF Sound
    <2>3. /\ Good(resolved, issued) /\ i \in Retained(resolved)
          /\ resolved.job[i].state \in Active
          /\ o = "succeeded" =>
               \A k \in Retained(resolved) :
                   resolved.job[i].parent = k => resolved.job[k].state = "superseded"
      BY <1>1, <1>2, <2>1, ResolvedIsGood DEF Sound
    <2> HIDE DEF resolved
    <2>4. Sound(Archived(resolved, i, o), issued)
      BY <1>1, <2>1, <2>3, <2>2, ArchivedIsGood, ArchivedIsRanked DEF Ended, Retryable, Sound
    <2> QED BY <2>1, <2>4, WriteKeeps
  <1>11. ASSUME NEW p \in writing, FlushWrites(p) PROVE HistoryInv'
    BY <1>11, FlushWritesKeeps
  <1>12. ASSUME NEW s \in settling, FlushSettles(s) PROVE HistoryInv'
    BY <1>12, FlushSettlesKeeps
  <1>13. CASE FlushPersistence
    BY <1>1, <1>13, WriteKeeps DEF FlushPersistence
  <1>14. ASSUME UNCHANGED <<mem, file, issued, bookVars, flushVars>>,
                life # "down", life' \in {"up", "stopping", "stopped"}
         PROVE  HistoryInv'
    <2>1. GenerationsGood'
      BY <1>14 DEF HistoryInv, GenerationsGood, Generations, flushVars
    <2> QED BY <1>14, <2>1, BooksStay DEF HistoryInv
  <1>15. CASE BeginShutdown
    BY <1>14, <1>15 DEF BeginShutdown
  <1>16. CASE CompleteShutdown
    <2>1. /\ life = "stopping" /\ life' = "stopped" /\ UNCHANGED <<issued, flushVars>>
          /\ UNCHANGED <<mem, file, bookVars>> \/ Persist(mem, Keep)
      BY <1>16 DEF CompleteShutdown
    <2> QED BY <1>1, <1>14, <2>1, WriteKeeps
  <1>17. CASE Reopen
    BY <1>14, <1>17 DEF Reopen
  <1>18. CASE Exit
    BY <1>18, ExitKeeps
  <1>19. CASE Restart
    BY <1>19, RestartKeeps
  <1>20. CASE UNCHANGED historyVars
    <2>1. GenerationsGood'
      BY <1>20 DEF HistoryInv, GenerationsGood, Generations, historyVars, flushVars
    <2>2. BooksKept'
      BY <1>20 DEF HistoryInv, BooksKept, CleanIsDurable, Clean, historyVars, bookVars, flushVars
    <2> QED BY <2>1, <2>2 DEF HistoryInv
  <1> QED
    BY <1>4, <1>5, <1>6, <1>7, <1>8, <1>9, <1>10, <1>11, <1>12, <1>13, <1>15, <1>16, <1>17,
       <1>18, <1>19, <1>20 DEF HistoryNext

\* Before the first start there are no records.
LEMMA InitHolds == HistoryInit => HistoryInv
  <1> SUFFICES ASSUME HistoryInit PROVE HistoryInv
    OBVIOUS
  <1> USE DEF HistoryInit
  <1>1. GenerationsGood
    BY NothingIsSound DEF GenerationsGood, Generations
  <1>2. dirty \in BOOLEAN /\ ~dirty
    BY Zenon
  <1>3. BooksKept
    BY <1>2 DEF BooksKept, CleanIsDurable
  <1> QED BY <1>1, <1>3 DEF HistoryInv

\* The inductive invariant holds of every behaviour.
THEOREM HistoryInvariant == HistorySpec => []HistoryInv
  BY InitHolds, NextKeeps, PTL DEF HistorySpec

\* Memory, file and a write under way never hold two active jobs for one work:
\* creation and retry look for an owner, a replay wants work nobody claims.
THEOREM WorkHasOneOwner == HistorySpec => []OneOwnerPerWork
  <1>1. HistoryInv => OneOwnerPerWork
    <2> SUFFICES ASSUME HistoryInv, NEW m \in Generations, NEW w \in Works
                 PROVE  Cardinality(Claims(m, w)) <= 1
      BY DEF OneOwnerPerWork
    <2>1. Owned(m)
      BY DEF HistoryInv, GenerationsGood, Sound, Good
    <2>2. \A i, k \in Claims(m, w) : i = k
      BY <2>1 DEF Claims, Owned
    <2>3. CASE Claims(m, w) = {}
      BY <2>3, FS_EmptySet
    <2>4. ASSUME NEW i \in Claims(m, w) PROVE Cardinality(Claims(m, w)) <= 1
      <3>1. Claims(m, w) = {i}
        BY <2>2
      <3> QED BY <3>1, FS_Singleton
    <2> QED BY <2>3, <2>4
  <1> QED BY <1>1, HistoryInvariant, PTL

\* What a success retried, directly or through retries that failed, is superseded
\* in every generation, so that no restart puts it back to work.
THEOREM LineageStaysSettled == HistorySpec => []LineageSettled
  <1>1. HistoryInv => LineageSettled
    BY DEF HistoryInv, GenerationsGood, Sound, Good, Descent, LineageSettled, Done
  <1> QED BY <1>1, HistoryInvariant, PTL

\* A manager without unsaved changes has its records in the file, whatever writes
\* failed and however flushes and lifecycle writes met.
THEOREM CleanStaysDurable == HistorySpec => []CleanIsDurable
  <1>1. HistoryInv => CleanIsDurable
    BY DEF HistoryInv, BooksKept
  <1> QED BY <1>1, HistoryInvariant, PTL

\* Only a start ends the time without a process.
LEMMA OnlyRestartStarts ==
    ASSUME HistoryNext, life = "down", life' # "down"
    PROVE  Restart
  BY DEF HistoryNext, Create, Retry, Admit, Start, Publish, FailUnstarted, Delete, Finish,
         FlushWrites, FlushSettles, FlushPersistence, BeginShutdown, CompleteShutdown, Reopen, Exit

\* A start replays what is last of its work and has no retry: the order of the ring
\* tells it from what ended later under the same stamp.
THEOREM OnlyUnclaimedWorkIsReplayed == HistorySpec => ReplaysOnlyUnclaimedWork
  <1> DEFINE A == \A i \in Retained(file) :
                (life = "down" /\ life' # "down" /\ file.job[i].state \in Ended
                    /\ i \in Working(mem'))
                => \A k \in Retained(file) \ {i} :
                      file.job[k].work = file.job[i].work =>
                          /\ file.job[k].state \in Ended /\ file.job[k].parent # i
                          /\ k > i => file.job[k].created < file.job[i].created
  <1>1. HistoryInv /\ [HistoryNext]_historyVars => [A]_historyVars
    <2> SUFFICES ASSUME HistoryInv, HistoryNext, NEW i \in Retained(file),
                        life = "down", life' # "down", file.job[i].state \in Ended,
                        i \in Working(mem'),
                        NEW k \in Retained(file) \ {i}, file.job[k].work = file.job[i].work
                 PROVE  /\ file.job[k].state \in Ended /\ file.job[k].parent # i
                        /\ k > i => file.job[k].created < file.job[i].created
      OBVIOUS
    <2>1. PICK place \in Injection(Cut(file), 1..Cardinality(Cut(file))) :
              mem' = Restored(file, place)
      BY OnlyRestartStarts DEF Restart
    <2>2. Good(file, issued) /\ Ranked(file) /\ Formed(file, issued) /\ issued \in Nat
      BY DEF HistoryInv, GenerationsGood, Generations, Sound, Good
    <2>3. i \notin Working(file) /\ file.job[i].state \notin Active
      BY DEF Working, Active, Ended, Retryable
    <2>4. i \in Replayed(file)
      <3>1. i \in Working(Restored(file, place))
        BY <2>1
      <3>2. i \in Resumed(file)
        BY <2>2, <3>1, OnlyResumedWorks
      <3> QED BY <2>3, <3>2 DEF Resumed
    <2>5. Claims(file, file.job[i].work) = {} /\ Children(file, i) = {}
      BY <2>4 DEF Replayed
    <2>6. file.job[k].state \in Ended
      <3>1. k \notin Working(file)
        BY <2>5 DEF Claims
      <3>2. file.job[k] \in JobRecords
        BY <2>2 DEF Formed
      <3> QED BY <3>1, <3>2 DEF Working, JobRecords, States
    <2>7. file.job[k].parent # i
      BY <2>5 DEF Children
    <2>8. ASSUME k > i PROVE file.job[k].created < file.job[i].created
      <3>1. i \in Nat /\ k \in Nat
        BY <2>2 DEF Formed
      <3>2. i < k
        BY <2>8, <3>1
      <3> QED BY <2>2, <2>4, <3>2, ReplayedIsLast
    <2> QED BY <2>6, <2>7, <2>8
  <1>2. HistorySpec => [][A]_historyVars
    BY <1>1, HistoryInvariant, PTL DEF HistorySpec
  <1> QED BY <1>2 DEF ReplaysOnlyUnclaimedWork

\* A write of records that still have a job leaves it in the file.
LEMMA PersistKeepsWork ==
    ASSUME NEW new, NEW keep, Persist(new, keep), NEW i, i \in Retained(file), i \in Retained(new)
    PROVE  i \in Retained(file')
  BY PersistWrites

\* Working jobs stay in the file, with as much history as there may be active work: a
\* crash ends all work that cannot be resumed, and it all has to fit into the ring.
THEOREM AdmittedWorkStays ==
    ASSUME MaxActive <= MaxHistory
    PROVE  HistorySpec => AdmittedWorkIsKept
  <1> DEFINE A == \A i \in Working(file) :
                life = "down" \/ i \in Working(mem) => i \in Retained(file')
  <1>1. HistoryInv /\ [HistoryNext]_historyVars => [A]_historyVars
    <2> SUFFICES ASSUME HistoryInv, HistoryNext, NEW i \in Working(file),
                        life = "down" \/ i \in Working(mem)
                 PROVE  i \in Retained(file')
      OBVIOUS
    <2>1. /\ issued \in Nat /\ Good(mem, issued) /\ Ranked(mem)
          /\ Good(file, issued) /\ Ranked(file)
      BY DEF HistoryInv, GenerationsGood, Generations, Sound
    <2>2. i \in Retained(file)
      BY DEF Working
    <2>3. CASE Restart
      <3>1. PICK place \in Injection(Cut(file), 1..Cardinality(Cut(file))) :
                file' = Restored(file, place)
        BY <2>3 DEF Restart
      <3> QED BY <2>1, <3>1, RestoredIsRanked
    <2>4. CASE life = "down" /\ ~Restart
      <3>1. writing = {} /\ mem = NoRecords
        BY <2>4 DEF HistoryInv, BooksKept
      <3>2. file' = file
        BY <2>4, <3>1 DEF HistoryNext, Create, Retry, Start, Publish, FailUnstarted, Delete,
             Finish, FlushSettles, FlushPersistence, BeginShutdown, CompleteShutdown, Reopen, Exit
      <3> QED BY <2>2, <3>2
    <2>5. CASE life # "down" /\ i \in Working(mem)
      <3>1. i \in Retained(mem) /\ ~Restart
        BY <2>5 DEF Working, Restart
      <3>2. ASSUME NEW w, NEW parent, Admit(w, parent) PROVE i \in Retained(file')
        <4>1. PICK now \in 0..MaxClock : Persist(Created(issued + 1, w, parent, now), Undo)
          BY <3>2 DEF Admit
        <4>2. i \in Retained(Created(issued + 1, w, parent, now))
          BY <2>1, <3>1 DEF Created, With, Retained, Good, Formed
        <4> QED BY <2>2, <4>1, <4>2, PersistKeepsWork
      <3>3. ASSUME NEW j \in Ids, Start(j) PROVE i \in Retained(file')
        <4>1. Persist(Moved(mem, j, "running"), Undo) /\ j \in Working(mem)
          BY <3>3 DEF Start
        <4>2. i \in Retained(Moved(mem, j, "running"))
          BY <2>1, <3>1, <4>1, MovedIsRanked DEF Active
        <4> QED BY <2>2, <4>1, <4>2, PersistKeepsWork
      <3>4. ASSUME NEW j \in Ids, FailUnstarted(j) PROVE i \in Retained(file')
        <4>1. Persist(Archived(mem, j, "failed"), Undo) /\ j \in Working(mem)
          BY <3>4 DEF FailUnstarted
        <4>2. i \in Retained(Archived(mem, j, "failed"))
          BY <2>1, <2>5, <4>1, ArchivedIsRanked DEF Ended, Retryable
        <4> QED BY <2>2, <4>1, <4>2, PersistKeepsWork
      <3>5. ASSUME NEW j \in Ids, Delete(j) PROVE i \in Retained(file')
        <4>1. Persist(Without(mem, {j}), Undo) /\ j \notin Working(mem)
          BY <3>5 DEF Delete
        <4>2. i \in Retained(Without(mem, {j}))
          BY <2>5, <3>1, <4>1 DEF Without, Retained
        <4> QED BY <2>2, <4>1, <4>2, PersistKeepsWork
      <3>6. ASSUME NEW j \in Ids, NEW o \in {"succeeded", "failed", "shut_down"}, Finish(j, o)
            PROVE  i \in Retained(file')
        <4> DEFINE resolved == IF o = "succeeded" THEN Resolved(mem, j) ELSE mem
        <4>1. Persist(Archived(resolved, j, o), Keep) /\ j \in Working(mem)
          BY <3>6 DEF Finish
        <4>2. j \in Retained(mem) /\ mem.job[j].state \in Active
          BY <4>1 DEF Working
        <4>3. Good(resolved, issued) /\ Ranked(resolved) /\ Working(resolved) = Working(mem)
          BY <2>1, <4>1, <4>2, ResolvedIsGood, ResolvedIsRanked
        <4> HIDE DEF resolved
        <4>4. i \in Retained(Archived(resolved, j, o))
          BY <2>1, <2>5, <4>1, <4>3, ArchivedIsRanked DEF Ended, Retryable
        <4> QED BY <2>2, <4>1, <4>4, PersistKeepsWork
      <3>7. ASSUME NEW p \in writing, file' \in {file, p.content} PROVE i \in Retained(file')
        <4>1. i \in Retained(p.content)
          BY <2>5 DEF HistoryInv, BooksKept, Working
        <4> QED BY <2>2, <3>7, <4>1
      <3>8. ASSUME NEW p \in writing, FlushWrites(p) PROVE i \in Retained(file')
        BY <3>7, <3>8 DEF FlushWrites
      <3>9. CASE Exit
        BY <2>2, <3>7, <3>9 DEF Exit
      <3>10. ASSUME file' = file \/ Persist(mem, Keep) PROVE i \in Retained(file')
        BY <2>2, <3>1, <3>10, PersistKeepsWork
      <3>11. CASE \/ FlushPersistence \/ BeginShutdown \/ CompleteShutdown \/ Reopen
                  \/ \E j \in Ids : Publish(j)
                  \/ \E s \in settling : FlushSettles(s)
        BY <3>10, <3>11 DEF FlushPersistence, BeginShutdown, CompleteShutdown, Reopen, Publish,
                            FlushSettles
      <3>12. ASSUME NEW w \in Works, Create(w) PROVE i \in Retained(file')
        BY <3>2, <3>12 DEF Create
      <3>13. ASSUME NEW j \in Ids, Retry(j) PROVE i \in Retained(file')
        BY <3>2, <3>13 DEF Retry
      <3> QED BY <3>1, <3>3, <3>4, <3>5, <3>6, <3>8, <3>9, <3>11, <3>12, <3>13 DEF HistoryNext
    <2> QED BY <2>3, <2>4, <2>5
  <1>2. HistorySpec => [][A]_historyVars
    BY <1>1, HistoryInvariant, PTL DEF HistorySpec
  <1> QED BY <1>2 DEF AdmittedWorkIsKept

=============================================================================
